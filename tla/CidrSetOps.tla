----------------------------- MODULE CidrSetOps -----------------------------
(***************************************************************************)
(* The state of one cidrset.CidrSet and what its three operations compute  *)
(* from it (pkg/ipam/cidrset/cidrset.go).  A CidrSet divides a cluster     *)
(* CIDR into maxCIDRs blocks of the node mask size, numbered from 0; the   *)
(* struct is a record with the fields of the code:                         *)
(*                                                                         *)
(*   maxCIDRs        the number of blocks                                  *)
(*   used            the bitmap, as the set of the blocks whose bit is 1   *)
(*   allocatedCIDRs  the code's own count of those blocks                  *)
(*   nextCandidate   the block AllocateNext looks at first                 *)
(*                                                                         *)
(* Every operation runs under the mutex of the CidrSet, so each is one     *)
(* function from states to states.  The Prometheus metrics are left out.   *)
(***************************************************************************)
EXTENDS Integers, FiniteSets, FiniteSetsExt

\* The blocks of a CidrSet of n blocks.
Blocks(n) == 0 .. n - 1

\* What a CidrSet of n blocks may look like, field by field.
CidrSetState(n) ==
  [maxCIDRs : {n}, used : SUBSET Blocks(n), allocatedCIDRs : Int,
   nextCandidate : Blocks(n)]

NewCIDRSet(n) ==
  [maxCIDRs |-> n, used |-> {}, allocatedCIDRs |-> 0, nextCandidate |-> 0]

-----------------------------------------------------------------------------
\* AllocateNext

\* Faulty variant: refuses one call too late.
NoCIDRsRemainingLate(s) == s.allocatedCIDRs > s.maxCIDRs

\* The early return with ErrCIDRRangeNoCIDRsRemaining: it trusts the counter
\* and does not look at the bitmap.
NoCIDRsRemaining(s) == s.allocatedCIDRs = s.maxCIDRs

\* The block the scan looks at in its iteration i.
Scanned(s, i) == (s.nextCandidate + i) % s.maxCIDRs

FreeOffsets(s) == {i \in Blocks(s.maxCIDRs) : Scanned(s, i) \notin s.used}

\* Faulty variant: takes the block at the cursor without a look at its bit.
CandidateUnscanned(s) == s.nextCandidate

\* The first free block at or after the cursor, wrapping around.  When no bit
\* is 0 the loop runs to its end and falls through with the block it started
\* from, although that block is used.
Candidate(s) ==
  IF FreeOffsets(s) = {} THEN s.nextCandidate
  ELSE Scanned(s, Min(FreeOffsets(s)))

\* Faulty variants: the cursor does not wrap around, or never moves.
AllocateNextUnwrapped(s) ==
  [s EXCEPT !.nextCandidate  = Candidate(s) + 1,
            !.used           = @ \cup {Candidate(s)},
            !.allocatedCIDRs = @ + 1]
AllocateNextFromStart(s) ==
  [s EXCEPT !.nextCandidate  = 0,
            !.used           = @ \cup {Candidate(s)},
            !.allocatedCIDRs = @ + 1]

\* Marks the candidate and moves the cursor behind it.
AllocateNext(s) ==
  [s EXCEPT !.nextCandidate  = (Candidate(s) + 1) % s.maxCIDRs,
            !.used           = @ \cup {Candidate(s)},
            !.allocatedCIDRs = @ + 1]

-----------------------------------------------------------------------------
\* Release and Occupy of the blocks B that a CIDR covers

\* Faulty variant: counts the blocks that were free already.
ReleaseUntested(s, B) ==
  [s EXCEPT !.used           = @ \ B,
            !.allocatedCIDRs = @ - Cardinality(B)]

\* Both loops test the bit before they touch it, so that the counter moves
\* only for a bit that changes.
Release(s, B) ==
  [s EXCEPT !.used           = @ \ B,
            !.allocatedCIDRs = @ - Cardinality(B \cap s.used)]

Occupy(s, B) ==
  [s EXCEPT !.used           = @ \cup B,
            !.allocatedCIDRs = @ + Cardinality(B \ s.used)]
=============================================================================
