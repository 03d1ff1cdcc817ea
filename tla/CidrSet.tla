------------------------------ MODULE CidrSet -------------------------------
(***************************************************************************)
(* One CidrSet under the calls of its users, in any order: the event       *)
(* handler and the reconciliation call AllocateNext, Occupy and Release,   *)
(* the workers call Release, and the mutex makes each call one step.       *)
(*                                                                         *)
(* Occupy and Release get the blocks begin .. end that a CIDR covers       *)
(* (getBeginingAndEndIndices).  A CIDR as small as a node's covers one     *)
(* block, a larger one an aligned run of blocks, one as large as the       *)
(* cluster CIDR all of them; a CIDR outside the cluster CIDR is refused    *)
(* before anything is touched and is not a step.                           *)
(***************************************************************************)
EXTENDS CidrSetOps, Bits

CONSTANT MaxCIDRs      \* number of blocks: 2^(node mask size - cluster mask size)

ASSUME MaxCIDRsAssumption == MaxCIDRs \in Nat \ {0}

VARIABLES set,         \* the CidrSet
          answer       \* what the last call returned

vars == <<set, answer>>

AllBlocks == Blocks(MaxCIDRs)

\* The runs begin .. end that a CIDR can cover.
Ranges == AlignedRuns(MaxCIDRs)

Init ==
  /\ set = NewCIDRSet(MaxCIDRs)
  /\ answer = [op |-> "new"]

CallAllocateNext ==
  /\ ~NoCIDRsRemaining(set)
  /\ set' = AllocateNext(set)
  /\ answer' = [op |-> "allocated", block |-> Candidate(set)]

CallAllocateNextRefused ==
  /\ NoCIDRsRemaining(set)
  /\ answer' = [op |-> "noneRemaining"]
  /\ UNCHANGED set

CallRelease ==
  \E B \in Ranges :
    /\ set' = Release(set, B)
    /\ answer' = [op |-> "released"]

CallOccupy ==
  \E B \in Ranges :
    /\ set' = Occupy(set, B)
    /\ answer' = [op |-> "occupied"]

Next ==
  \/ CallAllocateNext
  \/ CallAllocateNextRefused
  \/ CallRelease
  \/ CallOccupy

Spec == Init /\ [][Next]_vars

\* Some caller keeps asking: every node without a CIDR comes back with every
\* update event of its.
FairSpec == Spec /\ WF_vars(CallAllocateNext)

-----------------------------------------------------------------------------
TypeOK == set \in CidrSetState(MaxCIDRs)

(***************************************************************************)
(* The counter that decides whether AllocateNext refuses agrees with the   *)
(* bitmap, whatever overlapping ranges were occupied and released before,  *)
(* twice or never (the double counting that the comments in Release and    *)
(* Occupy speak of).                                                       *)
(***************************************************************************)
CountMatchesBitmap == set.allocatedCIDRs = Cardinality(set.used)

(***************************************************************************)
(* The CidrSet is a CidrPool: a block it hands out was free and is marked  *)
(* from then on, it refuses only when no block is free, and no call        *)
(* touches a block outside its argument.                                   *)
(***************************************************************************)
Pool == INSTANCE CidrPool WITH used <- set.used

ImplementsPool == Pool!Spec

(***************************************************************************)
(* The cursor passes over no free block: one that stays free is handed out *)
(* as long as callers keep asking, so a released block comes back into     *)
(* use even when others are released and taken all the time.               *)
(***************************************************************************)
EveryFreeBlockIsReused ==
  \A b \in AllBlocks : b \notin set.used ~> b \in set.used
=============================================================================
