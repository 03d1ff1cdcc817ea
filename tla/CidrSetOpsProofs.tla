-------------------------- MODULE CidrSetOpsProofs --------------------------
(***************************************************************************)
(* Lemmas about the operations of a CidrSet: what AllocateNext returns     *)
(* when the counter agrees with the bitmap, and that every operation keeps *)
(* them in agreement.                                                      *)
(***************************************************************************)
EXTENDS CidrSetOps, FiniteSetTheorems, WellFoundedInduction, TLAPS

\* A CidrSet of n blocks whose counter agrees with its bitmap.
Counted(n, s) ==
  /\ s \in CidrSetState(n)
  /\ s.allocatedCIDRs = Cardinality(s.used)

-----------------------------------------------------------------------------
\* A nonempty set of natural numbers has a least element.
LEMMA MinOfNaturals ==
  ASSUME NEW S \in SUBSET Nat, S # {}
  PROVE  Min(S) \in S
<1>. DEFINE Less == OpToRel(<, Nat)
<1>1. \A x, y \in Nat : x < y => <<x, y>> \in Less
  BY Zenon DEF OpToRel
<1>2. IsWellFoundedOn(Less, Nat)
  BY NatLessThanWellFounded
<1>. HIDE DEF Less
<1>3. PICK x \in S : \A y \in S : ~(<<y, x>> \in Less)
  BY <1>2, WFMin
<1>4. \A y \in S : ~(y < x)
  BY Zenon, <1>1, <1>3
<1>5. \A y \in S : x <= y
  BY <1>4
<1>. QED
  BY <1>5 DEF Min

\* The arithmetic of the cursor: it stays in 0 .. n-1 and comes round.
LEMMA ModSmall ==
  ASSUME NEW n \in Nat \ {0}, NEW x \in 0 .. n - 1
  PROVE  x % n = x /\ (x + n) % n = x
OBVIOUS

\* The cursor is the number of a block, however far it has gone.
LEMMA ModRange ==
  ASSUME NEW n \in Nat \ {0}, NEW x \in Nat
  PROVE  x % n \in 0 .. n - 1
OBVIOUS

\* The scan of AllocateNext looks at every block.
LEMMA ScanCoversAll ==
  ASSUME NEW n \in Nat \ {0}, NEW s \in CidrSetState(n), NEW b \in Blocks(n)
  PROVE  \E i \in Blocks(n) : Scanned(s, i) = b
<1>. DEFINE c == s.nextCandidate
<1>1. s.maxCIDRs = n /\ c \in 0 .. n - 1 /\ b \in 0 .. n - 1
  BY DEF CidrSetState, Blocks
<1>2. CASE c <= b
  <2>1. b - c \in Blocks(n) /\ c + (b - c) = b
    BY <1>1, <1>2 DEF Blocks
  <2>2. b % n = b
    BY <1>1, ModSmall
  <2>. QED
    BY <1>1, <2>1, <2>2 DEF Scanned
<1>3. CASE b < c
  <2>1. b - c + n \in Blocks(n) /\ c + (b - c + n) = b + n
    BY <1>1, <1>3 DEF Blocks
  <2>2. (b + n) % n = b
    BY <1>1, ModSmall
  <2>. QED
    BY <1>1, <2>1, <2>2 DEF Scanned
<1>. QED
  BY <1>1, <1>2, <1>3

\* AllocateNext hands out a free block whenever there is one.
LEMMA CandidateIsFree ==
  ASSUME NEW n \in Nat \ {0}, NEW s \in CidrSetState(n), s.used # Blocks(n)
  PROVE  Candidate(s) \in Blocks(n) \ s.used
<1>1. s.maxCIDRs = n /\ s.used \subseteq Blocks(n) /\ s.nextCandidate \in 0 .. n - 1
  BY DEF CidrSetState, Blocks
<1>2. PICK b \in Blocks(n) : b \notin s.used
  BY <1>1
<1>3. PICK i \in Blocks(n) : Scanned(s, i) = b
  BY ScanCoversAll
<1>4. FreeOffsets(s) # {} /\ FreeOffsets(s) \in SUBSET Nat
  BY <1>1, <1>2, <1>3 DEF FreeOffsets, Blocks
<1>5. Min(FreeOffsets(s)) \in FreeOffsets(s)
  BY <1>4, MinOfNaturals
<1>6. Candidate(s) = Scanned(s, Min(FreeOffsets(s))) /\ Candidate(s) \notin s.used
  BY <1>4, <1>5 DEF Candidate, FreeOffsets
<1>7. s.nextCandidate + Min(FreeOffsets(s)) \in Nat
  BY <1>1, <1>4, <1>5
<1>. QED
  BY <1>1, <1>6, <1>7, ModRange DEF Scanned, Blocks

\* A CidrSet has a block for the cursor of NewCIDRSet to be at.
LEMMA BlocksNotEmpty ==
  ASSUME NEW n \in Nat \ {0}
  PROVE  0 \in Blocks(n)
BY DEF Blocks

\* The blocks of a CidrSet can be counted.
LEMMA BlocksFinite ==
  ASSUME NEW n \in Nat \ {0}
  PROVE  /\ IsFiniteSet(Blocks(n)) /\ Cardinality(Blocks(n)) = n
         /\ \A B \in SUBSET Blocks(n) : IsFiniteSet(B) /\ Cardinality(B) \in Nat
<1>1. IsFiniteSet(0 .. n - 1) /\ Cardinality(0 .. n - 1) = n
  BY FS_Interval
<1>2. \A B \in SUBSET (0 .. n - 1) : IsFiniteSet(B)
  BY <1>1, FS_Subset
<1>. QED
  BY <1>1, <1>2, FS_CardinalityType DEF Blocks

\* With the counter in agreement, AllocateNext refuses exactly when no block
\* is free.
LEMMA RefusesWhenFull ==
  ASSUME NEW n \in Nat \ {0}, NEW s, Counted(n, s)
  PROVE  NoCIDRsRemaining(s) <=> s.used = Blocks(n)
<1>1. s.maxCIDRs = n /\ s.used \in SUBSET Blocks(n)
  BY DEF Counted, CidrSetState
<1>2. Cardinality(s.used) = Cardinality(Blocks(n)) => s.used = Blocks(n)
  BY <1>1, BlocksFinite, FS_Subset
<1>. QED
  BY <1>1, <1>2, BlocksFinite DEF Counted, NoCIDRsRemaining

-----------------------------------------------------------------------------
\* Each operation keeps the types, and the counter in agreement with the bitmap.

\* A CidrSet stays one when its fields change within their types.
LEMMA Updated ==
  ASSUME NEW n \in Nat \ {0}, NEW s \in CidrSetState(n),
         NEW U \in SUBSET Blocks(n), NEW c \in Int, NEW b \in Blocks(n)
  PROVE  /\ [s EXCEPT !.used = U, !.allocatedCIDRs = c] \in CidrSetState(n)
         /\ [s EXCEPT !.nextCandidate = b, !.used = U, !.allocatedCIDRs = c]
              \in CidrSetState(n)
<1>1. \A t \in CidrSetState(n) : [t EXCEPT !.used = U] \in CidrSetState(n)
  BY DEF CidrSetState
<1>2. \A t \in CidrSetState(n) : [t EXCEPT !.allocatedCIDRs = c] \in CidrSetState(n)
  BY DEF CidrSetState
<1>3. [s EXCEPT !.nextCandidate = b] \in CidrSetState(n)
  BY DEF CidrSetState
<1>4. [[s EXCEPT !.used = U] EXCEPT !.allocatedCIDRs = c] \in CidrSetState(n)
  BY <1>1, <1>2
<1>5. [[[s EXCEPT !.nextCandidate = b] EXCEPT !.used = U] EXCEPT !.allocatedCIDRs = c]
        \in CidrSetState(n)
  BY <1>1, <1>2, <1>3
<1>. QED
  BY <1>4, <1>5

\* NewCIDRSet makes a CidrSet.
LEMMA NewTyped ==
  ASSUME NEW n \in Nat \ {0}
  PROVE  NewCIDRSet(n) \in CidrSetState(n)
BY DEF CidrSetState, NewCIDRSet, Blocks

\* With the counter out of agreement AllocateNext may hand out a used block,
\* but still one of the cluster CIDR.
LEMMA AllocateTyped ==
  ASSUME NEW n \in Nat \ {0}, NEW s \in CidrSetState(n)
  PROVE  /\ Candidate(s) \in Blocks(n)
         /\ AllocateNext(s) \in CidrSetState(n)
<1>1. s.maxCIDRs = n /\ s.used \subseteq Blocks(n) /\ s.nextCandidate \in Blocks(n)
  BY DEF CidrSetState
<1>2. Candidate(s) \in Blocks(n)
  <2>1. CASE FreeOffsets(s) = {}
    BY <1>1, <2>1 DEF Candidate
  <2>2. CASE FreeOffsets(s) # {}
    <3>1. s.used # Blocks(n)
      <4>1. PICK i \in Blocks(n) : Scanned(s, i) \notin s.used
        BY <1>1, <2>2 DEF FreeOffsets
      <4>2. s.nextCandidate + i \in Nat
        BY <1>1 DEF Blocks
      <4>. QED
        BY <1>1, <4>1, <4>2, ModRange DEF Scanned, Blocks
    <3>. QED
      BY <3>1, CandidateIsFree
  <2>. QED
    BY <2>1, <2>2
<1>3. Candidate(s) + 1 \in Nat /\ s.allocatedCIDRs + 1 \in Int
  BY <1>2 DEF Blocks, CidrSetState
<1>4. (Candidate(s) + 1) % n \in Blocks(n)
  BY <1>3, ModRange DEF Blocks
<1>5. s.used \cup {Candidate(s)} \in SUBSET Blocks(n)
  BY <1>1, <1>2
<1>. QED
  BY <1>1, <1>2, <1>3, <1>4, <1>5, Updated DEF AllocateNext

\* Release keeps the types, whatever it is told to release.
LEMMA ReleaseTyped ==
  ASSUME NEW n \in Nat \ {0}, NEW s \in CidrSetState(n), NEW B
  PROVE  Release(s, B) \in CidrSetState(n)
<1>1. s.used \in SUBSET Blocks(n) /\ B \cap s.used \in SUBSET Blocks(n)
  BY DEF CidrSetState
<1>2. /\ s.used \ B \in SUBSET Blocks(n)
      /\ s.allocatedCIDRs - Cardinality(B \cap s.used) \in Int
  BY <1>1, BlocksFinite DEF CidrSetState
<1>. QED
  BY <1>2, Updated, BlocksNotEmpty DEF Release

\* Occupy keeps the types when it is given blocks of the cluster CIDR.
LEMMA OccupyTyped ==
  ASSUME NEW n \in Nat \ {0}, NEW s \in CidrSetState(n), NEW B \in SUBSET Blocks(n)
  PROVE  Occupy(s, B) \in CidrSetState(n)
<1>1. s.used \in SUBSET Blocks(n) /\ B \ s.used \in SUBSET Blocks(n)
  BY DEF CidrSetState
<1>2. /\ s.used \cup B \in SUBSET Blocks(n)
      /\ s.allocatedCIDRs + Cardinality(B \ s.used) \in Int
  BY <1>1, BlocksFinite DEF CidrSetState
<1>. QED
  BY <1>2, Updated, BlocksNotEmpty DEF Occupy

\* A new CidrSet has an empty bitmap and the count 0.
LEMMA NewCounted ==
  ASSUME NEW n \in Nat \ {0}
  PROVE  Counted(n, NewCIDRSet(n))
BY FS_EmptySet DEF Counted, CidrSetState, NewCIDRSet, Blocks

\* AllocateNext, not refused, marks one block that was free, and counts it.
LEMMA AllocateCounted ==
  ASSUME NEW n \in Nat \ {0}, NEW s, Counted(n, s), ~NoCIDRsRemaining(s)
  PROVE  /\ Counted(n, AllocateNext(s))
         /\ Candidate(s) \in Blocks(n) \ s.used
         /\ AllocateNext(s).used = s.used \cup {Candidate(s)}
<1>1. s \in CidrSetState(n) /\ s.used \in SUBSET Blocks(n)
  BY DEF Counted, CidrSetState
<1>2. Candidate(s) \in Blocks(n) \ s.used
  BY <1>1, RefusesWhenFull, CandidateIsFree
<1>3. Cardinality(s.used \cup {Candidate(s)}) = Cardinality(s.used) + 1
  BY <1>1, <1>2, BlocksFinite, FS_AddElement
<1>4. /\ AllocateNext(s).used = s.used \cup {Candidate(s)}
      /\ AllocateNext(s).allocatedCIDRs = s.allocatedCIDRs + 1
  BY <1>1 DEF AllocateNext, CidrSetState
<1>. QED
  BY <1>1, <1>2, <1>3, <1>4, AllocateTyped DEF Counted

\* Release counts only the bits it clears, so that free blocks do no harm.
LEMMA ReleaseCounted ==
  ASSUME NEW n \in Nat \ {0}, NEW s, Counted(n, s), NEW B
  PROVE  /\ Counted(n, Release(s, B))
         /\ Release(s, B).used = s.used \ B
<1>1. s \in CidrSetState(n) /\ s.used \in SUBSET Blocks(n)
  BY DEF Counted, CidrSetState
<1>2. Cardinality(s.used \ B) = Cardinality(s.used) - Cardinality(s.used \cap B)
  BY <1>1, BlocksFinite, FS_Difference
<1>3. B \cap s.used = s.used \cap B
  OBVIOUS
<1>4. /\ Release(s, B).used = s.used \ B
      /\ Release(s, B).allocatedCIDRs = s.allocatedCIDRs - Cardinality(B \cap s.used)
  BY <1>1 DEF Release, CidrSetState
<1>. QED
  BY <1>1, <1>2, <1>3, <1>4, ReleaseTyped DEF Counted

\* Occupy counts only the bits it sets, so that used blocks do no harm.
LEMMA OccupyCounted ==
  ASSUME NEW n \in Nat \ {0}, NEW s, Counted(n, s), NEW B \in SUBSET Blocks(n)
  PROVE  /\ Counted(n, Occupy(s, B))
         /\ Occupy(s, B).used = s.used \cup B
<1>1. s \in CidrSetState(n) /\ s.used \in SUBSET Blocks(n)
  BY DEF Counted, CidrSetState
<1>2. IsFiniteSet(s.used) /\ IsFiniteSet(B)
  BY <1>1, BlocksFinite
<1>3. Cardinality(s.used \cup B) =
        Cardinality(s.used) + Cardinality(B) - Cardinality(s.used \cap B)
  BY <1>2, FS_Union
<1>4. Cardinality(B \ s.used) = Cardinality(B) - Cardinality(B \cap s.used)
  BY <1>2, FS_Difference
<1>5. B \cap s.used = s.used \cap B /\ s.used \cap B \in SUBSET Blocks(n)
  BY <1>1
<1>6. /\ Cardinality(s.used) \in Nat /\ Cardinality(B) \in Nat
      /\ Cardinality(s.used \cap B) \in Nat
  BY <1>1, <1>5, BlocksFinite
<1>7. /\ Occupy(s, B).used = s.used \cup B
      /\ Occupy(s, B).allocatedCIDRs = s.allocatedCIDRs + Cardinality(B \ s.used)
  BY <1>1 DEF Occupy, CidrSetState
<1>. QED
  BY <1>1, <1>3, <1>4, <1>5, <1>6, <1>7, OccupyTyped DEF Counted
=============================================================================
