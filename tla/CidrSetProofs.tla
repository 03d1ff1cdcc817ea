--------------------------- MODULE CidrSetProofs ----------------------------
(***************************************************************************)
(* The counter of a CidrSet agrees with its bitmap after every sequence of *)
(* calls, and the CidrSet implements the CidrPool, for every number of     *)
(* blocks.                                                                 *)
(***************************************************************************)
EXTENDS CidrSet, CidrSetOpsProofs

\* A CIDR covers blocks of the cluster CIDR only.
LEMMA RangesAreBlocks == \A B \in Ranges : B \in SUBSET AllBlocks
BY DEF Ranges, AlignedRuns, Alike, AllBlocks, Blocks

\* TypeOK is not inductive by itself: without the counter in agreement,
\* AllocateNext could find no free block.
IInv == Counted(MaxCIDRs, set)

\* A new CidrSet is in the invariant.
LEMMA InitIInv == Init => IInv
BY NewCounted, MaxCIDRsAssumption DEF Init, IInv

\* Each of the three calls keeps the invariant.
LEMMA NextIInv == IInv /\ [Next]_vars => IInv'
<1>. SUFFICES ASSUME IInv, [Next]_vars
              PROVE  IInv'
  OBVIOUS
<1>. USE MaxCIDRsAssumption
<1>1. CASE CallAllocateNext
  BY <1>1, AllocateCounted DEF CallAllocateNext, IInv
<1>2. CASE CallAllocateNextRefused
  BY <1>2 DEF CallAllocateNextRefused, IInv, Counted
<1>3. CASE CallRelease
  BY <1>3, ReleaseCounted DEF CallRelease, IInv
<1>4. CASE CallOccupy
  <2>1. PICK B \in Ranges : set' = Occupy(set, B)
    BY <1>4 DEF CallOccupy
  <2>2. B \in SUBSET Blocks(MaxCIDRs)
    BY RangesAreBlocks DEF AllBlocks
  <2>. QED
    BY <2>1, <2>2, OccupyCounted DEF IInv
<1>5. CASE UNCHANGED vars
  BY <1>5 DEF vars, IInv, Counted
<1>. QED
  BY <1>1, <1>2, <1>3, <1>4, <1>5 DEF Next

\* The invariant holds after every sequence of calls.
LEMMA SpecIInv == Spec => []IInv
BY InitIInv, NextIInv, PTL DEF Spec

(***************************************************************************)
(* The fields of a CidrSet have their types: the cursor and every marked   *)
(* bit are below maxCIDRs.                                                 *)
(***************************************************************************)
THEOREM TypeCorrect == Spec => []TypeOK
<1>1. IInv => TypeOK
  BY DEF IInv, Counted, TypeOK
<1>. QED
  BY <1>1, SpecIInv, PTL

(***************************************************************************)
(* allocatedCIDRs counts the marked bits, whatever was occupied, released  *)
(* and allocated before.                                                   *)
(***************************************************************************)
THEOREM CountCorrect == Spec => []CountMatchesBitmap
<1>1. IInv => CountMatchesBitmap
  BY DEF IInv, Counted, CountMatchesBitmap
<1>. QED
  BY <1>1, SpecIInv, PTL

-----------------------------------------------------------------------------
\* A new CidrSet is an empty pool.
LEMMA InitRefines == Init => Pool!Init
BY DEF Init, Pool!Init, NewCIDRSet

\* Every call does to the pool what CidrPool allows: refusals change nothing.
LEMMA NextRefines == IInv /\ [Next]_vars => [Pool!Next]_(Pool!vars)
<1>. SUFFICES ASSUME IInv, [Next]_vars
              PROVE  [Pool!Next]_(Pool!vars)
  OBVIOUS
<1>. USE MaxCIDRsAssumption
<1>. Pool!AllBlocks = Blocks(MaxCIDRs)
  BY DEF Pool!AllBlocks, Blocks
<1>1. CASE CallAllocateNext
  <2>1. /\ Candidate(set) \in Pool!AllBlocks \ set.used
        /\ set'.used = set.used \cup {Candidate(set)}
    BY <1>1, AllocateCounted DEF CallAllocateNext, IInv
  <2>2. answer' = [op |-> "allocated", block |-> Candidate(set)]
    BY <1>1 DEF CallAllocateNext
  <2>. QED
    BY <2>1, <2>2 DEF Pool!Next, Pool!Grant
<1>2. CASE CallAllocateNextRefused
  <2>1. set.used = Pool!AllBlocks
    BY <1>2, RefusesWhenFull DEF CallAllocateNextRefused, IInv
  <2>. QED
    BY <1>2, <2>1 DEF CallAllocateNextRefused, Pool!Next, Pool!Refuse
<1>3. CASE CallRelease
  <2>1. PICK B \in Ranges : set' = Release(set, B) /\ answer' = [op |-> "released"]
    BY <1>3 DEF CallRelease
  <2>2. B \in SUBSET Pool!AllBlocks
    BY RangesAreBlocks DEF AllBlocks
  <2>3. set'.used = set.used \ B
    BY <2>1, ReleaseCounted DEF IInv
  <2>. QED
    BY <2>1, <2>2, <2>3 DEF Pool!Next, Pool!Free
<1>4. CASE CallOccupy
  <2>1. PICK B \in Ranges : set' = Occupy(set, B) /\ answer' = [op |-> "occupied"]
    BY <1>4 DEF CallOccupy
  <2>2. B \in SUBSET Pool!AllBlocks /\ B \in SUBSET Blocks(MaxCIDRs)
    BY RangesAreBlocks DEF AllBlocks
  <2>3. set'.used = set.used \cup B
    BY <2>1, <2>2, OccupyCounted DEF IInv
  <2>. QED
    BY <2>1, <2>2, <2>3 DEF Pool!Next, Pool!Mark
<1>5. CASE UNCHANGED vars
  BY <1>5 DEF vars, Pool!vars
<1>. QED
  BY <1>1, <1>2, <1>3, <1>4, <1>5 DEF Next

(***************************************************************************)
(* AllocateNext hands out a free block, refuses only when none is free,    *)
(* and no call touches a block outside its argument.                       *)
(***************************************************************************)
THEOREM Refinement == Spec => ImplementsPool
BY InitRefines, NextRefines, SpecIInv, PTL DEF Spec, ImplementsPool, Pool!Spec
=============================================================================
