------------------------------ MODULE CidrPool ------------------------------
(***************************************************************************)
(* What a CidrSet promises to its callers, without its cursor and its      *)
(* counter: a set of used blocks and the answer to the last call.          *)
(* AllocateNext hands out some block that was free, and refuses only when  *)
(* no block is free.                                                       *)
(***************************************************************************)
EXTENDS Integers

CONSTANT MaxCIDRs      \* number of blocks

VARIABLES used,        \* the blocks that are marked
          answer       \* what the last call returned

vars == <<used, answer>>

AllBlocks == 0 .. MaxCIDRs - 1

Init == used = {} /\ answer = [op |-> "new"]

Grant ==
  \E b \in AllBlocks \ used :
    /\ used' = used \cup {b}
    /\ answer' = [op |-> "allocated", block |-> b]

Refuse ==
  /\ used = AllBlocks
  /\ answer' = [op |-> "noneRemaining"]
  /\ UNCHANGED used

Free ==
  \E B \in SUBSET AllBlocks :
    used' = used \ B /\ answer' = [op |-> "released"]

Mark ==
  \E B \in SUBSET AllBlocks :
    used' = used \cup B /\ answer' = [op |-> "occupied"]

Next == Grant \/ Refuse \/ Free \/ Mark

Spec == Init /\ [][Next]_vars
=============================================================================
