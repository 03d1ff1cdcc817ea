---------------------------- MODULE MCAllocator -----------------------------
(***************************************************************************)
(* Instances of Allocator for TLC.  The cluster CIDRs are tiny: a pool of  *)
(* one block that is contended, one of two that is full with two nodes and *)
(* refuses a third, and one of three with a block for every place.         *)
(***************************************************************************)
EXTENDS Ownership

V4(n) == [fam |-> "v4", maxCIDRs |-> n]
V6(n) == [fam |-> "v6", maxCIDRs |-> n]

OneV4Of2      == <<V4(2)>>
OneV4Of3      == <<V4(3)>>
V4AndV6Of1    == <<V4(1), V6(1)>>
V4AndV6Of2    == <<V4(2), V6(2)>>

\* Node names and workers are interchangeable.
Symmetric == Permutations(Nodes) \cup Permutations(Workers)
=============================================================================
