--------------------------- MODULE NodeAssignment ---------------------------
(***************************************************************************)
(* What the controller promises to the cluster, seen at the Node objects   *)
(* alone: a node that has no CIDRs may get some, once, none of them a      *)
(* block that another node has; a node keeps its CIDRs until it is         *)
(* deleted.  Nothing is said of caches, queues, bitmaps or restarts.       *)
(***************************************************************************)
EXTENDS Integers, Sequences

CONSTANTS Nodes,       \* node names
          Assignments  \* the CIDR lists a node can get

VARIABLES exists,      \* the nodes that exist
          podCIDRs     \* their CIDRs, <<>> without any

vars == <<exists, podCIDRs>>

\* A CIDR with index 0 is not a block of a cluster CIDR.
Shared(S, T) ==
  \E i \in DOMAIN S, j \in DOMAIN T : S[i] = T[j] /\ S[i].set # 0

Exclusive == \A m, n \in exists : m # n => ~Shared(podCIDRs[m], podCIDRs[n])

Init ==
  /\ exists \in SUBSET Nodes
  /\ podCIDRs \in [Nodes -> Assignments \cup {<<>>}]
  /\ \A n \in Nodes \ exists : podCIDRs[n] = <<>>
  /\ Exclusive

Create(n) ==
  /\ n \notin exists
  /\ exists' = exists \cup {n}
  /\ UNCHANGED podCIDRs

Delete(n) ==
  /\ n \in exists
  /\ exists' = exists \ {n}
  /\ podCIDRs' = [podCIDRs EXCEPT ![n] = <<>>]

Assign(n) ==
  /\ n \in exists
  /\ podCIDRs[n] = <<>>
  /\ \E cidrs \in Assignments :
       /\ \A m \in exists : ~Shared(podCIDRs[m], cidrs)
       /\ podCIDRs' = [podCIDRs EXCEPT ![n] = cidrs]
  /\ UNCHANGED exists

Next == \E n \in Nodes : Create(n) \/ Delete(n) \/ Assign(n)

Spec == Init /\ [][Next]_vars
=============================================================================
