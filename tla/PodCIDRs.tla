------------------------------ MODULE PodCIDRs ------------------------------
(***************************************************************************)
(* The CIDR lists that travel between the allocator and the Node objects:  *)
(* what an assignment looks like in each mode, in which order it is sent,  *)
(* which part of it the allocator tracks, and what the API server accepts  *)
(* (pkg/ipam/cidr_allocator.go, pkg/node/node.go).                         *)
(*                                                                         *)
(* A CIDR is a record: its family, the index `set' of the cluster CIDR it  *)
(* is a block of, and the block.  Index 0 stands for a CIDR outside every  *)
(* cluster CIDR; the IPv6 prefix that EC2 delegates to the network         *)
(* interface of an instance is one of those.                               *)
(***************************************************************************)
EXTENDS Integers, Sequences, FiniteSets, CidrSetOps

CONSTANTS ClusterCIDRs,     \* sequence of [fam, maxCIDRs], flag --cluster-cidrs
          Mode,             \* flag --mode
          PrimaryIPFamily   \* flag --primary-ip-family

Families == {"v4", "v6"}

ASSUME ClusterCIDRsAssumption ==
  /\ ClusterCIDRs \in Seq([fam : Families, maxCIDRs : Nat \ {0}])
  /\ ClusterCIDRs # <<>>

NSets == Len(ClusterCIDRs)
SetIndices == 1 .. NSets

NodeBlocks(k) == Blocks(ClusterCIDRs[k].maxCIDRs)

CIDR ==
  {c \in [fam : Families, set : 0 .. NSets, block : Nat] :
     c.set # 0 => c.block \in NodeBlocks(c.set)}

DelegatedPrefix == [fam |-> "v6", set |-> 0, block |-> 0]
UnknownCIDR     == [fam |-> "v4", set |-> 0, block |-> 0]

-----------------------------------------------------------------------------
\* What the allocator tracks of a list

\* Faulty variant: an IPv6 CIDR is counted as well.
TrackedAll(cidrs) == DOMAIN cidrs

\* The loops of occupyCIDRsWithoutRemoval and ReleaseCIDR skip IPv6 CIDRs.
Tracked(cidrs) == {i \in DOMAIN cidrs : cidrs[i].fam = "v4"}

\* The CidrSet the i-th CIDR is applied to, the loop's idx counted from 1.
CidrSetOf(cidrs, i) == Cardinality({j \in Tracked(cidrs) : j <= i})

\* The CIDRs before the first that is not a block of its CidrSet, where the
\* loop ends with an error.
Applied(cidrs) ==
  {i \in Tracked(cidrs) :
     \A j \in Tracked(cidrs) : j <= i => cidrs[j].set = CidrSetOf(cidrs, j)}

AppliedTo(cidrs, k) ==
  {cidrs[i].block : i \in {j \in Applied(cidrs) : cidrs[j].set = k}}

Fails(cidrs) == Applied(cidrs) # Tracked(cidrs)

-----------------------------------------------------------------------------
\* What the allocator assigns

\* NodeReservedCIDRs.allocatedCIDRs: one block of each cluster CIDR.
ReservedCIDRs(blocks) ==
  [k \in DOMAIN blocks |->
     [fam |-> ClusterCIDRs[k].fam, set |-> k, block |-> blocks[k]]]

\* cidrsString after the switch on the mode, which nothing has checked: one that
\* the switch does not know is like "ipv4".
ProposedCIDRs(blocks) ==
  CASE Mode = "dual-stack" -> Append(ReservedCIDRs(blocks), DelegatedPrefix)
    [] Mode = "ipv6"       -> <<DelegatedPrefix>>
    [] OTHER               -> ReservedCIDRs(blocks)

\* PatchNodePodCIDRs sorts two dual-stack CIDRs, the primary family first.
Primary == IF PrimaryIPFamily = "ipv6" THEN "v6" ELSE "v4"

PatchedCIDRs(cidrs) ==
  IF /\ Mode = "dual-stack" /\ Len(cidrs) = 2
     /\ cidrs[1].fam # Primary /\ cidrs[2].fam = Primary
  THEN <<cidrs[2], cidrs[1]>>
  ELSE cidrs

\* The API server takes at most one CIDR of each family, and podCIDRs is
\* immutable once it is set.
Accepted(current, cidrs) ==
  /\ \A i, j \in DOMAIN cidrs : cidrs[i].fam = cidrs[j].fam => i = j
  /\ current \in {<<>>, cidrs}
=============================================================================
