----------------------------- MODULE CidrBlocks -----------------------------
(***************************************************************************)
(* The address arithmetic of a CidrSet (pkg/ipam/cidrset/cidrset.go): the  *)
(* CIDR of a block number, and the block numbers that a CIDR covers, in    *)
(* the shifts and exclusive ors of the code.  Addresses are numbers of     *)
(* V4Bits or V6Bits bits.  An IPv6 address does not fit a machine word and *)
(* is handled in two halves.                                               *)
(***************************************************************************)
EXTENDS Bits

CONSTANTS V4Bits,               \* net.IPv4len in bits
          V6Bits,               \* net.IPv6len in bits
          IntBits,              \* bits of an int, the sign included
          ClusterSubnetMaxDiff  \* clusterSubnetMaxDiff

ASSUME WidthAssumption ==
  /\ V4Bits \in Nat \ {0} /\ V6Bits \in Nat \ {0} /\ V6Bits % 2 = 0
  /\ ClusterSubnetMaxDiff \in Nat /\ IntBits \in Nat
  /\ V4Bits < IntBits - 1 /\ ClusterSubnetMaxDiff < IntBits - 1

\* A CIDR: its family, first address and mask size.
Net(fam, ip, mask) == [fam |-> fam, ip |-> ip, mask |-> mask]

Width(fam) == IF fam = "v4" THEN V4Bits ELSE V6Bits
Half == V6Bits \div 2

\* Every CIDR: its first address is a multiple of its length.
AllNets ==
  UNION {UNION {{Net(fam, i * Pow2[Width(fam) - mask], mask) :
                   i \in 0 .. Pow2[mask] - 1} :
                  mask \in 0 .. Width(fam)} : fam \in {"v4", "v6"}}

\* ip.Mask and IPNet.Contains
Masked(fam, ip, mask) == ip - (ip % Pow2[Width(fam) - mask])
Contains(net, ip) == Masked(net.fam, ip, net.mask) = net.ip

\* Faulty variant: the mask is not inverted.
LastAddressUninverted(net) ==
  BitOr(net.ip, Pow2[Width(net.fam)] - Pow2[Width(net.fam) - net.mask])

LastAddress(net) == BitOr(net.ip, Pow2[Width(net.fam) - net.mask] - 1)

-----------------------------------------------------------------------------
\* NewCIDRSet: the struct without its bitmap, which CidrSetOps has

\* Faulty variant: any number of blocks.
AlwaysFits(net, nodeMask) == FALSE

SubNetTooBig(net, nodeMask) ==
  net.fam = "v6" /\ nodeMask - net.mask > ClusterSubnetMaxDiff

\* 1 << n, n taken as unsigned: the last bit is the sign.
OneShifted(n) ==
  IF n \notin 0 .. IntBits - 1 THEN 0
  ELSE IF n = IntBits - 1 THEN -Pow2[n] ELSE Pow2[n]

NewPool(net, nodeMask) ==
  [cluster |-> net, nodeMask |-> nodeMask,
   maxCIDRs |-> OneShifted(nodeMask - net.mask)]

-----------------------------------------------------------------------------
\* indexToCIDRBlock

BitLength(i) == CHOOSE n \in 0 .. V6Bits : i < Pow2[n] /\ (n # 0 => i >= Pow2[n - 1])

\* Faulty variant: only a node mask in the left half is thought of.
LeftHalfUncarried(s, i) ==
  LET left == s.cluster.ip \div Pow2[Half]
  IN  IF s.nodeMask <= Half
      THEN BitOr(left, ShiftedLeft(i, Half - s.nodeMask, Half))
      ELSE left

\* Block numbers that do not fit the right half reach into the left one.
LeftHalf(s, i) ==
  LET left == s.cluster.ip \div Pow2[Half]
      bitsToLeft == s.nodeMask - Half
  IN  IF bitsToLeft <= 0 THEN BitOr(left, ShiftedLeft(i, -bitsToLeft, Half))
      ELSE IF s.cluster.mask < Half /\ BitLength(i) > bitsToLeft
      THEN BitOr(left, ShiftedRight(i, bitsToLeft))
      ELSE left

RightHalf(s, i) ==
  LET right == s.cluster.ip % Pow2[Half]
  IN  IF s.nodeMask <= Half THEN right
      ELSE BitOr(right, ShiftedLeft(i, V6Bits - s.nodeMask, Half))

IndexToCIDRBlock(s, i) ==
  Net(s.cluster.fam,
      IF s.cluster.fam = "v4"
      THEN BitOr(s.cluster.ip, ShiftedLeft(i, V4Bits - s.nodeMask, V4Bits))
      ELSE LeftHalf(s, i) * Pow2[Half] + RightHalf(s, i),
      s.nodeMask)

-----------------------------------------------------------------------------
\* getBeginingAndEndIndices

NoIndex == -1
Refused == {NoIndex}

\* getIndexForIP compares with uint32(maxCIDRs) for IPv4.
IndexForIP(s, ip) ==
  LET index == ShiftedRight(BitXor(s.cluster.ip, ip),
                            Width(s.cluster.fam) - s.nodeMask)
      max   == IF s.cluster.fam = "v4" THEN s.maxCIDRs % Pow2[V4Bits] ELSE s.maxCIDRs
  IN  IF index >= max THEN NoIndex ELSE index

\* The index of the block that an address lies in; a node mask shorter or longer
\* than any is a nil mask, and an address under it no address.
BlockIndex(s, ip) ==
  IF s.nodeMask \notin 0 .. Width(s.cluster.fam) THEN NoIndex
  ELSE IndexForIP(s, Masked(s.cluster.fam, ip, s.nodeMask))

InRange(s, net) ==
  /\ net.fam = s.cluster.fam
  /\ Contains(s.cluster, net.ip) \/ Contains(net, s.cluster.ip)

\* The blocks begin .. end, or Refused.
Indices(s, net) ==
  LET begin == BlockIndex(s, net.ip)
      end   == BlockIndex(s, LastAddress(net))
  IN  IF ~InRange(s, net) THEN Refused
      ELSE IF net.mask <= s.cluster.mask THEN 0 .. s.maxCIDRs - 1
      ELSE IF NoIndex \in {begin, end} THEN Refused
      ELSE begin .. end

-----------------------------------------------------------------------------
\* Which masks the arithmetic is for.  Not among them is the pool whose number of
\* blocks does not fit the uint32 that getIndexForIP makes of it: all of IPv4 in
\* blocks of one address.
MasksFit(net, nodeMask) ==
  /\ nodeMask \in net.mask .. Width(net.fam)
  /\ net.fam = "v4" => nodeMask - net.mask < V4Bits

\* The CIDRs have an address in common.
Overlap(net, other) ==
  /\ net.fam = other.fam
  /\ net.ip < other.ip + Pow2[Width(net.fam) - other.mask]
  /\ other.ip < net.ip + Pow2[Width(net.fam) - net.mask]

\* The blocks that have an address in common with a CIDR.
Touched(s, net) ==
  {i \in 0 .. s.maxCIDRs - 1 : Overlap(IndexToCIDRBlock(s, i), net)}
=============================================================================
