---------------------------- MODULE StartupProofs ---------------------------
(***************************************************************************)
(* What main has made of its flags and of the Secret when it starts the    *)
(* manager or exits, and that this is what the invariants of Startup say,  *)
(* for every pair of flags and Secret and every length of an address.      *)
(***************************************************************************)
EXTENDS Startup, CidrBlocksProofs, FiniteSetTheorems, SequenceTheorems

\* The steps of main behind ProcessCIDRs, LoadCredentials, and so on.
Parsed    == {"cluster", "secret", "ec2", "masks", "allocator", "started"}
Loaded    == {"ec2", "masks", "allocator", "started"}
Connected == {"masks", "allocator", "started"}
Sized     == {"allocator", "started"}
Stopped   == {"exited", "unreachable"}

\* What setNodeCIDRMaskSizes makes of the flags, and whether NewCIDRSet refuses it.
Sizes == [k \in DOMAIN Cidrs |-> MaskSize(Cidrs[k])]
TooBig == \E k \in DOMAIN Cidrs : SubNetTooBig(Cidrs[k], MaskSize(Cidrs[k]))

\* The inductive invariant: the types, what each step has made of flags and
\* Secret once main is past it, and why main has exited.
Types ==
  /\ flags \in FlagValues /\ secret \in Secrets
  /\ pc \in {"flags", "cidrs"} \cup Parsed \cup Stopped
  /\ credentials.kind \in {"none", "accessKey", "workloadIdentity"}
  /\ ec2Client.signs \in BOOLEAN
  /\ Len(maskSizes) \in {0, Len(clusterCIDRs)}

Results ==
  /\ pc \in Parsed => ~ParseFails /\ clusterCIDRs = Cidrs
  /\ pc \in Loaded =>
       /\ secret.found /\ credentials = ExtractCredentials(secret.data)
       /\ credentials # NoCredentials
  /\ pc \in Connected => ec2Client = Client(credentials)
  /\ pc \notin Sized \cup Stopped => maskSizes = <<>>
  /\ pc \in Sized => maskSizes = Sizes
  /\ pc = "started" => ~TooBig
  /\ pools = IF pc = "started" THEN [k \in DOMAIN Cidrs |-> NewPool(Cidrs[k], Sizes[k])]
             ELSE <<>>

Exits ==
  pc = "exited" =>
    \/ flags.empty # {} \/ ParseFails \/ ~secret.found
    \/ ExtractCredentials(secret.data) = NoCredentials
    \/ TooBig

IInv == Types /\ Results /\ Exits

-----------------------------------------------------------------------------
\* main starts with nothing made.
LEMMA InitIInv == Init => IInv
<1>. SUFFICES ASSUME Init PROVE IInv
  OBVIOUS
<1>1. flags \in FlagValues /\ secret \in Secrets
  <2>1. PICK start \in Starts : flags = start[1] /\ secret = start[2]
    BY DEF Init
  <2>. QED
    BY <2>1, StartsAssumption
<1>2. Types
  BY <1>1 DEF Init, Types, Parsed, Stopped, NoCredentials, NoClient
<1>3. Results /\ Exits
  BY DEF Init, Results, Exits, Parsed, Loaded, Connected, Sized, Stopped
<1>. QED
  BY <1>2, <1>3 DEF IInv

\* What the flags and the Secret decide does not change.
LEMMA Kept ==
  ASSUME UNCHANGED <<flags, secret>>
  PROVE  /\ Cidrs' = Cidrs /\ Sizes' = Sizes /\ (TooBig <=> TooBig')
         /\ (ParseFails <=> ParseFails')
BY DEF Cidrs, Sizes, TooBig, MaskSize, ParseFails

\* Credentials are of one of two kinds, or none.
LEMMA CredentialKinds ==
  \A data : LET cred == ExtractCredentials(data)
            IN  /\ cred.kind \in {"none", "accessKey", "workloadIdentity"}
                /\ cred = NoCredentials <=> cred.kind = "none"
BY DEF ExtractCredentials, NoCredentials, AccessKey, WorkloadIdentity

\* A client for the credentials of a Secret signs its requests or does not.
LEMMA ClientTyped ==
  ASSUME secret \in Secrets, ExtractCredentials(secret.data) # NoCredentials
  PROVE  Client(ExtractCredentials(secret.data)).signs \in BOOLEAN
<1>1. PICK K \in SUBSET SecretKeys : secret.data \in [K -> BOOLEAN]
  BY DEF Secrets
<1>2. CASE "workloadIdentityTokenFile" \in DOMAIN secret.data
  BY <1>2 DEF Client, ExtractCredentials, WorkloadIdentity, NoCredentials
<1>3. CASE "workloadIdentityTokenFile" \notin DOMAIN secret.data
  <2>1. /\ {"accessKeyID", "secretAccessKey"} \subseteq DOMAIN secret.data
        /\ ExtractCredentials(secret.data) = AccessKey(secret.data)
    BY <1>3 DEF ExtractCredentials, NoCredentials
  <2>. QED
    BY <2>1, <1>1 DEF Client, AccessKey
<1>. QED
  BY <1>2, <1>3

\* Each step of main keeps the invariant.
LEMMA NextIInv == IInv /\ [Next]_vars => IInv'
<1>. SUFFICES ASSUME IInv, [Next]_vars PROVE IInv'
  OBVIOUS
<1>0. Types /\ Results /\ Exits
  BY DEF IInv
<1>. USE <1>0
<1>1. CASE CheckRequiredFlags
  <2>1. UNCHANGED <<flags, secret>>
    BY <1>1 DEF CheckRequiredFlags
  <2>2. Types'
    BY <1>1 DEF CheckRequiredFlags, StepTo, Types, Parsed, Stopped
  <2>3. Results' /\ Exits'
    BY <1>1, <2>1, Kept DEF CheckRequiredFlags, StepTo, Results, Exits, Parsed, Loaded,
       Connected, Sized, Stopped
  <2>. QED
    BY <2>2, <2>3 DEF IInv
<1>2. CASE ProcessCIDRs
  <2>1. UNCHANGED <<flags, secret>>
    BY <1>2 DEF ProcessCIDRs
  <2>2. Types'
    BY <1>2 DEF ProcessCIDRs, StepTo, Types, Results, Parsed, Sized, Stopped
  <2>3. Results' /\ Exits'
    BY <1>2, <2>1, Kept DEF ProcessCIDRs, StepTo, Results, Exits, Parsed, Loaded,
       Connected, Sized, Stopped, Cidrs
  <2>. QED
    BY <2>2, <2>3 DEF IInv
<1>3. CASE Connect
  <2>1. UNCHANGED <<flags, secret>>
    BY <1>3 DEF Connect
  <2>2. Types'
    BY <1>3 DEF Connect, Types, Parsed, Stopped
  <2>3. Results' /\ Exits'
    BY <1>3, <2>1, Kept DEF Connect, Results, Exits, Parsed, Loaded, Connected, Sized,
       Stopped
  <2>. QED
    BY <2>2, <2>3 DEF IInv
<1>4. CASE LoadCredentials
  <2>1. UNCHANGED <<flags, secret>>
    BY <1>4 DEF LoadCredentials
  <2>2. Types'
    BY <1>4, CredentialKinds
       DEF LoadCredentials, StepTo, Types, Parsed, Stopped, NoCredentials
  <2>3. Results' /\ Exits'
    BY <1>4, <2>1, Kept DEF LoadCredentials, StepTo, Results, Exits, Parsed, Loaded,
       Connected, Sized, Stopped
  <2>. QED
    BY <2>2, <2>3 DEF IInv
<1>5. CASE NewAWSEC2V2
  <2>1. UNCHANGED <<flags, secret>>
    BY <1>5 DEF NewAWSEC2V2
  <2>2. Types'
    BY <1>5, ClientTyped DEF NewAWSEC2V2, Types, Results, Parsed, Loaded, Stopped
  <2>3. Results' /\ Exits'
    BY <1>5, <2>1, Kept DEF NewAWSEC2V2, Results, Exits, Parsed, Loaded, Connected,
       Sized, Stopped
  <2>. QED
    BY <2>2, <2>3 DEF IInv
<1>6. CASE SetNodeCIDRMaskSizes
  <2>1. UNCHANGED <<flags, secret>>
    BY <1>6 DEF SetNodeCIDRMaskSizes
  <2>2. maskSizes' = Sizes /\ clusterCIDRs' = Cidrs
    BY <1>6 DEF SetNodeCIDRMaskSizes, Results, Parsed, Sizes
  <2>3. Len(Sizes) = Len(Cidrs)
    <3>1. Cidrs \in Seq(AllNets \cup {Malformed})
      BY DEF Types, FlagValues, Cidrs
    <3>2. DOMAIN Cidrs = 1 .. Len(Cidrs) /\ Len(Cidrs) \in Nat
      BY <3>1
    <3>3. DOMAIN Sizes = 1 .. Len(Cidrs)
      BY <3>2 DEF Sizes
    <3>. QED
      BY <3>2, <3>3
  <2>4. Types'
    BY <1>6, <2>2, <2>3 DEF SetNodeCIDRMaskSizes, Types, Parsed
  <2>5. Results' /\ Exits'
    BY <1>6, <2>1, <2>2, Kept DEF SetNodeCIDRMaskSizes, Results, Exits, Parsed, Loaded,
       Connected, Sized, Stopped
  <2>. QED
    BY <2>4, <2>5 DEF IInv
<1>7. CASE NewAllocator
  <2>1. UNCHANGED <<flags, secret>>
    BY <1>7 DEF NewAllocator
  <2>2. maskSizes = Sizes /\ clusterCIDRs = Cidrs
    BY <1>7 DEF NewAllocator, Results, Parsed, Sized
  <2>3. SomeTooBig <=> TooBig
    BY <2>2 DEF SomeTooBig, TooBig, Sizes
  <2>4. Types'
    BY <1>7 DEF NewAllocator, StepTo, Types, Parsed, Stopped
  <2>5. Results' /\ Exits'
    BY <1>7, <2>1, <2>2, <2>3, Kept DEF NewAllocator, StepTo, Results, Exits, Parsed,
       Loaded, Connected, Sized, Stopped
  <2>. QED
    BY <2>4, <2>5 DEF IInv
<1>8. CASE UNCHANGED vars
  <2>1. UNCHANGED <<flags, secret>>
    BY <1>8 DEF vars
  <2>. QED
    BY <1>8, <2>1, Kept DEF vars, IInv, Types, Results, Exits
<1>. QED
  BY <1>1, <1>2, <1>3, <1>4, <1>5, <1>6, <1>7, <1>8 DEF Next

\* The invariant holds in every state of main.
LEMMA SpecIInv == Spec => []IInv
BY InitIInv, NextIInv, PTL DEF Spec

-----------------------------------------------------------------------------
\* Every entry of --cluster-cidrs that was parsed is a CIDR, with an integer for
\* its mask size.
LEMMA ParsedCidrs ==
  ASSUME flags \in FlagValues, ~ParseFails
  PROVE  /\ Len(Cidrs) \in Nat \ {0} /\ DOMAIN Cidrs = 1 .. Len(Cidrs)
         /\ \A k \in DOMAIN Cidrs : Cidrs[k] \in AllNets /\ MaskSize(Cidrs[k]) \in Int
<1>1. Cidrs \in Seq(AllNets \cup {Malformed})
  BY DEF FlagValues, Cidrs
<1>2. Cidrs # <<>> /\ \A k \in DOMAIN Cidrs : Cidrs[k] # Malformed
  BY DEF ParseFails, Cidrs
<1>3. Len(Cidrs) \in Nat \ {0} /\ DOMAIN Cidrs = 1 .. Len(Cidrs)
  BY <1>1, <1>2
<1>4. \A k \in DOMAIN Cidrs : Cidrs[k] \in AllNets
  BY <1>1, <1>2, <1>3
<1>5. \A net : MaskSize(net) \in Int
  BY DEF MaskSize, FlagValues
<1>. QED
  BY <1>3, <1>4, <1>5

\* The pools are there once main has started the manager, one for each cluster
\* CIDR, and none of them was refused.
LEMMA PoolForm ==
  ASSUME IInv, NEW k \in DOMAIN pools
  PROVE  /\ pc = "started" /\ k \in DOMAIN Cidrs /\ Cidrs[k] \in AllNets
         /\ MaskSize(Cidrs[k]) \in Int /\ ~SubNetTooBig(Cidrs[k], MaskSize(Cidrs[k]))
         /\ pools[k] = NewPool(Cidrs[k], MaskSize(Cidrs[k]))
         /\ pools[k].cluster = Cidrs[k] /\ pools[k].nodeMask = MaskSize(Cidrs[k])
<1>1. pc = "started"
  BY DEF IInv, Results
<1>2. flags \in FlagValues /\ ~ParseFails /\ ~TooBig
  BY <1>1 DEF IInv, Types, Results, Parsed
<1>3. pools = [j \in DOMAIN Cidrs |-> NewPool(Cidrs[j], Sizes[j])]
  BY <1>1 DEF IInv, Results
<1>4. k \in DOMAIN Cidrs /\ pools[k] = NewPool(Cidrs[k], MaskSize(Cidrs[k]))
  BY <1>3 DEF Sizes
<1>5. Cidrs[k] \in AllNets /\ MaskSize(Cidrs[k]) \in Int
  BY <1>2, <1>4, ParsedCidrs
<1>6. ~SubNetTooBig(Cidrs[k], MaskSize(Cidrs[k]))
  BY <1>2, <1>4 DEF TooBig
<1>. QED
  BY <1>1, <1>4, <1>5, <1>6 DEF NewPool

\* What 1 << n is in an int.
LEMMA OneShiftedTyped ==
  ASSUME NEW n \in Int
  PROVE  /\ OneShifted(n) \in -Pow2[IntBits - 1] .. Pow2[IntBits - 2]
         /\ OneShifted(n) # 0 <=> n \in 0 .. IntBits - 1
         /\ n <= ClusterSubnetMaxDiff =>
              OneShifted(n) \in 0 .. Pow2[ClusterSubnetMaxDiff]
<1>1. /\ IntBits \in Nat /\ IntBits - 1 \in Nat /\ IntBits - 2 \in Nat
      /\ ClusterSubnetMaxDiff \in Nat /\ ClusterSubnetMaxDiff < IntBits - 1
  BY WidthAssumption
<1>2. /\ Pow2[IntBits - 1] \in Nat \ {0} /\ Pow2[IntBits - 2] \in Nat \ {0}
      /\ Pow2[ClusterSubnetMaxDiff] \in Nat \ {0}
  BY <1>1, Pow2Facts
<1>3. CASE n \in 0 .. IntBits - 2
  <2>1. OneShifted(n) = Pow2[n] /\ n \in Nat
    BY <1>3, <1>1 DEF OneShifted
  <2>2. Pow2[n] \in Nat \ {0}
    BY <2>1, Pow2Facts
  <2>3. Pow2[n] <= Pow2[IntBits - 2]
    BY <1>1, <1>3, <2>1, Pow2Monotone
  <2>4. n <= ClusterSubnetMaxDiff => Pow2[n] <= Pow2[ClusterSubnetMaxDiff]
    BY <1>1, <2>1, Pow2Monotone
  <2>. QED
    BY <1>1, <1>2, <1>3, <2>1, <2>2, <2>3, <2>4
<1>4. CASE n = IntBits - 1
  <2>1. OneShifted(n) = -Pow2[IntBits - 1]
    BY <1>4, <1>1 DEF OneShifted
  <2>. QED
    BY <1>1, <1>2, <1>4, <2>1
<1>5. CASE n \notin 0 .. IntBits - 1
  <2>1. OneShifted(n) = 0
    BY <1>5, <1>1 DEF OneShifted
  <2>. QED
    BY <1>1, <1>2, <1>5, <2>1
<1>6. n \in 0 .. IntBits - 2 \/ n = IntBits - 1 \/ n \notin 0 .. IntBits - 1
  BY <1>1
<1>. QED
  BY <1>3, <1>4, <1>5, <1>6

(***************************************************************************)
(* main's variables have their types: so many mask sizes as cluster CIDRs, *)
(* and a number of blocks that is what an int makes of 1 << n.             *)
(***************************************************************************)
THEOREM TypeCorrect == Spec => []TypeOK
<1>1. IInv => TypeOK
  <2>. SUFFICES ASSUME IInv PROVE TypeOK
    OBVIOUS
  <2>1. ASSUME NEW k \in DOMAIN pools
        PROVE  pools[k].maxCIDRs \in
                 IF pools[k].cluster.fam = "v6" THEN 0 .. Pow2[ClusterSubnetMaxDiff]
                 ELSE -Pow2[IntBits - 1] .. Pow2[IntBits - 2]
    <3>. DEFINE n == MaskSize(Cidrs[k]) - Cidrs[k].mask
    <3>1. n \in Int
      BY PoolForm, NetParts, WidthFacts
    <3>2. pools[k].maxCIDRs = OneShifted(n) /\ pools[k].cluster = Cidrs[k]
      BY PoolForm DEF NewPool
    <3>3. Cidrs[k].fam = "v6" => n <= ClusterSubnetMaxDiff
      BY <3>1, PoolForm, WidthAssumption DEF SubNetTooBig
    <3>. HIDE DEF n
    <3>. QED
      BY <3>1, <3>2, <3>3, OneShiftedTyped
  <2>. QED
    BY <2>1 DEF IInv, Types, TypeOK, Parsed, Stopped
<1>. QED
  BY <1>1, SpecIInv, PTL

(***************************************************************************)
(* The blocks of a pool are the cluster CIDR cut into runs of addresses of *)
(* equal length, for addresses of any length.                              *)
(***************************************************************************)
THEOREM BlockAddressesCorrect == Spec => []BlockAddresses
<1>1. IInv => BlockAddresses
  <2>. SUFFICES ASSUME IInv, NEW k \in DOMAIN pools,
                       MasksFit(pools[k].cluster, pools[k].nodeMask),
                       NEW i \in 0 .. pools[k].maxCIDRs - 1
                PROVE  IndexToCIDRBlock(pools[k], i).ip =
                         pools[k].cluster.ip
                           + i * Pow2[Width(pools[k].cluster.fam) - pools[k].nodeMask]
    BY DEF BlockAddresses, SoundPools
  <2>. DEFINE net == Cidrs[k]
              nodeMask == MaskSize(Cidrs[k])
  <2>1. /\ net \in AllNets /\ nodeMask \in Int /\ ~SubNetTooBig(net, nodeMask)
        /\ pools[k] = NewPool(net, nodeMask) /\ MasksFit(net, nodeMask)
        /\ pools[k].cluster = net /\ pools[k].nodeMask = nodeMask
    BY PoolForm
  <2>. HIDE DEF net, nodeMask
  <2>2. IndexToCIDRBlock(pools[k], i)
          = Net(net.fam, net.ip + i * Pow2[Width(net.fam) - nodeMask], nodeMask)
    BY <2>1, BlockAddress
  <2>. QED
    BY <2>1, <2>2 DEF Net
<1>. QED
  BY <1>1, SpecIInv, PTL

(***************************************************************************)
(* Occupy and Release touch the blocks that have an address in common with *)
(* the CIDR, and refuse a CIDR that has none, for addresses of any length. *)
(***************************************************************************)
THEOREM RangeIsOverlapCorrect == Spec => []RangeIsOverlap
<1>1. IInv => RangeIsOverlap
  <2>. SUFFICES ASSUME IInv, NEW k \in DOMAIN pools,
                       MasksFit(pools[k].cluster, pools[k].nodeMask), NEW net \in AllNets
                PROVE  Indices(pools[k], net) = IF Touched(pools[k], net) = {}
                                                THEN Refused ELSE Touched(pools[k], net)
    BY DEF RangeIsOverlap, SoundPools
  <2>. DEFINE cluster == Cidrs[k]
              nodeMask == MaskSize(Cidrs[k])
  <2>1. /\ cluster \in AllNets /\ nodeMask \in Int /\ ~SubNetTooBig(cluster, nodeMask)
        /\ pools[k] = NewPool(cluster, nodeMask) /\ MasksFit(cluster, nodeMask)
    BY PoolForm
  <2>. HIDE DEF cluster, nodeMask
  <2>. QED
    BY <2>1, RangeOfOverlap
<1>. QED
  BY <1>1, SpecIInv, PTL

-----------------------------------------------------------------------------
\* Where main starts the manager, the credentials are there, and the requests to
\* EC2 are signed if a mode wants them, just when the Secret is as it should be.
LEMMA SecretDecides ==
  ASSUME secret \in Secrets, secret.found, ExtractCredentials(secret.data) # NoCredentials
  PROVE  SecretFits <=> (flags.mode \in {"dual-stack", "ipv6"} =>
                           Client(ExtractCredentials(secret.data)).signs)
<1>1. PICK K \in SUBSET SecretKeys : secret.data \in [K -> BOOLEAN]
  BY DEF Secrets
<1>2. CASE "workloadIdentityTokenFile" \in DOMAIN secret.data
  BY <1>2 DEF SecretFits, Client, ExtractCredentials, WorkloadIdentity, NoCredentials
<1>3. CASE "workloadIdentityTokenFile" \notin DOMAIN secret.data
  <2>1. /\ {"accessKeyID", "secretAccessKey"} \subseteq DOMAIN secret.data
        /\ ExtractCredentials(secret.data) = AccessKey(secret.data)
    BY <1>3 DEF ExtractCredentials, NoCredentials
  <2>2. Client(ExtractCredentials(secret.data)).signs
          <=> HasValue(secret.data, "accessKeyID") /\ HasValue(secret.data, "secretAccessKey")
    BY <2>1, <1>1 DEF Client, AccessKey, HasValue
  <2>3. SecretFits <=>
          \/ flags.mode \notin {"dual-stack", "ipv6"}
          \/ HasValue(secret.data, "accessKeyID") /\ HasValue(secret.data, "secretAccessKey")
    BY <2>1, <1>3 DEF SecretFits, HasValue
  <2>. QED
    BY <2>2, <2>3
<1>. QED
  BY <1>2, <1>3

\* Without credentials the Secret is not as it should be.
LEMMA SecretRefused ==
  ASSUME ExtractCredentials(secret.data) = NoCredentials
  PROVE  ~SecretFits
BY DEF SecretFits, ExtractCredentials, HasValue, NoCredentials, WorkloadIdentity, AccessKey

\* What holds of flags and pools where main starts the manager.
Started ==
  /\ flags \in FlagValues /\ ~ParseFails /\ ~TooBig
  /\ pools = [k \in DOMAIN Cidrs |-> NewPool(Cidrs[k], MaskSize(Cidrs[k]))]

\* In mode ipv6 the cluster CIDRs fit their mask sizes just when AllocateNext does
\* not refuse the first node.
LEMMA FitDecidesIPv6 ==
  ASSUME Started, flags.mode = "ipv6"
  PROVE  CidrsFit <=> \A k \in DOMAIN Cidrs : pools[k].maxCIDRs # 0
<1>1. \A k \in DOMAIN Cidrs : Cidrs[k] \in AllNets /\ MaskSize(Cidrs[k]) \in Int
  BY ParsedCidrs DEF Started
<1>2. ASSUME NEW k \in DOMAIN Cidrs
      PROVE  Fits(Cidrs[k], IF Cidrs[k].fam = "v4" THEN flags.maskIPv4 ELSE flags.maskIPv6)
               <=> pools[k].maxCIDRs # 0
  <2>. DEFINE m == MaskSize(Cidrs[k])
              n == m - Cidrs[k].mask
  <2>1. /\ m = IF Cidrs[k].fam = "v4" THEN flags.maskIPv4 ELSE flags.maskIPv6
        /\ m \in Int /\ Cidrs[k].mask \in Int /\ n \in Int
    BY <1>1, NetParts, WidthFacts DEF MaskSize
  <2>2. pools[k].maxCIDRs = OneShifted(n)
    BY DEF Started, NewPool
  <2>3. Cidrs[k].fam = "v6" => m <= Cidrs[k].mask + ClusterSubnetMaxDiff
    BY <2>1, WidthAssumption DEF Started, TooBig, SubNetTooBig
  <2>4. OneShifted(n) # 0 <=> n \in 0 .. IntBits - 1
    BY <2>1, OneShiftedTyped
  <2>. HIDE DEF m
  <2>. QED
    BY <2>1, <2>2, <2>3, <2>4 DEF Fits, m
<1>. QED
  BY <1>2 DEF CidrsFit

\* In blocks of one address, all of IPv4 has more of them than a uint32 counts, and
\* none is found again.
LEMMA AllOfIPv4Refused ==
  ASSUME NEW net \in AllNets, net.fam = "v4", net.mask = 0
  PROVE  ~FoundAgain(NewPool(net, V4Bits), 0)
<1>. DEFINE s == NewPool(net, V4Bits)
<1>1. V4Bits \in Nat \ {0} /\ V4Bits < IntBits - 1 /\ IntBits \in Nat
  BY WidthAssumption
<1>2. Pow2[V4Bits] \in Nat \ {0} /\ Pow2[0] = 1
  BY <1>1, Pow2Facts
<1>3. net.ip = 0 /\ net = Net("v4", 0 * Pow2[V4Bits - 0], 0)
  <2>1. PICK fam \in {"v4", "v6"} : \E mask \in 0 .. Width(fam) :
          \E a \in 0 .. Pow2[mask] - 1 : net = Net(fam, a * Pow2[Width(fam) - mask], mask)
    BY NetForm
  <2>2. PICK mask \in 0 .. Width(fam) :
          \E a \in 0 .. Pow2[mask] - 1 : net = Net(fam, a * Pow2[Width(fam) - mask], mask)
    BY <2>1
  <2>3. PICK a \in 0 .. Pow2[mask] - 1 : net = Net(fam, a * Pow2[Width(fam) - mask], mask)
    BY <2>2
  <2>4. fam = "v4" /\ mask = 0
    BY <2>3 DEF Net
  <2>5. a = 0
    BY <2>4, <1>2
  <2>6. net = Net("v4", 0 * Pow2[V4Bits - 0], 0)
    BY <2>3, <2>4, <2>5 DEF Width
  <2>. QED
    BY <2>6, <1>1, <1>2 DEF Net
<1>4. /\ s.cluster = net /\ s.nodeMask = V4Bits /\ s.maxCIDRs = Pow2[V4Bits]
  <2>1. V4Bits - 0 = V4Bits /\ V4Bits \in 0 .. IntBits - 1 /\ V4Bits # IntBits - 1
    BY <1>1
  <2>. QED
    BY <2>1 DEF NewPool, OneShifted
<1>. HIDE DEF s
<1>5. IndexToCIDRBlock(s, 0) = Net("v4", 0, V4Bits)
  <2>1. /\ 0 \in 0 .. V4Bits /\ 0 \in 0 .. Pow2[0] - 1 /\ V4Bits \in 0 .. V4Bits
        /\ V4Bits - 0 = V4Bits /\ V4Bits - V4Bits = 0 /\ 0 \in 0 .. Pow2[V4Bits - 0] - 1
    BY <1>1, <1>2
  <2>2. IndexToCIDRBlock(s, 0).ip = s.cluster.ip + 0 * Pow2[V4Bits - V4Bits]
    BY <2>1, <1>3, <1>4, BlockOfIPv4
  <2>3. IndexToCIDRBlock(s, 0).ip = 0
    BY <2>1, <2>2, <1>2, <1>3, <1>4
  <2>. QED
    BY <2>3, <1>4 DEF IndexToCIDRBlock, Net
<1>6. BlockIndex(s, 0) = NoIndex
  <2>1. /\ Width(s.cluster.fam) = V4Bits /\ V4Bits - V4Bits = 0 /\ V4Bits \in 0 .. V4Bits
        /\ s.cluster.fam = "v4" /\ s.cluster.ip = 0
    BY <1>1, <1>3, <1>4 DEF Width
  <2>2. Masked(s.cluster.fam, 0, s.nodeMask) = 0
    BY <2>1, <1>2, <1>4 DEF Masked
  <2>3. BitXor(0, 0) = 0
    BY AndZero DEF BitXor
  <2>4. ShiftedRight(BitXor(s.cluster.ip, 0), Width(s.cluster.fam) - s.nodeMask) = 0
    BY <2>1, <2>3, <1>2, <1>4 DEF ShiftedRight
  <2>5. s.maxCIDRs % Pow2[V4Bits] = 0
    BY <1>2, <1>4
  <2>6. IndexForIP(s, 0) = NoIndex
    BY <2>1, <2>4, <2>5 DEF IndexForIP
  <2>. QED
    BY <2>1, <2>2, <2>6, <1>4 DEF BlockIndex
<1>7. Indices(s, Net("v4", 0, V4Bits)) = Refused
  <2>1. /\ ~(V4Bits <= s.cluster.mask)
        /\ Net("v4", 0, V4Bits).ip = 0 /\ Net("v4", 0, V4Bits).mask = V4Bits
    BY <1>1, <1>4 DEF Net
  <2>. QED
    BY <2>1, <1>6 DEF Indices
<1>. QED
  BY <1>5, <1>7 DEF FoundAgain, Refused, NoIndex, s

\* In the other modes an IPv4 cluster CIDR fits its mask size just when AllocateNext
\* does not refuse the first node, the mask of its block is one, and the CidrSet
\* finds the block again.
LEMMA FitDecidesIPv4 ==
  ASSUME Started, flags.mode # "ipv6", OneIPv4CIDR
  PROVE  CidrsFit <=> /\ pools[1].maxCIDRs # 0 /\ MaskSize(Cidrs[1]) <= V4Bits
                      /\ FoundAgain(pools[1], 0)
<1>. DEFINE m == MaskSize(Cidrs[1])
            n == m - Cidrs[1].mask
<1>1. /\ DOMAIN Cidrs = {1} /\ Cidrs[1] \in AllNets /\ Cidrs[1].fam = "v4"
      /\ m = flags.maskIPv4 /\ m \in Int
  BY ParsedCidrs DEF Started, OneIPv4CIDR, MaskSize
<1>2. /\ Cidrs[1].mask \in 0 .. V4Bits /\ Width(Cidrs[1].fam) = V4Bits /\ V4Bits \in Nat
      /\ V4Bits < IntBits - 1 /\ IntBits \in Nat
  BY <1>1, NetParts, WidthAssumption DEF Width
<1>3. pools[1] = NewPool(Cidrs[1], m) /\ ~SubNetTooBig(Cidrs[1], m)
  BY <1>1 DEF Started, TooBig
<1>4. CidrsFit <=> MasksFit(Cidrs[1], m)
  BY <1>1 DEF CidrsFit, Fits
<1>5. MasksFit(Cidrs[1], m) <=> m \in Cidrs[1].mask .. V4Bits /\ n < V4Bits
  BY <1>1, <1>2 DEF MasksFit
<1>6. pools[1].maxCIDRs # 0 <=> n \in 0 .. IntBits - 1
  <2>1. pools[1].maxCIDRs = OneShifted(n) /\ n \in Int
    BY <1>1, <1>2, <1>3 DEF NewPool
  <2>. QED
    BY <2>1, OneShiftedTyped
<1>. HIDE DEF m
<1>7. ASSUME MasksFit(Cidrs[1], m) PROVE FoundAgain(pools[1], 0)
  <2>1. pools[1].maxCIDRs = Pow2[n] /\ n \in Nat
    BY <1>1, <1>2, <1>3, <1>5, <1>7, PoolSize
  <2>2. 0 \in 0 .. NewPool(Cidrs[1], m).maxCIDRs - 1
    BY <2>1, <1>3, Pow2Facts
  <2>. QED
    BY <2>2, <1>1, <1>3, <1>7, OwnBlock DEF FoundAgain
<1>8. ASSUME n \in 0 .. IntBits - 1, m <= V4Bits, FoundAgain(pools[1], 0)
      PROVE  MasksFit(Cidrs[1], m)
  <2>1. m \in Cidrs[1].mask .. V4Bits
    BY <1>1, <1>2, <1>8
  <2>2. ASSUME ~(n < V4Bits) PROVE FALSE
    <3>1. m = V4Bits /\ Cidrs[1].mask = 0
      BY <1>2, <2>1, <2>2
    <3>. QED
      BY <3>1, <1>1, <1>3, <1>8, AllOfIPv4Refused
  <2>. QED
    BY <2>1, <2>2, <1>5
<1>9. MasksFit(Cidrs[1], m) => n \in 0 .. IntBits - 1 /\ m <= V4Bits
  BY <1>1, <1>2, <1>5
<1>. QED
  BY <1>4, <1>6, <1>7, <1>8, <1>9 DEF m

\* The reserved blocks of the first node: block 0 of every cluster CIDR.
Reserved == Allocation!ReservedCIDRs([k \in DOMAIN pools |-> 0])

\* The form of that reservation: one CIDR for each cluster CIDR.
LEMMA ReservedForm ==
  ASSUME Started
  PROVE  /\ DOMAIN Reserved = 1 .. Len(Cidrs)
         /\ \A k \in DOMAIN Cidrs :
              Reserved[k] = [fam |-> Cidrs[k].fam, set |-> k, block |-> 0]
<1>1. DOMAIN Cidrs = 1 .. Len(Cidrs) /\ DOMAIN pools = DOMAIN Cidrs
  BY ParsedCidrs DEF Started
<1>2. \A k \in DOMAIN Cidrs : pools[k].cluster.fam = Cidrs[k].fam
  BY DEF Started, NewPool
<1>. QED
  BY <1>1, <1>2 DEF Reserved, Allocation!ReservedCIDRs

\* The prefix that EC2 delegates.
Prefix == Allocation!DelegatedPrefix

\* What the first node is assigned in each mode.  The two CIDRs of a dual-stack
\* node are in the order that the primary family IPv4 wants.
LEMMA AssignmentForm ==
  ASSUME Started
  PROVE  FirstAssignment =
           CASE flags.mode = "dual-stack" -> Append(Reserved, Prefix)
             [] flags.mode = "ipv6"       -> <<Prefix>>
             [] OTHER                     -> Reserved
<1>1. Reserved \in Seq({Reserved[k] : k \in DOMAIN Reserved})
  BY ReservedForm, ParsedCidrs DEF Started, Reserved, Allocation!ReservedCIDRs
<1>2. Allocation!ProposedCIDRs([k \in DOMAIN pools |-> 0]) =
           CASE flags.mode = "dual-stack" -> Append(Reserved, Prefix)
             [] flags.mode = "ipv6"       -> <<Prefix>>
             [] OTHER                     -> Reserved
  BY DEF Allocation!ProposedCIDRs, Reserved, Prefix
<1>3. CASE flags.mode = "dual-stack"
  <2>. DEFINE both == Append(Reserved, Prefix)
  <2>1. Len(both) = 2 => both[2] = Prefix
    BY <1>1
  <2>2. Prefix.fam # Allocation!Primary
    BY DEF Prefix, Allocation!DelegatedPrefix, Allocation!Primary
  <2>3. Allocation!ProposedCIDRs([k \in DOMAIN pools |-> 0]) = both
    BY <1>2, <1>3
  <2>. HIDE DEF both
  <2>4. Allocation!PatchedCIDRs(both) = both
    BY <2>1, <2>2 DEF Allocation!PatchedCIDRs
  <2>. QED
    BY <2>3, <2>4, <1>3 DEF FirstAssignment, both
<1>4. CASE flags.mode # "dual-stack"
  <2>1. \A cidrs : Allocation!PatchedCIDRs(cidrs) = cidrs
    BY <1>4 DEF Allocation!PatchedCIDRs
  <2>. QED
    BY <2>1, <1>2 DEF FirstAssignment
<1>. QED
  BY <1>3, <1>4

\* A block of the only cluster CIDR, an IPv4 one, is found again by the next
\* process, whatever follows it of the other family.
LEMMA OnlyBlockApplied ==
  ASSUME NEW cidrs, 1 \in DOMAIN cidrs, cidrs[1].fam = "v4", cidrs[1].set = 1,
         DOMAIN cidrs \subseteq {1, 2}, \A i \in DOMAIN cidrs : i # 1 => cidrs[i].fam = "v6"
  PROVE  1 \in Allocation!Applied(cidrs)
<1>1. Allocation!Tracked(cidrs) = {1}
  BY DEF Allocation!Tracked
<1>2. {j \in Allocation!Tracked(cidrs) : j <= 1} = {1}
  BY <1>1
<1>3. Allocation!CidrSetOf(cidrs, 1) = 1
  <2>1. \A S : Allocation!Cardinality(S) = Cardinality(S)
    BY DEF Allocation!Cardinality, Cardinality
  <2>. QED
    BY <1>2, <2>1, FS_Singleton DEF Allocation!CidrSetOf
<1>. QED
  BY <1>1, <1>3 DEF Allocation!Applied

\* A node's mask of an IPv6 prefix is no longer than an address just when the flag
\* is not.
LEMMA PrefixWellformed ==
  ASSUME flags \in FlagValues
  PROVE  DelegatedMask <= V6Bits <=> flags.maskIPv6 <= V6Bits
BY StartsAssumption, WidthAssumption DEF DelegatedMask, FlagValues

\* Mode ipv6: the node gets the prefix and nothing else.
LEMMA ServesIPv6 ==
  ASSUME Started, flags.mode = "ipv6"
  PROVE  Serves <=> /\ \A k \in DOMAIN pools : pools[k].maxCIDRs # 0
                    /\ flags.maskIPv6 <= V6Bits /\ ec2Client.signs
                    /\ flags.tickPeriod > 0
<1>1. FirstAssignment = <<Prefix>>
  BY AssignmentForm
<1>2. DOMAIN FirstAssignment = {1} /\ FirstAssignment[1] = Prefix /\ Prefix.set = 0
  BY <1>1 DEF Prefix, Allocation!DelegatedPrefix
<1>3. Allocation!Accepted(<<>>, FirstAssignment)
  BY <1>2 DEF Allocation!Accepted
<1>4. (\A i \in DOMAIN FirstAssignment : Wellformed(FirstAssignment[i]))
        <=> flags.maskIPv6 <= V6Bits
  BY <1>2, PrefixWellformed DEF Wellformed, Started
<1>. QED
  BY <1>2, <1>3, <1>4 DEF Serves

\* Every other mode needs a single cluster CIDR, of IPv4: the API server accepts
\* one CIDR of each family, and a block of an IPv6 cluster CIDR is not marked again.
LEMMA NeedsOneIPv4 ==
  ASSUME Started, flags.mode # "ipv6", Serves
  PROVE  OneIPv4CIDR
<1>1. FirstAssignment = IF flags.mode = "dual-stack" THEN Append(Reserved, Prefix)
                        ELSE Reserved
  BY AssignmentForm
<1>2. /\ Len(Cidrs) \in Nat \ {0} /\ DOMAIN Cidrs = 1 .. Len(Cidrs)
      /\ \A k \in DOMAIN Cidrs : Cidrs[k].fam \in {"v4", "v6"}
  BY ParsedCidrs, NetParts DEF Started
<1>3. /\ DOMAIN Reserved = 1 .. Len(Cidrs)
      /\ \A k \in 1 .. Len(Cidrs) :
           Reserved[k] = [fam |-> Cidrs[k].fam, set |-> k, block |-> 0]
  BY <1>2, ReservedForm
<1>4. Reserved \in Seq({Reserved[k] : k \in DOMAIN Reserved}) /\ Len(Reserved) = Len(Cidrs)
  BY <1>2, <1>3 DEF Reserved, Allocation!ReservedCIDRs
<1>5. \A k \in 1 .. Len(Cidrs) :
        /\ k \in DOMAIN FirstAssignment
        /\ FirstAssignment[k].fam = Cidrs[k].fam /\ FirstAssignment[k].set = k
  <2>1. SUFFICES ASSUME NEW k \in 1 .. Len(Cidrs)
                 PROVE  /\ k \in DOMAIN FirstAssignment
                        /\ FirstAssignment[k] = Reserved[k]
    BY <1>3
  <2>. QED
    BY <1>1, <1>3, <1>4
<1>6. \A i, j \in DOMAIN FirstAssignment :
        FirstAssignment[i].fam = FirstAssignment[j].fam => i = j
  BY DEF Serves, Allocation!Accepted
<1>7. ASSUME NEW k \in 1 .. Len(Cidrs) PROVE Cidrs[k].fam = "v4"
  <2>1. k \in Allocation!Applied(FirstAssignment)
    BY <1>2, <1>5 DEF Serves
  <2>2. FirstAssignment[k].fam = "v4"
    BY <2>1 DEF Allocation!Applied, Allocation!Tracked
  <2>. QED
    BY <2>2, <1>5
<1>8. ASSUME 2 <= Len(Cidrs) PROVE FALSE
  <2>1. 1 \in 1 .. Len(Cidrs) /\ 2 \in 1 .. Len(Cidrs)
    BY <1>2, <1>8
  <2>2. FirstAssignment[1].fam = FirstAssignment[2].fam
    BY <2>1, <1>5, <1>7
  <2>. QED
    BY <2>1, <2>2, <1>5, <1>6
<1>. QED
  BY <1>2, <1>7, <1>8 DEF OneIPv4CIDR

\* With such a cluster CIDR the rest are the masks, the block that is found again,
\* the tick and, for the prefix of a dual-stack node, the flag and the client.
LEMMA ServesIPv4 ==
  ASSUME Started, flags.mode # "ipv6", OneIPv4CIDR
  PROVE  Serves <=>
           /\ pools[1].maxCIDRs # 0 /\ MaskSize(Cidrs[1]) <= V4Bits
           /\ FoundAgain(pools[1], 0) /\ flags.tickPeriod > 0
           /\ flags.mode = "dual-stack" => flags.maskIPv6 <= V6Bits /\ ec2Client.signs
<1>1. DOMAIN Cidrs = {1} /\ Len(Cidrs) = 1 /\ Cidrs[1].fam = "v4"
  BY ParsedCidrs DEF Started, OneIPv4CIDR
<1>2. DOMAIN pools = {1} /\ pools[1].nodeMask = MaskSize(Cidrs[1])
  BY <1>1 DEF Started, NewPool
<1>3. /\ DOMAIN Reserved = 1 .. 1
      /\ Reserved[1] = [fam |-> "v4", set |-> 1, block |-> 0]
  BY <1>1, <1>2, ReservedForm
<1>8. Reserved \in Seq({Reserved[1], Prefix}) /\ Len(Reserved) = 1
  BY <1>3 DEF Reserved, Allocation!ReservedCIDRs
<1>4. Wellformed(Reserved[1]) <=> MaskSize(Cidrs[1]) <= V4Bits
  BY <1>2, <1>3 DEF Wellformed, Width
<1>5. Prefix.set = 0 /\ Prefix.fam = "v6"
  BY DEF Prefix, Allocation!DelegatedPrefix
<1>6. CASE flags.mode = "dual-stack"
  <2>. DEFINE both == Append(Reserved, Prefix)
  <2>1. FirstAssignment = both
    BY <1>6, AssignmentForm
  <2>2. DOMAIN both = {1, 2} /\ both[1] = Reserved[1] /\ both[2] = Prefix
    <3>. DEFINE first == Reserved
    <3>1. PICK S : first \in Seq(S) /\ Prefix \in S
      BY <1>8
    <3>2. first = Reserved /\ Len(first) + 1 = 2
      BY <1>8
    <3>. HIDE DEF first
    <3>3. /\ Append(first, Prefix) \in Seq(S)
          /\ Len(Append(first, Prefix)) = Len(first) + 1
          /\ Append(first, Prefix)[Len(first) + 1] = Prefix
      BY <3>1, AppendProperties
    <3>4. Append(first, Prefix)[1] = first[1]
      BY <3>1, <3>2, AppendProperties
    <3>5. both \in Seq(S) /\ Len(both) = 2
      BY <3>2, <3>3
    <3>6. DOMAIN both = 1 .. 2
      BY <3>5
    <3>. QED
      BY <3>2, <3>3, <3>4, <3>6
  <2>. HIDE DEF both
  <2>3. Allocation!Accepted(<<>>, both)
    BY <2>2, <1>3, <1>5 DEF Allocation!Accepted
  <2>4. 1 \in Allocation!Applied(both)
    BY <2>2, <1>3, <1>5, OnlyBlockApplied
  <2>5. Wellformed(Prefix) <=> flags.maskIPv6 <= V6Bits
    BY <1>5, PrefixWellformed DEF Wellformed, Started
  <2>. QED
    BY <1>2, <1>3, <1>4, <1>5, <1>6, <2>1, <2>2, <2>3, <2>4, <2>5 DEF Serves
<1>7. CASE flags.mode # "dual-stack"
  <2>1. FirstAssignment = Reserved
    BY <1>7, AssignmentForm
  <2>2. DOMAIN Reserved = {1}
    BY <1>3
  <2>3. Allocation!Accepted(<<>>, Reserved)
    BY <2>2 DEF Allocation!Accepted
  <2>4. 1 \in Allocation!Applied(Reserved)
    BY <2>2, <1>3, OnlyBlockApplied
  <2>. QED
    BY <1>2, <1>3, <1>4, <1>7, <2>1, <2>2, <2>3, <2>4 DEF Serves
<1>. QED
  BY <1>6, <1>7

(***************************************************************************)
(* A controller that has started serves its first node, whose block the    *)
(* next process finds again, just when its flags and the Secret go         *)
(* together, and main exits only when they do not or a required flag is    *)
(* missing: for every list of cluster CIDRs, every mask size, mode and     *)
(* tick period and every Secret.                                           *)
(***************************************************************************)
THEOREM ServesIffConsistentCorrect == Spec => []ServesIffConsistent
<1>1. ASSUME IInv, pc = "started" PROVE Serves <=> Consistent
  <2>1. Started
    BY <1>1 DEF IInv, Types, Results, Parsed, Started, Sizes
  <2>2. SecretFits <=> (flags.mode \in {"dual-stack", "ipv6"} => ec2Client.signs)
    BY <1>1, SecretDecides DEF IInv, Types, Results, Loaded, Connected
  <2>3. Consistent <=> GoesWithMode /\ CidrsFit /\ SecretFits /\ flags.tickPeriod > 0
    BY <2>1 DEF Consistent, Started
  <2>4. DOMAIN pools = DOMAIN Cidrs
    BY <2>1 DEF Started
  <2>5. CASE flags.mode = "ipv6"
    <3>1. CidrsFit <=> \A k \in DOMAIN pools : pools[k].maxCIDRs # 0
      BY <2>1, <2>4, <2>5, FitDecidesIPv6
    <3>2. GoesWithMode <=> flags.maskIPv6 <= V6Bits
      BY <2>5 DEF GoesWithMode
    <3>. QED
      BY <2>1, <2>2, <2>3, <2>5, <3>1, <3>2, ServesIPv6
  <2>6. CASE flags.mode # "ipv6" /\ ~OneIPv4CIDR
    <3>1. ~GoesWithMode
      BY <2>6 DEF GoesWithMode
    <3>. QED
      BY <2>1, <2>3, <2>6, <3>1, NeedsOneIPv4
  <2>7. CASE flags.mode # "ipv6" /\ OneIPv4CIDR
    <3>2. CidrsFit <=> /\ pools[1].maxCIDRs # 0 /\ MaskSize(Cidrs[1]) <= V4Bits
                       /\ FoundAgain(pools[1], 0)
      BY <2>1, <2>7, FitDecidesIPv4
    <3>3. GoesWithMode <=> (flags.mode = "dual-stack" => flags.maskIPv6 <= V6Bits)
      BY <2>7 DEF GoesWithMode
    <3>4. Serves <=>
            /\ pools[1].maxCIDRs # 0 /\ MaskSize(Cidrs[1]) <= V4Bits
            /\ FoundAgain(pools[1], 0) /\ flags.tickPeriod > 0
            /\ flags.mode = "dual-stack" => flags.maskIPv6 <= V6Bits /\ ec2Client.signs
      BY <2>1, <2>7, ServesIPv4
    <3>. QED
      BY <2>2, <2>3, <2>7, <3>2, <3>3, <3>4
  <2>. QED
    BY <2>5, <2>6, <2>7
<1>2. ASSUME IInv, pc = "exited", flags.empty = {} PROVE ~Consistent
  <2>1. CASE ParseFails
    BY <2>1 DEF Consistent
  <2>2. CASE ~secret.found
    BY <2>2 DEF Consistent, SecretFits
  <2>3. CASE ExtractCredentials(secret.data) = NoCredentials
    BY <2>3, SecretRefused DEF Consistent
  <2>4. CASE TooBig /\ ~ParseFails
    <3>1. PICK k \in DOMAIN Cidrs : SubNetTooBig(Cidrs[k], MaskSize(Cidrs[k]))
      BY <2>4 DEF TooBig
    <3>2. Cidrs[k] \in AllNets /\ MaskSize(Cidrs[k]) \in Int
      BY <1>2, <2>4, ParsedCidrs DEF IInv, Types
    <3>3. /\ Cidrs[k].fam = "v6" /\ MaskSize(Cidrs[k]) = flags.maskIPv6
          /\ Cidrs[k].mask \in Int
      BY <3>1, <3>2, NetParts, WidthFacts DEF SubNetTooBig, MaskSize
    <3>4. ~(flags.maskIPv6 <= Cidrs[k].mask + ClusterSubnetMaxDiff)
      BY <3>1, <3>2, <3>3, WidthAssumption DEF SubNetTooBig
    <3>5. ~CidrsFit
      BY <3>3, <3>4 DEF CidrsFit, Fits
    <3>. QED
      BY <3>5 DEF Consistent
  <2>. QED
    BY <1>2, <2>1, <2>2, <2>3, <2>4 DEF IInv, Exits
<1>3. IInv => ServesIffConsistent
  BY <1>1, <1>2 DEF ServesIffConsistent
<1>. QED
  BY <1>3, SpecIInv, PTL
=============================================================================
