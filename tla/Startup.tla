------------------------------ MODULE Startup -------------------------------
(***************************************************************************)
(* main (main.go) up to the start of the manager: what it makes of the     *)
(* flags and of the Secret with the AWS credentials                        *)
(* (pkg/updater/credentials.go), and where it exits instead.  One action   *)
(* is one of main's steps; each goes on or exits.                          *)
(*                                                                         *)
(* Flags that only name an endpoint, a port or a log format are left out,  *)
(* and so is --primary-ip-family, which orders two CIDRs and no more.      *)
(***************************************************************************)
EXTENDS CidrBlocks, Sequences, FiniteSets

CONSTANTS Starts,       \* the pairs of flags and Secret that main may meet
          PrefixMask    \* mask size of the prefixes that EC2 delegates

VARIABLES flags,        \* never changes
          secret,       \* never changes
          pc,           \* the step main is at
          clusterCIDRs, \* what processCIDRs returned
          credentials,  \* what LoadCredentials returned
          ec2Client,    \* what NewAWSEC2V2 returned
          maskSizes,    \* what setNodeCIDRMaskSizes returned
          pools         \* the CidrSets of the allocator

vars == <<flags, secret, pc, clusterCIDRs, credentials, ec2Client, maskSizes,
          pools>>

RequiredFlags ==
  {"mode", "namespace", "secret-name", "cluster-name", "region",
   "target-kubeconfig"}

\* An entry of --cluster-cidrs that is no CIDR.
Malformed == Net("none", 0, 0)

\* The flags that decide something, `empty' being the required ones without a
\* value.  A duration may be negative.  A mask size that differs from a cluster
\* mask by more than a uint32 holds is not thought of.
FlagValues ==
  [clusterCIDRs : Seq(AllNets \cup {Malformed}), maskIPv4 : Int, maskIPv6 : Int,
   mode : STRING, tickPeriod : Int, empty : SUBSET RequiredFlags]

SecretKeys ==
  {"accessKeyID", "secretAccessKey", "workloadIdentityTokenFile", "roleARN"}

\* The data of a Secret maps the keys it has to whether their value is more than
\* the empty string.
Secrets ==
  [found : BOOLEAN, data : UNION {[K -> BOOLEAN] : K \in SUBSET SecretKeys}]

ASSUME StartsAssumption ==
  Starts \subseteq FlagValues \X Secrets /\ PrefixMask \in 0 .. V6Bits

NoCredentials == [kind |-> "none"]
NoClient == [provider |-> "none", signs |-> FALSE]

Init ==
  /\ \E start \in Starts : flags = start[1] /\ secret = start[2]
  /\ pc = "flags"
  /\ clusterCIDRs = <<>> /\ credentials = NoCredentials /\ ec2Client = NoClient
  /\ maskSizes = <<>> /\ pools = <<>>

\* os.Exit(1) when the step fails.
StepTo(fails, next) == pc' = IF fails THEN "exited" ELSE next

\* Every required flag has a value; whether the value means anything is not
\* looked at.
CheckRequiredFlags ==
  /\ pc = "flags"
  /\ StepTo(flags.empty \cap RequiredFlags # {}, "cidrs")
  /\ UNCHANGED <<flags, secret, clusterCIDRs, credentials, ec2Client, maskSizes,
                 pools>>

\* Without a value the list has one entry, the empty string.
ParseFails ==
  \/ flags.clusterCIDRs = <<>>
  \/ \E k \in DOMAIN flags.clusterCIDRs : flags.clusterCIDRs[k] = Malformed

ProcessCIDRs ==
  /\ pc = "cidrs"
  /\ StepTo(ParseFails, "cluster")
  /\ clusterCIDRs' = IF ParseFails THEN <<>> ELSE flags.clusterCIDRs
  /\ UNCHANGED <<flags, secret, credentials, ec2Client, maskSizes, pools>>

\* The kubeconfig, the manager, its cache and the client.  "unreachable" is an
\* exit for what neither the flags nor the Secret decide.
Connect ==
  /\ pc = "cluster"
  /\ pc' \in {"secret", "unreachable"}
  /\ UNCHANGED <<flags, secret, clusterCIDRs, credentials, ec2Client, maskSizes,
                 pools>>

-----------------------------------------------------------------------------
\* LoadCredentials and NewAWSEC2V2

AccessKey(data) ==
  [kind |-> "accessKey", id |-> data["accessKeyID"],
   secret |-> data["secretAccessKey"]]

WorkloadIdentity == [kind |-> "workloadIdentity"]

HasValue(data, key) == key \in DOMAIN data /\ data[key]

\* getSecretDataValue wants the key, and takes an empty value.
ExtractCredentials(data) ==
  IF "workloadIdentityTokenFile" \in DOMAIN data
  THEN IF HasValue(data, "workloadIdentityTokenFile") /\ HasValue(data, "roleARN")
       THEN WorkloadIdentity ELSE NoCredentials
  ELSE IF {"accessKeyID", "secretAccessKey"} \subseteq DOMAIN data
       THEN AccessKey(data) ELSE NoCredentials

LoadCredentials ==
  /\ pc = "secret"
  /\ credentials' = IF secret.found THEN ExtractCredentials(secret.data)
                    ELSE NoCredentials
  /\ StepTo(credentials' = NoCredentials, "ec2")
  /\ UNCHANGED <<flags, secret, clusterCIDRs, ec2Client, maskSizes, pools>>

\* Nothing is asked of EC2 yet: that an access key is empty shows with the first
\* request, which the provider then cannot sign.
Client(cred) ==
  CASE cred.kind = "accessKey" ->
         [provider |-> "static", signs |-> cred.id /\ cred.secret]
    [] cred.kind = "workloadIdentity" ->
         [provider |-> "webIdentity", signs |-> TRUE]

NewAWSEC2V2 ==
  /\ pc = "ec2"
  /\ \/ pc' = "masks" /\ ec2Client' = Client(credentials)
     \/ pc' = "unreachable" /\ UNCHANGED ec2Client
  /\ UNCHANGED <<flags, secret, clusterCIDRs, credentials, maskSizes, pools>>

-----------------------------------------------------------------------------
\* setNodeCIDRMaskSizes and NewCIDRRangeAllocator

\* Faulty variant: one mask size for all.
MaskSizeAlike(net) == flags.maskIPv4

MaskSize(net) == IF net.fam = "v6" THEN flags.maskIPv6 ELSE flags.maskIPv4

SetNodeCIDRMaskSizes ==
  /\ pc = "masks"
  /\ maskSizes' = [k \in DOMAIN clusterCIDRs |-> MaskSize(clusterCIDRs[k])]
  /\ pc' = "allocator"
  /\ UNCHANGED <<flags, secret, clusterCIDRs, credentials, ec2Client, pools>>

SomeTooBig ==
  \E k \in DOMAIN clusterCIDRs : SubNetTooBig(clusterCIDRs[k], maskSizes[k])

NewAllocator ==
  /\ pc = "allocator"
  /\ StepTo(SomeTooBig, "started")
  /\ pools' = IF SomeTooBig THEN <<>>
              ELSE [k \in DOMAIN clusterCIDRs |->
                      NewPool(clusterCIDRs[k], maskSizes[k])]
  /\ UNCHANGED <<flags, secret, clusterCIDRs, credentials, ec2Client, maskSizes>>

\* changeNetmask: the flag may only make the delegated prefix smaller.
DelegatedMask ==
  IF PrefixMask < flags.maskIPv6 THEN flags.maskIPv6 ELSE PrefixMask

Next ==
  \/ CheckRequiredFlags \/ ProcessCIDRs \/ Connect \/ LoadCredentials
  \/ NewAWSEC2V2 \/ SetNodeCIDRMaskSizes \/ NewAllocator

Spec == Init /\ [][Next]_vars

-----------------------------------------------------------------------------
TypeOK ==
  /\ pc \in {"flags", "cidrs", "cluster", "secret", "ec2", "masks", "allocator",
             "started", "exited", "unreachable"}
  /\ credentials.kind \in {"none", "accessKey", "workloadIdentity"}
  /\ ec2Client.signs \in BOOLEAN
  /\ Len(maskSizes) \in {0, Len(clusterCIDRs)}
  /\ \A k \in DOMAIN pools :
       pools[k].maxCIDRs \in
         IF pools[k].cluster.fam = "v6" THEN 0 .. Pow2[ClusterSubnetMaxDiff]
         ELSE -Pow2[IntBits - 1] .. Pow2[IntBits - 2]

(***************************************************************************)
(* The blocks of a pool are the cluster CIDR cut into runs of addresses of *)
(* equal length, the i-th block being the i-th run, across the halves of   *)
(* an IPv6 address too: so no two blocks overlap and none leaves the       *)
(* cluster CIDR.                                                           *)
(***************************************************************************)
SoundPools ==
  {pools[k] : k \in {j \in DOMAIN pools :
                       MasksFit(pools[j].cluster, pools[j].nodeMask)}}

BlockAddresses ==
  \A s \in SoundPools : \A i \in 0 .. s.maxCIDRs - 1 :
    IndexToCIDRBlock(s, i).ip =
      s.cluster.ip + i * Pow2[Width(s.cluster.fam) - s.nodeMask]

(***************************************************************************)
(* Occupy and Release touch the blocks that have an address in common with *)
(* the CIDR, and refuse a CIDR that has none.                              *)
(***************************************************************************)
RangeIsOverlap ==
  \A s \in SoundPools : \A net \in AllNets :
    Indices(s, net) = IF Touched(s, net) = {} THEN Refused ELSE Touched(s, net)

(***************************************************************************)
(* A controller that has started serves the first node: AllocateNext does  *)
(* not refuse, the worker that gets the item does not panic over its       *)
(* ticker, the API server accepts what is assigned, EC2 can be asked when  *)
(* the mode wants a prefix, and the next process marks the blocks again    *)
(* that the node has: it applies their CIDRs to the CidrSets they are      *)
(* from, and these find them.                                              *)
(***************************************************************************)
Allocation == INSTANCE PodCIDRs WITH
  ClusterCIDRs    <- [k \in DOMAIN pools |-> [fam |-> pools[k].cluster.fam,
                                              maxCIDRs |-> pools[k].maxCIDRs]],
  Mode            <- flags.mode,
  PrimaryIPFamily <- "ipv4"

FirstAssignment ==
  Allocation!PatchedCIDRs(Allocation!ProposedCIDRs([k \in DOMAIN pools |-> 0]))

\* The mask of an entry of podCIDRs is no longer than an address.
Wellformed(c) ==
  IF c.set = 0 THEN DelegatedMask <= V6Bits
  ELSE pools[c.set].nodeMask <= Width(c.fam)

\* The CIDR of a block, given to the CidrSet it is from, is that block again.
FoundAgain(s, block) == Indices(s, IndexToCIDRBlock(s, block)) = {block}

Serves ==
  /\ \A k \in DOMAIN pools : pools[k].maxCIDRs # 0
  /\ flags.tickPeriod > 0
  /\ \A i \in DOMAIN FirstAssignment : Wellformed(FirstAssignment[i])
  /\ Allocation!Accepted(<<>>, FirstAssignment)
  /\ flags.mode \in {"dual-stack", "ipv6"} => ec2Client.signs
  /\ \A i \in DOMAIN FirstAssignment :
       LET c == FirstAssignment[i]
       IN  c.set # 0 => /\ i \in Allocation!Applied(FirstAssignment)
                        /\ FoundAgain(pools[c.set], c.block)

(***************************************************************************)
(* The flags and Secrets that go together.  Neither main nor the allocator *)
(* checks more than a part of this: for all others the controller starts   *)
(* and does not serve, or exits.                                           *)
(***************************************************************************)
Cidrs == flags.clusterCIDRs

OneIPv4CIDR == Len(Cidrs) = 1 /\ Cidrs[1].fam = "v4"

GoesWithMode ==
  CASE flags.mode = "dual-stack" -> OneIPv4CIDR /\ flags.maskIPv6 <= V6Bits
    [] flags.mode = "ipv6"       -> flags.maskIPv6 <= V6Bits
    [] OTHER                     -> OneIPv4CIDR

\* Mode ipv6 wants no more of a pool than that it has blocks; of the others one
\* block has to be a CIDR that can be found again.
Fits(net, nodeMask) ==
  /\ IF flags.mode = "ipv6" THEN nodeMask - net.mask \in 0 .. IntBits - 1
     ELSE MasksFit(net, nodeMask)
  /\ net.fam = "v6" => nodeMask <= net.mask + ClusterSubnetMaxDiff

CidrsFit ==
  \A k \in DOMAIN Cidrs :
    Fits(Cidrs[k], IF Cidrs[k].fam = "v4" THEN flags.maskIPv4 ELSE flags.maskIPv6)

SecretFits ==
  /\ secret.found
  /\ \/ /\ HasValue(secret.data, "workloadIdentityTokenFile")
        /\ HasValue(secret.data, "roleARN")
     \/ /\ "workloadIdentityTokenFile" \notin DOMAIN secret.data
        /\ {"accessKeyID", "secretAccessKey"} \subseteq DOMAIN secret.data
        /\ \/ flags.mode \notin {"dual-stack", "ipv6"}
           \/ /\ HasValue(secret.data, "accessKeyID")
              /\ HasValue(secret.data, "secretAccessKey")

Consistent ==
  ~ParseFails /\ GoesWithMode /\ CidrsFit /\ SecretFits /\ flags.tickPeriod > 0

ServesIffConsistent ==
  /\ pc = "started" => (Serves <=> Consistent)
  /\ pc = "exited" => flags.empty # {} \/ ~Consistent
=============================================================================
