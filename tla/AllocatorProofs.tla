-------------------------- MODULE AllocatorProofs ---------------------------
(***************************************************************************)
(* What holds of the allocator for every number of nodes, workers, blocks  *)
(* and cluster CIDRs, every mode, every queue size and every behaviour of  *)
(* the environment: its state has its types, a node is in                  *)
(* nodesInProcessing exactly as long as one item of it is under way, the   *)
(* channel does not jam, and the counter of each CidrSet agrees with its   *)
(* bitmap, so that AllocateOrOccupyCIDR is only handed blocks that are     *)
(* free.                                                                   *)
(***************************************************************************)
EXTENDS Allocator, CidrSetOpsProofs, SequenceTheorems

-----------------------------------------------------------------------------
\* A function on 1 .. n is a list of length n.
LEMMA FunctionIsSeq ==
  ASSUME NEW n \in Nat, NEW S, NEW f \in [1 .. n -> S]
  PROVE  f \in Seq(S) /\ Len(f) = n /\ DOMAIN f = 1 .. n
OBVIOUS

-----------------------------------------------------------------------------
\* CIDR lists

\* There is a cluster CIDR, and each has a family and blocks.
LEMMA ClusterTypes ==
  /\ NSets \in Nat \ {0} /\ SetIndices = DOMAIN ClusterCIDRs
  /\ \A k \in SetIndices : /\ ClusterCIDRs[k].maxCIDRs \in Nat \ {0}
                           /\ ClusterCIDRs[k].fam \in Families
<1>. DEFINE ClusterCIDR == [fam : Families, maxCIDRs : Nat \ {0}]
<1>1. ClusterCIDRs \in Seq(ClusterCIDR) /\ ClusterCIDRs # <<>>
  BY ClusterCIDRsAssumption
<1>2. \A c \in ClusterCIDR : c.maxCIDRs \in Nat \ {0} /\ c.fam \in Families
  OBVIOUS
<1>. HIDE DEF ClusterCIDR
<1>3. Len(ClusterCIDRs) \in Nat /\ DOMAIN ClusterCIDRs = 1 .. Len(ClusterCIDRs)
  BY <1>1
<1>4. Len(ClusterCIDRs) # 0
  BY <1>1, EmptySeq
<1>5. \A k \in 1 .. Len(ClusterCIDRs) : ClusterCIDRs[k] \in ClusterCIDR
  BY <1>1
<1>. QED
  BY <1>2, <1>3, <1>4, <1>5 DEF NSets, SetIndices

\* The blocks for nodes are those of the CidrSet.
LEMMA NodeBlocksTypes ==
  \A k \in SetIndices : NodeBlocks(k) = Blocks(ClusterCIDRs[k].maxCIDRs)
                        /\ NodeBlocks(k) \subseteq Nat
BY DEF NodeBlocks, Blocks

\* The CIDRs reserved by an item are blocks of the cluster CIDRs.
LEMMA ReservedTyped ==
  ASSUME NEW blocks \in BlockLists
  PROVE  /\ ReservedCIDRs(blocks) \in Seq(CIDR)
         /\ Len(ReservedCIDRs(blocks)) = Len(blocks)
<1>1. blocks \in Seq(Nat) /\ DOMAIN blocks = 1 .. Len(blocks) /\ Len(blocks) \in Nat
  BY DEF BlockLists
<1>2. DOMAIN blocks \subseteq SetIndices
  BY <1>1, ClusterTypes DEF BlockLists, SetIndices
<1>3. ASSUME NEW k \in DOMAIN blocks
      PROVE  [fam |-> ClusterCIDRs[k].fam, set |-> k, block |-> blocks[k]] \in CIDR
  <2>1. k \in SetIndices /\ blocks[k] \in Nat /\ blocks[k] \in NodeBlocks(k)
    BY <1>1, <1>2 DEF BlockLists
  <2>2. k \in 0 .. NSets /\ ClusterCIDRs[k].fam \in Families
    BY <2>1, ClusterTypes DEF SetIndices
  <2>. QED
    BY <2>1, <2>2 DEF CIDR
<1>. QED
  BY <1>1, <1>3 DEF ReservedCIDRs

\* What a worker proposes and sends in any mode is a CIDR list.
LEMMA ProposedTyped ==
  ASSUME NEW blocks \in BlockLists
  PROVE  ProposedCIDRs(blocks) \in Seq(CIDR)
<1>1. DelegatedPrefix \in CIDR
  BY ClusterTypes DEF DelegatedPrefix, CIDR, Families
<1>. QED
  BY <1>1, ReservedTyped DEF ProposedCIDRs

\* The order in which PatchNodePodCIDRs puts CIDRs makes no difference.
LEMMA PatchedTyped ==
  ASSUME NEW cidrs \in Seq(CIDR)
  PROVE  PatchedCIDRs(cidrs) \in Seq(CIDR)
<1>1. CASE Len(cidrs) = 2
  <2>1. cidrs[1] \in CIDR /\ cidrs[2] \in CIDR
    BY <1>1
  <2>. QED
    BY <2>1 DEF PatchedCIDRs
<1>. QED
  BY <1>1 DEF PatchedCIDRs

\* The loops of Occupy and Release touch only blocks of the CidrSet.
LEMMA AppliedTyped ==
  ASSUME NEW cidrs \in Seq(CIDR), NEW k \in SetIndices
  PROVE  AppliedTo(cidrs, k) \in SUBSET Blocks(ClusterCIDRs[k].maxCIDRs)
<1>1. SUFFICES ASSUME NEW i \in Applied(cidrs), cidrs[i].set = k
               PROVE  cidrs[i].block \in Blocks(ClusterCIDRs[k].maxCIDRs)
  BY DEF AppliedTo
<1>2. cidrs[i] \in CIDR
  BY DEF Applied, Tracked
<1>3. k # 0
  BY ClusterTypes DEF SetIndices
<1>. QED
  BY <1>1, <1>2, <1>3 DEF CIDR, NodeBlocks

\* The lists nodes start with.
LEMMA LeftoverTyped == Leftover \subseteq Seq(CIDR)
<1>. SUFFICES ASSUME NEW cidrs \in Leftover
              PROVE  cidrs \in Seq(CIDR)
  OBVIOUS
<1>. DEFINE Assigned == {b \in [SetIndices -> UNION {NodeBlocks(k) : k \in SetIndices}] :
                           \A k \in SetIndices : b[k] \in NodeBlocks(k)}
<1>1. CASE cidrs = <<>>
  BY <1>1
<1>2. CASE cidrs = <<UnknownCIDR>>
  <2>1. UnknownCIDR \in CIDR
    BY ClusterTypes DEF UnknownCIDR, CIDR, Families
  <2>. QED
    BY <1>2, <2>1
<1>3. ASSUME NEW blocks \in Assigned, cidrs = PatchedCIDRs(ProposedCIDRs(blocks))
      PROVE  cidrs \in Seq(CIDR)
  <2>1. blocks \in [1 .. NSets -> Nat] /\ \A k \in SetIndices : blocks[k] \in NodeBlocks(k)
    BY NodeBlocksTypes DEF SetIndices
  <2>2. blocks \in Seq(Nat) /\ Len(blocks) = NSets /\ DOMAIN blocks = SetIndices
    BY <2>1, FunctionIsSeq, ClusterTypes DEF SetIndices
  <2>3. blocks \in BlockLists
    BY <2>1, <2>2, ClusterTypes DEF BlockLists
  <2>. QED
    BY <1>3, <2>3, ProposedTyped, PatchedTyped
<1>. QED
  BY <1>1, <1>2, <1>3 DEF Leftover

-----------------------------------------------------------------------------
\* The CidrSets

\* NewCIDRRangeAllocator makes a CidrSet of each cluster CIDR.
LEMMA NewSetsTyped ==
  ASSUME sets' = NewSets
  PROVE  SetsTypeOK'
<1>1. \A k \in SetIndices : sets'[k] = NewCIDRSet(ClusterCIDRs[k].maxCIDRs)
  BY DEF NewSets
<1>2. \A k \in SetIndices : sets'[k] \in CidrSetState(ClusterCIDRs[k].maxCIDRs)
  BY <1>1, ClusterTypes, NewTyped
<1>. QED
  BY <1>2 DEF SetsTypeOK, NewSets

\* Occupying the CIDRs of a node touches the CidrSets only within their types.
LEMMA OccupyNodeTyped ==
  ASSUME SetsTypeOK, NEW cidrs \in Seq(CIDR), OccupyNode(cidrs)
  PROVE  SetsTypeOK'
<1>1. ASSUME NEW k \in SetIndices
      PROVE  sets'[k] \in CidrSetState(ClusterCIDRs[k].maxCIDRs)
  <2>1. sets'[k] = Occupy(sets[k], AppliedTo(cidrs, k))
    BY DEF OccupyNode
  <2>. QED
    BY <2>1, AppliedTyped, ClusterTypes, OccupyTyped DEF SetsTypeOK
<1>. QED
  BY <1>1 DEF SetsTypeOK, OccupyNode

\* So does releasing them.
LEMMA ReleaseNodeTyped ==
  ASSUME SetsTypeOK, NEW cidrs, ReleaseNode(cidrs)
  PROVE  SetsTypeOK'
<1>1. ASSUME NEW k \in SetIndices
      PROVE  sets'[k] \in CidrSetState(ClusterCIDRs[k].maxCIDRs)
  <2>1. sets'[k] = Release(sets[k], AppliedTo(cidrs, k))
    BY DEF ReleaseNode
  <2>. QED
    BY <2>1, ClusterTypes, ReleaseTyped DEF SetsTypeOK
<1>. QED
  BY <1>1 DEF SetsTypeOK, ReleaseNode

\* One CidrSet changes, to one of its kind.
LEMMA OneSetTyped ==
  ASSUME SetsTypeOK, NEW k \in SetIndices,
         NEW s \in CidrSetState(ClusterCIDRs[k].maxCIDRs),
         sets' = [sets EXCEPT ![k] = s]
  PROVE  SetsTypeOK'
<1>1. DOMAIN sets = SetIndices
  BY DEF SetsTypeOK
<1>2. \A j \in SetIndices : sets'[j] = IF j = k THEN s ELSE sets[j]
  BY <1>1
<1>3. sets' = [j \in SetIndices |-> sets'[j]]
  BY <1>1
<1>. QED
  BY <1>2, <1>3 DEF SetsTypeOK

-----------------------------------------------------------------------------
\* Items, and the states of a worker

BusyWorker == [pc : Busy, item : FullItem, i : Nat]

\* Having no item is different from having any.
LEMMA NoItemIsNone ==
  /\ NoItem.node = NoNode /\ NoItem.blocks = <<>>
  /\ NoItem \notin PartialItem /\ NoItem \notin FullItem
BY NodesAssumption DEF NoItem, Item, PartialItem, FullItem

\* AllocateOrOccupyCIDR starts an item without blocks.
LEMMA NewItemTyped ==
  ASSUME NEW n \in Nodes
  PROVE  Item(n, <<>>) \in PartialItem
<1>1. <<>> \in BlockLists
  BY ClusterTypes, EmptySeq DEF BlockLists
<1>. QED
  BY <1>1 DEF Item, PartialItem

\* An item in the making gets the block of its next cluster CIDR.
LEMMA LongerItemTyped ==
  ASSUME NEW item \in PartialItem, Len(item.blocks) + 1 \in SetIndices,
         NEW b \in NodeBlocks(Len(item.blocks) + 1)
  PROVE  [item EXCEPT !.blocks = Append(@, b)] \in PartialItem
<1>. DEFINE old == item.blocks
            new == Append(old, b)
<1>1. old \in Seq(Nat) /\ b \in Nat /\ Len(old) \in Nat /\ DOMAIN old = 1 .. Len(old)
  BY NodeBlocksTypes DEF PartialItem, BlockLists
<1>2. /\ new \in Seq(Nat) /\ Len(new) = Len(old) + 1 /\ DOMAIN new = 1 .. Len(old) + 1
      /\ \A k \in 1 .. Len(old) + 1 : new[k] = IF k = Len(old) + 1 THEN b ELSE old[k]
  BY <1>1
<1>3. \A k \in DOMAIN old : old[k] \in NodeBlocks(k)
  BY DEF PartialItem, BlockLists
<1>4. \A k \in DOMAIN new : new[k] \in NodeBlocks(k)
  BY <1>1, <1>2, <1>3
<1>5. Len(new) <= NSets
  BY <1>2 DEF SetIndices
<1>6. new \in BlockLists
  BY <1>2, <1>4, <1>5 DEF BlockLists
<1>. QED
  BY <1>6 DEF PartialItem

\* The blocks of a full item, one for each CidrSet.
LEMMA FullItemTypes ==
  ASSUME NEW item \in FullItem
  PROVE  /\ item.node \in Nodes /\ item.blocks \in BlockLists
         /\ item # NoItem /\ item.node # NoNode
         /\ \A k \in SetIndices : item.blocks[k] \in NodeBlocks(k)
<1>1. item.blocks \in BlockLists /\ Len(item.blocks) = NSets /\ item.node \in Nodes
  BY DEF FullItem, PartialItem
<1>2. DOMAIN item.blocks = SetIndices
  BY <1>1 DEF BlockLists, SetIndices
<1>. QED
  BY <1>1, <1>2, NoItemIsNone, NodesAssumption DEF BlockLists

\* An idle worker is told apart from a busy one.
LEMMA IdleIsNotBusy == Idle \notin BusyWorker /\ Idle.pc = "idle" /\ Idle.item = NoItem
BY DEF Idle, BusyWorker, Busy

\* A worker moves on with the item it has.
LEMMA GotoTyped ==
  ASSUME ItemsTypeOK, NEW w \in Workers, worker[w].pc # "idle",
         NEW pc \in Busy, NEW i \in Nat, Goto(w, pc, i)
  PROVE  /\ worker' \in [Workers -> BusyWorker \cup {Idle}]
         /\ \A v \in Workers : worker'[v].item = worker[v].item
         /\ worker'[w].pc = pc
<1>1. worker \in [Workers -> BusyWorker \cup {Idle}]
  BY DEF ItemsTypeOK, BusyWorker
<1>2. worker[w] \in BusyWorker
  BY <1>1, IdleIsNotBusy
<1>. DEFINE moved == [worker[w] EXCEPT !.pc = pc, !.i = i]
<1>. DEFINE jumped == [worker[w] EXCEPT !.pc = pc]
<1>3. moved = [pc |-> pc, item |-> worker[w].item, i |-> i]
  <2>1. jumped = [pc |-> pc, item |-> worker[w].item, i |-> worker[w].i]
    BY <1>2 DEF BusyWorker
  <2>. HIDE DEF jumped
  <2>2. [jumped EXCEPT !.i = i] = [pc |-> pc, item |-> worker[w].item, i |-> i]
    BY <2>1
  <2>. QED
    BY <2>2 DEF jumped
<1>4. moved \in BusyWorker
  BY <1>2, <1>3 DEF BusyWorker
<1>5. worker' = [worker EXCEPT ![w] = moved]
  BY <1>1 DEF Goto
<1>6. \A v \in Workers : worker'[v] = IF v = w THEN moved ELSE worker[v]
  BY <1>1, <1>5
<1>7. moved.item = worker[w].item /\ moved.pc = pc
  BY <1>3
<1>. HIDE DEF moved
<1>8. worker' \in [Workers -> BusyWorker \cup {Idle}]
  BY <1>1, <1>4, <1>5
<1>. QED
  BY <1>6, <1>7, <1>8

-----------------------------------------------------------------------------
\* TypeOK is inductive, one group of actions after the other.

\* What an action leaves alone keeps its type.
LEMMA Kept ==
  /\ ApiTypeOK /\ UNCHANGED api => ApiTypeOK'
  /\ InformerTypeOK /\ UNCHANGED informer => InformerTypeOK'
  /\ StartTypeOK /\ UNCHANGED start => StartTypeOK'
  /\ SetsTypeOK /\ UNCHANGED sets => SetsTypeOK'
  /\ ItemsTypeOK /\ UNCHANGED <<nodesInProcessing, handler, queue, worker>>
       => ItemsTypeOK'
BY DEF api, informer, start, ApiTypeOK, InformerTypeOK, StartTypeOK, SetsTypeOK,
       ItemsTypeOK

\* The empty stores, buffers and channels of a new process have their types.
LEMMA EmptyTyped ==
  /\ <<>> \in Seq(CIDR) /\ <<>> \in Seq(EventType) /\ <<>> \in Seq(FullItem)
  /\ EmptyCache \in [Nodes -> Seq(CIDR)]
  /\ AllIdle \in [Workers -> BusyWorker \cup {Idle}]
BY EmptySeq DEF EmptyCache, AllIdle

\* The first process starts in the types.
LEMMA InitTyped == Init => TypeOK
<1>. SUFFICES ASSUME Init
              PROVE  TypeOK
  OBVIOUS
<1>1. ApiTypeOK
  <2>1. podCIDRs \in [Nodes -> Seq(CIDR)]
    BY LeftoverTyped DEF Init
  <2>. QED
    BY <2>1 DEF Init, ApiTypeOK
<1>2. InformerTypeOK
  BY EmptyTyped DEF Init, InformerTypeOK
<1>3. StartTypeOK
  BY DEF Init, StartTypeOK
<1>4. SetsTypeOK
  <2>1. \A k \in SetIndices : sets[k] = NewCIDRSet(ClusterCIDRs[k].maxCIDRs)
    BY DEF Init, NewSets
  <2>2. \A k \in SetIndices : sets[k] \in CidrSetState(ClusterCIDRs[k].maxCIDRs)
    BY <2>1, ClusterTypes, NewTyped
  <2>. QED
    BY <2>2 DEF Init, SetsTypeOK, NewSets
<1>5. ItemsTypeOK
  BY EmptyTyped DEF Init, ItemsTypeOK, BusyWorker
<1>. QED
  BY <1>1, <1>2, <1>3, <1>4, <1>5 DEF TypeOK, Init

\* So does each that follows.
LEMMA RestartTyped == TypeOK /\ Restart => TypeOK'
<1>. SUFFICES ASSUME TypeOK, Restart
              PROVE  TypeOK'
  OBVIOUS
<1>1. ApiTypeOK'
  BY Kept DEF TypeOK, Restart
<1>2. InformerTypeOK'
  BY EmptyTyped DEF Restart, InformerTypeOK
<1>3. StartTypeOK'
  BY DEF Restart, StartTypeOK
<1>4. SetsTypeOK'
  BY NewSetsTyped DEF Restart
<1>5. ItemsTypeOK'
  BY EmptyTyped DEF Restart, ItemsTypeOK, BusyWorker
<1>. QED
  BY <1>1, <1>2, <1>3, <1>4, <1>5 DEF TypeOK, Restart

\* Another replica gives a node one of the lists nodes start with.
LEMMA OtherAssignsTyped ==
  ASSUME TypeOK, NEW n \in Nodes, OtherAssigns(n)
  PROVE  ApiTypeOK' /\ InformerTypeOK' /\ StartTypeOK' /\ SetsTypeOK' /\ ItemsTypeOK'
<1>1. PICK cidrs \in Leftover \ {<<>>} : podCIDRs' = [podCIDRs EXCEPT ![n] = cidrs]
  BY DEF OtherAssigns
<1>2. podCIDRs' \in [Nodes -> Seq(CIDR)]
  BY <1>1, LeftoverTyped DEF TypeOK, ApiTypeOK
<1>3. ApiTypeOK'
  BY <1>2 DEF OtherAssigns, TypeOK, ApiTypeOK
<1>. QED
  BY <1>3, Kept DEF OtherAssigns, TypeOK

\* What happens to nodes, and what is observed of it, keeps the types.
LEMMA NodeStepTyped ==
  ASSUME TypeOK, NEW n \in Nodes, NodeStep(n) \/ LateWrite(n)
  PROVE  TypeOK'
<1>. USE DEF TypeOK
<1>1. CASE CreateNode(n)
  <2>1. ApiTypeOK'
    BY <1>1 DEF CreateNode, ApiTypeOK
  <2>. QED
    BY <1>1, <2>1, Kept DEF CreateNode, bounds
<1>2. CASE DeleteNode(n)
  <2>1. ApiTypeOK'
    BY <1>2, EmptyTyped DEF DeleteNode, ApiTypeOK
  <2>2. finalCIDRs' \in [Nodes -> Seq(CIDR)]
    BY <1>2 DEF DeleteNode, ApiTypeOK, InformerTypeOK
  <2>3. InformerTypeOK'
    BY <1>2, <2>2 DEF DeleteNode, InformerTypeOK
  <2>. QED
    BY <1>2, <2>1, <2>3, Kept DEF DeleteNode, bounds
<1>. DEFINE Told ==
       \/ events' = Append(events, Event("add", n, podCIDRs[n]))
       \/ \E cidrs \in DeletedCIDRs(n) :
            events' = Append(events, Event("delete", n, cidrs))
       \/ events' = Append(events, Event("update", n, podCIDRs[n]))
       \/ events' = Append(events, Event("update", n, <<>>))
<1>3. Told => events' \in Seq(EventType)
  <2>1. \A type \in {"add", "update", "delete"}, cidrs \in Seq(CIDR) :
          Event(type, n, cidrs) \in EventType
    BY DEF Event, EventType
  <2>2. \A e \in EventType : Append(events, e) \in Seq(EventType)
    BY DEF InformerTypeOK
  <2>3. DeletedCIDRs(n) \subseteq Seq(CIDR)
    BY DEF DeletedCIDRs, InformerTypeOK
  <2>. QED
    BY <2>1, <2>2, <2>3, EmptyTyped DEF ApiTypeOK, InformerTypeOK
<1>4. CASE Observe(n)
  <2>1. /\ cached' \subseteq Nodes /\ cachedCIDRs' \in [Nodes -> Seq(CIDR)]
        /\ finalCIDRs' \in [Nodes -> Seq(CIDR)]
    BY <1>4, EmptyTyped DEF Observe, ApiTypeOK, InformerTypeOK
  <2>2. InformerTypeOK'
    BY <1>3, <1>4, <2>1 DEF Observe, InformerTypeOK
  <2>. QED
    BY <1>4, <2>2, Kept DEF Observe, bounds
<1>5. CASE Heartbeat(n)
  <2>1. InformerTypeOK'
    BY <1>3, <1>5 DEF Heartbeat, InformerTypeOK
  <2>. QED
    BY <1>5, <2>1, Kept DEF Heartbeat, bounds
<1>6. CASE LeaderAssigns(n) \/ LateWrite(n)
  <2>1. faults' \in Nat /\ restarts' \in Nat
    BY <1>6 DEF LeaderAssigns, LateWrite, Fault, bounds
  <2>. QED
    BY <1>6, <2>1, OtherAssignsTyped DEF LeaderAssigns, LateWrite
<1>. QED
  BY <1>1, <1>2, <1>4, <1>5, <1>6 DEF NodeStep

\* The steps of Start keep the types.
LEMMA StartStepTyped == TypeOK /\ StartStep => TypeOK'
<1>. SUFFICES ASSUME TypeOK, StartStep
              PROVE  TypeOK'
  OBVIOUS
<1>. USE DEF TypeOK
<1>1. CASE InformerList
  <2>1. PICK order \in SetToSeqs(exists) :
          events' = [k \in DOMAIN order |-> Event("add", order[k], podCIDRs[order[k]])]
    BY <1>1 DEF InformerList
  <2>2. Cardinality(exists) \in Nat
    BY NodesAssumption, FS_Subset, FS_CardinalityType DEF ApiTypeOK
  <2>3. order \in [1 .. Cardinality(exists) -> exists]
    BY DEF SetToSeqs
  <2>4. \A k \in 1 .. Cardinality(exists) :
          Event("add", order[k], podCIDRs[order[k]]) \in EventType
    BY <2>3 DEF Event, EventType, ApiTypeOK
  <2>5. events' \in [1 .. Cardinality(exists) -> EventType]
    BY <2>1, <2>3, <2>4
  <2>6. events' \in Seq(EventType)
    BY <2>2, <2>5, FunctionIsSeq
  <2>7. InformerTypeOK' /\ StartTypeOK'
    BY <1>1, <2>6 DEF InformerList, InformerTypeOK, ApiTypeOK, StartTypeOK
  <2>. QED
    BY <1>1, <2>7, Kept DEF InformerList, bounds
<1>2. CASE ReconcileList
  <2>1. StartTypeOK'
    BY <1>2 DEF ReconcileList, StartTypeOK, ApiTypeOK
  <2>. QED
    BY <1>2, <2>1, Kept DEF ReconcileList, bounds
<1>3. CASE OccupyListed
  <2>1. PICK cidrs \in toOccupy :
          /\ OccupyNode(cidrs)
          /\ toOccupy' = toOccupy \ {cidrs}
          /\ phase' = IF Fails(cidrs) THEN "failed" ELSE phase
    BY <1>3 DEF OccupyListed
  <2>2. StartTypeOK'
    BY <2>1 DEF StartTypeOK
  <2>3. SetsTypeOK'
    BY <2>1, OccupyNodeTyped DEF StartTypeOK
  <2>. QED
    BY <1>3, <2>2, <2>3, Kept DEF OccupyListed, bounds
<1>4. CASE ReconcileDone
  <2>1. StartTypeOK'
    BY <1>4 DEF ReconcileDone, StartTypeOK
  <2>. QED
    BY <1>4, <2>1, Kept DEF ReconcileDone, bounds
<1>5. CASE ReconcileListFails
  <2>1. StartTypeOK' /\ faults' \in Nat /\ restarts' \in Nat
    BY <1>5 DEF ReconcileListFails, Fault, StartTypeOK
  <2>. QED
    BY <1>5, <2>1, Kept DEF ReconcileListFails
<1>. QED
  BY <1>1, <1>2, <1>3, <1>4, <1>5 DEF StartStep

\* The event at the head, and the rest.
LEMMA HandledTyped ==
  ASSUME InformerTypeOK, HasEvent
  PROVE  /\ Head(events).node \in Nodes /\ Head(events).cidrs \in Seq(CIDR)
         /\ Handled => InformerTypeOK'
<1>1. Head(events) \in EventType /\ Tail(events) \in Seq(EventType)
  BY HeadTailProperties DEF InformerTypeOK, HasEvent
<1>. QED
  BY <1>1 DEF EventType, Handled, InformerTypeOK

\* An item goes into the channel with a block of each cluster CIDR.
LEMMA EnqueuedIsFull ==
  ASSUME ItemsTypeOK, Enqueue
  PROVE  handler \in FullItem
<1>1. handler \in PartialItem /\ Len(handler.blocks) + 1 = NSets + 1
  BY DEF Enqueue, NextSet, ItemsTypeOK
<1>2. Len(handler.blocks) \in Nat
  BY <1>1 DEF PartialItem, BlockLists
<1>. QED
  BY <1>1, <1>2, ClusterTypes DEF FullItem

\* The steps of the handler goroutine keep the types.
LEMMA HandlerStepTyped == TypeOK /\ HandlerStep => TypeOK'
<1>. SUFFICES ASSUME TypeOK, HandlerStep
              PROVE  TypeOK'
  OBVIOUS
<1>. USE DEF TypeOK
<1>1. CASE HandleIgnored
  BY <1>1, HandledTyped, Kept DEF HandleIgnored, bounds
<1>2. CASE HandleNodeWithCIDRs
  <2>1. SetsTypeOK'
    BY <1>2, HandledTyped, OccupyNodeTyped DEF HandleNodeWithCIDRs
  <2>. QED
    BY <1>2, <2>1, HandledTyped, Kept DEF HandleNodeWithCIDRs, bounds
<1>3. CASE HandleNodeWithoutCIDRs
  <2>1. ItemsTypeOK'
    BY <1>3, HandledTyped, NewItemTyped DEF HandleNodeWithoutCIDRs, ItemsTypeOK
  <2>. QED
    BY <1>3, <2>1, HandledTyped, Kept DEF HandleNodeWithoutCIDRs, bounds
<1>4. CASE HandleDelete
  <2>1. SetsTypeOK'
    BY <1>4, ReleaseNodeTyped DEF HandleDelete
  <2>. QED
    BY <1>4, <2>1, HandledTyped, Kept DEF HandleDelete, bounds
<1>5. CASE AllocateCIDR
  <2>. DEFINE s == sets[NextSet]
  <2>1. NextSet \in SetIndices /\ handler \in PartialItem
    BY <1>5 DEF AllocateCIDR, Allocating, ItemsTypeOK
  <2>2. /\ AllocateNext(s) \in CidrSetState(ClusterCIDRs[NextSet].maxCIDRs)
        /\ Candidate(s) \in NodeBlocks(NextSet)
    BY <2>1, ClusterTypes, NodeBlocksTypes, AllocateTyped DEF SetsTypeOK
  <2>3. sets' = [sets EXCEPT ![NextSet] = AllocateNext(s)]
    BY <1>5 DEF AllocateCIDR
  <2>4. SetsTypeOK'
    BY <2>1, <2>2, <2>3, OneSetTyped
  <2>5. handler' \in PartialItem
    BY <1>5, <2>1, <2>2, LongerItemTyped DEF AllocateCIDR, NextSet
  <2>6. ItemsTypeOK'
    BY <1>5, <2>5 DEF AllocateCIDR, ItemsTypeOK
  <2>. QED
    BY <1>5, <2>4, <2>6, Kept DEF AllocateCIDR, bounds
<1>6. CASE AllocateFails
  <2>1. ItemsTypeOK'
    BY <1>6 DEF AllocateFails, ItemsTypeOK
  <2>. QED
    BY <1>6, <2>1, Kept DEF AllocateFails, bounds
<1>7. CASE Enqueue
  <2>1. Append(queue, handler) \in Seq(FullItem)
    BY <1>7, EnqueuedIsFull DEF ItemsTypeOK
  <2>2. ItemsTypeOK'
    BY <1>7, <2>1 DEF Enqueue, ItemsTypeOK
  <2>. QED
    BY <1>7, <2>2, Kept DEF Enqueue, bounds
<1>. QED
  BY <1>1, <1>2, <1>3, <1>4, <1>5, <1>6, <1>7 DEF HandlerStep

\* A worker that only moves on keeps the types of the items.
LEMMA MovedTyped ==
  ASSUME ItemsTypeOK, NEW w \in Workers, worker[w].pc # "idle",
         NEW pc \in Busy, NEW i \in Nat, Goto(w, pc, i),
         UNCHANGED <<nodesInProcessing, handler, queue>>
  PROVE  ItemsTypeOK'
<1>1. worker' \in [Workers -> BusyWorker \cup {Idle}]
  BY GotoTyped
<1>. QED
  BY <1>1 DEF ItemsTypeOK, BusyWorker

\* A busy worker has an item of a node, and a loop counter.
LEMMA BusyTyped ==
  ASSUME ItemsTypeOK, NEW w \in Workers, worker[w].pc # "idle"
  PROVE  /\ worker[w] \in BusyWorker
         /\ ItemOf(w) \in FullItem /\ worker[w].i \in Nat
<1>1. worker[w] \in BusyWorker
  BY IdleIsNotBusy DEF ItemsTypeOK, BusyWorker
<1>. QED
  BY <1>1 DEF BusyWorker, ItemOf

\* A failed patch moves the worker: to the next try or to a release.
LEMMA PatchErrorMoves ==
  ASSUME ItemsTypeOK, NEW w \in Workers, worker[w].pc # "idle", NEW reason,
         PatchError(w, reason)
  PROVE  \E pc \in Busy, i \in Nat : Goto(w, pc, i)
<1>1. worker[w].i \in Nat
  BY BusyTyped
<1>2. "patch" \in Busy /\ "requeue" \in Busy /\ "giveUp" \in Busy
  BY DEF Busy
<1>3. CASE worker[w].i < CidrUpdateRetries
  <2>1. Goto(w, "patch", worker[w].i + 1)
    BY <1>3 DEF PatchError
  <2>. QED
    BY <1>1, <1>2, <2>1
<1>4. CASE ~(worker[w].i < CidrUpdateRetries)
  <2>1. Goto(w, "requeue", 0) \/ Goto(w, "giveUp", 1)
    BY <1>4 DEF PatchError
  <2>. QED
    BY <1>2, <2>1
<1>. QED
  BY <1>3, <1>4

\* An applied patch leaves a list of CIDRs in the node.
LEMMA AppliedIsTyped ==
  ASSUME TypeOK, NEW w \in Workers, worker[w].pc # "idle", Apply(w)
  PROVE  ApiTypeOK'
<1>1. ItemOf(w).blocks \in BlockLists
  BY BusyTyped, FullItemTypes DEF TypeOK
<1>2. Wanted(w) \in Seq(CIDR)
  BY <1>1, ProposedTyped, PatchedTyped DEF Wanted
<1>. QED
  BY <1>2 DEF TypeOK, ApiTypeOK, Apply

\* A worker lays its item down, or picks one up.
LEMMA WorkerSet ==
  ASSUME ItemsTypeOK, NEW w \in Workers, NEW s \in BusyWorker \cup {Idle},
         worker' = [worker EXCEPT ![w] = s]
  PROVE  worker' \in [Workers -> BusyWorker \cup {Idle}]
BY DEF ItemsTypeOK, BusyWorker

\* The steps of a worker keep the types, with faults or without.
LEMMA WorkerStepTyped ==
  ASSUME TypeOK, NEW w \in Workers, WorkerStep(w) \/ FaultStep(w)
  PROVE  TypeOK'
<1>. USE DEF TypeOK
<1>. "get" \in Busy /\ "done" \in Busy /\ "giveBack" \in Busy /\ "requeue" \in Busy
     /\ "patch" \in Busy /\ "giveUp" \in Busy
  BY DEF Busy
<1>1. CASE Take(w)
  <2>1. Head(queue) \in FullItem /\ Tail(queue) \in Seq(FullItem)
    BY <1>1, HeadTailProperties DEF Take, ItemsTypeOK
  <2>2. [pc |-> "get", item |-> Head(queue), i |-> 0] \in BusyWorker
    BY <2>1 DEF BusyWorker
  <2>3. worker' \in [Workers -> BusyWorker \cup {Idle}]
    BY <1>1, <2>2, WorkerSet DEF Take
  <2>4. ItemsTypeOK'
    BY <1>1, <2>1, <2>3 DEF Take, ItemsTypeOK, BusyWorker
  <2>. QED
    BY <1>1, <2>4, Kept DEF Take, bounds
<1>2. CASE GetNode(w)
  <2>1. worker[w].pc # "idle"
    BY <1>2 DEF GetNode, At
  <2>2. \E pc \in Busy, i \in Nat : Goto(w, pc, i)
    BY <1>2 DEF GetNode, AfterGet
  <2>3. ItemsTypeOK'
    BY <1>2, <2>1, <2>2, MovedTyped DEF GetNode
  <2>. QED
    BY <1>2, <2>3, Kept DEF GetNode, bounds
<1>3. CASE PatchNode(w)
  <2>1. worker[w].pc # "idle"
    BY <1>3 DEF PatchNode, At
  <2>2. ApiTypeOK'
    BY <1>3, <2>1, AppliedIsTyped DEF PatchNode
  <2>3. ItemsTypeOK'
    BY <1>3, <2>1, MovedTyped DEF PatchNode
  <2>. QED
    BY <1>3, <2>2, <2>3, Kept DEF PatchNode, bounds
<1>4. CASE PatchRejected(w)
  <2>1. worker[w].pc # "idle"
    BY <1>4 DEF PatchRejected, At
  <2>2. ItemsTypeOK'
    BY <1>4, <2>1, PatchErrorMoves, MovedTyped DEF PatchRejected
  <2>. QED
    BY <1>4, <2>2, Kept DEF PatchRejected, bounds
<1>5. CASE ReleaseReserved(w)
  <2>. DEFINE k == worker[w].i
              s == Release(sets[k], {ItemOf(w).blocks[k]})
  <2>1. worker[w].pc # "idle" /\ k \in SetIndices /\ worker[w].pc \in Busy
    BY <1>5 DEF ReleaseReserved, At
  <2>2. s \in CidrSetState(ClusterCIDRs[k].maxCIDRs)
    BY <2>1, ClusterTypes, ReleaseTyped DEF SetsTypeOK
  <2>3. sets' = [sets EXCEPT ![k] = s]
    BY <1>5 DEF ReleaseReserved
  <2>4. SetsTypeOK'
    BY <2>1, <2>2, <2>3, OneSetTyped
  <2>5. k + 1 \in Nat
    BY <2>1, BusyTyped
  <2>6. ItemsTypeOK'
    BY <1>5, <2>1, <2>5, MovedTyped DEF ReleaseReserved
  <2>. QED
    BY <1>5, <2>4, <2>6, Kept DEF ReleaseReserved, bounds
<1>6. CASE Done(w)
  <2>1. worker' \in [Workers -> BusyWorker \cup {Idle}]
    BY <1>6, WorkerSet DEF Done
  <2>2. ItemsTypeOK'
    BY <1>6, <2>1 DEF Done, ItemsTypeOK, BusyWorker
  <2>. QED
    BY <1>6, <2>2, Kept DEF Done, bounds
<1>7. CASE Requeue(w)
  <2>1. worker[w].pc # "idle"
    BY <1>7 DEF Requeue, At
  <2>2. Append(queue, ItemOf(w)) \in Seq(FullItem)
    BY <2>1, BusyTyped DEF ItemsTypeOK
  <2>3. worker' \in [Workers -> BusyWorker \cup {Idle}]
    BY <1>7, WorkerSet DEF Requeue
  <2>4. ItemsTypeOK'
    BY <1>7, <2>2, <2>3 DEF Requeue, ItemsTypeOK, BusyWorker
  <2>. QED
    BY <1>7, <2>4, Kept DEF Requeue, bounds
<1>8. CASE GetNodeFails(w)
  <2>1. worker[w].pc # "idle" /\ faults' \in Nat
    BY <1>8 DEF GetNodeFails, At, Fault
  <2>2. ItemsTypeOK'
    BY <1>8, <2>1, MovedTyped DEF GetNodeFails
  <2>. QED
    BY <1>8, <2>1, <2>2, Kept DEF GetNodeFails, Fault
<1>9. CASE PatchLost(w)
  <2>1. worker[w].pc # "idle" /\ faults' \in Nat
    BY <1>9 DEF PatchLost, At, Fault
  <2>2. ItemsTypeOK'
    BY <1>9, <2>1, PatchErrorMoves, MovedTyped DEF PatchLost
  <2>. QED
    BY <1>9, <2>1, <2>2, Kept DEF PatchLost, Fault
<1>10. CASE PatchUnacked(w)
  <2>1. worker[w].pc # "idle" /\ faults' \in Nat
    BY <1>10 DEF PatchUnacked, At, Fault
  <2>2. ApiTypeOK'
    BY <1>10, <2>1, AppliedIsTyped DEF PatchUnacked
  <2>3. ItemsTypeOK'
    BY <1>10, <2>1, PatchErrorMoves, MovedTyped DEF PatchUnacked
  <2>. QED
    BY <1>10, <2>1, <2>2, <2>3, Kept DEF PatchUnacked, Fault
<1>. QED
  BY <1>1, <1>2, <1>3, <1>4, <1>5, <1>6, <1>7, <1>8, <1>9, <1>10
     DEF WorkerStep, FaultStep

\* Every step keeps the types.
LEMMA NextTyped == TypeOK /\ [Next]_vars => TypeOK'
<1>. SUFFICES ASSUME TypeOK, [Next]_vars
              PROVE  TypeOK'
  OBVIOUS
<1>1. CASE UNCHANGED vars
  BY <1>1, Kept DEF vars, bounds, TypeOK
<1>. QED
  BY <1>1, RestartTyped, NodeStepTyped, HandlerStepTyped, StartStepTyped,
     WorkerStepTyped DEF Next

(***************************************************************************)
(* The state of the controller has its types: among others, every CidrSet  *)
(* keeps its shape, and an item in the channel or with a worker has one    *)
(* block of each cluster CIDR, so that the loops that release the blocks   *)
(* of an item find one at each index.                                      *)
(***************************************************************************)
THEOREM TypeCorrect == Spec => []TypeOK
BY InitTyped, NextTyped, PTL DEF Spec

-----------------------------------------------------------------------------
\* One item per node: with the types, OneItemPerNode is inductive.

\* A worker in no busy state has no item.
LEMMA IdleTyped ==
  ASSUME ItemsTypeOK, NEW w \in Workers
  PROVE  /\ worker[w].pc = "idle" => ItemOf(w) = NoItem
         /\ ItemOf(w) = NoItem \/ ItemOf(w) \in FullItem
         /\ ItemOf(w).node \in Nodes \cup {NoNode}
         /\ ItemOf(w) = NoItem <=> ItemOf(w).node = NoNode
<1>1. worker[w] \in BusyWorker \cup {Idle}
  BY DEF ItemsTypeOK, BusyWorker
<1>2. CASE worker[w] = Idle
  BY <1>2, IdleIsNotBusy, NoItemIsNone DEF ItemOf
<1>3. CASE worker[w] \in BusyWorker
  <2>1. worker[w].pc # "idle" /\ ItemOf(w) \in FullItem
    BY <1>3 DEF BusyWorker, Busy, ItemOf
  <2>. QED
    BY <2>1, FullItemTypes
<1>. QED
  BY <1>1, <1>2, <1>3

\* The items in the channel are full, so each is of a node.
LEMMA QueueTyped ==
  ASSUME ItemsTypeOK
  PROVE  /\ Len(queue) \in Nat /\ DOMAIN queue = 1 .. Len(queue)
         /\ \A k \in DOMAIN queue : queue[k] \in FullItem /\ queue[k].node \in Nodes
         /\ NoNode \notin QueuedNodes
<1>1. Len(queue) \in Nat /\ DOMAIN queue = 1 .. Len(queue)
  BY LenProperties DEF ItemsTypeOK
<1>2. \A k \in DOMAIN queue : queue[k] \in FullItem
  BY <1>1, ElementOfSeq DEF ItemsTypeOK
<1>3. \A k \in DOMAIN queue : queue[k].node \in Nodes /\ queue[k].node # NoNode
  BY <1>2, FullItemTypes
<1>. QED
  BY <1>1, <1>2, <1>3 DEF QueuedNodes

Distinct(q) == \A k, l \in DOMAIN q : q[k].node = q[l].node => k = l

\* An item whose node is not in the channel goes into it.
LEMMA Queued ==
  ASSUME ItemsTypeOK, NEW item \in FullItem, item.node \notin QueuedNodes,
         Distinct(queue), queue' = Append(queue, item)
  PROVE  QueuedNodes' = QueuedNodes \cup {item.node} /\ Distinct(queue')
<1>1. /\ Len(queue) \in Nat /\ DOMAIN queue = 1 .. Len(queue)
      /\ DOMAIN queue' = 1 .. Len(queue) + 1
      /\ \A k \in 1 .. Len(queue) : queue'[k] = queue[k]
      /\ queue'[Len(queue) + 1] = item
  BY QueueTyped DEF ItemsTypeOK
<1>2. DOMAIN queue' = DOMAIN queue \cup {Len(queue) + 1} /\ Len(queue) + 1 \notin DOMAIN queue
  BY <1>1
<1>3. \A k \in DOMAIN queue : queue'[k] = queue[k] /\ queue[k].node # item.node
  BY <1>1 DEF QueuedNodes
<1>4. QueuedNodes' = QueuedNodes \cup {item.node}
  BY <1>1, <1>2, <1>3 DEF QueuedNodes
<1>5. Distinct(queue')
  BY <1>1, <1>2, <1>3 DEF Distinct
<1>. QED
  BY <1>4, <1>5

\* The first item leaves the channel.
LEMMA Dequeued ==
  ASSUME ItemsTypeOK, queue # <<>>, Distinct(queue), queue' = Tail(queue)
  PROVE  /\ QueuedNodes = QueuedNodes' \cup {Head(queue).node}
         /\ Head(queue).node \notin QueuedNodes'
         /\ Distinct(queue') /\ Head(queue) \in FullItem
<1>1. /\ Len(queue) \in Nat \ {0} /\ DOMAIN queue = 1 .. Len(queue)
      /\ DOMAIN queue' = 1 .. Len(queue) - 1
      /\ \A k \in 1 .. Len(queue) - 1 : queue'[k] = queue[k + 1]
      /\ Head(queue) = queue[1] /\ queue[1] \in FullItem
  BY QueueTyped, EmptySeq, HeadTailProperties DEF ItemsTypeOK
<1>2. /\ 1 \in DOMAIN queue
      /\ \A k \in DOMAIN queue' : k + 1 \in DOMAIN queue /\ k + 1 # 1
      /\ \A k \in DOMAIN queue : k # 1 => k - 1 \in DOMAIN queue' /\ queue'[k - 1] = queue[k]
  BY <1>1
<1>3. \A k \in DOMAIN queue' : queue'[k].node # queue[1].node
  BY <1>1, <1>2 DEF Distinct
<1>4. \A n \in QueuedNodes : n = queue[1].node \/ n \in QueuedNodes'
  BY <1>2 DEF QueuedNodes
<1>5. \A n \in QueuedNodes' : n \in QueuedNodes /\ n # queue[1].node
  BY <1>1, <1>2, <1>3 DEF QueuedNodes
<1>6. \A k, l \in DOMAIN queue' : queue'[k].node = queue'[l].node => k = l
  BY <1>1, <1>2 DEF Distinct
<1>7. QueuedNodes = QueuedNodes' \cup {queue[1].node} /\ queue[1].node \notin QueuedNodes'
  <2>1. queue[1].node \in QueuedNodes
    BY <1>2 DEF QueuedNodes
  <2>. QED
    BY <2>1, <1>4, <1>5
<1>8. Distinct(queue')
  BY <1>6 DEF Distinct
<1>. QED
  BY <1>1, <1>7, <1>8

DistinctWorkers ==
  \A w, v \in Workers : ItemOf(w) # NoItem /\ ItemOf(w).node = ItemOf(v).node => w = v

BusyNodes == WorkedNodes \ {NoNode}

\* An idle worker picks up an item whose node no worker has.
LEMMA PickedUp ==
  ASSUME ItemsTypeOK, DistinctWorkers, NEW w \in Workers, ItemOf(w) = NoItem,
         NEW s \in BusyWorker, s.item.node \notin WorkedNodes,
         worker' = [worker EXCEPT ![w] = s]
  PROVE  BusyNodes' = BusyNodes \cup {s.item.node} /\ DistinctWorkers'
<1>1. \A v \in Workers : ItemOf(v)' = IF v = w THEN s.item ELSE ItemOf(v)
  BY DEF ItemsTypeOK, ItemOf
<1>2. s.item.node # NoNode /\ s.item # NoItem /\ NoItem.node = NoNode
  BY FullItemTypes, NoItemIsNone DEF BusyWorker
<1>3. \A v \in Workers : ItemOf(v).node # s.item.node
  BY DEF WorkedNodes
<1>4. BusyNodes' = BusyNodes \cup {s.item.node}
  BY <1>1, <1>2 DEF BusyNodes, WorkedNodes
<1>5. DistinctWorkers'
  BY <1>1, <1>3 DEF DistinctWorkers
<1>. QED
  BY <1>4, <1>5

\* A worker lays its item down.
LEMMA LaidDown ==
  ASSUME ItemsTypeOK, DistinctWorkers, NEW w \in Workers, ItemOf(w) # NoItem,
         worker' = [worker EXCEPT ![w] = Idle]
  PROVE  BusyNodes' = BusyNodes \ {ItemOf(w).node} /\ DistinctWorkers'
<1>1. \A v \in Workers : ItemOf(v)' = IF v = w THEN NoItem ELSE ItemOf(v)
  BY IdleIsNotBusy DEF ItemsTypeOK, ItemOf
<1>2. NoItem.node = NoNode /\ ItemOf(w).node # NoNode
  BY NoItemIsNone, IdleTyped
<1>3. \A v \in Workers : v # w => ItemOf(v).node # ItemOf(w).node
  BY DEF DistinctWorkers
<1>4. BusyNodes' = BusyNodes \ {ItemOf(w).node}
  BY <1>1, <1>2, <1>3 DEF BusyNodes, WorkedNodes
<1>5. DistinctWorkers'
  BY <1>1, <1>2, IdleTyped DEF DistinctWorkers
<1>. QED
  BY <1>4, <1>5

\* OneItemPerNode, with NoNode out of the way.
HandlerNode == {handler.node} \ {NoNode}

OneItem ==
  /\ nodesInProcessing = HandlerNode \cup QueuedNodes \cup BusyNodes
  /\ HandlerNode \cap QueuedNodes = {}
  /\ HandlerNode \cap BusyNodes = {}
  /\ QueuedNodes \cap BusyNodes = {}
  /\ Distinct(queue) /\ DistinctWorkers

\* The handler has an item exactly when it has one of a node.
LEMMA HandlerTyped ==
  ASSUME ItemsTypeOK
  PROVE  handler = NoItem <=> handler.node = NoNode
<1>1. handler \in PartialItem => handler.node \in Nodes
  BY DEF PartialItem
<1>. QED
  BY <1>1, NoItemIsNone, NodesAssumption DEF ItemsTypeOK

\* The three disjoint places are another way to count the items.
LEMMA OneItemIsOneItemPerNode ==
  ASSUME ItemsTypeOK
  PROVE  OneItem <=> OneItemPerNode
<1>1. NoNode \notin QueuedNodes
  BY QueueTyped
<1>. QED
  BY <1>1, HandlerTyped
     DEF OneItem, OneItemPerNode, HandlerNode, BusyNodes, InFlight, Distinct,
         DistinctWorkers

\* The items stay where they are.
LEMMA ItemsStay ==
  ASSUME OneItem, UNCHANGED <<nodesInProcessing, queue>>, handler'.node = handler.node,
         \A w \in Workers : ItemOf(w)' = ItemOf(w)
  PROVE  OneItem'
<1>1. /\ HandlerNode' = HandlerNode /\ QueuedNodes' = QueuedNodes
      /\ BusyNodes' = BusyNodes
  BY DEF HandlerNode, QueuedNodes, BusyNodes, WorkedNodes
<1>2. Distinct(queue)' /\ DistinctWorkers'
  BY DEF OneItem, Distinct, DistinctWorkers
<1>. QED
  BY <1>1, <1>2 DEF OneItem

\* The first process has no item, and no node in processing.
LEMMA InitOneItem == Init => OneItem
<1>. SUFFICES ASSUME Init
              PROVE  OneItem
  OBVIOUS
<1>1. HandlerNode = {} /\ QueuedNodes = {} /\ Distinct(queue)
  BY NoItemIsNone DEF Init, HandlerNode, QueuedNodes, Distinct
<1>2. \A w \in Workers : ItemOf(w) = NoItem
  BY IdleIsNotBusy DEF Init, AllIdle, ItemOf
<1>3. BusyNodes = {} /\ DistinctWorkers
  BY <1>2, NoItemIsNone DEF BusyNodes, WorkedNodes, DistinctWorkers
<1>. QED
  BY <1>1, <1>3 DEF Init, OneItem

\* Nor has any that follows.
LEMMA RestartOneItem == Restart => OneItem'
<1>. SUFFICES ASSUME Restart
              PROVE  OneItem'
  OBVIOUS
<1>1. HandlerNode' = {} /\ QueuedNodes' = {} /\ Distinct(queue)'
  BY NoItemIsNone DEF Restart, HandlerNode, QueuedNodes, Distinct
<1>2. \A w \in Workers : ItemOf(w)' = NoItem
  BY IdleIsNotBusy DEF Restart, AllIdle, ItemOf
<1>3. BusyNodes' = {} /\ DistinctWorkers'
  BY <1>2, NoItemIsNone DEF BusyNodes, WorkedNodes, DistinctWorkers
<1>. QED
  BY <1>1, <1>3 DEF Restart, OneItem

\* The handler inserts a node with its item, or gives both up.
LEMMA HandlerOneItem == TypeOK /\ OneItem /\ HandlerStep => OneItem'
<1>. SUFFICES ASSUME TypeOK, OneItem, HandlerStep
              PROVE  OneItem'
  OBVIOUS
<1>. USE DEF TypeOK
<1>. UNCHANGED worker
  BY DEF HandlerStep, HandleIgnored, HandleNodeWithCIDRs, HandleNodeWithoutCIDRs,
         HandleDelete, AllocateCIDR, AllocateFails, Enqueue
<1>1. BusyNodes' = BusyNodes /\ (DistinctWorkers => DistinctWorkers')
  BY DEF BusyNodes, WorkedNodes, DistinctWorkers, ItemOf
<1>2. \A w \in Workers : ItemOf(w)' = ItemOf(w)
  BY DEF ItemOf
<1>3. CASE HandleIgnored \/ HandleNodeWithCIDRs \/ HandleDelete
  BY <1>2, <1>3, ItemsStay DEF HandleIgnored, HandleNodeWithCIDRs, HandleDelete
<1>4. CASE HandleNodeWithoutCIDRs
  <2>. DEFINE n == Head(events).node
  <2>1. /\ handler = NoItem /\ handler'.node = n /\ n \notin nodesInProcessing
        /\ nodesInProcessing' = nodesInProcessing \cup {n} /\ UNCHANGED queue
    BY <1>4 DEF HandleNodeWithoutCIDRs, HasEvent, Item
  <2>2. n \in Nodes /\ n # NoNode
    BY <1>4, HandledTyped, NodesAssumption DEF HandleNodeWithoutCIDRs
  <2>3. HandlerNode = {} /\ HandlerNode' = {n}
    BY <2>1, <2>2, NoItemIsNone DEF HandlerNode
  <2>4. QueuedNodes' = QueuedNodes /\ Distinct(queue)'
    BY <2>1 DEF QueuedNodes, OneItem
  <2>. QED
    BY <1>1, <2>1, <2>3, <2>4 DEF OneItem
<1>5. CASE AllocateCIDR
  <2>1. handler \in PartialItem
    BY <1>5 DEF AllocateCIDR, Allocating, ItemsTypeOK
  <2>2. handler'.node = handler.node
    BY <1>5, <2>1 DEF AllocateCIDR, PartialItem
  <2>. QED
    BY <1>2, <1>5, <2>2, ItemsStay DEF AllocateCIDR
<1>6. CASE AllocateFails
  <2>1. /\ nodesInProcessing' = nodesInProcessing \ {handler.node}
        /\ handler # NoItem /\ handler' = NoItem /\ UNCHANGED queue
    BY <1>6 DEF AllocateFails, Allocating
  <2>2. HandlerNode = {handler.node} /\ HandlerNode' = {}
    BY <2>1, HandlerTyped, NoItemIsNone DEF HandlerNode
  <2>3. QueuedNodes' = QueuedNodes /\ Distinct(queue)'
    BY <2>1 DEF QueuedNodes, OneItem
  <2>. QED
    BY <1>1, <2>1, <2>2, <2>3 DEF OneItem
<1>7. CASE Enqueue
  <2>1. /\ handler # NoItem /\ handler' = NoItem /\ UNCHANGED nodesInProcessing
        /\ queue' = Append(queue, handler)
    BY <1>7 DEF Enqueue
  <2>2. HandlerNode = {handler.node} /\ HandlerNode' = {}
    BY <2>1, HandlerTyped, NoItemIsNone DEF HandlerNode
  <2>3. QueuedNodes' = QueuedNodes \cup {handler.node} /\ Distinct(queue)'
    BY <1>7, <2>1, <2>2, EnqueuedIsFull, Queued DEF OneItem
  <2>. QED
    BY <1>1, <2>1, <2>2, <2>3 DEF OneItem
<1>. QED
  BY <1>3, <1>4, <1>5, <1>6, <1>7 DEF HandlerStep

\* A worker removes a node with its item, or keeps or puts back both.
LEMMA WorkerOneItem ==
  ASSUME TypeOK, OneItem, NEW w \in Workers, WorkerStep(w) \/ FaultStep(w)
  PROVE  OneItem'
<1>. USE DEF TypeOK
<1>. "get" \in Busy /\ "done" \in Busy /\ "giveBack" \in Busy /\ "requeue" \in Busy
     /\ "patch" \in Busy /\ "giveUp" \in Busy
  BY DEF Busy
<1>. UNCHANGED handler
  BY DEF WorkerStep, FaultStep, Take, GetNode, PatchNode, PatchRejected, ReleaseReserved,
         Done, Requeue, GetNodeFails, PatchLost, PatchUnacked
<1>1. HandlerNode' = HandlerNode
  BY DEF HandlerNode
\* A step that only moves the worker on.
<1>2. ASSUME worker[w].pc # "idle", UNCHANGED <<nodesInProcessing, queue>>,
             \E pc \in Busy, i \in Nat : Goto(w, pc, i)
      PROVE  OneItem'
  <2>1. \A v \in Workers : ItemOf(v)' = ItemOf(v)
    BY <1>2, GotoTyped DEF ItemOf
  <2>. QED
    BY <1>2, <2>1, ItemsStay
<1>3. CASE Take(w)
  <2>. DEFINE s == [pc |-> "get", item |-> Head(queue), i |-> 0]
  <2>1. /\ queue # <<>> /\ queue' = Tail(queue) /\ UNCHANGED nodesInProcessing
        /\ worker' = [worker EXCEPT ![w] = s] /\ ItemOf(w) = NoItem
    BY <1>3, IdleTyped DEF Take, At
  <2>2. /\ QueuedNodes = QueuedNodes' \cup {Head(queue).node}
        /\ Head(queue).node \notin QueuedNodes'
        /\ Distinct(queue)' /\ Head(queue) \in FullItem
    BY <2>1, Dequeued DEF OneItem, Distinct
  <2>3. s \in BusyWorker /\ s.item = Head(queue)
    BY <2>2 DEF BusyWorker
  <2>4. Head(queue).node \notin WorkedNodes
    BY <2>2, FullItemTypes DEF OneItem, BusyNodes
  <2>. HIDE DEF s
  <2>5. BusyNodes' = BusyNodes \cup {Head(queue).node} /\ DistinctWorkers'
    BY <2>1, <2>3, <2>4, PickedUp DEF OneItem
  <2>. QED
    BY <1>1, <2>1, <2>2, <2>5 DEF OneItem
<1>4. CASE GetNode(w) \/ PatchNode(w) \/ ReleaseReserved(w) \/ GetNodeFails(w)
  <2>1. worker[w].pc # "idle" /\ UNCHANGED <<nodesInProcessing, queue>>
    BY <1>4 DEF GetNode, PatchNode, ReleaseReserved, GetNodeFails, At
  <2>2. \E pc \in Busy, i \in Nat : Goto(w, pc, i)
    BY <1>4, <2>1, BusyTyped
       DEF GetNode, AfterGet, PatchNode, ReleaseReserved, GetNodeFails, At
  <2>. QED
    BY <1>2, <2>1, <2>2
<1>5. CASE PatchRejected(w) \/ PatchLost(w) \/ PatchUnacked(w)
  <2>1. worker[w].pc # "idle" /\ UNCHANGED <<nodesInProcessing, queue>>
    BY <1>5 DEF PatchRejected, PatchLost, PatchUnacked, At
  <2>2. \E pc \in Busy, i \in Nat : Goto(w, pc, i)
    BY <1>5, <2>1, PatchErrorMoves DEF PatchRejected, PatchLost, PatchUnacked
  <2>. QED
    BY <1>2, <2>1, <2>2
<1>6. ASSUME worker[w].pc # "idle", worker' = [worker EXCEPT ![w] = Idle]
      PROVE  /\ ItemOf(w) \in FullItem /\ ItemOf(w).node \in BusyNodes
             /\ BusyNodes' = BusyNodes \ {ItemOf(w).node} /\ DistinctWorkers'
  <2>1. ItemOf(w) \in FullItem
    BY <1>6, BusyTyped
  <2>2. ItemOf(w) # NoItem /\ ItemOf(w).node \in BusyNodes
    BY <2>1, FullItemTypes DEF BusyNodes, WorkedNodes
  <2>. QED
    BY <1>6, <2>1, <2>2, LaidDown DEF OneItem
<1>7. CASE Done(w)
  <2>1. /\ worker[w].pc # "idle" /\ worker' = [worker EXCEPT ![w] = Idle]
        /\ nodesInProcessing' = nodesInProcessing \ {ItemOf(w).node}
        /\ UNCHANGED queue
    BY <1>7 DEF Done, At
  <2>2. QueuedNodes' = QueuedNodes /\ Distinct(queue)'
    BY <2>1 DEF QueuedNodes, OneItem
  <2>. QED
    BY <1>1, <1>6, <2>1, <2>2 DEF OneItem
<1>8. CASE Requeue(w)
  <2>1. /\ worker[w].pc # "idle" /\ worker' = [worker EXCEPT ![w] = Idle]
        /\ UNCHANGED nodesInProcessing /\ queue' = Append(queue, ItemOf(w))
    BY <1>8 DEF Requeue, At
  <2>2. QueuedNodes' = QueuedNodes \cup {ItemOf(w).node} /\ Distinct(queue)'
    BY <1>6, <2>1, Queued DEF OneItem, Distinct
  <2>. QED
    BY <1>1, <1>6, <2>1, <2>2 DEF OneItem
<1>. QED
  BY <1>3, <1>4, <1>5, <1>7, <1>8 DEF WorkerStep, FaultStep

\* Every step keeps nodes in processing and items the same.
LEMMA NextOneItem == TypeOK /\ OneItem /\ [Next]_vars => OneItem'
<1>. SUFFICES ASSUME TypeOK, OneItem, [Next]_vars
              PROVE  OneItem'
  OBVIOUS
<1>1. ASSUME UNCHANGED <<nodesInProcessing, handler, queue, worker>>
      PROVE  OneItem'
  <2>1. \A w \in Workers : ItemOf(w)' = ItemOf(w)
    BY <1>1 DEF ItemOf
  <2>. QED
    BY <1>1, <2>1, ItemsStay
<1>2. ASSUME NEW n \in Nodes, NodeStep(n) \/ LateWrite(n)
      PROVE  OneItem'
  BY <1>1, <1>2 DEF NodeStep, CreateNode, DeleteNode, LeaderAssigns, LateWrite,
                    OtherAssigns, Observe, Heartbeat
<1>3. CASE StartStep
  BY <1>1, <1>3 DEF StartStep, InformerList, ReconcileList, ReconcileListFails,
                    OccupyListed, ReconcileDone
<1>4. CASE UNCHANGED vars
  BY <1>1, <1>4 DEF vars
<1>. QED
  BY <1>2, <1>3, <1>4, RestartOneItem, HandlerOneItem, WorkerOneItem DEF Next

(***************************************************************************)
(* A node is in nodesInProcessing exactly as long as one item of it is     *)
(* under way, and never has a second one: for every number of nodes and    *)
(* workers, every queue size, every mode and every behaviour of the        *)
(* environment, restarts included.                                         *)
(***************************************************************************)
THEOREM OneItemCorrect == Spec => []OneItemPerNode
<1>1. Init => TypeOK /\ OneItem
  BY InitTyped, InitOneItem
<1>2. TypeOK /\ OneItem /\ [Next]_vars => (TypeOK /\ OneItem)'
  BY NextTyped, NextOneItem
<1>3. TypeOK /\ OneItem => OneItemPerNode
  BY OneItemIsOneItemPerNode DEF TypeOK
<1>. QED
  BY <1>1, <1>2, <1>3, PTL DEF Spec

-----------------------------------------------------------------------------
\* The counters while the allocator runs

\* The counter of each CidrSet is the number of its marked blocks.
SetsCounted ==
  /\ sets = [k \in SetIndices |-> sets[k]]
  /\ \A k \in SetIndices : Counted(ClusterCIDRs[k].maxCIDRs, sets[k])

-----------------------------------------------------------------------------
\* What a step may do to the CidrSets

\* A new process starts with CidrSets whose counters agree.
LEMMA NewSetsCounted ==
  ASSUME sets' = NewSets
  PROVE  SetsCounted'
<1>1. \A k \in SetIndices : sets'[k] = NewCIDRSet(ClusterCIDRs[k].maxCIDRs)
  BY DEF NewSets
<1>2. \A k \in SetIndices : Counted(ClusterCIDRs[k].maxCIDRs, sets'[k])
  BY <1>1, ClusterTypes, NewCounted
<1>. QED
  BY <1>2 DEF SetsCounted, NewSets

\* Occupying the CIDRs of a node, twice or not, keeps the counters right.
LEMMA OccupyNodeCounted ==
  ASSUME SetsCounted, NEW cidrs \in Seq(CIDR), OccupyNode(cidrs)
  PROVE  SetsCounted'
<1>1. ASSUME NEW k \in SetIndices
      PROVE  Counted(ClusterCIDRs[k].maxCIDRs, sets'[k])
  <2>1. sets'[k] = Occupy(sets[k], AppliedTo(cidrs, k))
    BY DEF OccupyNode
  <2>2. AppliedTo(cidrs, k) \in SUBSET Blocks(ClusterCIDRs[k].maxCIDRs)
    BY AppliedTyped DEF NodeBlocks
  <2>. QED
    BY <2>1, <2>2, ClusterTypes, OccupyCounted DEF SetsCounted
<1>. QED
  BY <1>1 DEF SetsCounted, OccupyNode

\* So does releasing them, whoever has them by now.
LEMMA ReleaseNodeCounted ==
  ASSUME SetsCounted, NEW cidrs, ReleaseNode(cidrs)
  PROVE  SetsCounted'
<1>1. ASSUME NEW k \in SetIndices
      PROVE  Counted(ClusterCIDRs[k].maxCIDRs, sets'[k])
  <2>1. sets'[k] = Release(sets[k], AppliedTo(cidrs, k))
    BY DEF ReleaseNode
  <2>. QED
    BY <2>1, ClusterTypes, ReleaseCounted DEF SetsCounted
<1>. QED
  BY <1>1 DEF SetsCounted, ReleaseNode

\* One CidrSet changes, and its counter agrees.
LEMMA OneSetCounted ==
  ASSUME SetsCounted, NEW k \in SetIndices, NEW s,
         Counted(ClusterCIDRs[k].maxCIDRs, s),
         sets' = [sets EXCEPT ![k] = s]
  PROVE  SetsCounted'
<1>1. DOMAIN sets = SetIndices
  BY DEF SetsCounted
<1>2. \A j \in SetIndices : sets'[j] = IF j = k THEN s ELSE sets[j]
  BY <1>1
<1>3. sets' = [j \in SetIndices |-> sets'[j]]
  BY <1>1
<1>. QED
  BY <1>2, <1>3 DEF SetsCounted

-----------------------------------------------------------------------------
\* The first process is no exception.
LEMMA InitCounted == Init => SetsCounted
<1>. SUFFICES ASSUME Init
              PROVE  SetsCounted
  OBVIOUS
<1>1. \A k \in SetIndices : sets[k] = NewCIDRSet(ClusterCIDRs[k].maxCIDRs)
  BY DEF Init, NewSets
<1>2. \A k \in SetIndices : Counted(ClusterCIDRs[k].maxCIDRs, sets[k])
  BY <1>1, ClusterTypes, NewCounted
<1>. QED
  BY <1>2 DEF SetsCounted, Init, NewSets

\* Whatever event is handled, the counters agree.
LEMMA HandlerStepCounted == TypeOK /\ SetsCounted /\ HandlerStep => SetsCounted'
<1>. SUFFICES ASSUME TypeOK, SetsCounted, HandlerStep
              PROVE  SetsCounted'
  OBVIOUS
<1>1. CASE UNCHANGED sets
  BY <1>1 DEF SetsCounted
<1>2. CASE HandleNodeWithCIDRs
  BY <1>2, HandledTyped, OccupyNodeCounted DEF HandleNodeWithCIDRs, TypeOK
<1>3. CASE HandleDelete
  BY <1>3, ReleaseNodeCounted DEF HandleDelete
<1>4. CASE AllocateCIDR
  <2>1. /\ NextSet \in SetIndices /\ ~NoCIDRsRemaining(sets[NextSet])
        /\ sets' = [sets EXCEPT ![NextSet] = AllocateNext(sets[NextSet])]
    BY <1>4 DEF AllocateCIDR, Allocating
  <2>2. Counted(ClusterCIDRs[NextSet].maxCIDRs, AllocateNext(sets[NextSet]))
    BY <2>1, ClusterTypes, AllocateCounted DEF SetsCounted
  <2>. QED
    BY <2>1, <2>2, OneSetCounted
<1>5. HandleIgnored \/ HandleNodeWithoutCIDRs \/ AllocateFails \/ Enqueue
        => UNCHANGED sets
  BY DEF HandleIgnored, HandleNodeWithoutCIDRs, AllocateFails, Enqueue
<1>. QED
  BY <1>1, <1>2, <1>3, <1>4, <1>5 DEF HandlerStep

\* One round of the release loops of a worker keeps the counters right.
LEMMA ReleaseReservedCounted ==
  ASSUME SetsCounted, NEW w \in Workers, ReleaseReserved(w)
  PROVE  SetsCounted'
<1>. DEFINE k == worker[w].i
            s == Release(sets[k], {ItemOf(w).blocks[k]})
<1>1. k \in SetIndices /\ sets' = [sets EXCEPT ![k] = s]
  BY DEF ReleaseReserved
<1>2. Counted(ClusterCIDRs[k].maxCIDRs, s)
  BY <1>1, ClusterTypes, ReleaseCounted DEF SetsCounted
<1>. HIDE DEF s, k
<1>. QED
  BY <1>1, <1>2, OneSetCounted

\* Every step of the system keeps the counters right.
LEMMA NextCounted == TypeOK /\ SetsCounted /\ [Next]_vars => SetsCounted'
<1>. SUFFICES ASSUME TypeOK, SetsCounted, [Next]_vars
              PROVE  SetsCounted'
  OBVIOUS
<1>1. CASE UNCHANGED sets
  BY <1>1 DEF SetsCounted
<1>2. CASE Restart
  BY <1>2, NewSetsCounted DEF Restart
<1>3. ASSUME NEW n \in Nodes, NodeStep(n) \/ LateWrite(n)
      PROVE  UNCHANGED sets
  BY <1>3 DEF NodeStep, CreateNode, DeleteNode, LeaderAssigns, OtherAssigns,
              LateWrite, Observe, Heartbeat
<1>4. CASE HandlerStep
  BY <1>4, HandlerStepCounted
<1>5. CASE StartStep
  <2>1. CASE OccupyListed
    BY <2>1, OccupyNodeCounted DEF OccupyListed, TypeOK, StartTypeOK
  <2>2. InformerList \/ ReconcileList \/ ReconcileListFails \/ ReconcileDone => UNCHANGED sets
    BY DEF InformerList, ReconcileList, ReconcileListFails, ReconcileDone
  <2>. QED
    BY <1>1, <1>5, <2>1, <2>2 DEF StartStep
<1>6. ASSUME NEW w \in Workers, WorkerStep(w) \/ FaultStep(w)
      PROVE  ReleaseReserved(w) \/ UNCHANGED sets
  BY <1>6 DEF WorkerStep, FaultStep, Take, GetNode, PatchNode, PatchRejected,
              Done, Requeue, GetNodeFails, PatchLost, PatchUnacked
<1>7. CASE UNCHANGED vars
  BY <1>1, <1>7 DEF vars
<1>. QED
  BY <1>1, <1>2, <1>3, <1>4, <1>5, <1>6, <1>7, ReleaseReservedCounted DEF Next

-----------------------------------------------------------------------------
\* Only AllocateCIDR makes the handler's item longer.
LEMMA OnlyAllocateCIDR ==
  TypeOK /\ [Next]_vars /\ Len(handler'.blocks) > Len(handler.blocks)
    => AllocateCIDR
<1>. SUFFICES ASSUME TypeOK, [Next]_vars, Len(handler'.blocks) > Len(handler.blocks)
              PROVE  AllocateCIDR
  OBVIOUS
<1>1. Len(handler.blocks) \in Nat
  BY NoItemIsNone DEF TypeOK, ItemsTypeOK, PartialItem, BlockLists
<1>2. ~UNCHANGED handler
  BY <1>1
<1>3. handler' # NoItem /\ \A n : handler' # Item(n, <<>>)
  BY <1>1, NoItemIsNone DEF Item
<1>4. ~UNCHANGED vars
  BY <1>2 DEF vars
<1>5. ~Restart
  BY <1>3 DEF Restart
<1>6. ASSUME NEW n \in Nodes, NodeStep(n) \/ LateWrite(n)
      PROVE  FALSE
  BY <1>2, <1>6 DEF NodeStep, CreateNode, DeleteNode, LeaderAssigns, OtherAssigns,
                    LateWrite, Observe, Heartbeat
<1>7. ~StartStep
  BY <1>2 DEF StartStep, InformerList, ReconcileList, ReconcileListFails, OccupyListed,
              ReconcileDone
<1>8. ASSUME NEW w \in Workers, WorkerStep(w) \/ FaultStep(w)
      PROVE  FALSE
  BY <1>2, <1>8 DEF WorkerStep, FaultStep, Take, GetNode, PatchNode, PatchRejected,
                    ReleaseReserved, Done, Requeue, GetNodeFails, PatchLost,
                    PatchUnacked
<1>9. HandlerStep => AllocateCIDR
  BY <1>2, <1>3 DEF HandlerStep, HandleIgnored, HandleNodeWithCIDRs,
                    HandleNodeWithoutCIDRs, HandleDelete, AllocateFails, Enqueue
<1>. QED
  BY <1>4, <1>5, <1>6, <1>7, <1>8, <1>9 DEF Next

\* The block that a longer item has got was not marked.
LEMMA AllocatedIsFree ==
  TypeOK /\ SetsCounted /\ AllocateCIDR
    => handler'.blocks[NextSet] \notin sets[NextSet].used
<1>. SUFFICES ASSUME TypeOK, SetsCounted, AllocateCIDR
              PROVE  handler'.blocks[NextSet] \notin sets[NextSet].used
  OBVIOUS
<1>. DEFINE b == Candidate(sets[NextSet])
<1>1. NextSet \in SetIndices /\ ~NoCIDRsRemaining(sets[NextSet]) /\ handler # NoItem
  BY DEF AllocateCIDR, Allocating
<1>2. b \in Blocks(ClusterCIDRs[NextSet].maxCIDRs) \ sets[NextSet].used
  BY <1>1, ClusterTypes, AllocateCounted DEF SetsCounted
<1>3. handler \in PartialItem
  BY <1>1 DEF TypeOK, ItemsTypeOK
<1>4. handler'.blocks = Append(handler.blocks, b) /\ handler.blocks \in Seq(Nat)
  BY <1>3 DEF AllocateCIDR, PartialItem, BlockLists
<1>. HIDE DEF b
<1>5. handler'.blocks[NextSet] = b
  BY <1>1, <1>2, <1>4, ClusterTypes DEF NextSet, Blocks
<1>. QED
  BY <1>2, <1>5

(***************************************************************************)
(* The counters agree with the bitmaps in every reachable state, whatever  *)
(* is occupied or released twice, late or by whom.                         *)
(***************************************************************************)
THEOREM CountersCorrect == Spec => []SetsCounted
<1>1. Spec => []TypeOK
  BY TypeCorrect
<1>. QED
  BY <1>1, InitCounted, NextCounted, PTL DEF Spec

(***************************************************************************)
(* AllocateOrOccupyCIDR is only ever handed a block that is free, under    *)
(* every environment.                                                      *)
(***************************************************************************)
THEOREM HandsOutFreeCorrect == Spec => HandsOutFree
<1>1. Spec => []TypeOK
  BY TypeCorrect
<1>2. Spec => []SetsCounted
  BY CountersCorrect
<1>3. TypeOK /\ SetsCounted /\ [Next]_vars
        => [Len(handler'.blocks) > Len(handler.blocks) =>
              handler'.blocks[NextSet] \notin sets[NextSet].used]_vars
  BY OnlyAllocateCIDR, AllocatedIsFree
<1>. QED
  BY <1>1, <1>2, <1>3, PTL DEF Spec, HandsOutFree
=============================================================================
