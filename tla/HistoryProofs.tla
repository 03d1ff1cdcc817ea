---------------------------- MODULE HistoryProofs ----------------------------
(***************************************************************************)
(* The parts of Ownership and Accounting that say what has happened so     *)
(* far, and how what events, lists and workers go by agrees with it; and   *)
(* what follows from them alone in a tidy environment: that every mark has *)
(* an owner.                                                               *)
(***************************************************************************)
EXTENDS ListProofs

-----------------------------------------------------------------------------
\* What Quiet rules out

\* What a quiet environment leaves of the steps from outside: no patch behind an
\* error, no name used again, and no deletion before the reconciliation is done.
LEMMA QuietSteps ==
  ASSUME Quiet
  PROVE  /\ \A n \in Nodes : ~LateWrite(n)
         /\ \A w \in Workers : ~PatchLost(w) /\ ~PatchUnacked(w)
         /\ \A n \in Nodes : DeletedCIDRs(n) \subseteq {finalCIDRs[n], cachedCIDRs[n]}
         /\ \A n \in Nodes : DeleteNode(n) =>
              /\ phase = "ready" /\ n \in exists
              /\ retired' = retired \cup {n}
              /\ n \in cached => finalCIDRs' = [finalCIDRs EXCEPT ![n] = podCIDRs[n]]
              /\ n \notin cached => UNCHANGED finalCIDRs
<1>1. /\ "lateWrite" \notin Environment /\ "patchLost" \notin Environment
      /\ "patchUnacked" \notin Environment
      /\ "earlyDelete" \notin Environment /\ "reuse" \notin Environment
  BY DEF Quiet
<1>2. \A n \in Nodes : DeletedCIDRs(n) \subseteq {finalCIDRs[n], cachedCIDRs[n]}
  BY DEF DeletedCIDRs
<1>3. ASSUME NEW n \in Nodes, DeleteNode(n)
      PROVE  /\ phase = "ready" /\ n \in exists
             /\ retired' = retired \cup {n}
             /\ n \in cached => finalCIDRs' = [finalCIDRs EXCEPT ![n] = podCIDRs[n]]
             /\ n \notin cached => UNCHANGED finalCIDRs
  BY <1>1, <1>3 DEF DeleteNode
<1>4. /\ \A n \in Nodes : ~LateWrite(n)
      /\ \A w \in Workers : ~PatchLost(w) /\ ~PatchUnacked(w)
  BY <1>1 DEF LateWrite, PatchLost, PatchUnacked, Fault
<1>. QED
  BY <1>2, <1>3, <1>4

\* The cluster CIDRs are as the lemmas about lists and items want them.
LEMMA QuietIsIPv4 == Quiet => OneIPv4
BY DEF Quiet

-----------------------------------------------------------------------------
\* Delete events

DeletionHas(n, b) == \E i \in Deletions(n) : b \in Names(events[i].cidrs)

\* Another event comes in.
LEMMA Announced ==
  ASSUME InformerTypeOK, NEW n \in Nodes, NEW type \in {"add", "update", "delete"},
         NEW cidrs \in Seq(CIDR), events' = Append(events, Event(type, n, cidrs))
  PROVE  /\ Len(events) + 1 \notin DOMAIN events
         /\ DOMAIN events' = DOMAIN events \cup {Len(events) + 1}
         /\ \A i \in DOMAIN events : i < Len(events) + 1 /\ events'[i] = events[i]
         /\ events'[Len(events) + 1].type = type
         /\ events'[Len(events) + 1].node = n
         /\ events'[Len(events) + 1].cidrs = cidrs
         /\ \A m : Deletions(m)' = IF type = "delete" /\ m = n
                                   THEN Deletions(m) \cup {Len(events) + 1}
                                   ELSE Deletions(m)
         /\ \A m, b : DeletionHas(m, b)' <=>
              DeletionHas(m, b) \/ (type = "delete" /\ m = n /\ b \in Names(cidrs))
<1>. DEFINE e == [type |-> type, node |-> n, cidrs |-> cidrs]
<1>1. e \in EventType /\ events' = Append(events, e) /\ events \in Seq(EventType)
  BY DEF EventType, Event, InformerTypeOK
<1>. HIDE DEF e
<1>2. /\ Len(events) \in Nat /\ DOMAIN events = 1 .. Len(events)
      /\ DOMAIN events' = DOMAIN events \cup {Len(events) + 1}
      /\ Len(events) + 1 \notin DOMAIN events
      /\ \A i \in DOMAIN events : events'[i] = events[i]
      /\ events'[Len(events) + 1] = e
  BY <1>1, Appended
<1>3. \A i \in DOMAIN events : i < Len(events) + 1
  BY <1>2
<1>4. e.type = type /\ e.node = n /\ e.cidrs = cidrs
  BY DEF e
<1>5. \A m : Deletions(m)' = IF type = "delete" /\ m = n
                             THEN Deletions(m) \cup {Len(events) + 1}
                             ELSE Deletions(m)
  BY <1>2, <1>4 DEF Deletions
<1>6. \A m : Deletions(m) \subseteq DOMAIN events
  BY DEF Deletions
<1>7. \A m, b : DeletionHas(m, b)' <=>
        DeletionHas(m, b) \/ (type = "delete" /\ m = n /\ b \in Names(cidrs))
  BY <1>2, <1>4, <1>5, <1>6 DEF DeletionHas
<1>. QED
  BY <1>2, <1>3, <1>4, <1>5, <1>7

\* The event at the head is handled.
LEMMA HeadHandled ==
  ASSUME InformerTypeOK, HasEvent, Handled
  PROVE  /\ DOMAIN events \subseteq Nat /\ 1 \in DOMAIN events /\ Head(events) = events[1]
         /\ \A i \in DOMAIN events' :
              /\ i \in Nat /\ i + 1 \in DOMAIN events /\ i + 1 # 1
              /\ events'[i] = events[i + 1]
         /\ \A i \in DOMAIN events :
              i # 1 => i - 1 \in DOMAIN events' /\ events'[i - 1] = events[i]
         /\ \A m : \A i \in Deletions(m)' : i + 1 \in Deletions(m)
         /\ \A m : \A i \in Deletions(m) : i # 1 => i - 1 \in Deletions(m)'
         /\ \A m, b : DeletionHas(m, b)' => DeletionHas(m, b)
         /\ \A m, b : DeletionHas(m, b) =>
              \/ DeletionHas(m, b)'
              \/ /\ Head(events).type = "delete" /\ Head(events).node = m
                 /\ b \in Names(Head(events).cidrs)
<1>1. /\ DOMAIN events \subseteq Nat /\ 1 \in DOMAIN events /\ Head(events) = events[1]
      /\ \A i \in DOMAIN events' :
           /\ i \in Nat /\ i + 1 \in DOMAIN events /\ i + 1 # 1
           /\ events'[i] = events[i + 1]
      /\ \A i \in DOMAIN events :
           i # 1 => i - 1 \in DOMAIN events' /\ events'[i - 1] = events[i]
  BY Tailed DEF InformerTypeOK, HasEvent, Handled
<1>2. \A m : \A i \in Deletions(m)' : i + 1 \in Deletions(m) /\ events'[i] = events[i + 1]
  BY <1>1 DEF Deletions
<1>3. \A m : \A i \in Deletions(m) :
        i # 1 => i - 1 \in Deletions(m)' /\ events'[i - 1] = events[i]
  BY <1>1 DEF Deletions
<1>4. \A m, b : DeletionHas(m, b)' => DeletionHas(m, b)
  BY <1>2 DEF DeletionHas
<1>5. \A m : 1 \in Deletions(m) =>
        Head(events).type = "delete" /\ Head(events).node = m
  BY <1>1 DEF Deletions
<1>6. ASSUME NEW m, NEW b, DeletionHas(m, b), ~DeletionHas(m, b)'
      PROVE  /\ Head(events).type = "delete" /\ Head(events).node = m
             /\ b \in Names(Head(events).cidrs)
  <2>1. PICK i \in Deletions(m) : b \in Names(events[i].cidrs)
    BY <1>6 DEF DeletionHas
  <2>2. i = 1
    BY <1>3, <1>6, <2>1 DEF DeletionHas
  <2>. QED
    BY <1>1, <1>5, <2>1, <2>2
<1>. QED
  BY <1>1, <1>2, <1>3, <1>4, <1>6

-----------------------------------------------------------------------------
\* Items and workers

\* An item is a node with one block.
LEMMA OneBlock ==
  ASSUME OneIPv4, NEW item \in FullItem
  PROVE  /\ item.node \in Nodes /\ item.blocks[1] \in NodeBlocks(1)
         /\ item.blocks = <<item.blocks[1]>> /\ Len(item.blocks) = 1
         /\ item = Item(item.node, <<item.blocks[1]>>)
<1>1. /\ item \in [node : Nodes, blocks : BlockLists]
      /\ item.blocks \in Seq(Nat) /\ Len(item.blocks) = 1 /\ item.node \in Nodes
  BY DEF FullItem, PartialItem, BlockLists, OneIPv4
<1>2. item.blocks[1] \in NodeBlocks(1)
  BY OneSet, FullItemTypes
<1>3. item.blocks = <<item.blocks[1]>>
  BY <1>1
<1>4. item = Item(item.node, item.blocks)
  BY <1>1 DEF Item
<1>. QED
  BY <1>1, <1>2, <1>3, <1>4

\* Two such items are the same when node and block are.
LEMMA SameItem ==
  ASSUME NEW m, NEW n, NEW b, NEW c
  PROVE  /\ Item(m, <<b>>) = Item(n, <<c>>) <=> m = n /\ b = c
         /\ Item(n, <<b>>).node = n /\ Item(n, <<b>>).blocks = <<b>>
         /\ Item(n, <<b>>) # NoItem /\ Item(n, <<b>>) # Item(m, <<>>)
<1>1. Item(n, <<b>>).node = n /\ Item(n, <<b>>).blocks = <<b>>
      /\ Item(m, <<c>>).node = m /\ Item(m, <<c>>).blocks = <<c>>
      /\ Item(m, <<>>).blocks = <<>>
  BY DEF Item
<1>2. <<b>> = <<c>> <=> b = c
  BY <<b>>[1] = b, <<c>>[1] = c
<1>3. <<b>> # <<>>
  BY ShortLists
<1>. QED
  BY <1>1, <1>2, <1>3, NoItemIsNone DEF Item

\* An item of that form says which node and which block.
LEMMA OneBlockItem ==
  ASSUME NEW item, NEW n, NEW b, item = Item(n, <<b>>)
  PROVE  item.node = n /\ item.blocks[1] = b /\ item.blocks # <<>>
<1>1. item.node = n /\ item.blocks = <<b>>
  BY DEF Item
<1>2. <<b>>[1] = b /\ <<b>> # <<>>
  BY ShortLists
<1>. QED
  BY <1>1, <1>2

-----------------------------------------------------------------------------
\* NothingEarly and NamesKnown

\* Before reconcileState is done nothing can be allocated or worked on.
LEMMA EarlyItems ==
  ASSUME TypeOK, NothingEarly, phase # "ready"
  PROVE  /\ \A w \in Workers : worker[w] = Idle
         /\ ~Enqueue /\ ~AllocateCIDR /\ ~AllocateFails
         /\ \A w \in Workers : ~WorkerStep(w) /\ ~FaultStep(w)
BY NothingStarted DEF NothingEarly, WorkAfterReady

\* A new process has no items.
LEMMA InitEarly == Init => NothingEarly
BY NoItemIsNone DEF Init, NothingEarly, Deletions

\* Nothing is early: items and deletions come after the reconciliation.
LEMMA NextEarly ==
  ASSUME Quiet, TypeOK, NothingEarly, [Next]_vars
  PROVE  NothingEarly'
<1>. SUFFICES ASSUME phase' # "ready"
              PROVE  /\ handler'.blocks = <<>> /\ queue' = <<>> /\ worker' = AllIdle
                     /\ cached' \subseteq exists' /\ \A n \in Nodes : Deletions(n)' = {}
  BY DEF NothingEarly
<1>. USE DEF TypeOK
<1>1. CASE Restart
  BY <1>1, NoItemIsNone DEF Restart, Deletions
<1>2. phase = "ready" => UNCHANGED phase \/ Restart
  BY DEF Next, vars, start, NodeStep, CreateNode, DeleteNode, LeaderAssigns, LateWrite,
         OtherAssigns, Observe, Heartbeat, HandlerStep, HandleIgnored,
         HandleNodeWithCIDRs, HandleNodeWithoutCIDRs, HandleDelete, AllocateCIDR,
         AllocateFails, Enqueue, StartStep, InformerList, ReconcileList,
         ReconcileListFails, OccupyListed, ReconcileDone, WorkerStep, FaultStep, Take, GetNode, PatchNode, PatchRejected,
         ReleaseReserved, Done, Requeue, GetNodeFails, PatchLost, PatchUnacked
<1>3. CASE phase # "ready"
  <2>0. /\ handler.blocks = <<>> /\ queue = <<>> /\ worker = AllIdle
        /\ cached \subseteq exists /\ \A n \in Nodes : Deletions(n) = {}
    BY <1>3 DEF NothingEarly
  <2>1. ASSUME NEW n \in Nodes, NodeStep(n) \/ LateWrite(n)
        PROVE  /\ UNCHANGED <<handler, queue, worker>>
               /\ cached' \subseteq exists' /\ \A m \in Nodes : Deletions(m)' = {}
    <3>1. CASE CreateNode(n) \/ LeaderAssigns(n) \/ LateWrite(n)
      BY <2>0, <3>1 DEF CreateNode, LeaderAssigns, LateWrite, OtherAssigns, informer,
                        Deletions
    <3>2. CASE DeleteNode(n)
      BY <1>3, <3>2, QuietSteps
    <3>3. CASE Observe(n)
      <4>1. PICK type \in {"add", "update"}, cidrs \in Seq(CIDR) :
              events' = Append(events, Event(type, n, cidrs))
        BY <2>0, <3>3 DEF Observe, ApiTypeOK
      <4>2. \A m \in Nodes : Deletions(m)' = {}
        BY <2>0, <4>1, Announced
      <4>. QED
        BY <2>0, <3>3, <4>2 DEF Observe, api
    <3>4. CASE Heartbeat(n)
      <4>1. \A m \in Nodes : Deletions(m)' = {}
        BY <2>0, <3>4, EmptyTyped, Announced DEF Heartbeat
      <4>. QED
        BY <2>0, <3>4, <4>1 DEF Heartbeat, api
    <3>. QED
      BY <2>1, <3>1, <3>2, <3>3, <3>4 DEF NodeStep
  <2>2. CASE HandlerStep
    <3>1. CASE HandleIgnored \/ HandleNodeWithCIDRs \/ HandleNodeWithoutCIDRs \/ HandleDelete
      <4>1. HasEvent /\ Handled /\ UNCHANGED <<api, queue, worker>>
        BY <3>1 DEF HandleIgnored, HandleNodeWithCIDRs, HandleNodeWithoutCIDRs, HandleDelete
      <4>2. \A m \in Nodes : Deletions(m)' = {}
        BY <2>0, <4>1, HeadHandled
      <4>3. handler'.blocks = <<>>
        BY <2>0, <3>1 DEF HandleIgnored, HandleNodeWithCIDRs, HandleNodeWithoutCIDRs,
                          HandleDelete, Item
      <4>. QED
        BY <2>0, <4>1, <4>2, <4>3 DEF Handled, api
    <3>2. CASE AllocateCIDR \/ AllocateFails \/ Enqueue
      BY <1>3, <3>2, EarlyItems
    <3>. QED
      BY <2>2, <3>1, <3>2 DEF HandlerStep
  <2>3. CASE StartStep
    <3>1. CASE InformerList
      <4>1. \A m \in Nodes : Deletions(m)' = {}
        BY <3>1, ListedEvents DEF Deletions
      <4>. QED
        BY <2>0, <3>1, <4>1 DEF InformerList, api
    <3>2. CASE ReconcileList \/ ReconcileListFails \/ OccupyListed \/ ReconcileDone
      BY <2>0, <3>2 DEF ReconcileList, ReconcileListFails, OccupyListed,
                        ReconcileDone, informer, api, Deletions
    <3>. QED
      BY <2>3, <3>1, <3>2 DEF StartStep
  <2>4. CASE UNCHANGED vars
    BY <2>0, <2>4 DEF vars, informer, api, Deletions
  <2>. QED
    BY <1>1, <1>3, <2>0, <2>1, <2>2, <2>3, <2>4, EarlyItems DEF Next
<1>. QED
  BY <1>1, <1>2, <1>3

\* Of the first process nobody has been heard of yet.
LEMMA InitNames == TypeOK /\ Init => NamesKnown
BY DEF Init, NamesKnown, Deletions

\* Every step keeps names known: what is deleted stays deleted.
LEMMA NextNames ==
  ASSUME Quiet, TypeOK, OneItem, NamesKnown, [Next]_vars
  PROVE  NamesKnown'
<1>. USE DEF TypeOK
<1>. DEFINE OnceDeleted ==
       \A n \in Nodes : \A i \in Deletions(n) :
         n \in retired \ cached /\ \A j \in Deletions(n) : i = j
<1>0. /\ exists \cap retired = {} /\ cached \subseteq exists \cup retired
      /\ \A i \in DOMAIN events : events[i].node \in exists \cup retired
      /\ nodesInProcessing \subseteq exists \cup retired /\ OnceDeleted
  BY DEF NamesKnown
<1>1. ASSUME UNCHANGED <<api, informer>>,
             nodesInProcessing' \subseteq nodesInProcessing
      PROVE  NamesKnown'
  BY <1>1 DEF NamesKnown, api, informer, Deletions
<1>2. CASE Restart
  BY <1>0, <1>2 DEF Restart, api, NamesKnown, Deletions
<1>3. ASSUME NEW n \in Nodes, NodeStep(n) \/ LateWrite(n)
      PROVE  NamesKnown'
  <2>1. CASE CreateNode(n)
    BY <1>0, <2>1 DEF CreateNode, informer, NamesKnown, Deletions
  <2>2. CASE DeleteNode(n)
    <3>1. exists' = exists \ {n} /\ retired' = retired \cup {n}
          /\ UNCHANGED <<cached, events, nodesInProcessing>>
      BY <2>2, QuietSteps DEF DeleteNode
    <3>. QED
      BY <1>0, <3>1 DEF NamesKnown, Deletions
  <2>3. CASE LeaderAssigns(n) \/ LateWrite(n)
    BY <1>0, <2>3 DEF LeaderAssigns, LateWrite, OtherAssigns, informer, NamesKnown, Deletions
  <2>4. CASE Heartbeat(n) \/ (Observe(n) /\ n \in exists)
    <3>1. PICK type \in {"add", "update"}, cidrs \in Seq(CIDR) :
            events' = Append(events, Event(type, n, cidrs))
      BY <2>4, EmptyTyped DEF Observe, Heartbeat, ApiTypeOK
    <3>2. /\ \A m : Deletions(m)' = Deletions(m)
          /\ \A i \in DOMAIN events' : events'[i].node \in exists \cup retired
      <4>1. n \in exists /\ InformerTypeOK
        BY <2>4 DEF Heartbeat
      <4>2. \A m : Deletions(m)' = Deletions(m)
        BY <3>1, <4>1, Announced
      <4>3. \A i \in DOMAIN events' :
              \/ i \in DOMAIN events /\ events'[i] = events[i]
              \/ events'[i].node = n
        BY <3>1, <4>1, Announced
      <4>. QED
        BY <1>0, <4>1, <4>2, <4>3
    <3>3. UNCHANGED <<exists, retired, nodesInProcessing>> /\ cached' = cached \cup {n}
          /\ n \in exists
      BY <2>4 DEF Observe, Heartbeat, api
    <3>. QED
      BY <1>0, <3>2, <3>3 DEF NamesKnown
  <2>5. CASE Observe(n) /\ n \notin exists
    <3>1. /\ n \in cached /\ cached' = cached \ {n}
          /\ UNCHANGED <<exists, retired, nodesInProcessing>>
          /\ \E cidrs \in DeletedCIDRs(n) :
               events' = Append(events, Event("delete", n, cidrs))
      BY <2>5 DEF Observe, api
    <3>2. /\ Len(events) + 1 \notin DOMAIN events
          /\ \A m : Deletions(m)' = IF m = n THEN Deletions(m) \cup {Len(events) + 1}
                                    ELSE Deletions(m)
          /\ \A i \in DOMAIN events' : events'[i].node \in exists \cup retired
      <4>0. cachedCIDRs[n] \in Seq(CIDR) /\ finalCIDRs[n] \in Seq(CIDR)
        BY DEF InformerTypeOK
      <4>1. DeletedCIDRs(n) \subseteq Seq(CIDR) /\ InformerTypeOK
            /\ n \in exists \cup retired
        BY <1>0, <3>1, <4>0, QuietSteps
      <4>2. /\ Len(events) + 1 \notin DOMAIN events
            /\ \A m : Deletions(m)' = IF m = n THEN Deletions(m) \cup {Len(events) + 1}
                                      ELSE Deletions(m)
        BY <3>1, <4>1, Announced
      <4>3. \A i \in DOMAIN events' :
              \/ i \in DOMAIN events /\ events'[i] = events[i]
              \/ events'[i].node = n
        BY <3>1, <4>1, Announced
      <4>. QED
        BY <1>0, <4>1, <4>2, <4>3
    <3>3. n \in retired /\ Deletions(n) = {}
      BY <1>0, <2>5, <3>1
    <3>. QED
      BY <1>0, <3>1, <3>2, <3>3 DEF NamesKnown
  <2>. QED
    BY <1>3, <2>1, <2>2, <2>3, <2>4, <2>5 DEF NodeStep
<1>4. CASE HandlerStep
  <2>1. CASE HandleIgnored \/ HandleNodeWithCIDRs \/ HandleNodeWithoutCIDRs \/ HandleDelete
    <3>1. HasEvent /\ Handled /\ UNCHANGED api
          /\ nodesInProcessing' \subseteq nodesInProcessing \cup {Head(events).node}
      BY <2>1 DEF HandleIgnored, HandleNodeWithCIDRs, HandleNodeWithoutCIDRs, HandleDelete
    <3>2. /\ \A i \in DOMAIN events' : events'[i].node \in exists \cup retired
          /\ Head(events).node \in exists \cup retired
      BY <1>0, <3>1, HeadHandled
    <3>3. OnceDeleted'
      <4>1. ASSUME NEW m \in Nodes, NEW i \in Deletions(m)', NEW j \in Deletions(m)'
            PROVE  i = j /\ m \in retired \ cached
        <5>1. i + 1 \in Deletions(m) /\ j + 1 \in Deletions(m)
              /\ i + 1 \in Nat /\ j + 1 \in Nat
          BY <3>1, HeadHandled DEF Deletions
        <5>2. i + 1 = j + 1 /\ m \in retired \ cached
          BY <1>0, <5>1
        <5>3. i \in Int /\ j \in Int
          BY <3>1, HeadHandled DEF Deletions
        <5>. QED
          BY <5>2, <5>3
      <4>. QED
        BY <3>1, <4>1 DEF Handled, api
    <3>. QED
      BY <1>0, <3>1, <3>2, <3>3 DEF NamesKnown, api, Handled
  <2>2. CASE AllocateCIDR \/ AllocateFails \/ Enqueue
    BY <1>1, <2>2 DEF AllocateCIDR, AllocateFails, Enqueue
  <2>. QED
    BY <1>4, <2>1, <2>2 DEF HandlerStep
<1>5. CASE StartStep
  <2>1. CASE InformerList
    BY <1>0, <2>1, ListedEvents DEF InformerList, api, NamesKnown, Deletions
  <2>2. CASE ReconcileList \/ ReconcileListFails \/ OccupyListed \/ ReconcileDone
    BY <1>1, <2>2 DEF ReconcileList, ReconcileListFails, OccupyListed, ReconcileDone
  <2>. QED
    BY <1>5, <2>1, <2>2 DEF StartStep
<1>6. ASSUME NEW w \in Workers, WorkerStep(w) \/ FaultStep(w)
      PROVE  NamesKnown'
  <2>1. /\ UNCHANGED <<exists, retired, informer>>
        /\ nodesInProcessing' \subseteq nodesInProcessing
    BY <1>6 DEF WorkerStep, FaultStep, Take, GetNode, PatchNode, PatchRejected, Apply,
                ReleaseReserved, Done, Requeue, GetNodeFails, PatchLost, PatchUnacked, api
  <2>. QED
    BY <1>0, <2>1 DEF NamesKnown, informer, Deletions
<1>7. CASE UNCHANGED vars
  BY <1>1, <1>7 DEF vars
<1>. QED
  BY <1>2, <1>3, <1>4, <1>5, <1>6, <1>7 DEF Next

-----------------------------------------------------------------------------
\* ListCurrent and WorkersInOrder

\* Start has listed nothing yet.
LEMMA InitListed == Init => ListCurrent
BY DEF Init, ListCurrent

\* What reconcileState has listed stays in the nodes until it is occupied.
LEMMA NextListed ==
  ASSUME "earlyDelete" \notin Environment, TypeOK, ListsKnown, ListCurrent, [Next]_vars
  PROVE  ListCurrent'
<1>. USE DEF TypeOK
<1>1. ASSUME UNCHANGED <<exists, podCIDRs, start>>
      PROVE  ListCurrent'
  BY <1>1 DEF ListCurrent, start
<1>2. CASE Restart
  BY <1>2 DEF Restart, ListCurrent
<1>3. ASSUME NEW n \in Nodes, NodeStep(n) \/ LateWrite(n)
      PROVE  ListCurrent'
  <2>1. CASE CreateNode(n)
    BY <2>1 DEF CreateNode, ListCurrent, start
  <2>2. CASE DeleteNode(n)
    <3>1. phase = "ready" /\ UNCHANGED start
      BY <2>2 DEF DeleteNode
    <3>. QED
      BY <3>1 DEF ListCurrent, start
  <2>3. CASE LeaderAssigns(n) \/ LateWrite(n)
    <3>1. PICK cidrs \in Leftover : podCIDRs' = [podCIDRs EXCEPT ![n] = cidrs]
      BY <2>3 DEF LeaderAssigns, LateWrite, OtherAssigns
    <3>2. podCIDRs[n] = <<>> /\ UNCHANGED <<exists, start>>
      BY <2>3 DEF LeaderAssigns, LateWrite, OtherAssigns
    <3>3. \A m : m # n => podCIDRs'[m] = podCIDRs[m]
      BY <3>1 DEF ListsKnown
    <3>. QED
      BY <3>2, <3>3 DEF ListCurrent, start
  <2>4. CASE Observe(n) \/ Heartbeat(n)
    BY <1>1, <2>4 DEF Observe, Heartbeat, api
  <2>. QED
    BY <1>3, <2>1, <2>2, <2>3, <2>4 DEF NodeStep
<1>4. CASE HandlerStep
  BY <1>1, <1>4 DEF HandlerStep, HandleIgnored, HandleNodeWithCIDRs,
     HandleNodeWithoutCIDRs, HandleDelete, AllocateCIDR, AllocateFails, Enqueue, api
<1>5. CASE StartStep
  <2>1. CASE InformerList
    BY <2>1 DEF InformerList, ListCurrent
  <2>2. CASE ReconcileList
    BY <2>2 DEF ReconcileList, ListCurrent, api
  <2>3. CASE OccupyListed
    BY <2>3 DEF OccupyListed, ListCurrent, api
  <2>4. CASE ReconcileDone
    BY <2>4 DEF ReconcileDone, ListCurrent, api
  <2>5. CASE ReconcileListFails
    BY <2>5 DEF ReconcileListFails, ListCurrent
  <2>. QED
    BY <1>5, <2>1, <2>2, <2>3, <2>4, <2>5 DEF StartStep
<1>6. ASSUME NEW w \in Workers, WorkerStep(w) \/ FaultStep(w)
      PROVE  ListCurrent'
  <2>1. phase = "ready" /\ UNCHANGED start
    BY <1>6 DEF WorkerStep, FaultStep, Take, GetNode, PatchNode, PatchRejected,
                ReleaseReserved, Done, Requeue, GetNodeFails, PatchLost, PatchUnacked, At
  <2>. QED
    BY <2>1 DEF ListCurrent, start
<1>7. CASE UNCHANGED vars
  BY <1>1, <1>7 DEF vars, api
<1>. QED
  BY <1>2, <1>3, <1>4, <1>5, <1>6, <1>7 DEF Next

\* What WorkersInOrder says of one worker.
InOrder(w) ==
  /\ worker[w].pc = "patch" => podCIDRs[ItemOf(w).node] = <<>>
  /\ worker[w].pc = "giveUp" => ItemOf(w).node \notin exists
  /\ worker[w].pc = "done" /\ ItemOf(w).node \in exists =>
       ItemOf(w).blocks[1] \in Names(podCIDRs[ItemOf(w).node])
  /\ worker[w].pc = "giveBack" =>
       ItemOf(w).blocks[1] \notin Names(podCIDRs[ItemOf(w).node])
  /\ worker[w].pc \in {"giveBack", "giveUp"} => worker[w].i \in {1, 2}

\* Two busy workers have different nodes, and these have existed.
LEMMA BusyNode ==
  ASSUME TypeOK, OneItem, NamesKnown, NEW w \in Workers, worker[w].pc # "idle"
  PROVE  /\ ItemOf(w).node \in Nodes \cap (exists \cup retired)
         /\ ItemOf(w).node \in BusyNodes /\ ItemOf(w) # NoItem
         /\ \A v \in Workers : v # w => ItemOf(v).node # ItemOf(w).node
         /\ handler.node # ItemOf(w).node
         /\ \A p \in DOMAIN queue : queue[p].node # ItemOf(w).node
<1>1. ItemOf(w) \in FullItem
  BY BusyTyped DEF TypeOK
<1>2. ItemOf(w).node \in Nodes /\ ItemOf(w).node # NoNode /\ ItemOf(w) # NoItem
  BY <1>1, FullItemTypes
<1>3. ItemOf(w).node \in BusyNodes
  BY <1>2 DEF BusyNodes, WorkedNodes
<1>4. ItemOf(w).node \in exists \cup retired
  BY <1>3 DEF OneItem, NamesKnown
<1>. QED
  BY <1>2, <1>3, <1>4 DEF OneItem, DistinctWorkers, HandlerNode, QueuedNodes

\* What a worker assigns, and what it finds when its node has that.
LEMMA WantedNames ==
  ASSUME OneIPv4, TypeOK, NEW w \in Workers, worker[w].pc # "idle"
  PROVE  /\ ItemOf(w).blocks[1] \in NodeBlocks(1)
         /\ Names(Wanted(w)) = {ItemOf(w).blocks[1]}
         /\ Accepted(<<>>, Wanted(w))
         /\ \A cidrs : Matches(cidrs, ItemOf(w)) => Names(cidrs) = {ItemOf(w).blocks[1]}
<1>1. ItemOf(w) \in FullItem
  BY BusyTyped DEF TypeOK
<1>. DEFINE b == ItemOf(w).blocks[1]
<1>2. b \in NodeBlocks(1) /\ ItemOf(w).blocks = <<b>>
  BY <1>1, OneBlock
<1>3. Wanted(w) = Assigned(b)
  BY <1>2 DEF Wanted, Assigned
<1>. QED
  BY <1>2, <1>3, AssignedNames DEF Matches

\* Its node does not have what a worker has reserved for it.
LEMMA ReservedIsNotHeld ==
  ASSUME Quiet, TypeOK, OneOwner, NEW w \in Workers, worker[w].pc = "get",
         ItemOf(w).node \in exists
  PROVE  ItemOf(w).blocks[1] \notin Names(podCIDRs[ItemOf(w).node])
<1>. DEFINE n == ItemOf(w).node
            b == ItemOf(w).blocks[1]
<1>1. ItemOf(w) \in FullItem
  BY BusyTyped DEF TypeOK
<1>2. n \in Nodes /\ b \in NodeBlocks(1) /\ ItemOf(w) = Item(n, <<b>>)
  BY <1>1, OneBlock, QuietIsIPv4
<1>3. Unreleased(w) /\ Meant(w)
  BY DEF Unreleased, Meant
<1>4. Reserves(n, b)
  BY <1>2, <1>3 DEF Reserves
<1>. QED
  BY <1>2, <1>4 DEF OneOwner, Owns, Holds

\* A rejected patch is tried again or given up, at the first of the blocks.
LEMMA PatchErrorIs ==
  ASSUME TypeOK, NEW w \in Workers, worker[w].pc # "idle", NEW reason,
         PatchError(w, reason)
  PROVE  /\ worker'[w].item = worker[w].item
         /\ \/ worker'[w].pc = "patch"
            \/ worker'[w].pc = "giveUp" /\ worker'[w].i = 1
         /\ \A v \in Workers : v # w => worker'[v] = worker[v]
         /\ \A v \in Workers : ItemOf(v)' = ItemOf(v)
<1>1. Goto(w, "patch", worker[w].i + 1) \/ Goto(w, "giveUp", 1)
  BY DEF PatchError, IsServerTimeout, Formatted
<1>. QED
  BY <1>1, WentTo DEF TypeOK

\* No worker acts yet.
LEMMA InitInOrder == Init => WorkersInOrder
BY DEF Init, AllIdle, Idle, WorkersInOrder

\* What a worker knows of its node holds after a step of any worker.
LEMMA WorkerInOrder ==
  ASSUME Quiet, TypeOK, OneItem, ListsKnown, NamesKnown, WorkersInOrder, OneOwner,
         NEW w \in Workers, WorkerStep(w) \/ FaultStep(w)
  PROVE  WorkersInOrder'
<1>. USE DEF TypeOK
<1>1. \A v \in Workers : InOrder(v)
  BY DEF WorkersInOrder, InOrder
<1>. SUFFICES \A v \in Workers : InOrder(v)'
  BY DEF WorkersInOrder, InOrder
<1>2. ASSUME UNCHANGED <<exists, podCIDRs>>, InOrder(w)',
             \A v \in Workers : v # w => worker'[v] = worker[v]
      PROVE  \A v \in Workers : InOrder(v)'
  BY <1>1, <1>2 DEF InOrder, ItemOf
<1>3. CASE Take(w)
  <2>1. /\ worker' = [worker EXCEPT ![w] = [pc |-> "get", item |-> Head(queue), i |-> 0]]
        /\ UNCHANGED api
    BY <1>3 DEF Take
  <2>. DEFINE s == [pc |-> "get", item |-> Head(queue), i |-> 0]
  <2>4. worker' = [worker EXCEPT ![w] = s] /\ s.pc = "get"
    BY <2>1
  <2>. HIDE DEF s
  <2>2. worker'[w].pc = "get" /\ \A v \in Workers : v # w => worker'[v] = worker[v]
    BY <2>4, WorkerIs
  <2>3. InOrder(w)'
    BY <2>2 DEF InOrder
  <2>. QED
    BY <1>2, <2>1, <2>2, <2>3 DEF api
<1>4. CASE GetNode(w)
  <2>1. worker[w].pc # "idle" /\ UNCHANGED api
    BY <1>4 DEF GetNode, At
  <2>. DEFINE pc == IF ItemOf(w).node \in exists
                    THEN AfterGet(podCIDRs[ItemOf(w).node], ItemOf(w)) ELSE "requeue"
              i == IF ItemOf(w).node \in exists THEN 1 ELSE 0
  <2>2. Goto(w, pc, i)
    BY <1>4 DEF GetNode
  <2>3. /\ pc = "patch" => podCIDRs[ItemOf(w).node] = <<>>
        /\ pc # "giveUp" /\ (pc = "giveBack" => i = 1)
        /\ pc = "done" => ItemOf(w).blocks[1] \in Names(podCIDRs[ItemOf(w).node])
    BY <2>1, WantedNames, QuietIsIPv4 DEF AfterGet
  <2>5. pc = "giveBack" => ItemOf(w).blocks[1] \notin Names(podCIDRs[ItemOf(w).node])
    BY <1>4, ReservedIsNotHeld DEF GetNode, At
  <2>. HIDE DEF pc, i
  <2>4. InOrder(w)'
    BY <2>1, <2>2, <2>3, <2>5, WentTo DEF InOrder, api
  <2>. QED
    BY <1>2, <2>1, <2>2, <2>4, WentTo DEF api
<1>5. CASE GetNodeFails(w)
  <2>1. worker[w].pc # "idle" /\ Goto(w, "requeue", 0) /\ UNCHANGED api
    BY <1>5 DEF GetNodeFails, At
  <2>. QED
    BY <1>2, <2>1, WentTo DEF InOrder, api
<1>6. CASE PatchNode(w)
  <2>1. worker[w].pc = "patch" /\ Goto(w, "done", 0) /\ Acceptable(w)
        /\ podCIDRs' = [podCIDRs EXCEPT ![ItemOf(w).node] = Wanted(w)]
        /\ UNCHANGED exists
    BY <1>6 DEF PatchNode, At, Apply
  <2>2. ItemOf(w).node \in Nodes /\ podCIDRs'[ItemOf(w).node] = Wanted(w)
        /\ \A n \in Nodes : n # ItemOf(w).node => podCIDRs'[n] = podCIDRs[n]
    BY <2>1, BusyNode DEF ListsKnown
  <2>3. InOrder(w)'
    BY <2>1, <2>2, WentTo, WantedNames, QuietIsIPv4 DEF InOrder
  <2>4. ASSUME NEW v \in Workers, v # w
        PROVE  InOrder(v)'
    <3>1. worker'[v] = worker[v] /\ ItemOf(v)' = ItemOf(v)
      BY <2>1, <2>4, WentTo
    <3>2. CASE worker[v].pc = "idle"
      BY <3>1, <3>2 DEF InOrder
    <3>3. CASE worker[v].pc # "idle"
      <4>1. podCIDRs'[ItemOf(v).node] = podCIDRs[ItemOf(v).node]
        BY <2>1, <2>2, <2>4, <3>3, BusyNode
      <4>. QED
        BY <1>1, <2>1, <3>1, <4>1 DEF InOrder
    <3>. QED
      BY <3>2, <3>3
  <2>. QED
    BY <2>3, <2>4
<1>7. CASE PatchRejected(w)
  <2>1. worker[w].pc = "patch" /\ PatchError(w, "Invalid") /\ UNCHANGED api
        /\ ~Acceptable(w)
    BY <1>7 DEF PatchRejected, At
  <2>2. podCIDRs[ItemOf(w).node] = <<>>
    BY <1>1, <2>1 DEF InOrder
  <2>3. ItemOf(w).node \notin exists
    BY <2>1, <2>2, WantedNames, QuietIsIPv4 DEF Acceptable
  <2>4. InOrder(w)'
    BY <2>1, <2>2, <2>3, PatchErrorIs DEF InOrder, api
  <2>. QED
    BY <1>2, <2>1, <2>4, PatchErrorIs DEF api
<1>8. CASE ReleaseReserved(w)
  <2>1. /\ worker[w].pc \in {"giveBack", "giveUp"} /\ worker[w].i = 1 /\ UNCHANGED api
        /\ Goto(w, worker[w].pc, worker[w].i + 1)
    BY <1>8, OneSet, QuietIsIPv4 DEF ReleaseReserved, At
  <2>2. Goto(w, worker[w].pc, 2)
    BY <2>1
  <2>3. InOrder(w)'
    BY <1>1, <2>1, <2>2, WentTo DEF InOrder, api
  <2>. QED
    BY <1>2, <2>1, <2>2, <2>3, WentTo DEF api
<1>9. CASE Done(w) \/ Requeue(w)
  <2>1. worker' = [worker EXCEPT ![w] = Idle] /\ UNCHANGED api
    BY <1>9 DEF Done, Requeue
  <2>4. Idle.pc = "idle"
    BY DEF Idle
  <2>2. worker'[w].pc = "idle" /\ \A v \in Workers : v # w => worker'[v] = worker[v]
    BY <2>1, <2>4, WorkerIs
  <2>3. InOrder(w)'
    BY <2>2 DEF InOrder
  <2>. QED
    BY <1>2, <2>1, <2>2, <2>3 DEF api
<1>. QED
  BY <1>3, <1>4, <1>5, <1>6, <1>7, <1>8, <1>9, QuietSteps DEF WorkerStep, FaultStep

\* Nothing else takes it away: no one but its worker assigns a node its CIDRs.
LEMMA NextInOrder ==
  ASSUME Quiet, TypeOK, OneItem, ListsKnown, NamesKnown, NothingEarly, WorkersInOrder,
         OneOwner, [Next]_vars
  PROVE  WorkersInOrder'
<1>. USE DEF TypeOK
<1>1. \A w \in Workers : InOrder(w)
  BY DEF WorkersInOrder, InOrder
<1>2. ASSUME UNCHANGED <<exists, podCIDRs, worker>>
      PROVE  WorkersInOrder'
  BY <1>2 DEF WorkersInOrder, ItemOf
<1>3. CASE Restart
  BY <1>3 DEF Restart, AllIdle, Idle, WorkersInOrder
<1>4. ASSUME NEW n \in Nodes, NodeStep(n) \/ LateWrite(n)
      PROVE  WorkersInOrder'
  <2>1. UNCHANGED worker
    BY <1>4 DEF NodeStep, CreateNode, DeleteNode, LeaderAssigns, OtherAssigns, LateWrite,
                Observe, Heartbeat
  <2>2. CASE CreateNode(n)
    <3>1. n \notin exists \cup retired /\ exists' = exists \cup {n} /\ UNCHANGED podCIDRs
      BY <2>2 DEF CreateNode
    <3>2. ASSUME NEW w \in Workers
          PROVE  InOrder(w)'
      BY <1>1, <2>1, <3>1, BusyNode DEF InOrder, ItemOf
    <3>. QED
      BY <3>2 DEF WorkersInOrder, InOrder
  <2>3. CASE DeleteNode(n)
    <3>1. exists' = exists \ {n} /\ podCIDRs' = [podCIDRs EXCEPT ![n] = <<>>]
      BY <2>3 DEF DeleteNode
    <3>2. ASSUME NEW w \in Workers
          PROVE  InOrder(w)'
      <4>1. ItemOf(w)' = ItemOf(w) /\ worker'[w] = worker[w]
        BY <2>1 DEF ItemOf
      <4>2. CASE worker[w].pc = "idle"
        BY <4>1, <4>2 DEF InOrder
      <4>3. CASE worker[w].pc # "idle"
        <5>1. podCIDRs'[ItemOf(w).node] =
                IF ItemOf(w).node = n THEN <<>> ELSE podCIDRs[ItemOf(w).node]
          BY <3>1, <4>3, BusyNode DEF ListsKnown
        <5>. QED
          BY <1>1, <3>1, <4>1, <5>1, NamesOfForms DEF InOrder
      <4>. QED
        BY <4>2, <4>3
    <3>. QED
      BY <3>2 DEF WorkersInOrder, InOrder
  <2>4. CASE LeaderAssigns(n)
    <3>1. phase # "ready"
      BY <2>4 DEF LeaderAssigns
    <3>. QED
      BY <2>1, <3>1, EarlyItems DEF WorkersInOrder, Idle
  <2>5. CASE Observe(n) \/ Heartbeat(n)
    BY <1>2, <2>1, <2>5 DEF Observe, Heartbeat, api
  <2>. QED
    BY <1>4, <2>2, <2>3, <2>4, <2>5, QuietSteps DEF NodeStep
<1>5. CASE HandlerStep \/ StartStep
  BY <1>2, <1>5 DEF HandlerStep, HandleIgnored, HandleNodeWithCIDRs,
     HandleNodeWithoutCIDRs, HandleDelete, AllocateCIDR, AllocateFails, Enqueue,
     StartStep, InformerList, ReconcileList, ReconcileListFails, OccupyListed,
     ReconcileDone, api
<1>6. CASE UNCHANGED vars
  BY <1>2, <1>6 DEF vars, api
<1>. QED
  BY <1>3, <1>4, <1>5, <1>6, WorkerInOrder DEF Next

-----------------------------------------------------------------------------
\* StoreCurrent and EventsCurrent

\* No store and no event yet.
LEMMA InitCurrent == Init => StoreCurrent /\ EventsCurrent
BY DEF Init, StoreCurrent, EventsCurrent

\* Who gets CIDRs had none that the store could have.
LEMMA AssignedIsCurrent ==
  ASSUME ListsKnown, StoreCurrent, NEW n \in exists, podCIDRs[n] = <<>>, NEW cidrs,
         podCIDRs' = [podCIDRs EXCEPT ![n] = cidrs], UNCHANGED <<exists, informer>>
  PROVE  StoreCurrent'
<1>1. \A m : m # n => podCIDRs'[m] = podCIDRs[m]
  BY DEF ListsKnown
<1>. QED
  BY <1>1 DEF StoreCurrent, informer

\* A patch that the API server takes gives a node its first CIDRs, or those that
\* it has already.
LEMMA PatchIsFirst ==
  ASSUME ListsKnown, TypeOK, StoreCurrent, NEW w \in Workers,
         Acceptable(w), Apply(w), UNCHANGED informer
  PROVE  StoreCurrent'
<1>. DEFINE n == ItemOf(w).node
<1>1. n \in exists /\ podCIDRs[n] \in {<<>>, Wanted(w)} /\ UNCHANGED exists
      /\ podCIDRs' = [podCIDRs EXCEPT ![n] = Wanted(w)]
  BY DEF Acceptable, Accepted, Apply
<1>2. CASE podCIDRs[n] = <<>>
  BY <1>1, <1>2, AssignedIsCurrent
<1>3. CASE podCIDRs[n] = Wanted(w)
  <2>1. UNCHANGED podCIDRs
    BY <1>1, <1>3 DEF ListsKnown
  <2>. QED
    BY <1>1, <2>1 DEF StoreCurrent, informer
<1>. QED
  BY <1>1, <1>2, <1>3

\* The store follows the nodes: their CIDRs change once, and go with them, as long
\* as no node is created under a name that the store still has.
LEMMA NextStore ==
  ASSUME TypeOK, ListsKnown, StoreCurrent, [Next]_vars,
         \A n \in Nodes : CreateNode(n) => n \notin cached
  PROVE  StoreCurrent'
<1>. USE DEF TypeOK
<1>1. ASSUME UNCHANGED <<exists, podCIDRs, cached, cachedCIDRs, finalCIDRs>>
      PROVE  StoreCurrent'
  BY <1>1 DEF StoreCurrent
<1>2. CASE Restart
  BY <1>2 DEF Restart, StoreCurrent
<1>3. ASSUME NEW n \in Nodes, NodeStep(n) \/ LateWrite(n)
      PROVE  StoreCurrent'
  <2>1. CASE CreateNode(n)
    <3>1. n \notin cached /\ exists' = exists \cup {n} /\ UNCHANGED <<podCIDRs, informer>>
      BY <2>1 DEF CreateNode
    <3>. QED
      BY <3>1 DEF StoreCurrent, informer
  <2>2. CASE DeleteNode(n)
    <3>1. /\ n \in exists /\ exists' = exists \ {n}
          /\ podCIDRs' = [podCIDRs EXCEPT ![n] = <<>>]
          /\ UNCHANGED <<cached, cachedCIDRs>>
      BY <2>2 DEF DeleteNode
    <3>2. /\ n \in cached => finalCIDRs'[n] = podCIDRs[n]
          /\ \A m \in Nodes : m # n =>
               finalCIDRs'[m] = finalCIDRs[m] /\ podCIDRs'[m] = podCIDRs[m]
      <4>1. CASE n \in cached
        <5>1. finalCIDRs' = [finalCIDRs EXCEPT ![n] = podCIDRs[n]]
          BY <2>2, <4>1 DEF DeleteNode
        <5>. QED
          BY <3>1, <5>1 DEF ListsKnown
      <4>2. CASE n \notin cached
        <5>1. UNCHANGED finalCIDRs
          BY <2>2, <4>2 DEF DeleteNode
        <5>. QED
          BY <3>1, <4>2, <5>1 DEF ListsKnown
      <4>. QED
        BY <4>1, <4>2
    <3>3. \A m \in cached : m \in Nodes
      BY DEF InformerTypeOK
    <3>. QED
      BY <3>1, <3>2, <3>3 DEF StoreCurrent
  <2>3. CASE LeaderAssigns(n) \/ LateWrite(n)
    BY <2>3, AssignedIsCurrent DEF LeaderAssigns, LateWrite, OtherAssigns
  <2>4. CASE Observe(n)
    <3>1. /\ cachedCIDRs' = [cachedCIDRs EXCEPT ![n] = podCIDRs[n]]
          /\ finalCIDRs' = [finalCIDRs EXCEPT ![n] = <<>>]
          /\ cached' = IF n \in exists THEN cached \cup {n} ELSE cached \ {n}
          /\ UNCHANGED <<exists, podCIDRs>>
      BY <2>4 DEF Observe, api
    <3>2. /\ cachedCIDRs'[n] = podCIDRs[n]
          /\ \A m : m # n => cachedCIDRs'[m] = cachedCIDRs[m]
                             /\ finalCIDRs'[m] = finalCIDRs[m]
      BY <3>1 DEF ListsKnown
    <3>. QED
      BY <3>1, <3>2 DEF StoreCurrent
  <2>5. CASE Heartbeat(n)
    BY <1>1, <2>5 DEF Heartbeat, api
  <2>. QED
    BY <1>3, <2>1, <2>2, <2>3, <2>4, <2>5 DEF NodeStep
<1>4. CASE HandlerStep
  BY <1>1, <1>4 DEF HandlerStep, HandleIgnored, HandleNodeWithCIDRs,
     HandleNodeWithoutCIDRs, HandleDelete, Handled, AllocateCIDR, AllocateFails, Enqueue,
     api, informer
<1>5. CASE StartStep
  <2>1. CASE InformerList
    BY <2>1 DEF InformerList, StoreCurrent, api
  <2>2. CASE ReconcileList \/ ReconcileListFails \/ OccupyListed \/ ReconcileDone
    BY <1>1, <2>2 DEF ReconcileList, ReconcileListFails, OccupyListed, ReconcileDone,
                      api, informer
  <2>. QED
    BY <1>5, <2>1, <2>2 DEF StartStep
<1>6. ASSUME NEW w \in Workers, WorkerStep(w) \/ FaultStep(w)
      PROVE  StoreCurrent'
  <2>1. CASE PatchNode(w) \/ PatchUnacked(w)
    BY <2>1, PatchIsFirst DEF PatchNode, PatchUnacked
  <2>2. CASE ~(PatchNode(w) \/ PatchUnacked(w))
    <3>1. UNCHANGED <<api, informer>>
      BY <1>6, <2>2 DEF WorkerStep, FaultStep, Take, GetNode, PatchRejected,
         ReleaseReserved, Done, Requeue, GetNodeFails, PatchLost
    <3>. QED
      BY <1>1, <3>1 DEF api, informer
  <2>. QED
    BY <2>1, <2>2
<1>7. CASE UNCHANGED vars
  BY <1>1, <1>7 DEF vars, api, informer
<1>. QED
  BY <1>2, <1>3, <1>4, <1>5, <1>6, <1>7 DEF Next

\* EventsCurrent, by the node and the CIDRs.
Occupying(i, n, cidrs) ==
  /\ i \in DOMAIN events /\ events[i].type # "delete"
  /\ events[i].node = n /\ events[i].cidrs = cidrs /\ cidrs # <<>>

\* EventsCurrent, with the event, its node and its CIDRs as bound variables.
LEMMA Currently ==
  /\ EventsCurrent <=> \A i, n, cidrs : Occupying(i, n, cidrs) => Known(n, cidrs, i)
  /\ (\A i, n, cidrs : Occupying(i, n, cidrs)' => Known(n, cidrs, i)')
       => EventsCurrent'
BY DEF EventsCurrent, Occupying, Known

\* What an event makes the handler occupy is still held, by its node or through
\* a delete event behind it.
LEMMA OccupyingHeld ==
  ASSUME StoreCurrent, EventsCurrent, NEW i, NEW n, NEW cidrs, Occupying(i, n, cidrs)
  PROVE  \/ n \in exists /\ podCIDRs[n] = cidrs
         \/ n \in cached \ exists /\ finalCIDRs[n] = cidrs
         \/ \E j \in Deletions(n) : i < j /\ events[j].cidrs = cidrs
<1>1. Known(n, cidrs, i) /\ cidrs # <<>>
  BY Currently DEF Occupying
<1>. QED
  BY <1>1 DEF Known, StoreCurrent

\* CIDRs that the handler will occupy stay known until it does: the store keeps
\* them, and a deletion of the node is reported behind them with the same.
LEMMA NextCurrent ==
  ASSUME TypeOK, ListsKnown, StoreCurrent, EventsCurrent, [Next]_vars
  PROVE  EventsCurrent'
<1>. USE DEF TypeOK
<1>1. ASSUME UNCHANGED <<cached, cachedCIDRs, events>>
      PROVE  EventsCurrent'
  BY <1>1 DEF EventsCurrent, Known, Deletions
<1>2. CASE Restart
  BY <1>2 DEF Restart, EventsCurrent
<1>3. ASSUME NEW n \in Nodes, NodeStep(n) \/ LateWrite(n)
      PROVE  EventsCurrent'
  <2>1. CASE CreateNode(n) \/ DeleteNode(n) \/ LeaderAssigns(n) \/ LateWrite(n)
    BY <1>1, <2>1 DEF CreateNode, DeleteNode, LeaderAssigns, LateWrite, OtherAssigns, informer
  <2>2. CASE Heartbeat(n) \/ Observe(n)
    <3>1. PICK type \in {"add", "update", "delete"}, cidrs \in Seq(CIDR) :
            /\ events' = Append(events, Event(type, n, cidrs))
            /\ type = "delete" <=> n \notin exists
            /\ type = "delete" => cidrs \in {finalCIDRs[n], cachedCIDRs[n]}
            /\ type # "delete" /\ cidrs # <<>> => Observe(n) /\ cidrs = podCIDRs[n]
      <4>. DEFINE Told(type, cidrs) ==
             /\ events' = Append(events, Event(type, n, cidrs))
             /\ type = "delete" <=> n \notin exists
             /\ type = "delete" => cidrs \in {finalCIDRs[n], cachedCIDRs[n]}
             /\ type # "delete" /\ cidrs # <<>> => Observe(n) /\ cidrs = podCIDRs[n]
      <4>1. /\ podCIDRs[n] \in Seq(CIDR) /\ finalCIDRs[n] \in Seq(CIDR)
            /\ cachedCIDRs[n] \in Seq(CIDR) /\ <<>> \in Seq(CIDR)
        BY EmptyTyped DEF ApiTypeOK, InformerTypeOK
      <4>2. CASE Heartbeat(n)
        <5>1. Told("update", <<>>)
          BY <4>2 DEF Heartbeat
        <5>. QED
          BY <4>1, <5>1
      <4>3. CASE Observe(n)
        <5>1. \/ Told("add", podCIDRs[n])
              \/ Told("update", podCIDRs[n])
              \/ \E cidrs \in {finalCIDRs[n], cachedCIDRs[n]} : Told("delete", cidrs)
          BY <4>3 DEF Observe, DeletedCIDRs
        <5>. HIDE DEF Told
        <5>2. \E type \in {"add", "update", "delete"}, cidrs \in Seq(CIDR) :
                Told(type, cidrs)
          BY <4>1, <5>1
        <5>. QED
          BY <5>2 DEF Told
      <4>. QED
        BY <2>2, <4>2, <4>3
    <3>2. /\ Len(events) + 1 \notin DOMAIN events
          /\ DOMAIN events' = DOMAIN events \cup {Len(events) + 1}
          /\ \A i \in DOMAIN events : i < Len(events) + 1 /\ events'[i] = events[i]
          /\ events'[Len(events) + 1].type = type
          /\ events'[Len(events) + 1].node = n
          /\ events'[Len(events) + 1].cidrs = cidrs
          /\ \A m : Deletions(m)' = IF type = "delete" /\ m = n
                                    THEN Deletions(m) \cup {Len(events) + 1}
                                    ELSE Deletions(m)
      BY <3>1, Announced
    <3>3. /\ \A m : m # n => (m \in cached <=> m \in cached')
                             /\ cachedCIDRs'[m] = cachedCIDRs[m]
          /\ Observe(n) /\ n \in exists => n \in cached' /\ cachedCIDRs'[n] = podCIDRs[n]
          /\ Heartbeat(n) => (n \in cached <=> n \in cached')
                             /\ cachedCIDRs'[n] = cachedCIDRs[n]
      <4>1. CASE Heartbeat(n)
        BY <4>1 DEF Heartbeat, Observe
      <4>2. CASE Observe(n)
        <5>1. /\ cached' = IF n \in exists THEN cached \cup {n} ELSE cached \ {n}
              /\ cachedCIDRs' = [cachedCIDRs EXCEPT ![n] = podCIDRs[n]]
          BY <4>2 DEF Observe
        <5>. QED
          BY <4>2, <5>1 DEF ListsKnown, Heartbeat
      <4>. QED
        BY <2>2, <4>1, <4>2
    <3>4. ASSUME NEW m, NEW c, c # <<>>, NEW i \in DOMAIN events, Known(m, c, i)
          PROVE  Known(m, c, i)'
      <4>1. CASE m \in cached /\ cachedCIDRs[m] = c
        <5>1. CASE m # n \/ Heartbeat(n)
          BY <3>3, <4>1, <5>1 DEF Known
        <5>2. CASE m = n /\ Observe(n) /\ n \in exists
          BY <3>3, <3>4, <4>1, <5>2 DEF Known, StoreCurrent
        <5>3. CASE m = n /\ n \notin exists
          <6>1. cidrs = c /\ type = "delete"
            BY <3>1, <3>4, <4>1, <5>3 DEF StoreCurrent
          <6>. QED
            BY <3>2, <5>3, <6>1 DEF Known
        <5>. QED
          BY <2>2, <5>1, <5>2, <5>3
      <4>2. CASE \E j \in Deletions(m) : i < j /\ events[j].cidrs = c
        BY <3>2, <4>2 DEF Known, Deletions
      <4>. QED
        BY <3>4, <4>1, <4>2 DEF Known
    <3>5. type # "delete" /\ cidrs # <<>> => \A i : Known(n, cidrs, i)'
      BY <3>1, <3>3 DEF Known
    <3>6. ASSUME NEW i, NEW m, NEW c, Occupying(i, m, c)'
          PROVE  Known(m, c, i)'
      <4>1. CASE i \in DOMAIN events
        BY <3>2, <3>4, <3>6, <4>1, Currently DEF Occupying
      <4>2. CASE i = Len(events) + 1
        BY <3>2, <3>5, <3>6, <4>2 DEF Occupying
      <4>. QED
        BY <3>2, <3>6, <4>1, <4>2 DEF Occupying
    <3>. QED
      BY <3>6, Currently
  <2>. QED
    BY <1>3, <2>1, <2>2 DEF NodeStep
<1>4. CASE HandlerStep
  <2>1. CASE HandleIgnored \/ HandleNodeWithCIDRs \/ HandleNodeWithoutCIDRs \/ HandleDelete
    <3>1. HasEvent /\ Handled /\ UNCHANGED <<cached, cachedCIDRs>>
      BY <2>1 DEF HandleIgnored, HandleNodeWithCIDRs, HandleNodeWithoutCIDRs, HandleDelete,
                  Handled
    <3>2. ASSUME NEW i \in DOMAIN events', NEW m, NEW c, Known(m, c, i + 1)
          PROVE  Known(m, c, i)'
      <4>1. CASE \E j \in Deletions(m) : i + 1 < j /\ events[j].cidrs = c
        <5>1. PICK j \in Deletions(m) : i + 1 < j /\ events[j].cidrs = c
          BY <4>1
        <5>2. j \in DOMAIN events /\ j \in Nat /\ i \in Nat /\ j # 1
          BY <3>1, <5>1, HeadHandled DEF Deletions
        <5>3. j - 1 \in Deletions(m)' /\ events'[j - 1] = events[j] /\ i < j - 1
          BY <3>1, <5>1, <5>2, HeadHandled
        <5>. QED
          BY <5>1, <5>3 DEF Known
      <4>. QED
        BY <3>1, <3>2, <4>1 DEF Known
    <3>. QED
      BY <3>1, <3>2, HeadHandled DEF EventsCurrent
  <2>2. CASE AllocateCIDR \/ AllocateFails \/ Enqueue
    BY <1>1, <2>2 DEF AllocateCIDR, AllocateFails, Enqueue, informer
  <2>. QED
    BY <1>4, <2>1, <2>2 DEF HandlerStep
<1>5. CASE StartStep
  <2>1. CASE InformerList
    BY <2>1, ListedEvents DEF InformerList, EventsCurrent, Known
  <2>2. CASE ReconcileList \/ ReconcileListFails \/ OccupyListed \/ ReconcileDone
    BY <1>1, <2>2 DEF ReconcileList, ReconcileListFails, OccupyListed, ReconcileDone,
                      informer
  <2>. QED
    BY <1>5, <2>1, <2>2 DEF StartStep
<1>6. ASSUME NEW w \in Workers, WorkerStep(w) \/ FaultStep(w)
      PROVE  EventsCurrent'
  <2>1. UNCHANGED informer
    BY <1>6 DEF WorkerStep, FaultStep, Take, GetNode, PatchNode, PatchRejected,
       ReleaseReserved, Done, Requeue, GetNodeFails, PatchLost, PatchUnacked
  <2>. QED
    BY <1>1, <2>1 DEF informer
<1>7. CASE UNCHANGED vars
  BY <1>1, <1>7 DEF vars, informer
<1>. QED
  BY <1>2, <1>3, <1>4, <1>5, <1>6, <1>7 DEF Next

-----------------------------------------------------------------------------
\* NothingListed

\* The first process has not listed the nodes either.
LEMMA InitUnlisted == Init => NothingListed
BY DEF Init, NothingListed, NewSets, NewCIDRSet

\* Nothing is heard of and nothing is marked before the informer has listed.
LEMMA NextUnlisted == TypeOK /\ NothingListed /\ [Next]_vars => NothingListed'
<1>. SUFFICES ASSUME TypeOK, NothingListed, [Next]_vars, phase' = "boot"
              PROVE  cached' = {} /\ events' = <<>> /\ \A k \in SetIndices : sets'[k].used = {}
  BY DEF NothingListed
<1>1. CASE Restart
  BY <1>1 DEF Restart, NewSets, NewCIDRSet
<1>2. CASE phase = "boot" /\ ~Restart
  <2>1. cached = {} /\ events = <<>> /\ \A k \in SetIndices : sets[k].used = {}
    BY <1>2 DEF NothingListed
  <2>2. UNCHANGED <<cached, events, sets>>
    BY <1>2, <2>1
       DEF Next, vars, informer, NodeStep, CreateNode, DeleteNode, LeaderAssigns, LateWrite,
           OtherAssigns, Observe, Heartbeat, HandlerStep, HasEvent, HandleIgnored,
           HandleNodeWithCIDRs, HandleNodeWithoutCIDRs, HandleDelete, Allocating,
           AllocateCIDR, AllocateFails, Enqueue, StartStep, InformerList, ReconcileList,
           ReconcileListFails, OccupyListed, ReconcileDone, WorkerStep, FaultStep, At, Take, GetNode, PatchNode,
           PatchRejected, ReleaseReserved, Done, Requeue, GetNodeFails, PatchLost,
           PatchUnacked
  <2>. QED
    BY <2>1, <2>2
<1>3. phase = "boot" \/ Restart
  BY DEF Next, vars, start, NodeStep, CreateNode, DeleteNode, LeaderAssigns, LateWrite,
         OtherAssigns, Observe, Heartbeat, HandlerStep, HandleIgnored,
         HandleNodeWithCIDRs, HandleNodeWithoutCIDRs, HandleDelete, AllocateCIDR,
         AllocateFails, Enqueue, StartStep, InformerList, ReconcileList,
         ReconcileListFails, OccupyListed, ReconcileDone, WorkerStep, FaultStep, Take, GetNode, PatchNode, PatchRejected,
         ReleaseReserved, Done, Requeue, GetNodeFails, PatchLost, PatchUnacked
<1>. QED
  BY <1>1, <1>2, <1>3

-----------------------------------------------------------------------------
\* What the steps do to the bitmap

\* The one bitmap, and its type.
LEMMA BitmapOf ==
  ASSUME OneIPv4, SetsTypeOK
  PROVE  /\ sets[1] \in CidrSetState(ClusterCIDRs[1].maxCIDRs)
         /\ sets[1].used \subseteq NodeBlocks(1)
         /\ DOMAIN sets = {1}
<1>1. sets[1] \in CidrSetState(ClusterCIDRs[1].maxCIDRs)
  BY OneSet DEF SetsTypeOK
<1>2. DOMAIN sets = {1}
  BY OneSet DEF SetsTypeOK
<1>. QED
  BY <1>1, <1>2, OneSet DEF CidrSetState

\* What the calls do to the bitmap.
LEMMA BitmapChanges ==
  ASSUME OneIPv4, SetsTypeOK
  PROVE  /\ \A cidrs : OccupyNode(cidrs) => sets'[1].used = sets[1].used \cup Names(cidrs)
         /\ \A cidrs : ReleaseNode(cidrs) => sets'[1].used = sets[1].used \ Names(cidrs)
         /\ \A B : sets' = [sets EXCEPT ![1] = Release(@, B)]
              => sets'[1].used = sets[1].used \ B
         /\ sets' = [sets EXCEPT ![1] = AllocateNext(@)]
              => sets'[1].used = sets[1].used \cup {Candidate(sets[1])}
         /\ sets' = NewSets => sets'[1].used = {}
<1>1. /\ \A B : Occupy(sets[1], B).used = sets[1].used \cup B
      /\ \A B : Release(sets[1], B).used = sets[1].used \ B
      /\ AllocateNext(sets[1]).used = sets[1].used \cup {Candidate(sets[1])}
  BY BitmapOf DEF Occupy, Release, AllocateNext, CidrSetState
<1>2. \A cidrs : OccupyNode(cidrs) => sets'[1] = Occupy(sets[1], Names(cidrs))
  BY OneSet DEF OccupyNode, Names
<1>3. \A cidrs : ReleaseNode(cidrs) => sets'[1] = Release(sets[1], Names(cidrs))
  BY OneSet DEF ReleaseNode, Names
<1>4. \A s : sets' = [sets EXCEPT ![1] = s] => sets'[1] = s
  BY BitmapOf
<1>5. sets' = NewSets => sets'[1].used = {}
  BY OneSet DEF NewSets, NewCIDRSet
<1>. QED
  BY <1>1, <1>2, <1>3, <1>4, <1>5

-----------------------------------------------------------------------------
\* Who holds, and who carries

\* Holds and its primed form, with the deletions under a name.
LEMMA HoldsIs ==
  /\ \A n, b : Holds(n, b) <=>
       \/ n \in exists /\ b \in Names(podCIDRs[n])
       \/ n \in cached \ exists /\ b \in Names(finalCIDRs[n])
       \/ DeletionHas(n, b)
  /\ \A n, b : Holds(n, b)' <=>
       \/ n \in exists' /\ b \in Names(podCIDRs'[n])
       \/ n \in cached' \ exists' /\ b \in Names(finalCIDRs'[n])
       \/ DeletionHas(n, b)'
BY DEF Holds, DeletionHas

\* Only nodes hold, and only blocks of the cluster CIDR.
LEMMA HoldsTyped ==
  ASSUME OneIPv4, TypeOK, ListsKnown, NEW n, NEW b, Holds(n, b)
  PROVE  n \in Nodes /\ b \in NodeBlocks(1)
<1>1. ASSUME NEW i \in Deletions(n), b \in Names(events[i].cidrs)
      PROVE  n \in Nodes /\ b \in NodeBlocks(1)
  <2>1. i \in DOMAIN events /\ events[i].node = n
    BY DEF Deletions
  <2>2. events[i] \in EventType
    BY <2>1 DEF TypeOK, InformerTypeOK
  <2>3. n \in Nodes
    BY <2>1, <2>2 DEF EventType
  <2>. QED
    BY <1>1, <2>1, <2>3, NamesAreBlocks DEF ListsKnown
<1>. QED
  BY <1>1, NamesAreBlocks DEF Holds, ListsKnown, TypeOK, ApiTypeOK, InformerTypeOK

\* A node has one item, in one place.
LEMMA OneCarrier ==
  ASSUME OneIPv4, TypeOK, OneItem, NEW n, NEW b
  PROVE  /\ HandlerHas(n, b) => n \in Nodes /\ b \in NodeBlocks(1)
         /\ QueueHas(n, b) => n \in Nodes /\ b \in NodeBlocks(1)
         /\ \A w \in Workers : Unreleased(w) /\ ItemOf(w) = Item(n, <<b>>)
              => n \in Nodes /\ b \in NodeBlocks(1)
         /\ Carries(n, b) => n \in nodesInProcessing
<1>. USE DEF TypeOK
<1>1. Item(n, <<b>>).node = n /\ Item(n, <<b>>).blocks = <<b>> /\ Item(n, <<b>>) # NoItem
  BY SameItem
<1>2. Item(n, <<b>>) \in PartialItem => n \in Nodes /\ b \in NodeBlocks(1) /\ n # NoNode
  <2>. SUFFICES ASSUME Item(n, <<b>>) \in PartialItem
                PROVE  n \in Nodes /\ b \in NodeBlocks(1) /\ n # NoNode
    OBVIOUS
  <2>1. n \in Nodes /\ <<b>> \in BlockLists
    BY <1>1 DEF PartialItem
  <2>2. 1 \in DOMAIN <<b>> /\ <<b>>[1] = b
    OBVIOUS
  <2>. QED
    BY <2>1, <2>2, NodesAssumption DEF BlockLists
<1>3. HandlerHas(n, b) => Item(n, <<b>>) \in PartialItem /\ handler.node = n
  BY <1>1 DEF HandlerHas, ItemsTypeOK
<1>4. QueueHas(n, b) => Item(n, <<b>>) \in PartialItem /\ n \in QueuedNodes
  BY <1>1, QueueTyped DEF QueueHas, FullItem, QueuedNodes
<1>5. ASSUME NEW w \in Workers, Unreleased(w), ItemOf(w) = Item(n, <<b>>)
      PROVE  Item(n, <<b>>) \in PartialItem /\ n \in WorkedNodes
  BY <1>1, <1>5, BusyTyped DEF Unreleased, FullItem, WorkedNodes
<1>. QED
  BY <1>2, <1>3, <1>4, <1>5
     DEF Carries, WorkerHas, OneItem, HandlerNode, BusyNodes

\* Holders stay when nodes, store and deletions do.
LEMMA HoldersStay ==
  ASSUME UNCHANGED <<api, cached, finalCIDRs>>,
         \A n, b : DeletionHas(n, b) <=> DeletionHas(n, b)'
  PROVE  \A n, b : Holds(n, b) <=> Holds(n, b)'
BY HoldsIs DEF api

\* Items stay when handler, channel and workers do.
LEMMA CarriersStay ==
  ASSUME UNCHANGED <<handler, queue, worker>>
  PROVE  /\ \A n, b : Carries(n, b) <=> Carries(n, b)'
         /\ UNCHANGED exists => \A n, b : Reserves(n, b) <=> Reserves(n, b)'
BY DEF Carries, Reserves, HandlerHas, QueueHas, WorkerHas, Unreleased, Meant, ItemOf

-----------------------------------------------------------------------------
\* MarkedIsOwned: who has a block keeps it in some way until it is released

\* The context of MarkedIsOwned in Accounting.
Bookkeeping ==
  /\ TypeOK /\ OneItem
  /\ ListsKnown /\ NothingListed /\ StoreCurrent /\ EventsCurrent /\ ListCurrent

Has(n, b) == Holds(n, b) \/ Carries(n, b)

\* Marks stay accounted for when new ones, and those that stay, have somebody.
LEMMA StaysAccounted ==
  ASSUME MarkedIsOwned,
         \A b \in sets'[1].used \ sets[1].used : \E n \in Nodes : Has(n, b)',
         \A n \in Nodes : \A b \in sets'[1].used : Has(n, b) => Has(n, b)'
  PROVE  MarkedIsOwned'
BY DEF MarkedIsOwned, Has

\* A step outside handler, channel, workers and bitmap.
LEMMA HoldersKeep ==
  ASSUME MarkedIsOwned, UNCHANGED <<sets, handler, queue, worker>>,
         \A n \in Nodes : \A b : Holds(n, b) => Holds(n, b)'
  PROVE  MarkedIsOwned'
BY CarriersStay, StaysAccounted DEF Has

\* A step inside them that changes no bitmap.
LEMMA CarriersKeep ==
  ASSUME MarkedIsOwned, UNCHANGED <<api, informer, sets>>,
         \A n \in Nodes : \A b : Carries(n, b) => Has(n, b)'
  PROVE  MarkedIsOwned'
<1>1. \A n, b : DeletionHas(n, b) <=> DeletionHas(n, b)'
  BY DEF DeletionHas, Deletions, informer
<1>. QED
  BY <1>1, HoldersStay, StaysAccounted DEF Has, informer

\* The node goes, and its block is in the store; no one else's is touched.
LEMMA NodesAccounted ==
  ASSUME Tidy, Bookkeeping, MarkedIsOwned, NEW n \in Nodes, NodeStep(n) \/ LateWrite(n)
  PROVE  MarkedIsOwned'
<1>. USE DEF Bookkeeping, TypeOK
<1>1. /\ "relist" \notin Environment /\ "earlyDelete" \notin Environment
      /\ UNCHANGED <<sets, handler, queue, worker>>
  BY DEF Tidy, NodeStep, CreateNode, DeleteNode, LeaderAssigns, LateWrite, OtherAssigns,
         Observe, Heartbeat
<1>. SUFFICES \A m \in Nodes : \A b : Holds(m, b) => Holds(m, b)'
  BY <1>1, HoldersKeep
<1>2. ASSUME UNCHANGED events
      PROVE  \A m, b : DeletionHas(m, b) <=> DeletionHas(m, b)'
  BY <1>2 DEF DeletionHas, Deletions
<1>3. CASE CreateNode(n)
  <2>1. n \notin cached /\ exists' = exists \cup {n} /\ UNCHANGED <<podCIDRs, informer>>
    BY <1>1, <1>3 DEF CreateNode
  <2>. QED
    BY <1>2, <2>1, HoldsIs DEF informer
<1>4. CASE DeleteNode(n)
  <2>1. /\ n \in cached /\ n \in exists /\ exists' = exists \ {n}
        /\ podCIDRs' = [podCIDRs EXCEPT ![n] = <<>>]
        /\ finalCIDRs' = [finalCIDRs EXCEPT ![n] = podCIDRs[n]]
        /\ UNCHANGED <<cached, events>>
    BY <1>1, <1>4 DEF DeleteNode
  <2>2. /\ finalCIDRs'[n] = podCIDRs[n]
        /\ \A m \in Nodes : m # n => podCIDRs'[m] = podCIDRs[m] /\ finalCIDRs'[m] = finalCIDRs[m]
    BY <2>1 DEF ListsKnown
  <2>. QED
    BY <1>2, <2>1, <2>2, HoldsIs
<1>5. CASE LeaderAssigns(n) \/ LateWrite(n)
  <2>1. /\ podCIDRs[n] = <<>> /\ UNCHANGED <<exists, informer>>
        /\ \E cidrs \in Leftover : podCIDRs' = [podCIDRs EXCEPT ![n] = cidrs]
    BY <1>5 DEF LeaderAssigns, LateWrite, OtherAssigns
  <2>2. \A m \in Nodes : m # n => podCIDRs'[m] = podCIDRs[m]
    BY <2>1 DEF ListsKnown
  <2>3. Names(podCIDRs[n]) = {}
    BY <2>1, NamesOfForms
  <2>. QED
    BY <1>2, <2>1, <2>2, <2>3, HoldsIs DEF informer
<1>6. CASE Heartbeat(n) \/ (Observe(n) /\ n \in exists)
  <2>1. PICK type \in {"add", "update"}, cidrs \in Seq(CIDR) :
          events' = Append(events, Event(type, n, cidrs))
    BY <1>6, EmptyTyped DEF Observe, Heartbeat, ApiTypeOK
  <2>2. \A m, b : DeletionHas(m, b) <=> DeletionHas(m, b)'
    BY <2>1, Announced
  <2>3. /\ UNCHANGED <<exists, podCIDRs>> /\ cached' = cached \cup {n} /\ n \in exists
        /\ finalCIDRs' = [finalCIDRs EXCEPT ![n] = <<>>] \/ UNCHANGED finalCIDRs
    BY <1>6 DEF Observe, Heartbeat, api
  <2>4. \A m \in Nodes : m # n => finalCIDRs'[m] = finalCIDRs[m]
    BY <2>3 DEF ListsKnown
  <2>. QED
    BY <2>2, <2>3, <2>4, HoldsIs
<1>7. CASE Observe(n) /\ n \notin exists
  <2>1. /\ events' = Append(events, Event("delete", n, finalCIDRs[n]))
        /\ UNCHANGED <<exists, podCIDRs>> /\ cached' = cached \ {n}
        /\ finalCIDRs' = [finalCIDRs EXCEPT ![n] = <<>>]
    BY <1>1, <1>7 DEF Observe, DeletedCIDRs, api
  <2>2. finalCIDRs[n] \in Seq(CIDR)
    BY DEF InformerTypeOK
  <2>3. \A m, b : DeletionHas(m, b)' <=>
          DeletionHas(m, b) \/ (m = n /\ b \in Names(finalCIDRs[n]))
    BY <2>1, <2>2, Announced
  <2>4. \A m \in Nodes : m # n => finalCIDRs'[m] = finalCIDRs[m]
    BY <2>1 DEF ListsKnown
  <2>. QED
    BY <1>7, <2>1, <2>3, <2>4, HoldsIs
<1>. QED
  BY <1>3, <1>4, <1>5, <1>6, <1>7 DEF NodeStep

\* What is occupied has a holder; what a delete event held is released with it.
LEMMA EventsAccounted ==
  ASSUME Tidy, Bookkeeping, MarkedIsOwned,
         HandleIgnored \/ HandleNodeWithCIDRs \/ HandleNodeWithoutCIDRs \/ HandleDelete
  PROVE  MarkedIsOwned'
<1>. USE DEF Bookkeeping, TypeOK
<1>. DEFINE e == Head(events)
<1>1. HasEvent /\ Handled /\ UNCHANGED <<api, queue, worker, cached, finalCIDRs>>
  BY DEF HandleIgnored, HandleNodeWithCIDRs, HandleNodeWithoutCIDRs, HandleDelete, Handled
<1>2. /\ \A n, b : DeletionHas(n, b) =>
           DeletionHas(n, b)' \/ (e.type = "delete" /\ e.node = n /\ b \in Names(e.cidrs))
      /\ 1 \in DOMAIN events /\ e = events[1] /\ e.node \in Nodes
  BY <1>1, HeadHandled, HandledTyped
<1>3. \A n, b : Holds(n, b) =>
        Holds(n, b)' \/ (e.type = "delete" /\ b \in Names(e.cidrs))
  BY <1>1, <1>2, HoldsIs DEF api
<1>4. \A n, b : Carries(n, b) => Carries(n, b)'
  <2>1. \A n, b : HandlerHas(n, b) => HandlerHas(n, b)'
    <3>1. CASE UNCHANGED handler
      BY <3>1 DEF HandlerHas
    <3>2. CASE handler = NoItem
      BY <3>2, SameItem DEF HandlerHas
    <3>. QED
      BY <1>1, <3>1, <3>2 DEF HasEvent
  <2>2. \A n, b : QueueHas(n, b) => QueueHas(n, b)'
    BY <1>1 DEF QueueHas
  <2>3. \A n, b : WorkerHas(n, b) => WorkerHas(n, b)'
    BY <1>1 DEF WorkerHas, Unreleased, ItemOf
  <2>. QED
    BY <2>1, <2>2, <2>3 DEF Carries
<1>5. CASE HandleIgnored \/ HandleNodeWithoutCIDRs
  <2>1. e.type # "delete" /\ UNCHANGED sets
    BY <1>5 DEF HandleIgnored, HandleNodeWithoutCIDRs, ForAllocate
  <2>. QED
    BY <1>3, <1>4, <2>1, StaysAccounted DEF Has
<1>6. CASE HandleNodeWithCIDRs
  <2>1. e.type # "delete" /\ e.cidrs # <<>> /\ OccupyNode(e.cidrs)
    BY <1>6 DEF HandleNodeWithCIDRs, ForAllocate
  <2>2. sets'[1].used = sets[1].used \cup Names(e.cidrs)
    BY <2>1, BitmapChanges DEF Tidy
  <2>3. Occupying(1, e.node, e.cidrs)
    BY <1>2, <2>1 DEF Occupying
  <2>4. \A b \in Names(e.cidrs) : Holds(e.node, b)
    BY <2>3, OccupyingHeld DEF Holds
  <2>. QED
    BY <1>2, <1>3, <1>4, <2>1, <2>2, <2>4, StaysAccounted DEF Has
<1>7. CASE HandleDelete
  <2>1. sets'[1].used = sets[1].used \ Names(e.cidrs)
    BY <1>7, BitmapChanges DEF HandleDelete, Tidy
  <2>. QED
    BY <1>3, <1>4, <2>1, StaysAccounted DEF Has
<1>. QED
  BY <1>5, <1>6, <1>7

\* The handler marks the block that it puts into its item, and hands both on.
LEMMA AllocationAccounted ==
  ASSUME Tidy, Bookkeeping, MarkedIsOwned, AllocateCIDR \/ AllocateFails \/ Enqueue
  PROVE  MarkedIsOwned'
<1>. USE DEF Bookkeeping, TypeOK
<1>0. OneIPv4
  BY DEF Tidy
<1>1. UNCHANGED <<api, informer, worker>>
  BY DEF AllocateCIDR, AllocateFails, Enqueue
<1>2. \A n, b : WorkerHas(n, b) <=> WorkerHas(n, b)'
  BY <1>1 DEF WorkerHas, Unreleased, ItemOf
<1>3. CASE AllocateCIDR \/ AllocateFails
  <2>1. handler # NoItem /\ NextSet \in SetIndices /\ UNCHANGED queue
    BY <1>3 DEF AllocateCIDR, AllocateFails, Allocating
  <2>2. handler \in PartialItem /\ handler.blocks \in Seq(Nat) /\ NextSet = 1
    BY <1>0, <2>1, OneSet DEF ItemsTypeOK, PartialItem, BlockLists
  <2>3. handler.blocks = <<>> /\ handler.node \in Nodes
    BY <2>2, EmptySeq DEF NextSet, PartialItem
  <2>4. \A n, b : ~HandlerHas(n, b)
    BY <2>3, OneBlockItem DEF HandlerHas
  <2>5. \A n, b : Carries(n, b) => Carries(n, b)'
    BY <1>2, <2>1, <2>4 DEF Carries, QueueHas
  <2>6. CASE AllocateFails
    <3>1. UNCHANGED sets
      BY <2>6 DEF AllocateFails
    <3>. QED
      BY <1>1, <2>5, <3>1, CarriersKeep DEF Has
  <2>7. CASE AllocateCIDR
    <3>1. PICK c, n :
            /\ c = Candidate(sets[1]) /\ n = handler.node
            /\ sets' = [sets EXCEPT ![1] = AllocateNext(@)]
            /\ handler' = [handler EXCEPT !.blocks = Append(@, c)]
      BY <2>2, <2>7 DEF AllocateCIDR
    <3>2. sets'[1].used = sets[1].used \cup {c}
      BY <1>0, <3>1, BitmapChanges
    <3>3. handler' = Item(n, <<c>>)
      BY <2>2, <2>3, <3>1 DEF PartialItem, Item
    <3>4. Has(n, c)'
      BY <3>3 DEF Has, Carries, HandlerHas
    <3>5. \A m, b : DeletionHas(m, b) <=> DeletionHas(m, b)'
      BY <1>1 DEF DeletionHas, Deletions, informer
    <3>6. \A m, b : Holds(m, b) <=> Holds(m, b)'
      BY <1>1, <3>5, HoldersStay DEF informer
    <3>. QED
      BY <2>3, <2>5, <3>1, <3>2, <3>4, <3>6, StaysAccounted DEF Has
  <2>. QED
    BY <1>3, <2>6, <2>7
<1>4. CASE Enqueue
  <2>1. queue' = Append(queue, handler) /\ UNCHANGED sets
    BY <1>4 DEF Enqueue
  <2>2. handler \in FullItem /\ queue \in Seq(FullItem)
    BY <1>4, EnqueuedIsFull DEF ItemsTypeOK
  <2>3. /\ DOMAIN queue' = DOMAIN queue \cup {Len(queue) + 1}
        /\ \A p \in DOMAIN queue : queue'[p] = queue[p]
        /\ queue'[Len(queue) + 1] = handler
    BY <2>1, <2>2, Appended
  <2>4. \A n, b : QueueHas(n, b) \/ HandlerHas(n, b) => QueueHas(n, b)'
    BY <2>3 DEF QueueHas, HandlerHas
  <2>. QED
    BY <1>1, <1>2, <2>1, <2>4, CarriersKeep DEF Carries, Has
<1>. QED
  BY <1>3, <1>4

\* A new process starts without marks, and marks what nodes have.
LEMMA StartAccounted ==
  ASSUME Tidy, Bookkeeping, MarkedIsOwned, Restart \/ StartStep
  PROVE  MarkedIsOwned'
<1>. USE DEF Bookkeeping, TypeOK
<1>0. OneIPv4 /\ 1 \in SetIndices
  BY OneSet DEF Tidy
<1>1. CASE Restart
  BY <1>0, <1>1, BitmapChanges DEF Restart, MarkedIsOwned
<1>2. CASE InformerList
  BY <1>0, <1>2 DEF InformerList, NothingListed, MarkedIsOwned
<1>3. CASE ReconcileList \/ ReconcileListFails \/ ReconcileDone
  <2>1. UNCHANGED <<api, informer, sets, handler, queue, worker>>
    BY <1>3 DEF ReconcileList, ReconcileListFails, ReconcileDone
  <2>. QED
    BY <2>1, CarriersStay, CarriersKeep DEF Has
<1>4. CASE OccupyListed
  <2>1. PICK cidrs \in toOccupy :
          /\ OccupyNode(cidrs) /\ phase = "occupying"
          /\ UNCHANGED <<api, informer, handler, queue, worker>>
    BY <1>4 DEF OccupyListed
  <2>2. sets'[1].used = sets[1].used \cup Names(cidrs)
    BY <1>0, <2>1, BitmapChanges
  <2>3. \A b \in Names(cidrs) : \E n \in Nodes : Holds(n, b)
    BY <2>1, HoldsIs DEF ListCurrent, ApiTypeOK
  <2>4. \A n, b : DeletionHas(n, b) <=> DeletionHas(n, b)'
    BY <2>1 DEF DeletionHas, Deletions, informer
  <2>5. \A n, b : Has(n, b) <=> Has(n, b)'
    BY <2>1, <2>4, HoldersStay, CarriersStay DEF Has, informer
  <2>. QED
    BY <2>2, <2>3, <2>5, StaysAccounted DEF Has
<1>. QED
  BY <1>1, <1>2, <1>3, <1>4 DEF StartStep

\* The block of a busy worker.
WorkedOn(w, n, b) == Unreleased(w) /\ ItemOf(w) = Item(n, <<b>>)

\* Whatever worker w does, the items of the others stay what they are.
LEMMA OthersCarry ==
  ASSUME NEW w \in Workers, \A v \in Workers : v # w => worker'[v] = worker[v]
  PROVE  \A n, b : WorkerHas(n, b) => WorkerHas(n, b)' \/ WorkedOn(w, n, b)
BY DEF WorkerHas, WorkedOn, Unreleased, ItemOf

\* A worker that goes on without a release keeps its block, in its item or node.
LEMMA GoesOn ==
  ASSUME MarkedIsOwned, NEW w \in Workers, UNCHANGED <<api, informer, sets, handler, queue>>,
         \A v \in Workers : v # w => worker'[v] = worker[v],
         \A n \in Nodes : \A b : WorkedOn(w, n, b) => Holds(n, b) \/ WorkedOn(w, n, b)'
  PROVE  MarkedIsOwned'
<1>1. \A n, b : DeletionHas(n, b) <=> DeletionHas(n, b)'
  BY DEF DeletionHas, Deletions, informer
<1>2. \A n, b : Holds(n, b) <=> Holds(n, b)'
  BY <1>1, HoldersStay DEF informer
<1>3. \A n, b : WorkedOn(w, n, b)' => WorkerHas(n, b)'
  BY DEF WorkedOn, WorkerHas
<1>4. \A n \in Nodes : \A b : Carries(n, b) => Has(n, b)'
  BY <1>2, <1>3, OthersCarry DEF Carries, Has, HandlerHas, QueueHas
<1>. QED
  BY <1>4, CarriersKeep

\* An item goes from the channel to a worker, or back.
LEMMA ChannelAccounted ==
  ASSUME Tidy, Bookkeeping, MarkedIsOwned, NEW w \in Workers, Take(w) \/ Requeue(w)
  PROVE  MarkedIsOwned'
<1>. USE DEF Bookkeeping, TypeOK
<1>1. UNCHANGED <<api, informer, sets, handler>>
  BY DEF Take, Requeue
<1>. SUFFICES \A n, b : QueueHas(n, b) \/ WorkerHas(n, b) => QueueHas(n, b)' \/ WorkerHas(n, b)'
  BY <1>1, CarriersKeep DEF Carries, Has, HandlerHas
<1>2. CASE Take(w)
  <2>. DEFINE s == [pc |-> "get", item |-> Head(queue), i |-> 0]
  <2>1. /\ worker[w].pc = "idle" /\ queue # <<>> /\ queue' = Tail(queue)
        /\ worker' = [worker EXCEPT ![w] = s] /\ s.pc = "get" /\ s.item = Head(queue)
    BY <1>2 DEF Take, At
  <2>. HIDE DEF s
  <2>2. /\ worker'[w].pc = "get" /\ ItemOf(w)' = Head(queue)
        /\ \A v \in Workers : v # w => worker'[v] = worker[v]
    BY <2>1, WorkerIs DEF ItemOf
  <2>3. /\ Head(queue) = queue[1]
        /\ \A p \in DOMAIN queue : p # 1 => p - 1 \in DOMAIN queue' /\ queue'[p - 1] = queue[p]
    BY <2>1, Tailed DEF ItemsTypeOK
  <2>4. \A n, b : QueueHas(n, b) => QueueHas(n, b)' \/ WorkerHas(n, b)'
    BY <2>2, <2>3 DEF QueueHas, WorkerHas, Unreleased
  <2>5. \A n, b : ~WorkedOn(w, n, b)
    BY <2>1 DEF WorkedOn, Unreleased
  <2>. QED
    BY <2>2, <2>4, <2>5, OthersCarry
<1>3. CASE Requeue(w)
  <2>1. /\ worker[w].pc # "idle" /\ worker' = [worker EXCEPT ![w] = Idle]
        /\ queue' = Append(queue, ItemOf(w))
    BY <1>3 DEF Requeue, At
  <2>2. ItemOf(w) \in FullItem /\ \A v \in Workers : v # w => worker'[v] = worker[v]
    BY <2>1, BusyTyped, WorkerIs
  <2>3. /\ DOMAIN queue' = DOMAIN queue \cup {Len(queue) + 1}
        /\ \A p \in DOMAIN queue : queue'[p] = queue[p]
        /\ queue'[Len(queue) + 1] = ItemOf(w)
    BY <2>1, <2>2, Appended DEF ItemsTypeOK
  <2>4. \A n, b : QueueHas(n, b) \/ WorkedOn(w, n, b) => QueueHas(n, b)'
    BY <2>3 DEF QueueHas, WorkedOn
  <2>. QED
    BY <2>2, <2>4, OthersCarry
<1>. QED
  BY <1>2, <1>3

\* The CIDRs that GetNode recognises are the node's.
LEMMA GetAccounted ==
  ASSUME Tidy, Bookkeeping, MarkedIsOwned, NEW w \in Workers, GetNode(w) \/ GetNodeFails(w)
  PROVE  MarkedIsOwned'
<1>. USE DEF Bookkeeping, TypeOK
<1>. DEFINE n == ItemOf(w).node
<1>1. /\ worker[w].pc = "get" /\ UNCHANGED <<api, informer, sets, handler, queue>>
  BY DEF GetNode, GetNodeFails, At
<1>2. PICK pc, i : /\ Goto(w, pc, i)
                   /\ pc \in {"giveBack", "patch", "requeue", "done"}
                   /\ pc = "giveBack" => i = 1
                   /\ pc = "done" => n \in exists /\ Matches(podCIDRs[n], ItemOf(w))
  BY DEF GetNode, GetNodeFails, AfterGet
<1>3. /\ worker'[w].pc = pc /\ worker'[w].i = i /\ ItemOf(w)' = ItemOf(w)
      /\ \A v \in Workers : v # w => worker'[v] = worker[v]
  BY <1>1, <1>2, WentTo
<1>4. CASE pc = "done"
  <2>1. \A m, b : WorkedOn(w, m, b) => m = n /\ b = ItemOf(w).blocks[1]
    BY OneBlockItem DEF WorkedOn
  <2>2. Names(podCIDRs[n]) = {ItemOf(w).blocks[1]} /\ n \in exists
    BY <1>1, <1>2, <1>4, WantedNames DEF Tidy
  <2>3. \A m, b : WorkedOn(w, m, b) => Holds(m, b)
    BY <2>1, <2>2 DEF Holds
  <2>. QED
    BY <1>1, <1>3, <2>3, GoesOn
<1>5. CASE pc # "done"
  <2>1. Unreleased(w)'
    BY <1>2, <1>3, <1>5 DEF Unreleased
  <2>2. \A m, b : WorkedOn(w, m, b) => WorkedOn(w, m, b)'
    BY <1>3, <2>1 DEF WorkedOn
  <2>. QED
    BY <1>1, <1>3, <2>2, GoesOn
<1>. QED
  BY <1>4, <1>5

\* A patch that fails leaves the block in the item, and one that is applied gives it
\* to the node, whatever the answer says.
LEMMA PatchAccounted ==
  ASSUME Tidy, Bookkeeping, MarkedIsOwned, NEW w \in Workers,
         PatchNode(w) \/ PatchRejected(w) \/ PatchLost(w) \/ PatchUnacked(w)
  PROVE  MarkedIsOwned'
<1>. USE DEF Bookkeeping, TypeOK
<1>0. PICK n, b : n = ItemOf(w).node /\ b = ItemOf(w).blocks[1]
  OBVIOUS
<1>1. /\ worker[w].pc = "patch" /\ UNCHANGED <<informer, sets, handler, queue>>
      /\ \/ UNCHANGED api /\ \E reason : PatchError(w, reason)
         \/ /\ Acceptable(w) /\ Apply(w)
            /\ Goto(w, "done", 0) \/ \E reason : PatchError(w, reason)
  BY DEF PatchNode, PatchRejected, PatchLost, PatchUnacked, At
<1>2. \A v \in Workers : v # w => worker'[v] = worker[v]
  BY <1>1, WentTo, PatchErrorIs
<1>3. CASE UNCHANGED api /\ \E reason : PatchError(w, reason)
  <2>1. ItemOf(w)' = ItemOf(w) /\ Unreleased(w)'
    BY <1>1, <1>3, PatchErrorIs DEF Unreleased
  <2>2. \A m, c : WorkedOn(w, m, c) => WorkedOn(w, m, c)'
    BY <2>1 DEF WorkedOn
  <2>. QED
    BY <1>1, <1>2, <1>3, <2>2, GoesOn
<1>4. CASE Acceptable(w) /\ Apply(w)
  <2>1. /\ n \in exists /\ podCIDRs[n] \in {<<>>, Wanted(w)} /\ UNCHANGED exists
        /\ podCIDRs' = [podCIDRs EXCEPT ![n] = Wanted(w)]
    BY <1>0, <1>4 DEF Acceptable, Accepted, Apply
  <2>2. Names(Wanted(w)) = {b} /\ Names(<<>>) = {}
    BY <1>0, <1>1, WantedNames, NamesOfForms DEF Tidy
  <2>3. n \in Nodes /\ podCIDRs'[n] = Wanted(w)
        /\ \A m \in Nodes : m # n => podCIDRs'[m] = podCIDRs[m]
    BY <2>1 DEF ListsKnown, ApiTypeOK
  <2>4. \A m, c : DeletionHas(m, c) <=> DeletionHas(m, c)'
    BY <1>1 DEF DeletionHas, Deletions, informer
  <2>5. Holds(n, b)' /\ \A m \in Nodes : \A c : Holds(m, c) => Holds(m, c)'
    BY <1>1, <2>1, <2>2, <2>3, <2>4, HoldsIs DEF informer
  <2>6. \A m, c : WorkedOn(w, m, c) => m = n /\ c = b
    BY <1>0, OneBlockItem DEF WorkedOn
  <2>7. \A m \in Nodes : \A c : Has(m, c) => Has(m, c)'
    BY <1>1, <1>2, <2>5, <2>6, OthersCarry DEF Has, Carries, HandlerHas, QueueHas
  <2>. QED
    BY <1>1, <2>7, StaysAccounted
<1>. QED
  BY <1>1, <1>3, <1>4

\* A worker ends with its block when the block is released.
LEMMA ReleaseAccounted ==
  ASSUME Tidy, Bookkeeping, MarkedIsOwned, NEW w \in Workers, ReleaseReserved(w) \/ Done(w)
  PROVE  MarkedIsOwned'
<1>. USE DEF Bookkeeping, TypeOK
<1>1. UNCHANGED <<api, informer, handler, queue>>
  BY DEF ReleaseReserved, Done
<1>2. CASE ReleaseReserved(w)
  <2>. DEFINE b == ItemOf(w).blocks[1]
  <2>1. /\ worker[w].pc # "idle" /\ Goto(w, worker[w].pc, worker[w].i + 1)
        /\ sets' = [sets EXCEPT ![1] = Release(@, {b})]
    BY <1>2, OneSet DEF ReleaseReserved, At, Tidy
  <2>2. sets'[1].used = sets[1].used \ {b}
    BY <2>1, BitmapChanges DEF Tidy
  <2>3. \A n, c : WorkedOn(w, n, c) => c = b
    BY OneBlockItem DEF WorkedOn
  <2>4. \A v \in Workers : v # w => worker'[v] = worker[v]
    BY <2>1, WentTo
  <2>5. \A n, c : DeletionHas(n, c) <=> DeletionHas(n, c)'
    BY <1>1 DEF DeletionHas, Deletions, informer
  <2>6. \A n, c : Holds(n, c) <=> Holds(n, c)'
    BY <1>1, <2>5, HoldersStay DEF informer
  <2>. HIDE DEF b
  <2>7. \A n, c : Has(n, c) => Has(n, c)' \/ c = b
    BY <1>1, <2>3, <2>4, <2>6, OthersCarry DEF Has, Carries, HandlerHas, QueueHas
  <2>. QED
    BY <2>2, <2>7, StaysAccounted
<1>3. CASE Done(w)
  <2>1. /\ worker[w].pc = "done" \/ (worker[w].pc = "giveBack" /\ worker[w].i > NSets)
        /\ worker' = [worker EXCEPT ![w] = Idle] /\ UNCHANGED sets
    BY <1>3 DEF Done, At
  <2>2. \A n, b : ~WorkedOn(w, n, b)
    BY <2>1 DEF WorkedOn, Unreleased, Tidy, OneIPv4
  <2>3. \A v \in Workers : v # w => worker'[v] = worker[v]
    BY <2>1, WorkerIs
  <2>. QED
    BY <1>1, <2>1, <2>2, <2>3, GoesOn
<1>. QED
  BY <1>2, <1>3

\* To begin with nothing is marked, and every step keeps the account.
LEMMA NextAccounted ==
  /\ OneIPv4 /\ Init => MarkedIsOwned
  /\ Tidy /\ Bookkeeping /\ MarkedIsOwned /\ [Next]_vars => MarkedIsOwned'
<1>1. OneIPv4 /\ Init => MarkedIsOwned
  BY OneSet DEF Init, NewSets, NewCIDRSet, MarkedIsOwned
<1>2. ASSUME Tidy, Bookkeeping, MarkedIsOwned, [Next]_vars
      PROVE  MarkedIsOwned'
  <2>1. CASE UNCHANGED vars
    <3>1. UNCHANGED <<api, informer, sets, handler, queue, worker>>
      BY <2>1 DEF vars
    <3>. QED
      BY <1>2, <3>1, CarriersStay, CarriersKeep DEF Has
  <2>. QED
    BY <1>2, <2>1, NodesAccounted, EventsAccounted, AllocationAccounted, StartAccounted,
       ChannelAccounted, GetAccounted, PatchAccounted, ReleaseAccounted
       DEF Next, HandlerStep, WorkerStep, FaultStep
<1>. QED
  BY <1>1, <1>2

(***************************************************************************)
(* In a tidy environment every marked block has somebody: a node, deleted  *)
(* or not, or an item that was not released.  Patches may be lost, or be   *)
(* applied behind an error, names come back, a former leader write late    *)
(* and nodes share blocks.                                                 *)
(***************************************************************************)
THEOREM AccountingCorrect ==
  ASSUME Tidy
  PROVE  Spec => []Accounting
<1>1. Spec => []TypeOK /\ []OneItemPerNode
  BY TypeCorrect, OneItemCorrect, PTL
<1>2. TypeOK /\ OneItemPerNode => OneItem
  BY OneItemIsOneItemPerNode DEF TypeOK
<1>3. TypeOK /\ Init => Accounting
  BY InitKnown, InitUnlisted, InitCurrent, InitListed, NextAccounted DEF Accounting, Tidy
<1>4. TypeOK /\ OneItem /\ Accounting /\ [Next]_vars => Accounting'
  <2>. SUFFICES ASSUME TypeOK, OneItem, Accounting, [Next]_vars
                PROVE  Accounting'
    OBVIOUS
  <2>1. \A n \in Nodes : CreateNode(n) => n \notin cached
    BY DEF CreateNode, Tidy
  <2>2. "earlyDelete" \notin Environment /\ Bookkeeping
    BY DEF Tidy, Accounting, Bookkeeping
  <2>. QED
    BY <2>1, <2>2, NextKnown, NextUnlisted, NextStore, NextCurrent, NextListed, NextAccounted
       DEF Accounting
<1>. QED
  BY <1>1, <1>2, <1>3, <1>4, PTL DEF Spec

-----------------------------------------------------------------------------
\* What Accounting says of the Node objects and of the items

\* Held, which Allocator counts per CidrSet, is what podCIDRs names.
LEMMA HeldIs ==
  ASSUME OneIPv4, ListsKnown, NEW n \in Nodes
  PROVE  \A k, b : <<k, b>> \in Held(n) <=> k = 1 /\ b \in Names(podCIDRs[n])
<1>1. \A b : V4Block(b).set = 1 /\ V4Block(b).block = b
  BY DEF V4Block
<1>2. podCIDRs[n] \in Leftover
  BY DEF ListsKnown
<1>3. ASSUME NEW k, NEW b, <<k, b>> \in Held(n)
      PROVE  k = 1 /\ b \in Names(podCIDRs[n])
  <2>1. PICK i \in DOMAIN podCIDRs[n] :
          /\ podCIDRs[n][i].set # 0
          /\ <<k, b>> = <<podCIDRs[n][i].set, podCIDRs[n][i].block>>
    BY <1>3 DEF Held
  <2>2. PICK c \in Names(podCIDRs[n]) : podCIDRs[n][i] = V4Block(c)
    BY <1>2, <2>1, NamesAreBlocks
  <2>. QED
    BY <1>1, <2>1, <2>2
<1>4. ASSUME NEW b \in Names(podCIDRs[n])
      PROVE  <<1, b>> \in Held(n)
  <2>1. PICK i \in DOMAIN podCIDRs[n] : podCIDRs[n][i] = V4Block(b)
    BY <1>2, <1>4, NamesAreBlocks
  <2>. QED
    BY <1>1, <2>1 DEF Held
<1>. QED
  BY <1>3, <1>4

\* What an item carries is reserved, in the words of Allocator.
LEMMA CarriedIsReserved ==
  ASSUME OneIPv4, TypeOK, OneItem, NEW n, NEW b, Carries(n, b)
  PROVE  n \in Nodes /\ <<1, b>> \in Reserved(n)
<1>. USE DEF TypeOK
<1>1. n \in Nodes /\ Item(n, <<b>>).node = n /\ Item(n, <<b>>).blocks = <<b>>
      /\ DOMAIN <<b>> = {1} /\ <<b>>[1] = b /\ 1 \in SetIndices
  BY OneCarrier, OneSet, SameItem DEF Carries, WorkerHas
<1>2. CASE HandlerHas(n, b)
  BY <1>1, <1>2 DEF HandlerHas, Reserved
<1>3. CASE QueueHas(n, b)
  BY <1>1, <1>3 DEF QueueHas, Reserved
<1>4. CASE WorkerHas(n, b)
  <2>1. PICK w \in Workers : Unreleased(w) /\ ItemOf(w) = Item(n, <<b>>)
    BY <1>4 DEF WorkerHas
  <2>2. GivenBack(w) = 0
    BY <2>1 DEF Unreleased, GivenBack
  <2>3. 1 \in GivenBack(w) + 1 .. NSets
    BY <2>2 DEF OneIPv4
  <2>. QED
    BY <1>1, <2>1, <2>3 DEF Reserved
<1>. QED
  BY <1>1, <1>2, <1>3, <1>4 DEF Carries

\* Who holds or carries a marked block is among those Allocator allows.
LEMMA MarksHaveOwners ==
  OneIPv4 /\ TypeOK /\ OneItem /\ Accounting => MarksAccounted
<1>. SUFFICES ASSUME OneIPv4, TypeOK, OneItem, Accounting,
                     NEW b \in sets[1].used
              PROVE  \/ \E n \in exists : <<1, b>> \in Held(n)
                     \/ \E n \in Nodes : <<1, b>> \in Reserved(n)
                     \/ AwaitsRelease(1, b)
  BY OneSet DEF MarksAccounted
<1>. USE DEF Accounting, TypeOK
<1>1. ASSUME NEW cidrs \in Leftover, b \in Names(cidrs)
      PROVE  b \in BlocksOf(cidrs, 1)
  <2>1. PICK i \in DOMAIN cidrs : cidrs[i] = V4Block(b)
    BY <1>1, NamesAreBlocks
  <2>. QED
    BY <2>1 DEF BlocksOf, V4Block
<1>2. PICK n \in Nodes : Holds(n, b) \/ Carries(n, b)
  BY DEF MarkedIsOwned
<1>3. CASE Carries(n, b)
  BY <1>3, CarriedIsReserved
<1>4. CASE n \in exists /\ b \in Names(podCIDRs[n])
  BY <1>4, HeldIs
<1>5. CASE n \in cached \ exists /\ b \in Names(finalCIDRs[n])
  <2>1. finalCIDRs[n] \in Leftover
    BY DEF ListsKnown
  <2>. QED
    BY <1>1, <1>5, <2>1 DEF AwaitsRelease
<1>6. CASE DeletionHas(n, b)
  <2>1. PICK i \in Deletions(n) : b \in Names(events[i].cidrs)
    BY <1>6 DEF DeletionHas
  <2>2. i \in DOMAIN events /\ events[i].type = "delete" /\ events[i].cidrs \in Leftover
    BY <2>1 DEF Deletions, ListsKnown
  <2>. QED
    BY <1>1, <2>1, <2>2 DEF AwaitsRelease
<1>. QED
  BY <1>2, <1>3, <1>4, <1>5, <1>6, HoldsIs

(***************************************************************************)
(* In a tidy environment a marked block is in the podCIDRs of a node, or   *)
(* reserved by an item, or waits for a deletion to be handled: however     *)
(* patches fail, names come back and former leaders write, no mark is left *)
(* that nobody would ever take back.                                       *)
(***************************************************************************)
THEOREM MarksAccountedCorrect ==
  ASSUME Tidy
  PROVE  Spec => []MarksAccounted
<1>1. Spec => []TypeOK /\ []OneItemPerNode /\ []Accounting
  BY TypeCorrect, OneItemCorrect, AccountingCorrect, PTL
<1>2. TypeOK /\ OneItemPerNode => OneItem
  BY OneItemIsOneItemPerNode DEF TypeOK
<1>3. TypeOK /\ OneItem /\ Accounting => MarksAccounted
  BY MarksHaveOwners DEF Tidy
<1>. QED
  BY <1>1, <1>2, <1>3, PTL
=============================================================================
