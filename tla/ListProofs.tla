------------------------------ MODULE ListProofs ------------------------------
(***************************************************************************)
(* The lists of CIDRs of one IPv4 cluster CIDR, case by case, and where    *)
(* they occur: whatever the environment does, only a list that an          *)
(* assignment can have reaches a node, the store, or an event.  From this  *)
(* it follows that a worker recognises its own patch in mode "ipv4".       *)
(***************************************************************************)
EXTENDS AllocatorProofs, Ownership

V4Block(b) == [fam |-> "v4", set |-> 1, block |-> b]

\* What a node gets with block b.
Assigned(b) == PatchedCIDRs(ProposedCIDRs(<<b>>))

\* What the provers need to know of lists of two entries at most.
LEMMA ShortLists ==
  ASSUME NEW x, NEW y
  PROVE  /\ <<x>> # <<>> /\ <<x, y>> # <<>> /\ DOMAIN <<>> = {}
         /\ Append(<<x>>, y) = <<x, y>>
<1>1. <<x>> \in Seq({x, y}) /\ <<x, y>> \in Seq({x, y}) /\ Len(<<x>>) = 1
      /\ Len(<<x, y>>) = 2 /\ Len(<<>>) = 0
  OBVIOUS
<1>2. Append(<<x>>, y) \in Seq({x, y}) /\ Len(Append(<<x>>, y)) = 2
      /\ Append(<<x>>, y)[1] = x /\ Append(<<x>>, y)[2] = y
  BY <1>1
<1>3. <<x, y>>[1] = x /\ <<x, y>>[2] = y
  OBVIOUS
<1>4. Append(<<x>>, y) = <<x, y>>
  <2>. DEFINE s == Append(<<x>>, y)
              t == <<x, y>>
  <2>1. s \in Seq({x, y}) /\ t \in Seq({x, y}) /\ Len(s) = Len(t)
        /\ \A i \in 1 .. Len(s) : s[i] = t[i]
    BY <1>1, <1>2, <1>3
  <2>. HIDE DEF s, t
  <2>. s = t
    BY <2>1, SeqEqual
  <2>. QED
    BY DEF s, t
<1>. QED
  BY <1>1, <1>4

\* There is one CidrSet, of numbered blocks.
LEMMA OneSet ==
  ASSUME OneIPv4
  PROVE  /\ SetIndices = {1} /\ 1 \in SetIndices
         /\ NodeBlocks(1) = Blocks(ClusterCIDRs[1].maxCIDRs)
         /\ NodeBlocks(1) \subseteq Nat
BY NodeBlocksTypes DEF OneIPv4, SetIndices

\* With one tracked CIDR, the list names its block if it is one of ours.
LEMMA OneTracked ==
  ASSUME NEW cidrs, NEW i \in Nat, Tracked(cidrs) = {i}
  PROVE  Names(cidrs) = IF cidrs[i].set = 1 THEN {cidrs[i].block} ELSE {}
<1>1. {j \in Tracked(cidrs) : j <= i} = {i}
  OBVIOUS
<1>2. CidrSetOf(cidrs, i) = 1
  BY <1>1, FS_Singleton DEF CidrSetOf
<1>3. Applied(cidrs) = IF cidrs[i].set = 1 THEN {i} ELSE {}
  BY <1>2 DEF Applied
<1>. QED
  BY <1>3 DEF Names, AppliedTo

\* A list without tracked CIDRs names no block.
LEMMA NoneTracked ==
  ASSUME NEW cidrs, Tracked(cidrs) = {}
  PROVE  Names(cidrs) = {}
BY DEF Names, AppliedTo, Applied

\* Per mode and primary family, a node gets its block alone, or with a prefix.
LEMMA AssignedForm ==
  ASSUME OneIPv4, NEW b \in NodeBlocks(1)
  PROVE  /\ ReservedCIDRs(<<b>>) = <<V4Block(b)>>
         /\ Assigned(b) \in {<<V4Block(b)>>, <<V4Block(b), DelegatedPrefix>>,
                             <<DelegatedPrefix, V4Block(b)>>}
<1>1. ReservedCIDRs(<<b>>) = <<V4Block(b)>>
  BY DEF OneIPv4, ReservedCIDRs, V4Block
<1>2. Append(<<V4Block(b)>>, DelegatedPrefix) = <<V4Block(b), DelegatedPrefix>>
  BY ShortLists
<1>3. ProposedCIDRs(<<b>>) \in {<<V4Block(b)>>, <<V4Block(b), DelegatedPrefix>>}
  BY <1>1, <1>2 DEF OneIPv4, ProposedCIDRs
<1>. QED
  BY <1>1, <1>3 DEF Assigned, PatchedCIDRs

\* What the lists of these forms name: the IPv6 prefix is not tracked.
LEMMA NamesOfForms ==
  ASSUME NEW b
  PROVE  /\ Names(<<>>) = {} /\ Names(<<UnknownCIDR>>) = {}
         /\ Names(<<V4Block(b)>>) = {b}
         /\ Names(<<V4Block(b), DelegatedPrefix>>) = {b}
         /\ Names(<<DelegatedPrefix, V4Block(b)>>) = {b}
<1>1. Tracked(<<>>) = {}
  BY DEF Tracked
<1>2. Tracked(<<UnknownCIDR>>) = {1} /\ Tracked(<<V4Block(b)>>) = {1}
  BY DEF Tracked, UnknownCIDR, V4Block
<1>3. Tracked(<<V4Block(b), DelegatedPrefix>>) = {1}
  BY DEF Tracked, V4Block, DelegatedPrefix
<1>4. Tracked(<<DelegatedPrefix, V4Block(b)>>) = {2}
  BY DEF Tracked, V4Block, DelegatedPrefix
<1>. QED
  BY <1>1, <1>2, <1>3, <1>4, OneTracked, NoneTracked DEF V4Block, UnknownCIDR

\* Every list a node can have is of one of the forms.
LEMMA LeftoverForms ==
  ASSUME OneIPv4, NEW cidrs \in Leftover
  PROVE  \/ cidrs = <<>> \/ cidrs = <<UnknownCIDR>>
         \/ \E b \in NodeBlocks(1) : cidrs = Assigned(b)
<1>1. SUFFICES ASSUME NEW blocks \in [SetIndices -> UNION {NodeBlocks(k) : k \in SetIndices}],
                      \A k \in SetIndices : blocks[k] \in NodeBlocks(k),
                      cidrs = PatchedCIDRs(ProposedCIDRs(blocks))
               PROVE  \E b \in NodeBlocks(1) : cidrs = Assigned(b)
  BY DEF Leftover
<1>2. blocks[1] \in NodeBlocks(1) /\ blocks = <<blocks[1]>>
  BY <1>1, OneSet
<1>. QED
  BY <1>1, <1>2 DEF Assigned

\* The lists of one block: it is the block that the list names, and lists share
\* a block when they name the same.
LEMMA AssignedNames ==
  ASSUME OneIPv4, NEW b \in NodeBlocks(1)
  PROVE  /\ Names(Assigned(b)) = {b} /\ Assigned(b) # <<>>
         /\ Names(ReservedCIDRs(<<b>>)) = {b} /\ Accepted(<<>>, Assigned(b))
<1>1. Names(Assigned(b)) = {b} /\ Names(ReservedCIDRs(<<b>>)) = {b}
  BY AssignedForm, NamesOfForms
<1>2. Assigned(b) # <<>>
  BY AssignedForm, ShortLists
<1>3. V4Block(b).fam = "v4" /\ DelegatedPrefix.fam = "v6"
  BY DEF V4Block, DelegatedPrefix
<1>4. Assigned(b) = <<V4Block(b)>>
        => Accepted(<<>>, Assigned(b))
  BY DEF Accepted
<1>5. Assigned(b) = <<V4Block(b), DelegatedPrefix>>
        => Accepted(<<>>, Assigned(b))
  BY <1>3 DEF Accepted
<1>6. Assigned(b) = <<DelegatedPrefix, V4Block(b)>>
        => Accepted(<<>>, Assigned(b))
  BY <1>3 DEF Accepted
<1>. QED
  BY <1>1, <1>2, <1>4, <1>5, <1>6, AssignedForm

\* An assigned list has one entry that is a block of ours.
LEMMA BlocksOfForms ==
  ASSUME NEW b
  PROVE  /\ \A i \in DOMAIN <<UnknownCIDR>> : <<UnknownCIDR>>[i].set = 0
         /\ \A c \in {<<V4Block(b)>>, <<V4Block(b), DelegatedPrefix>>,
                      <<DelegatedPrefix, V4Block(b)>>} :
              /\ \A i \in DOMAIN c : c[i].set # 0 => c[i] = V4Block(b)
              /\ \E i \in DOMAIN c : c[i] = V4Block(b)
<1>1. \A i \in DOMAIN <<UnknownCIDR>> : <<UnknownCIDR>>[i].set = 0
  BY DEF UnknownCIDR
<1>2. ASSUME NEW c \in {<<V4Block(b)>>, <<V4Block(b), DelegatedPrefix>>,
                        <<DelegatedPrefix, V4Block(b)>>}
      PROVE  /\ \A i \in DOMAIN c : c[i].set # 0 => c[i] = V4Block(b)
             /\ \E i \in DOMAIN c : c[i] = V4Block(b)
  <2>. DelegatedPrefix.set = 0
    BY DEF DelegatedPrefix
  <2>1. CASE c = <<V4Block(b)>>
    BY <2>1
  <2>2. CASE c = <<V4Block(b), DelegatedPrefix>>
    <3>1. DOMAIN c = {1, 2} /\ c[1] = V4Block(b) /\ c[2] = DelegatedPrefix
      BY <2>2
    <3>. QED
      BY <3>1
  <2>3. CASE c = <<DelegatedPrefix, V4Block(b)>>
    <3>1. DOMAIN c = {1, 2} /\ c[2] = V4Block(b) /\ c[1] = DelegatedPrefix
      BY <2>3
    <3>. QED
      BY <3>1
  <2>. QED
    BY <1>2, <2>1, <2>2, <2>3
<1>. QED
  BY <1>1, <1>2

\* The entries of a list that are blocks, and the block it names, agree.
LEMMA NamesAreBlocks ==
  ASSUME OneIPv4, NEW cidrs \in Leftover
  PROVE  /\ Names(cidrs) \subseteq NodeBlocks(1)
         /\ \A i \in DOMAIN cidrs : cidrs[i].set # 0 =>
              \E b \in Names(cidrs) : cidrs[i] = V4Block(b)
         /\ \A b \in Names(cidrs) : \E i \in DOMAIN cidrs : cidrs[i] = V4Block(b)
<1>1. CASE cidrs = <<>>
  BY <1>1, NamesOfForms, ShortLists
<1>2. CASE cidrs = <<UnknownCIDR>>
  BY <1>2, NamesOfForms, BlocksOfForms
<1>3. ASSUME NEW b \in NodeBlocks(1), cidrs = Assigned(b)
      PROVE  /\ Names(cidrs) = {b}
             /\ \A i \in DOMAIN cidrs : cidrs[i].set # 0 => cidrs[i] = V4Block(b)
             /\ \E i \in DOMAIN cidrs : cidrs[i] = V4Block(b)
  BY <1>3, AssignedNames, AssignedForm, BlocksOfForms
<1>. QED
  BY <1>1, <1>2, <1>3, LeftoverForms

\* Two lists share a block when they name one.
LEMMA SharedNames ==
  ASSUME OneIPv4, NEW c \in Leftover, NEW d \in Leftover
  PROVE  Shared(c, d) <=> Names(c) \cap Names(d) # {}
<1>1. \A a, b : V4Block(a) = V4Block(b) => a = b
  BY DEF V4Block
<1>2. \A b : V4Block(b).set = 1
  BY DEF V4Block
<1>. QED
  BY <1>1, <1>2, NamesAreBlocks DEF Shared

-----------------------------------------------------------------------------
\* Sequences, index by index

\* The indices of a list with one entry more.
LEMMA Appended ==
  ASSUME NEW S, NEW s \in Seq(S), NEW e \in S, NEW t, t = Append(s, e)
  PROVE  /\ Len(s) \in Nat /\ DOMAIN s = 1 .. Len(s)
         /\ DOMAIN t = DOMAIN s \cup {Len(s) + 1} /\ Len(s) + 1 \notin DOMAIN s
         /\ \A i \in DOMAIN s : t[i] = s[i]
         /\ t[Len(s) + 1] = e
<1>1. /\ Len(s) \in Nat /\ DOMAIN s = 1 .. Len(s)
      /\ DOMAIN t = 1 .. Len(s) + 1
      /\ \A i \in 1 .. Len(s) : t[i] = s[i]
      /\ t[Len(s) + 1] = e
  OBVIOUS
<1>. QED
  BY <1>1

\* The indices of a list without its head.
LEMMA Tailed ==
  ASSUME NEW S, NEW s \in Seq(S), s # <<>>, NEW t, t = Tail(s)
  PROVE  /\ DOMAIN s \subseteq Nat /\ 1 \in DOMAIN s /\ Head(s) = s[1]
         /\ \A i \in DOMAIN t :
              i \in Nat /\ i + 1 \in DOMAIN s /\ i + 1 # 1 /\ t[i] = s[i + 1]
         /\ \A i \in DOMAIN s : i # 1 => i - 1 \in DOMAIN t /\ t[i - 1] = s[i]
<1>1. /\ Len(s) \in Nat \ {0} /\ DOMAIN s = 1 .. Len(s)
      /\ DOMAIN t = 1 .. Len(s) - 1
      /\ \A i \in 1 .. Len(s) - 1 : t[i] = s[i + 1]
      /\ Head(s) = s[1]
  BY EmptySeq, HeadTailProperties, LenProperties
<1>. QED
  BY <1>1

-----------------------------------------------------------------------------
\* ListsKnown

\* No CIDRs is one of the forms.
LEMMA NoneKnown == <<>> \in Leftover /\ EmptyCache \in [Nodes -> Leftover]
BY DEF Leftover, EmptyCache

\* What a worker patches is of the form for the mode.
LEMMA WantedKnown ==
  ASSUME NEW w \in Workers, ItemOf(w) \in FullItem
  PROVE  Wanted(w) \in Leftover
<1>. DEFINE blocks == ItemOf(w).blocks
<1>1. blocks \in Seq(Nat) /\ Len(blocks) = NSets
      /\ \A k \in DOMAIN blocks : blocks[k] \in NodeBlocks(k)
  BY DEF FullItem, PartialItem, BlockLists
<1>2. DOMAIN blocks = SetIndices /\ blocks \in [1 .. Len(blocks) -> Nat]
  BY <1>1, LenProperties DEF SetIndices
<1>3. blocks \in [SetIndices -> UNION {NodeBlocks(k) : k \in SetIndices}]
  BY <1>1, <1>2
<1>. QED
  BY <1>1, <1>2, <1>3 DEF Wanted, Leftover

EventsKnown == \A i \in DOMAIN events : events[i].cidrs \in Leftover

\* Events of such lists come and go.
LEMMA EventsStayKnown ==
  ASSUME InformerTypeOK, EventsKnown
  PROVE  /\ \A n, type, cidrs :
              /\ n \in Nodes /\ type \in {"add", "update", "delete"}
              /\ cidrs \in Leftover
              /\ events' = Append(events, Event(type, n, cidrs))
              => EventsKnown'
         /\ HasEvent => Head(events).cidrs \in Leftover
         /\ HasEvent /\ Handled => EventsKnown'
<1>1. ASSUME NEW n \in Nodes, NEW type \in {"add", "update", "delete"},
             NEW cidrs \in Leftover, events' = Append(events, Event(type, n, cidrs))
      PROVE  EventsKnown'
  <2>1. Event(type, n, cidrs) \in EventType /\ Event(type, n, cidrs).cidrs = cidrs
    BY LeftoverTyped DEF Event, EventType
  <2>2. events \in Seq(EventType)
    BY DEF InformerTypeOK
  <2>. HIDE DEF Event
  <2>. QED
    BY <1>1, <2>1, <2>2, Appended DEF EventsKnown
<1>2. ASSUME HasEvent
      PROVE  Head(events).cidrs \in Leftover /\ (Handled => EventsKnown')
  <2>1. events \in Seq(EventType) /\ events # <<>>
    BY <1>2 DEF InformerTypeOK, HasEvent
  <2>. QED
    BY <2>1, Tailed DEF EventsKnown, Handled
<1>. QED
  BY <1>1, <1>2

\* The informer's first list tells of the nodes that exist, as they are.
LEMMA ListedEvents ==
  ASSUME ApiTypeOK, InformerList
  PROVE  \A i \in DOMAIN events' :
           /\ events'[i].type = "add" /\ events'[i].node \in exists
           /\ events'[i].cidrs = podCIDRs[events'[i].node]
<1>1. PICK order \in SetToSeqs(exists) :
        events' = [k \in DOMAIN order |-> Event("add", order[k], podCIDRs[order[k]])]
  BY DEF InformerList
<1>2. order \in [1 .. Cardinality(exists) -> exists]
  BY DEF SetToSeqs
<1>3. \A k \in DOMAIN order : order[k] \in exists
  BY <1>2
<1>. QED
  BY <1>1, <1>3 DEF Event

\* The nodes an earlier process left have lists of these forms.
LEMMA InitKnown == Init => ListsKnown
BY NoneKnown DEF Init, ListsKnown

\* Every step keeps the forms: nodes get them from workers and other replicas.
LEMMA NextKnown == TypeOK /\ ListsKnown /\ [Next]_vars => ListsKnown'
<1>. SUFFICES ASSUME TypeOK, ListsKnown, [Next]_vars
              PROVE  ListsKnown'
  OBVIOUS
<1>. USE DEF TypeOK
<1>1. EventsKnown
  BY DEF ListsKnown, EventsKnown
<1>2. ASSUME UNCHANGED <<api, cachedCIDRs, finalCIDRs>>, EventsKnown'
      PROVE  ListsKnown'
  BY <1>2 DEF ListsKnown, EventsKnown, api
<1>3. ASSUME UNCHANGED <<api, cachedCIDRs, finalCIDRs, events>>
      PROVE  ListsKnown'
  BY <1>3 DEF ListsKnown, api
<1>4. CASE Restart
  BY <1>4, NoneKnown DEF Restart, ListsKnown, api
<1>5. ASSUME NEW n \in Nodes, NodeStep(n) \/ LateWrite(n)
      PROVE  ListsKnown'
  <2>1. CASE CreateNode(n)
    BY <2>1 DEF CreateNode, ListsKnown, informer
  <2>2. CASE DeleteNode(n)
    <3>1. /\ exists' = exists \ {n} /\ podCIDRs' = [podCIDRs EXCEPT ![n] = <<>>]
          /\ UNCHANGED <<cachedCIDRs, events>>
          /\ finalCIDRs' = [finalCIDRs EXCEPT ![n] = podCIDRs[n]] \/ UNCHANGED finalCIDRs
      BY <2>2 DEF DeleteNode
    <3>2. podCIDRs' \in [Nodes -> Leftover] /\ finalCIDRs' \in [Nodes -> Leftover]
      BY <3>1, NoneKnown DEF ListsKnown
    <3>. QED
      BY <3>1, <3>2 DEF ListsKnown, ApiTypeOK
  <2>3. CASE LeaderAssigns(n) \/ LateWrite(n)
    <3>1. PICK cidrs \in Leftover : podCIDRs' = [podCIDRs EXCEPT ![n] = cidrs]
      BY <2>3 DEF LeaderAssigns, LateWrite, OtherAssigns
    <3>2. n \in exists /\ UNCHANGED <<exists, informer>>
      BY <2>3 DEF LeaderAssigns, LateWrite, OtherAssigns
    <3>. QED
      BY <3>1, <3>2 DEF ListsKnown, informer
  <2>4. CASE Observe(n)
    <3>1. DeletedCIDRs(n) \subseteq Leftover
      BY DEF DeletedCIDRs, ListsKnown
    <3>2. EventsKnown'
      BY <1>1, <2>4, <3>1, EventsStayKnown DEF Observe, ListsKnown
    <3>3. cachedCIDRs' \in [Nodes -> Leftover] /\ finalCIDRs' \in [Nodes -> Leftover]
      BY <2>4, NoneKnown DEF Observe, ListsKnown
    <3>. QED
      BY <2>4, <3>2, <3>3 DEF Observe, ListsKnown, EventsKnown, api
  <2>5. CASE Heartbeat(n)
    <3>1. EventsKnown'
      BY <1>1, <2>5, NoneKnown, EventsStayKnown DEF Heartbeat
    <3>. QED
      BY <1>2, <2>5, <3>1 DEF Heartbeat
  <2>. QED
    BY <1>5, <2>1, <2>2, <2>3, <2>4, <2>5 DEF NodeStep
<1>6. CASE HandlerStep
  <2>1. CASE HandleIgnored \/ HandleNodeWithCIDRs \/ HandleNodeWithoutCIDRs \/ HandleDelete
    BY <1>1, <1>2, <2>1, EventsStayKnown
       DEF HandleIgnored, HandleNodeWithCIDRs, HandleNodeWithoutCIDRs, HandleDelete, Handled
  <2>2. CASE AllocateCIDR \/ AllocateFails \/ Enqueue
    BY <1>3, <2>2 DEF AllocateCIDR, AllocateFails, Enqueue, informer
  <2>. QED
    BY <1>6, <2>1, <2>2 DEF HandlerStep
<1>7. CASE StartStep
  <2>1. CASE InformerList
    <3>1. EventsKnown'
      BY <2>1, ListedEvents DEF EventsKnown, ListsKnown, ApiTypeOK
    <3>. QED
      BY <2>1, <3>1 DEF InformerList, ListsKnown, EventsKnown, api
  <2>2. CASE ReconcileList \/ ReconcileListFails \/ OccupyListed \/ ReconcileDone
    BY <1>3, <2>2 DEF ReconcileList, ReconcileListFails, OccupyListed, ReconcileDone,
                      informer
  <2>. QED
    BY <1>7, <2>1, <2>2 DEF StartStep
<1>8. ASSUME NEW w \in Workers, WorkerStep(w) \/ FaultStep(w)
      PROVE  ListsKnown'
  <2>1. CASE PatchNode(w) \/ PatchUnacked(w)
    <3>1. worker[w].pc # "idle" /\ Acceptable(w) /\ Apply(w) /\ UNCHANGED informer
      BY <2>1 DEF PatchNode, PatchUnacked, At
    <3>2. Wanted(w) \in Leftover /\ ItemOf(w).node \in exists
      BY <3>1, BusyTyped, WantedKnown DEF Acceptable
    <3>. QED
      BY <3>1, <3>2 DEF Apply, ListsKnown, informer
  <2>2. ~(PatchNode(w) \/ PatchUnacked(w)) => UNCHANGED <<api, informer>>
    BY <1>8 DEF WorkerStep, FaultStep, Take, GetNode, PatchRejected, ReleaseReserved,
                Done, Requeue, GetNodeFails, PatchLost
  <2>. QED
    BY <1>3, <2>1, <2>2 DEF informer
<1>9. CASE UNCHANGED vars
  BY <1>3, <1>9 DEF vars, informer
<1>. QED
  BY <1>4, <1>5, <1>6, <1>7, <1>8, <1>9 DEF Next

-----------------------------------------------------------------------------
\* Where a worker goes

\* A worker that moves on keeps its item, and the others stay.
LEMMA WentTo ==
  ASSUME ItemsTypeOK, NEW w \in Workers, worker[w].pc # "idle",
         NEW pc, NEW i, Goto(w, pc, i)
  PROVE  /\ worker'[w].pc = pc /\ worker'[w].i = i /\ worker'[w].item = worker[w].item
         /\ \A v \in Workers : v # w => worker'[v] = worker[v]
         /\ \A v \in Workers : ItemOf(v)' = ItemOf(v)
<1>1. worker[w] \in BusyWorker
  BY BusyTyped
<1>2. DOMAIN worker = Workers
  BY DEF ItemsTypeOK
<1>3. worker'[w] = [worker[w] EXCEPT !.pc = pc, !.i = i]
      /\ \A v \in Workers : v # w => worker'[v] = worker[v]
  BY <1>2 DEF Goto
<1>4. worker'[w].pc = pc /\ worker'[w].i = i /\ worker'[w].item = worker[w].item
  BY <1>1, <1>3 DEF BusyWorker
<1>. QED
  BY <1>3, <1>4 DEF ItemOf

\* The worker lays its item down, or picks one up.
LEMMA WorkerIs ==
  ASSUME ItemsTypeOK, NEW w \in Workers, NEW s, worker' = [worker EXCEPT ![w] = s]
  PROVE  worker'[w] = s /\ \A v \in Workers : v # w => worker'[v] = worker[v]
BY DEF ItemsTypeOK

-----------------------------------------------------------------------------
(***************************************************************************)
(* Own patches, in the mode in which a node gets its block alone.  Any     *)
(* fault may happen but the late write of a former leader, which may be    *)
(* of a block that a worker is about to give back.                         *)
(***************************************************************************)
PlainIPv4 ==
  /\ NSets = 1 /\ ClusterCIDRs[1].fam = "v4"
  /\ Mode \notin {"ipv6", "dual-stack"}
  /\ "lateWrite" \notin Environment

\* Before reconcileState is done there is nothing to work on.
WorkAfterReady ==
  phase # "ready" =>
    handler.blocks = <<>> /\ queue = <<>> /\ worker = AllIdle

\* Block b of the first cluster CIDR is not among the CIDRs.
Without(cidrs, b) ==
  \A i \in DOMAIN cidrs : ~(cidrs[i].set = 1 /\ cidrs[i].block = b)

GivesBackOther(w) ==
  worker[w].pc = "giveBack" =>
    Without(podCIDRs[ItemOf(w).node], ItemOf(w).blocks[1])

AckInv == WorkAfterReady /\ \A w \in Workers : GivesBackOther(w)

\* The comparison finds every list that has the block that was reserved.
LEMMA PlainMatches ==
  ASSUME PlainIPv4, NEW cidrs \in Leftover, NEW item \in FullItem,
         cidrs # ReservedCIDRs(item.blocks)
  PROVE  Without(cidrs, item.blocks[1])
<1>1. SetIndices = {1} /\ DOMAIN <<UnknownCIDR>> = {1} /\ DOMAIN <<>> = {}
      /\ <<UnknownCIDR>>[1].set = 0
  BY DEF PlainIPv4, SetIndices, UnknownCIDR
<1>2. CASE cidrs = <<>> \/ cidrs = <<UnknownCIDR>>
  BY <1>1, <1>2 DEF Without
<1>3. ASSUME NEW blocks \in [SetIndices -> UNION {NodeBlocks(k) : k \in SetIndices}],
             cidrs = PatchedCIDRs(ProposedCIDRs(blocks))
      PROVE  Without(cidrs, item.blocks[1])
  <2>1. cidrs = ReservedCIDRs(blocks)
    BY <1>3 DEF PlainIPv4, PatchedCIDRs, ProposedCIDRs
  <2>2. item.blocks \in Seq(Nat) /\ Len(item.blocks) = 1
    BY DEF FullItem, PartialItem, BlockLists, PlainIPv4
  <2>3. DOMAIN item.blocks = {1} /\ DOMAIN blocks = {1}
    BY <1>1, <2>2
  <2>4. blocks[1] # item.blocks[1]
    <3>1. ASSUME blocks[1] = item.blocks[1]
          PROVE  ReservedCIDRs(blocks) = ReservedCIDRs(item.blocks)
      BY <2>3, <3>1 DEF ReservedCIDRs
    <3>. QED
      BY <2>1, <3>1
  <2>5. DOMAIN cidrs = {1} /\ cidrs[1].block = blocks[1]
    BY <2>1, <2>3 DEF ReservedCIDRs
  <2>. QED
    BY <2>4, <2>5 DEF Without
<1>. QED
  BY <1>2, <1>3 DEF Leftover

\* Until work has started there are no items for handler or workers to act on.
LEMMA NothingStarted ==
  ASSUME TypeOK, WorkAfterReady, phase # "ready"
  PROVE  /\ \A w \in Workers : worker[w] = Idle
         /\ ~Enqueue /\ ~AllocateCIDR /\ ~AllocateFails
         /\ \A w \in Workers : ~WorkerStep(w) /\ ~FaultStep(w)
<1>1. \A w \in Workers : worker[w] = Idle
  BY DEF WorkAfterReady, AllIdle
<1>2. ~Enqueue
  BY ClusterTypes DEF WorkAfterReady, Enqueue, NextSet
<1>3. \A w \in Workers : worker[w].pc = "idle" /\ \A pc : ~At(w, pc)
  BY <1>1 DEF Idle, At
<1>4. \A w \in Workers : ~WorkerStep(w) /\ ~FaultStep(w)
  BY <1>3 DEF WorkerStep, FaultStep, Take, GetNode, PatchNode, PatchRejected,
              ReleaseReserved, Done, Requeue, GetNodeFails, PatchLost, PatchUnacked
<1>. QED
  BY <1>1, <1>2, <1>4 DEF AllocateCIDR, AllocateFails, Allocating

\* Work starts with the channel that reconcileState opens.
LEMMA NextAfterReady ==
  ASSUME TypeOK, WorkAfterReady, [Next]_vars
  PROVE  WorkAfterReady'
<1>. SUFFICES ASSUME phase' # "ready"
              PROVE  handler'.blocks = <<>> /\ queue' = <<>> /\ worker' = AllIdle
  BY DEF WorkAfterReady
<1>. USE DEF TypeOK
<1>1. CASE Restart
  BY <1>1, NoItemIsNone DEF Restart
<1>2. phase = "ready" => UNCHANGED phase \/ Restart
  BY DEF Next, vars, start, NodeStep, CreateNode, DeleteNode, LeaderAssigns, LateWrite,
         OtherAssigns, Observe, Heartbeat, HandlerStep, HandleIgnored,
         HandleNodeWithCIDRs, HandleNodeWithoutCIDRs, HandleDelete, AllocateCIDR,
         AllocateFails, Enqueue, StartStep, InformerList, ReconcileList,
         ReconcileListFails, OccupyListed, ReconcileDone, WorkerStep, FaultStep, Take, GetNode, PatchNode, PatchRejected,
         ReleaseReserved, Done, Requeue, GetNodeFails, PatchLost, PatchUnacked
<1>3. CASE phase # "ready"
  <2>0. handler.blocks = <<>> /\ queue = <<>> /\ worker = AllIdle
    BY <1>3 DEF WorkAfterReady
  <2>1. ASSUME NEW n \in Nodes, NodeStep(n) \/ LateWrite(n)
        PROVE  UNCHANGED <<handler, queue, worker>>
    BY <2>1 DEF NodeStep, CreateNode, DeleteNode, LeaderAssigns, LateWrite, OtherAssigns,
                Observe, Heartbeat
  <2>2. CASE HandlerStep
    BY <1>3, <2>0, <2>2, NothingStarted
       DEF HandlerStep, HandleIgnored, HandleNodeWithCIDRs, HandleNodeWithoutCIDRs,
           HandleDelete, Item, WorkAfterReady
  <2>3. CASE StartStep
    BY <2>0, <2>3 DEF StartStep, InformerList, ReconcileList, ReconcileListFails,
                      OccupyListed, ReconcileDone
  <2>4. CASE UNCHANGED vars
    BY <2>0, <2>4 DEF vars
  <2>. QED
    BY <1>1, <1>3, <2>0, <2>1, <2>2, <2>3, <2>4, NothingStarted DEF Next
<1>. QED
  BY <1>1, <1>2, <1>3

\* A failed patch leads to no comparison.
LEMMA PatchErrorGoes ==
  ASSUME ItemsTypeOK, NEW w \in Workers, worker[w].pc # "idle", NEW reason,
         PatchError(w, reason)
  PROVE  /\ worker'[w].pc # "giveBack"
         /\ \A v \in Workers : v # w => worker'[v] = worker[v]
<1>1. \E pc \in {"patch", "requeue", "giveUp"}, i \in {worker[w].i + 1, 0, 1} : Goto(w, pc, i)
  BY DEF PatchError
<1>. QED
  BY <1>1, WentTo

\* What a worker gives back is not its node's, after a step of any worker.
LEMMA WorkerGivesBack ==
  ASSUME PlainIPv4, TypeOK, OneItem, ListsKnown, AckInv,
         NEW w \in Workers, WorkerStep(w) \/ FaultStep(w)
  PROVE  \A v \in Workers : GivesBackOther(v)'
<1>. USE DEF TypeOK
<1>1. ASSUME UNCHANGED podCIDRs, GivesBackOther(w)',
             \A v \in Workers : v # w => worker'[v] = worker[v]
      PROVE  \A v \in Workers : GivesBackOther(v)'
  BY <1>1 DEF AckInv, GivesBackOther, ItemOf
<1>2. CASE Take(w) \/ Done(w) \/ Requeue(w)
  <2>. DEFINE s == IF Take(w) THEN [pc |-> "get", item |-> Head(queue), i |-> 0] ELSE Idle
  <2>1. worker' = [worker EXCEPT ![w] = s]
    BY <1>2 DEF Take, Done, Requeue
  <2>0. s.pc # "giveBack"
    BY DEF Idle
  <2>. HIDE DEF s
  <2>2. worker'[w].pc # "giveBack" /\ \A v \in Workers : v # w => worker'[v] = worker[v]
    BY <2>0, <2>1, WorkerIs
  <2>3. UNCHANGED podCIDRs
    BY <1>2 DEF Take, Done, Requeue, api
  <2>. QED
    BY <1>1, <2>2, <2>3 DEF GivesBackOther
<1>3. CASE GetNode(w)
  <2>. DEFINE pc == IF ItemOf(w).node \in exists
                    THEN AfterGet(podCIDRs[ItemOf(w).node], ItemOf(w)) ELSE "requeue"
              i == IF ItemOf(w).node \in exists THEN 1 ELSE 0
  <2>1. Goto(w, pc, i) /\ worker[w].pc # "idle" /\ UNCHANGED podCIDRs
    BY <1>3 DEF GetNode, At, api
  <2>2. ItemOf(w) \in FullItem /\ ItemOf(w).node \in Nodes
    BY <2>1, BusyTyped, FullItemTypes
  <2>3. pc = "giveBack" => Without(podCIDRs[ItemOf(w).node], ItemOf(w).blocks[1])
    BY <2>2, PlainMatches DEF AfterGet, Matches, ListsKnown
  <2>. HIDE DEF pc, i
  <2>4. worker'[w].pc = pc /\ ItemOf(w)' = ItemOf(w)
        /\ \A v \in Workers : v # w => worker'[v] = worker[v]
    BY <2>1, WentTo
  <2>. QED
    BY <1>1, <2>1, <2>3, <2>4 DEF GivesBackOther
<1>4. CASE GetNodeFails(w)
  <2>1. worker[w].pc # "idle" /\ Goto(w, "requeue", 0) /\ UNCHANGED podCIDRs
    BY <1>4 DEF GetNodeFails, At, api
  <2>. QED
    BY <1>1, <2>1, WentTo DEF GivesBackOther
<1>5. CASE PatchRejected(w) \/ PatchLost(w)
  <2>1. /\ worker[w].pc # "idle" /\ UNCHANGED podCIDRs
        /\ \E reason : PatchError(w, reason)
    BY <1>5 DEF PatchRejected, PatchLost, At, api
  <2>. QED
    BY <1>1, <2>1, PatchErrorGoes DEF GivesBackOther
<1>6. CASE PatchNode(w) \/ PatchUnacked(w)
  <2>1. /\ worker[w].pc # "idle"
        /\ podCIDRs' = [podCIDRs EXCEPT ![ItemOf(w).node] = Wanted(w)]
        /\ Goto(w, "done", 0) \/ \E reason : PatchError(w, reason)
    BY <1>6 DEF PatchNode, PatchUnacked, At, Apply
  <2>2. worker'[w].pc # "giveBack" /\ \A v \in Workers : v # w => worker'[v] = worker[v]
    BY <2>1, WentTo, PatchErrorGoes
  <2>3. ASSUME NEW v \in Workers, v # w, worker[v].pc = "giveBack"
        PROVE  podCIDRs'[ItemOf(v).node] = podCIDRs[ItemOf(v).node]
    <3>1. ItemOf(v) \in FullItem /\ ItemOf(v) # NoItem /\ ItemOf(v).node \in Nodes
      BY <2>3, BusyTyped, FullItemTypes
    <3>2. ItemOf(v).node # ItemOf(w).node
      BY <2>3, <3>1 DEF OneItem, DistinctWorkers
    <3>. QED
      BY <2>1, <3>1, <3>2 DEF ListsKnown
  <2>. QED
    BY <2>2, <2>3 DEF AckInv, GivesBackOther, ItemOf
<1>7. CASE ReleaseReserved(w)
  <2>1. /\ worker[w].pc # "idle" /\ UNCHANGED podCIDRs
        /\ Goto(w, worker[w].pc, worker[w].i + 1)
    BY <1>7 DEF ReleaseReserved, At, api
  <2>2. worker'[w].pc = worker[w].pc /\ ItemOf(w)' = ItemOf(w)
        /\ \A v \in Workers : v # w => worker'[v] = worker[v]
    BY <2>1, WentTo
  <2>. QED
    BY <1>1, <2>1, <2>2 DEF AckInv, GivesBackOther
<1>. QED
  BY <1>2, <1>3, <1>4, <1>5, <1>6, <1>7 DEF WorkerStep, FaultStep

\* Nor does anybody else give the node that block: a node that has CIDRs keeps
\* them or goes, and other replicas assign none while workers run.
LEMMA NextAck ==
  ASSUME PlainIPv4, TypeOK, OneItem, ListsKnown, AckInv, [Next]_vars
  PROVE  AckInv'
<1>1. WorkAfterReady'
  BY NextAfterReady DEF AckInv
<1>. SUFFICES \A v \in Workers : GivesBackOther(v)'
  BY <1>1 DEF AckInv
<1>2. ASSUME UNCHANGED <<podCIDRs, worker>>
      PROVE  \A v \in Workers : GivesBackOther(v)'
  BY <1>2 DEF AckInv, GivesBackOther, ItemOf
<1>3. ASSUME worker' = AllIdle
      PROVE  \A v \in Workers : GivesBackOther(v)'
  BY <1>3 DEF GivesBackOther, AllIdle, Idle
<1>4. CASE Restart
  BY <1>3, <1>4 DEF Restart
<1>5. ASSUME NEW n \in Nodes, NodeStep(n) \/ LateWrite(n)
      PROVE  \A v \in Workers : GivesBackOther(v)'
  <2>1. CASE CreateNode(n) \/ Observe(n) \/ Heartbeat(n)
    BY <1>2, <2>1 DEF CreateNode, Observe, Heartbeat, api
  <2>2. CASE DeleteNode(n)
    <3>1. podCIDRs' = [podCIDRs EXCEPT ![n] = <<>>] /\ UNCHANGED worker
      BY <2>2 DEF DeleteNode
    <3>2. ASSUME NEW v \in Workers, worker[v].pc = "giveBack"
          PROVE  podCIDRs'[ItemOf(v).node] \in {<<>>, podCIDRs[ItemOf(v).node]}
      BY <3>1, <3>2, BusyTyped, FullItemTypes DEF ListsKnown, TypeOK
    <3>3. \A b : Without(<<>>, b)
      BY DEF Without
    <3>. QED
      BY <3>1, <3>2, <3>3 DEF AckInv, GivesBackOther, ItemOf
  <2>3. CASE LeaderAssigns(n)
    BY <1>3, <2>3 DEF LeaderAssigns, OtherAssigns, AckInv, WorkAfterReady
  <2>4. ~LateWrite(n)
    BY DEF LateWrite, Fault, PlainIPv4
  <2>. QED
    BY <1>5, <2>1, <2>2, <2>3, <2>4 DEF NodeStep
<1>6. CASE HandlerStep \/ StartStep
  BY <1>2, <1>6
     DEF HandlerStep, HandleIgnored, HandleNodeWithCIDRs, HandleNodeWithoutCIDRs,
         HandleDelete, AllocateCIDR, AllocateFails, Enqueue, StartStep, InformerList,
         ReconcileList, ReconcileListFails, OccupyListed, ReconcileDone, api
<1>7. CASE UNCHANGED vars
  BY <1>2, <1>7 DEF vars, api
<1>. QED
  BY <1>4, <1>5, <1>6, <1>7, WorkerGivesBack DEF Next

(***************************************************************************)
(* With one IPv4 cluster CIDR in mode "ipv4", a worker never gives back    *)
(* the block that its node has, whatever acknowledgements, patches and     *)
(* deletions are lost, early or late, and however often the item comes     *)
(* round: the comparison in updateCIDRsAllocation recognises an own patch. *)
(***************************************************************************)
THEOREM AckRecognisedCorrect ==
  ASSUME PlainIPv4
  PROVE  Spec => []AckRecognised
<1>1. Init => AckInv
  BY NoItemIsNone DEF Init, AckInv, WorkAfterReady, GivesBackOther, AllIdle, Idle
<1>2. TypeOK /\ OneItemPerNode /\ ListsKnown /\ AckInv /\ [Next]_vars => AckInv'
  BY NextAck, OneItemIsOneItemPerNode DEF TypeOK
<1>3. Spec => []ListsKnown
  BY TypeCorrect, InitKnown, NextKnown, PTL DEF Spec
<1>4. AckInv => AckRecognised
  BY DEF PlainIPv4, AckInv, AckRecognised, GivesBackOther, Without, Held, SetIndices
<1>. QED
  BY <1>1, <1>2, <1>3, <1>4, TypeCorrect, OneItemCorrect, PTL DEF Spec
=============================================================================
