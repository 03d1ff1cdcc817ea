--------------------------- MODULE OwnershipProofs ---------------------------
(***************************************************************************)
(* In a quiet environment, for every number of nodes, workers and blocks,  *)
(* Ownership is an invariant: whatever interleaves, a block has one owner  *)
(* and stays marked as long as it has it.  From it follow the invariants   *)
(* of Allocator about blocks, and that the controller implements           *)
(* NodeAssignment.                                                         *)
(***************************************************************************)
EXTENDS HistoryProofs

\* The part of Ownership that is about owners; the rest is its context.
Owners == OneOwner /\ OwnedIsMarked

Context ==
  /\ OneIPv4
  /\ TypeOK /\ OneItem /\ SetsCounted
  /\ ListsKnown /\ NamesKnown /\ NothingEarly /\ WorkersInOrder
  /\ StoreCurrent /\ EventsCurrent /\ ListCurrent

-----------------------------------------------------------------------------
\* Who holds, and who carries

\* The item of a worker that Reserves looks at.
WorkerReserves(w, n, b) ==
  Unreleased(w) /\ Meant(w) /\ ItemOf(w) = Item(n, <<b>>)

\* Reserves and its primed form, with the workers under a name.
LEMMA ReservesIs ==
  /\ \A n, b : Reserves(n, b) <=>
       \/ HandlerHas(n, b) \/ (n \in exists /\ QueueHas(n, b))
       \/ \E w \in Workers : WorkerReserves(w, n, b)
  /\ \A n, b : Reserves(n, b)' <=>
       \/ HandlerHas(n, b)' \/ (n \in exists' /\ QueueHas(n, b)')
       \/ \E w \in Workers : WorkerReserves(w, n, b)'
BY DEF Reserves, WorkerReserves

\* A reservation is in an item.
LEMMA ReservesCarries ==
  /\ \A n, b : Reserves(n, b) => Carries(n, b)
  /\ \A n, b : Reserves(n, b)' => Carries(n, b)'
BY DEF Reserves, Carries, WorkerHas

-----------------------------------------------------------------------------
\* Steps after which every block has the owner it had

\* OneOwner, for whatever n and b are.
LEMMA Exclusive ==
  ASSUME Quiet, TypeOK, OneItem, ListsKnown, OneOwner
  PROVE  /\ \A n, b : ~(Holds(n, b) /\ Reserves(n, b))
         /\ \A m, n, b : Owns(m, b) /\ Owns(n, b) => m = n
<1>1. \A n, b : Owns(n, b) => n \in Nodes /\ b \in NodeBlocks(1)
  BY QuietIsIPv4, HoldsTyped, OneCarrier, ReservesIs DEF Owns, WorkerReserves
<1>. QED
  BY <1>1 DEF OneOwner, Owns

\* A step by which nobody becomes an owner keeps OneOwner.
LEMMA NoNewOwner ==
  ASSUME Quiet, TypeOK, OneItem, ListsKnown, OneOwner,
         \A n, b : Owns(n, b)' => Owns(n, b),
         \A n, b : ~(Holds(n, b)' /\ Reserves(n, b)')
  PROVE  OneOwner'
BY Exclusive DEF OneOwner

\* A step that changes no bitmap and at most ends an ownership.
LEMMA OwnersEnd ==
  ASSUME Quiet, Context, Owners, UNCHANGED <<sets, phase, toOccupy>>,
         \A n, b : Holds(n, b)' => Holds(n, b),
         \A n, b : Reserves(n, b)' => Reserves(n, b)
  PROVE  Owners'
<1>1. \A n, b : Owns(n, b)' => Owns(n, b)
  BY DEF Owns
<1>2. OneOwner'
  BY <1>1, Exclusive, NoNewOwner DEF Context, Owners
<1>3. OwnedIsMarked'
  BY <1>1 DEF Owners, OwnedIsMarked
<1>. QED
  BY <1>2, <1>3 DEF Owners

\* A step that touches none of what ownership is made of.
LEMMA NothingMoves ==
  ASSUME Quiet, Context, Owners, UNCHANGED <<sets, phase, toOccupy, handler, queue, worker>>,
         UNCHANGED <<api, cached, finalCIDRs, events>>
  PROVE  Owners'
<1>1. \A n, b : DeletionHas(n, b) <=> DeletionHas(n, b)'
  BY DEF DeletionHas, Deletions
<1>. QED
  BY <1>1, HoldersStay, CarriersStay, OwnersEnd DEF api

-----------------------------------------------------------------------------
\* The API server and the informer

\* A created node has no block, and its name was never known.
LEMMA CreateNodeOwners ==
  ASSUME Quiet, Context, Owners, NEW n \in Nodes, CreateNode(n)
  PROVE  Owners'
<1>. USE DEF Context
<1>1. /\ n \notin exists \cup retired /\ n \notin cached /\ exists' = exists \cup {n}
      /\ UNCHANGED <<podCIDRs, informer, start, sets, handler, queue, worker>>
  BY DEF CreateNode, NamesKnown
<1>2. Names(podCIDRs[n]) = {} /\ n \notin nodesInProcessing /\ \A b : ~DeletionHas(n, b)
  BY <1>1, NamesOfForms DEF ListsKnown, NamesKnown, DeletionHas
<1>3. \A m, b : DeletionHas(m, b) <=> DeletionHas(m, b)'
  BY <1>1 DEF DeletionHas, Deletions, informer
<1>4. \A m, b : Holds(m, b) <=> Holds(m, b)'
  BY <1>1, <1>2, <1>3, HoldsIs DEF informer
<1>5. \A m, b : Carries(m, b) <=> Carries(m, b)'
  BY <1>1, CarriersStay
<1>6. ASSUME NEW m, NEW b, Reserves(m, b)'
      PROVE  Reserves(m, b)
  <2>1. m # n /\ Carries(m, b)
    BY <1>2, <1>5, <1>6, OneCarrier, ReservesCarries
  <2>2. ASSUME NEW w \in Workers, WorkerReserves(w, m, b)'
        PROVE  WorkerReserves(w, m, b)
    BY <1>1, <2>1, <2>2, SameItem DEF WorkerReserves, Unreleased, Meant, ItemOf
  <2>3. QueueHas(m, b)' => QueueHas(m, b)
    BY <1>1 DEF QueueHas
  <2>4. HandlerHas(m, b)' => HandlerHas(m, b)
    BY <1>1 DEF HandlerHas
  <2>. QED
    BY <1>1, <1>6, <2>1, <2>2, <2>3, <2>4, ReservesIs
<1>. QED
  BY <1>1, <1>4, <1>5, <1>6, OwnersEnd DEF start

\* A deleted node holds its block through the store, if that has the node; its
\* reservations end.
LEMMA DeleteNodeOwners ==
  ASSUME Quiet, Context, Owners, NEW n \in Nodes, DeleteNode(n)
  PROVE  Owners'
<1>. USE DEF Context
<1>1. /\ n \in exists /\ exists' = exists \ {n}
      /\ podCIDRs' = [podCIDRs EXCEPT ![n] = <<>>]
      /\ UNCHANGED <<cached, events, start, sets, handler, queue, worker>>
  BY DEF DeleteNode
<1>2. /\ \A m : m # n => podCIDRs'[m] = podCIDRs[m] /\ finalCIDRs'[m] = finalCIDRs[m]
      /\ n \in cached => finalCIDRs'[n] = podCIDRs[n]
  <2>1. \A m : m # n => podCIDRs'[m] = podCIDRs[m]
    BY <1>1 DEF ListsKnown
  <2>2. CASE n \in cached
    <3>1. finalCIDRs' = [finalCIDRs EXCEPT ![n] = podCIDRs[n]]
      BY <2>2, QuietSteps
    <3>. QED
      BY <2>1, <2>2, <3>1 DEF ListsKnown
  <2>3. CASE n \notin cached
    BY <2>1, <2>3, QuietSteps
  <2>. QED
    BY <2>2, <2>3
<1>3. \A m, b : DeletionHas(m, b) <=> DeletionHas(m, b)'
  BY <1>1 DEF DeletionHas, Deletions
<1>4. \A m, b : Holds(m, b)' => Holds(m, b)
  BY <1>1, <1>2, <1>3, HoldsIs
<1>5. ASSUME NEW m, NEW b, Reserves(m, b)'
      PROVE  Reserves(m, b)
  <2>1. \A w \in Workers : WorkerReserves(w, m, b)' => WorkerReserves(w, m, b)
    BY <1>1 DEF WorkerReserves, Unreleased, Meant, ItemOf
  <2>2. QueueHas(m, b)' => QueueHas(m, b)
    BY <1>1 DEF QueueHas
  <2>3. HandlerHas(m, b)' => HandlerHas(m, b)
    BY <1>1 DEF HandlerHas
  <2>. QED
    BY <1>1, <1>5, <2>1, <2>2, <2>3, ReservesIs
<1>. QED
  BY <1>1, <1>4, <1>5, OwnersEnd DEF start

\* Until the allocator is reconciled, the nodes that exist hold all there is.
LEMMA EarlyOwners ==
  ASSUME Context, phase # "ready"
  PROVE  /\ \A n, b : ~Carries(n, b) /\ ~Reserves(n, b)
         /\ \A n \in Nodes : \A b :
              Holds(n, b) <=> n \in exists /\ b \in Names(podCIDRs[n])
<1>. USE DEF Context
<1>1. /\ handler.blocks = <<>> /\ queue = <<>>
      /\ \A w \in Workers : worker[w].pc = "idle"
      /\ cached \subseteq exists /\ \A n \in Nodes : Deletions(n) = {}
  BY EarlyItems DEF NothingEarly, Idle
<1>2. ASSUME NEW n, NEW b
      PROVE  ~HandlerHas(n, b)
  BY <1>1, OneBlockItem DEF HandlerHas
<1>3. \A n, b : ~QueueHas(n, b)
  BY <1>1 DEF QueueHas
<1>4. \A n, b : ~WorkerHas(n, b)
  BY <1>1 DEF WorkerHas, Unreleased
<1>5. \A n, b : ~Carries(n, b) /\ ~Reserves(n, b)
  BY <1>2, <1>3, <1>4, ReservesCarries DEF Carries
<1>6. \A n \in Nodes : \A b : ~DeletionHas(n, b)
  BY <1>1 DEF DeletionHas
<1>. QED
  BY <1>1, <1>5, <1>6, HoldsIs

\* What a leader assigns is shared with nobody.
LEMMA LeaderShares ==
  ASSUME ListsKnown, NEW n \in Nodes, LeaderAssigns(n)
  PROVE  \E cidrs \in Leftover :
           /\ \A m \in exists : ~Shared(podCIDRs[m], cidrs)
           /\ podCIDRs' = [podCIDRs EXCEPT ![n] = cidrs]
<1>1. PICK cidrs \in Leftover : podCIDRs' = [podCIDRs EXCEPT ![n] = cidrs]
  BY DEF LeaderAssigns, OtherAssigns
<1>2. podCIDRs'[n] = cidrs
  BY <1>1 DEF ListsKnown
<1>3. podCIDRs[n] = <<>> /\ \A m \in exists \ {n} : ~Shared(podCIDRs[m], cidrs)
  BY <1>2 DEF LeaderAssigns, OtherAssigns
<1>4. ~Shared(<<>>, cidrs)
  BY DEF Shared
<1>. QED
  BY <1>1, <1>3, <1>4

\* Another leader assigns while this process has reserved nothing.
LEMMA LeaderAssignsOwners ==
  ASSUME Quiet, Context, Owners, NEW n \in Nodes, LeaderAssigns(n)
  PROVE  Owners'
<1>. USE DEF Context
<1>1. PICK cidrs \in Leftover :
        /\ \A m \in exists : ~Shared(podCIDRs[m], cidrs)
        /\ podCIDRs' = [podCIDRs EXCEPT ![n] = cidrs]
  BY LeaderShares
<1>2. /\ phase \in {"boot", "synced"} /\ n \in exists /\ podCIDRs[n] = <<>>
      /\ UNCHANGED <<exists, informer, start, sets, handler, queue, worker>>
  BY DEF LeaderAssigns, OtherAssigns
<1>3. podCIDRs'[n] = cidrs /\ \A m : m # n => podCIDRs'[m] = podCIDRs[m]
  BY <1>1 DEF ListsKnown
<1>4. \A m, b : DeletionHas(m, b) <=> DeletionHas(m, b)'
  BY <1>2 DEF DeletionHas, Deletions, informer
<1>5. /\ \A m, b : Holds(m, b) => Holds(m, b)'
      /\ \A m, b : Holds(m, b)' => Holds(m, b) \/ (m = n /\ b \in Names(cidrs))
  BY <1>2, <1>3, <1>4, HoldsIs, NamesOfForms DEF informer
<1>6. \A m \in exists : Names(podCIDRs[m]) \cap Names(cidrs) = {}
  BY <1>1, SharedNames DEF ListsKnown, TypeOK, ApiTypeOK
<1>7. ASSUME NEW m, NEW b, Holds(m, b)
      PROVE  b \notin Names(cidrs)
  BY <1>2, <1>6, <1>7, EarlyOwners, HoldsTyped
<1>8. \A m, b : ~Reserves(m, b)'
  BY <1>2, EarlyOwners, CarriersStay
<1>9. OneOwner'
  BY <1>5, <1>7, <1>8 DEF Owners, OneOwner, Owns
<1>10. OwnedIsMarked'
  BY <1>2 DEF OwnedIsMarked, start
<1>. QED
  BY <1>9, <1>10 DEF Owners

\* Once a deletion is observed, the node holds its block by the delete event.
LEMMA ObserveOwners ==
  ASSUME Quiet, Context, Owners, NEW n \in Nodes, Observe(n) \/ Heartbeat(n)
  PROVE  Owners'
<1>. USE DEF Context, TypeOK
<1>1. PICK type \in {"add", "update", "delete"}, cidrs \in Seq(CIDR) :
        /\ events' = Append(events, Event(type, n, cidrs))
        /\ type = "delete" <=> n \notin exists
        /\ type = "delete" => /\ n \in cached /\ n \notin cached'
                              /\ cidrs \in DeletedCIDRs(n)
  <2>1. <<>> \in Seq(CIDR) /\ podCIDRs[n] \in Seq(CIDR)
        /\ cachedCIDRs[n] \in Seq(CIDR) /\ finalCIDRs[n] \in Seq(CIDR)
    BY EmptyTyped DEF ApiTypeOK, InformerTypeOK
  <2>2. \A c \in DeletedCIDRs(n) : c \in Seq(CIDR)
    BY <2>1, QuietSteps
  <2>3. CASE Heartbeat(n)
    BY <2>1, <2>3 DEF Heartbeat
  <2>4. CASE Observe(n) /\ n \in exists
    BY <2>1, <2>4 DEF Observe
  <2>5. CASE Observe(n) /\ n \notin exists
    BY <2>2, <2>5 DEF Observe
  <2>. QED
    BY <2>3, <2>4, <2>5
<1>2. UNCHANGED <<exists, podCIDRs, start, sets, handler, queue, worker>>
  BY DEF Observe, Heartbeat, api
<1>3. \A m : m # n => (m \in cached <=> m \in cached') /\ finalCIDRs'[m] = finalCIDRs[m]
  <2>1. CASE Heartbeat(n)
    BY <2>1 DEF Heartbeat
  <2>2. CASE Observe(n)
    <3>1. cached' \in {cached \cup {n}, cached \ {n}}
          /\ finalCIDRs' = [finalCIDRs EXCEPT ![n] = <<>>]
      BY <2>2 DEF Observe
    <3>. QED
      BY <3>1 DEF ListsKnown
  <2>. QED
    BY <2>1, <2>2
<1>4. \A m, b : DeletionHas(m, b)' <=>
        DeletionHas(m, b) \/ (type = "delete" /\ m = n /\ b \in Names(cidrs))
  BY <1>1, Announced
<1>5. type = "delete" => Names(cidrs) \subseteq Names(finalCIDRs[n])
  <2>. SUFFICES ASSUME type = "delete"
                PROVE  Names(cidrs) \subseteq Names(finalCIDRs[n])
    OBVIOUS
  <2>1. cidrs \in {finalCIDRs[n], cachedCIDRs[n]}
    BY <1>1, QuietSteps
  <2>2. cachedCIDRs[n] # <<>> => cachedCIDRs[n] = finalCIDRs[n]
    BY <1>1 DEF StoreCurrent
  <2>3. Names(<<>>) = {}
    BY NamesOfForms
  <2>. QED
    BY <2>1, <2>2, <2>3
<1>6. \A m, b : Holds(m, b)' => Holds(m, b)
  BY <1>1, <1>2, <1>3, <1>4, <1>5, HoldsIs
<1>. QED
  BY <1>2, <1>6, CarriersStay, OwnersEnd DEF start

-----------------------------------------------------------------------------
\* The event handlers

\* An event that is ignored was no deletion.
LEMMA HandleIgnoredOwners ==
  ASSUME Quiet, Context, Owners, HandleIgnored
  PROVE  Owners'
<1>. USE DEF Context, TypeOK
<1>1. /\ HasEvent /\ Handled /\ Head(events).type # "delete"
      /\ UNCHANGED <<api, start, sets, handler, queue, worker, cached, finalCIDRs>>
  BY DEF HandleIgnored, ForAllocate, Handled
<1>2. \A m, b : DeletionHas(m, b) <=> DeletionHas(m, b)'
  BY <1>1, HeadHandled
<1>. QED
  BY <1>1, <1>2, HoldersStay, CarriersStay, OwnersEnd DEF api, start

\* What is occupied is marked once more, or before its owner counts on it.
LEMMA HandleNodeWithCIDRsOwners ==
  ASSUME Quiet, Context, Owners, HandleNodeWithCIDRs
  PROVE  Owners'
<1>. USE DEF Context, TypeOK
<1>. DEFINE cidrs == Head(events).cidrs
<1>1. /\ HasEvent /\ Handled /\ Head(events).type # "delete" /\ cidrs # <<>>
      /\ OccupyNode(cidrs)
      /\ UNCHANGED <<api, start, handler, queue, worker, cached, finalCIDRs>>
  BY DEF HandleNodeWithCIDRs, ForAllocate, Handled
<1>2. \A m, b : DeletionHas(m, b) <=> DeletionHas(m, b)'
  BY <1>1, HeadHandled
<1>3. /\ \A m, b : Holds(m, b) <=> Holds(m, b)'
      /\ \A m, b : Reserves(m, b) <=> Reserves(m, b)'
  BY <1>1, <1>2, HoldersStay, CarriersStay DEF api
<1>4. sets'[1].used = sets[1].used \cup Names(cidrs)
  BY <1>1, BitmapChanges
<1>5. OneOwner'
  BY <1>3 DEF Owners, OneOwner, Owns
<1>6. OwnedIsMarked'
  BY <1>1, <1>3, <1>4 DEF Owners, OwnedIsMarked, Owns, start
<1>. QED
  BY <1>5, <1>6 DEF Owners

\* A new item has no block yet.
LEMMA HandleNodeWithoutCIDRsOwners ==
  ASSUME Quiet, Context, Owners, HandleNodeWithoutCIDRs
  PROVE  Owners'
<1>. USE DEF Context, TypeOK
<1>1. /\ HasEvent /\ Handled /\ Head(events).type # "delete"
      /\ handler = NoItem /\ handler' = Item(Head(events).node, <<>>)
      /\ UNCHANGED <<api, start, sets, queue, worker, cached, finalCIDRs>>
  BY DEF HandleNodeWithoutCIDRs, ForAllocate, Handled, HasEvent
<1>2. \A m, b : DeletionHas(m, b) <=> DeletionHas(m, b)'
  BY <1>1, HeadHandled
<1>3. ASSUME NEW m, NEW b
      PROVE  ~HandlerHas(m, b) /\ ~HandlerHas(m, b)'
  <2>1. Item(m, <<b>>) # NoItem /\ \A n : Item(m, <<b>>) # Item(n, <<>>)
    BY SameItem
  <2>. QED
    BY <1>1, <2>1 DEF HandlerHas
<1>4. /\ \A m, b : QueueHas(m, b) <=> QueueHas(m, b)'
      /\ \A m, b : \A w \in Workers : WorkerReserves(w, m, b) <=> WorkerReserves(w, m, b)'
  BY <1>1 DEF QueueHas, WorkerReserves, Unreleased, Meant, ItemOf, api
<1>5. \A m, b : Reserves(m, b) <=> Reserves(m, b)'
  BY <1>1, <1>3, <1>4, ReservesIs DEF api
<1>. QED
  BY <1>1, <1>2, <1>5, HoldersStay, OwnersEnd DEF start

\* The released block was that of the deleted node, and nobody else's.
LEMMA HandleDeleteOwners ==
  ASSUME Quiet, Context, Owners, HandleDelete
  PROVE  Owners'
<1>. USE DEF Context, TypeOK
<1>0. PICK n, cidrs : n = Head(events).node /\ cidrs = Head(events).cidrs
  OBVIOUS
<1>1. /\ HasEvent /\ Handled /\ Head(events).type = "delete"
      /\ ReleaseNode(cidrs)
      /\ UNCHANGED <<api, start, handler, queue, worker, cached, finalCIDRs>>
  BY <1>0 DEF HandleDelete, Handled
<1>2. 1 \in Deletions(n) /\ Head(events) = events[1]
  BY <1>0, <1>1, HeadHandled DEF Deletions
<1>3. n \in Nodes /\ n \in retired \ cached /\ n \notin exists
      /\ \A i \in Deletions(n) : i = 1
  BY <1>0, <1>1, <1>2, HandledTyped DEF NamesKnown
<1>4. phase = "ready" /\ UNCHANGED <<phase, toOccupy>>
  BY <1>1, <1>2, <1>3 DEF NothingEarly, start
<1>5. sets'[1].used = sets[1].used \ Names(cidrs)
  BY <1>1, BitmapChanges
<1>6. \A m, b : DeletionHas(m, b)' => DeletionHas(m, b)
  BY <1>0, <1>1, HeadHandled
<1>7. \A b : ~DeletionHas(n, b)'
  <2>1. Deletions(n)' = {}
    <3>1. ASSUME NEW i \in Deletions(n)'
          PROVE  FALSE
      <4>1. i + 1 \in Deletions(n) /\ i \in Nat
        BY <1>1, <3>1, HeadHandled DEF Deletions
      <4>2. i + 1 = 1
        BY <1>3, <4>1
      <4>3. i + 1 # 1
        BY <1>1, <3>1, HeadHandled DEF Deletions
      <4>. QED
        BY <4>2, <4>3
    <3>. QED
      BY <3>1
  <2>. QED
    BY <2>1 DEF DeletionHas
<1>8. /\ \A m, b : Holds(m, b)' => Holds(m, b)
      /\ \A b : ~Holds(n, b)'
  BY <1>1, <1>3, <1>6, <1>7, HoldsIs DEF api
<1>9. \A m, b : Reserves(m, b) <=> Reserves(m, b)'
  BY <1>1, CarriersStay DEF api
<1>10. \A b \in Names(cidrs) : Holds(n, b)
  BY <1>0, <1>2 DEF Holds
<1>11. ASSUME NEW m, NEW b, Owns(m, b)'
       PROVE  Owns(m, b) /\ b \notin Names(cidrs)
  BY <1>8, <1>9, <1>10, <1>11, Exclusive DEF Owns, Owners
<1>12. OneOwner'
  BY <1>8, <1>9, <1>11, Exclusive, NoNewOwner DEF Owners
<1>13. OwnedIsMarked'
  BY <1>4, <1>5, <1>11 DEF Owners, OwnedIsMarked
<1>. QED
  BY <1>12, <1>13 DEF Owners

\* The handler's item is of no other place, and takes a block that nobody owns.
LEMMA HandlerOnly ==
  ASSUME UNCHANGED <<api, informer, queue, worker>>
  PROVE  /\ \A m, b : Holds(m, b) <=> Holds(m, b)'
         /\ \A m, b : QueueHas(m, b) <=> QueueHas(m, b)'
         /\ \A m, b : \A w \in Workers : WorkerReserves(w, m, b) <=> WorkerReserves(w, m, b)'
<1>1. \A n, b : DeletionHas(n, b) <=> DeletionHas(n, b)'
  BY DEF DeletionHas, Deletions, informer
<1>2. UNCHANGED <<cached, finalCIDRs, exists>>
  BY DEF api, informer
<1>. QED
  BY <1>1, <1>2, HoldersStay
     DEF QueueHas, WorkerReserves, Unreleased, Meant, ItemOf

\* The block that AllocateNext hands out is unmarked, so nobody owned it.
LEMMA AllocateCIDROwners ==
  ASSUME Quiet, Context, Owners, AllocateCIDR
  PROVE  Owners'
<1>. USE DEF Context, TypeOK
<1>. DEFINE n == handler.node
            c == Candidate(sets[1])
<1>1. /\ handler # NoItem /\ phase = "ready" /\ NextSet \in SetIndices
      /\ sets' = [sets EXCEPT ![NextSet] = AllocateNext(@)]
      /\ handler' = [handler EXCEPT !.blocks = Append(@, Candidate(sets[NextSet]))]
      /\ UNCHANGED <<api, informer, start, queue, worker>>
  BY DEF AllocateCIDR, Allocating
<1>2. handler \in PartialItem /\ handler.blocks \in Seq(Nat) /\ NextSet = 1
  BY <1>1, OneSet DEF ItemsTypeOK, PartialItem, BlockLists
<1>3. handler.blocks = <<>> /\ n \in Nodes
  BY <1>2, EmptySeq DEF NextSet, PartialItem
<1>4. handler' = Item(n, <<c>>)
  BY <1>1, <1>2, <1>3 DEF PartialItem, Item
<1>5. handler'.blocks[NextSet] = c
  BY <1>2, <1>4, SameItem
<1>6. c \notin sets[1].used
  BY <1>2, <1>5, AllocatedIsFree
<1>7. sets'[1].used = sets[1].used \cup {c}
  BY <1>1, <1>2, BitmapChanges
<1>8. ASSUME NEW m, NEW b
      PROVE  /\ ~HandlerHas(m, b)
             /\ HandlerHas(m, b)' <=> m = n /\ b = c
  BY <1>3, <1>4, OneBlockItem, SameItem DEF HandlerHas
<1>9. /\ \A m, b : Holds(m, b) <=> Holds(m, b)'
      /\ \A m, b : Reserves(m, b)' <=> Reserves(m, b) \/ (m = n /\ b = c)
  BY <1>1, <1>8, HandlerOnly, ReservesIs DEF api
<1>10. ASSUME NEW m
       PROVE  ~Owns(m, c)
  <2>1. Owns(m, c) => m \in Nodes /\ c \in NodeBlocks(1)
    BY HoldsTyped, OneCarrier, ReservesCarries, ReservesIs DEF Owns, WorkerReserves
  <2>. QED
    BY <1>1, <1>6, <2>1 DEF Owners, OwnedIsMarked
<1>11. OneOwner'
  BY <1>9, <1>10 DEF Owners, OneOwner, Owns
<1>12. OwnedIsMarked'
  BY <1>1, <1>7, <1>9 DEF Owners, OwnedIsMarked, Owns, start
<1>. QED
  BY <1>11, <1>12 DEF Owners

\* A refused handler drops an item without a block.
LEMMA AllocateFailsOwners ==
  ASSUME Quiet, Context, Owners, AllocateFails
  PROVE  Owners'
<1>. USE DEF Context, TypeOK
<1>1. /\ handler' = NoItem /\ UNCHANGED <<api, informer, start, sets, queue, worker>>
      /\ handler # NoItem /\ NextSet \in SetIndices
  BY DEF AllocateFails, Allocating
<1>2. handler.blocks \in Seq(Nat) /\ NextSet = 1
  BY <1>1, OneSet DEF ItemsTypeOK, PartialItem, BlockLists
<1>3. handler.blocks = <<>>
  BY <1>2, EmptySeq DEF NextSet
<1>4. ASSUME NEW m, NEW b
      PROVE  ~HandlerHas(m, b) /\ ~HandlerHas(m, b)'
  BY <1>1, <1>3, OneBlockItem, SameItem DEF HandlerHas
<1>5. \A m, b : Reserves(m, b) <=> Reserves(m, b)'
  BY <1>1, <1>4, HandlerOnly, ReservesIs DEF api
<1>. QED
  BY <1>1, <1>5, HandlerOnly, OwnersEnd DEF start

\* The item goes from the handler to the channel, its node existing or not.
LEMMA EnqueueOwners ==
  ASSUME Quiet, Context, Owners, Enqueue
  PROVE  Owners'
<1>. USE DEF Context, TypeOK
<1>1. /\ handler' = NoItem /\ queue' = Append(queue, handler)
      /\ UNCHANGED <<api, informer, start, sets, worker>>
  BY DEF Enqueue
<1>2. handler \in FullItem /\ queue \in Seq(FullItem)
  BY EnqueuedIsFull DEF ItemsTypeOK
<1>3. /\ DOMAIN queue' = DOMAIN queue \cup {Len(queue) + 1}
      /\ Len(queue) + 1 \notin DOMAIN queue
      /\ \A p \in DOMAIN queue : queue'[p] = queue[p]
      /\ queue'[Len(queue) + 1] = handler
  BY <1>1, <1>2, Appended
<1>4. \A m, b : QueueHas(m, b)' <=> QueueHas(m, b) \/ HandlerHas(m, b)
  BY <1>3 DEF QueueHas, HandlerHas
<1>5. \A m, b : ~HandlerHas(m, b)'
  BY <1>1, SameItem DEF HandlerHas
<1>6. \A m, b : \A w \in Workers : WorkerReserves(w, m, b) <=> WorkerReserves(w, m, b)'
  BY <1>1 DEF WorkerReserves, Unreleased, Meant, ItemOf, api
<1>7. \A m, b : Reserves(m, b)' => Reserves(m, b)
  BY <1>1, <1>4, <1>5, <1>6, ReservesIs DEF api
<1>8. \A m, b : DeletionHas(m, b) <=> DeletionHas(m, b)'
  BY <1>1 DEF DeletionHas, Deletions, informer
<1>. QED
  BY <1>1, <1>7, <1>8, HoldersStay, OwnersEnd DEF start, informer

-----------------------------------------------------------------------------
\* Start

\* A restart ends all reservations and marks, and leaves the nodes' blocks.
LEMMA RestartOwners ==
  ASSUME Quiet, Context, Owners, Restart
  PROVE  Owners'
<1>. USE DEF Context, TypeOK
<1>1. /\ cached' = {} /\ events' = <<>> /\ phase' = "boot" /\ sets' = NewSets
      /\ handler' = NoItem /\ queue' = <<>> /\ worker' = AllIdle /\ UNCHANGED api
  BY DEF Restart
<1>2. \A m, b : ~DeletionHas(m, b)'
  BY <1>1 DEF DeletionHas, Deletions
<1>3. \A m, b : Holds(m, b)' => Holds(m, b)
  BY <1>1, <1>2, HoldsIs DEF api
<1>4. ASSUME NEW m, NEW b
      PROVE  ~HandlerHas(m, b)' /\ ~QueueHas(m, b)'
  <2>1. Item(m, <<b>>) # NoItem
    BY SameItem
  <2>. QED
    BY <1>1, <2>1 DEF HandlerHas, QueueHas
<1>5. \A m, b : \A w \in Workers : ~WorkerReserves(w, m, b)'
  BY <1>1 DEF WorkerReserves, Unreleased, AllIdle, Idle
<1>6. \A m, b : ~Reserves(m, b)'
  BY <1>4, <1>5, ReservesIs
<1>7. OneOwner'
  BY <1>3, <1>6, NoNewOwner DEF Owners, Owns
<1>8. OwnedIsMarked'
  BY <1>1 DEF OwnedIsMarked
<1>. QED
  BY <1>7, <1>8 DEF Owners

\* The first list takes the place of an empty store.
LEMMA InformerListOwners ==
  ASSUME Quiet, Context, Owners, InformerList
  PROVE  Owners'
<1>. USE DEF Context, TypeOK
<1>1. /\ phase = "boot" /\ phase' = "synced" /\ cached' = exists
      /\ UNCHANGED <<api, sets, handler, queue, worker>>
  BY DEF InformerList
<1>2. \A m, b : ~DeletionHas(m, b)'
  BY ListedEvents DEF DeletionHas, Deletions
<1>3. \A m, b : Holds(m, b) <=> Holds(m, b)'
  <2>1. \A m, b : Holds(m, b)' => Holds(m, b)
    BY <1>1, <1>2, HoldsIs DEF api
  <2>2. \A m, b : Holds(m, b) => Holds(m, b)'
    BY <1>1, EarlyOwners, HoldsTyped, HoldsIs DEF api
  <2>. QED
    BY <2>1, <2>2
<1>4. \A m, b : Reserves(m, b) <=> Reserves(m, b)'
  BY <1>1, CarriersStay DEF api
<1>5. OneOwner'
  BY <1>3, <1>4 DEF Owners, OneOwner, Owns
<1>6. OwnedIsMarked'
  BY <1>1 DEF OwnedIsMarked
<1>. QED
  BY <1>5, <1>6 DEF Owners

\* A step of reconcileState leaves the owners alone.
LEMMA OwnersKnown ==
  ASSUME Quiet, Context, Owners, UNCHANGED <<api, informer, handler, queue, worker>>
  PROVE  /\ \A m, b : Holds(m, b) <=> Holds(m, b)'
         /\ \A m, b : Reserves(m, b) <=> Reserves(m, b)'
         /\ OneOwner'
<1>1. \A n, b : DeletionHas(n, b) <=> DeletionHas(n, b)'
  BY DEF DeletionHas, Deletions, informer
<1>2. /\ \A m, b : Holds(m, b) <=> Holds(m, b)'
      /\ \A m, b : Reserves(m, b) <=> Reserves(m, b)'
  BY <1>1, HoldersStay, CarriersStay DEF api, informer
<1>3. OneOwner'
  BY <1>2 DEF Owners, OneOwner, Owns
<1>. QED
  BY <1>2, <1>3

\* Listed, occupied, done: the nodes' blocks go from the list into the bitmap.
LEMMA ReconcileOwners ==
  ASSUME Quiet, Context, Owners,
         ReconcileList \/ ReconcileListFails \/ OccupyListed \/ ReconcileDone
  PROVE  Owners'
<1>. USE DEF Context, TypeOK
<1>1. UNCHANGED <<api, informer, handler, queue, worker>> /\ phase # "ready"
  BY DEF ReconcileList, ReconcileListFails, OccupyListed, ReconcileDone
<1>2. /\ \A m, b : Holds(m, b) <=> Holds(m, b)'
      /\ \A m, b : Reserves(m, b) <=> Reserves(m, b)'
      /\ \A m, b : ~Reserves(m, b)
      /\ OneOwner'
  BY <1>1, OwnersKnown, EarlyOwners
<1>3. CASE ReconcileList
  <2>1. /\ phase' = "occupying" /\ toOccupy' = {podCIDRs[n] : n \in exists} \ {<<>>}
        /\ UNCHANGED sets
    BY <1>3 DEF ReconcileList
  <2>2. ASSUME NEW n, NEW b, Holds(n, b)'
        PROVE  b \in UNION {Names(cidrs) : cidrs \in toOccupy'}
    <3>1. n \in exists /\ b \in Names(podCIDRs[n])
      BY <1>1, <1>2, <2>2, EarlyOwners, HoldsTyped
    <3>2. podCIDRs[n] # <<>>
      BY <3>1, NamesOfForms
    <3>. QED
      BY <2>1, <3>1, <3>2
  <2>3. OwnedIsMarked'
    BY <2>1, <2>2 DEF OwnedIsMarked
  <2>. QED
    BY <1>2, <2>3 DEF Owners
<1>4. CASE OccupyListed
  <2>1. PICK cidrs \in toOccupy :
          /\ OccupyNode(cidrs) /\ toOccupy' = toOccupy \ {cidrs}
          /\ phase = "occupying" /\ phase' \in {"failed", "occupying"}
    BY <1>4 DEF OccupyListed
  <2>2. sets'[1].used = sets[1].used \cup Names(cidrs)
    BY <2>1, BitmapChanges
  <2>3. OwnedIsMarked'
    <3>1. ASSUME NEW n \in Nodes, NEW b \in NodeBlocks(1), Holds(n, b)'
          PROVE  b \in sets'[1].used \cup UNION {Names(c) : c \in toOccupy'}
      BY <1>2, <2>1, <2>2, <3>1 DEF Owners, OwnedIsMarked
    <3>. QED
      BY <2>1, <3>1 DEF OwnedIsMarked
  <2>. QED
    BY <1>2, <2>3 DEF Owners
<1>5. CASE ReconcileDone
  <2>1. phase = "occupying" /\ toOccupy = {} /\ phase' = "ready" /\ UNCHANGED sets
    BY <1>5 DEF ReconcileDone
  <2>2. OwnedIsMarked'
    BY <1>2, <2>1 DEF Owners, OwnedIsMarked, Owns
  <2>. QED
    BY <1>2, <2>2 DEF Owners
<1>6. CASE ReconcileListFails
  <2>1. phase' = "failed" /\ UNCHANGED <<toOccupy, sets>>
    BY <1>6 DEF ReconcileListFails
  <2>2. OwnedIsMarked'
    BY <2>1 DEF OwnedIsMarked
  <2>. QED
    BY <1>2, <2>2 DEF Owners
<1>. QED
  BY <1>3, <1>4, <1>5, <1>6

-----------------------------------------------------------------------------
\* The workers

\* Whatever worker w does, the items of the others stay what they are.
LEMMA OthersStay ==
  ASSUME NEW w \in Workers, \A v \in Workers : v # w => worker'[v] = worker[v],
         UNCHANGED exists
  PROVE  \A v \in Workers : v # w =>
           /\ ItemOf(v)' = ItemOf(v) /\ (Unreleased(v) <=> Unreleased(v)')
           /\ \A m, b : WorkerReserves(v, m, b) <=> WorkerReserves(v, m, b)'
BY DEF ItemOf, Unreleased, Meant, WorkerReserves

\* A worker goes on and keeps what it has.
LEMMA KeepsItem ==
  ASSUME Quiet, Context, Owners, NEW w \in Workers,
         \A v \in Workers : v # w => worker'[v] = worker[v],
         ItemOf(w)' = ItemOf(w),
         Unreleased(w) /\ Meant(w) <=> Unreleased(w)' /\ Meant(w)',
         UNCHANGED <<api, informer, start, sets, handler, queue>>
  PROVE  Owners'
<1>1. UNCHANGED <<exists, cached, finalCIDRs, events, phase, toOccupy>>
  BY DEF api, informer, start
<1>2. \A m, b : \A v \in Workers : WorkerReserves(v, m, b) <=> WorkerReserves(v, m, b)'
  BY <1>1, OthersStay DEF WorkerReserves
<1>3. /\ \A m, b : HandlerHas(m, b) <=> HandlerHas(m, b)'
      /\ \A m, b : QueueHas(m, b) <=> QueueHas(m, b)'
  BY DEF HandlerHas, QueueHas
<1>4. \A m, b : Reserves(m, b) <=> Reserves(m, b)'
  BY <1>1, <1>2, <1>3, ReservesIs
<1>5. \A m, b : DeletionHas(m, b) <=> DeletionHas(m, b)'
  BY <1>1 DEF DeletionHas, Deletions
<1>. QED
  BY <1>1, <1>4, <1>5, HoldersStay, OwnersEnd

\* The item of a busy worker.
LEMMA ItemIs ==
  ASSUME Quiet, Context, NEW w \in Workers, worker[w].pc # "idle"
  PROVE  \E n \in Nodes, b \in NodeBlocks(1) :
           /\ ItemOf(w) = Item(n, <<b>>) /\ ItemOf(w).node = n /\ ItemOf(w).blocks[1] = b
           /\ Unreleased(w) /\ Meant(w) => Reserves(n, b)
           /\ \A v \in Workers : v # w => ItemOf(v).node # n
           /\ \A c : ~HandlerHas(n, c) /\ ~QueueHas(n, c)
<1>. USE DEF Context
<1>. DEFINE n == ItemOf(w).node
            b == ItemOf(w).blocks[1]
<1>1. ItemOf(w) \in FullItem
  BY BusyTyped DEF TypeOK
<1>2. n \in Nodes /\ b \in NodeBlocks(1) /\ ItemOf(w) = Item(n, <<b>>)
  BY <1>1, OneBlock
<1>3. Unreleased(w) /\ Meant(w) => Reserves(n, b)
  BY <1>2 DEF Reserves
<1>4. /\ \A v \in Workers : v # w => ItemOf(v).node # n
      /\ handler.node # n /\ \A p \in DOMAIN queue : queue[p].node # n
  BY BusyNode
<1>5. \A c : ~HandlerHas(n, c) /\ ~QueueHas(n, c)
  <2>1. \A c : Item(n, <<c>>).node = n
    BY SameItem
  <2>. QED
    BY <1>4, <2>1 DEF HandlerHas, QueueHas
<1>. QED
  BY <1>2, <1>3, <1>4, <1>5

\* The item goes from the channel to a worker.
LEMMA TakeOwners ==
  ASSUME Quiet, Context, Owners, NEW w \in Workers, Take(w)
  PROVE  Owners'
<1>. USE DEF Context, TypeOK
<1>. DEFINE s == [pc |-> "get", item |-> Head(queue), i |-> 0]
<1>1. /\ worker[w].pc = "idle" /\ queue # <<>> /\ queue' = Tail(queue)
      /\ worker' = [worker EXCEPT ![w] = s]
      /\ s.pc = "get" /\ s.item = Head(queue)
      /\ UNCHANGED <<api, informer, start, sets, handler>>
  BY DEF Take, At
<1>. HIDE DEF s
<1>2. /\ worker'[w].pc = "get" /\ ItemOf(w)' = Head(queue)
      /\ \A v \in Workers : v # w => worker'[v] = worker[v]
  BY <1>1, WorkerIs DEF ItemOf
<1>3. /\ UNCHANGED <<exists, cached, finalCIDRs, events, phase, toOccupy>>
      /\ ~Unreleased(w)
  BY <1>1 DEF api, informer, start, Unreleased
<1>4. /\ 1 \in DOMAIN queue /\ Head(queue) = queue[1]
      /\ \A p \in DOMAIN queue' : p + 1 \in DOMAIN queue /\ queue'[p] = queue[p + 1]
  BY <1>1, Tailed DEF ItemsTypeOK
<1>5. /\ \A m, b : QueueHas(m, b)' => QueueHas(m, b)
      /\ \A m, b : Head(queue) = Item(m, <<b>>) => QueueHas(m, b)
  BY <1>4 DEF QueueHas
<1>6. Unreleased(w)' /\ (Meant(w)' => Head(queue).node \in exists)
  BY <1>2, <1>3 DEF Unreleased, Meant
<1>7. ASSUME NEW m, NEW b, Reserves(m, b)'
      PROVE  Reserves(m, b)
  <2>1. HandlerHas(m, b)' => HandlerHas(m, b)
    BY <1>1 DEF HandlerHas
  <2>2. WorkerReserves(w, m, b)' => m \in exists /\ QueueHas(m, b)
    BY <1>2, <1>5, <1>6, SameItem DEF WorkerReserves
  <2>3. \A v \in Workers : v # w => (WorkerReserves(v, m, b)' => WorkerReserves(v, m, b))
    BY <1>2, <1>3, OthersStay
  <2>. QED
    BY <1>3, <1>5, <1>7, <2>1, <2>2, <2>3, ReservesIs
<1>8. \A m, b : DeletionHas(m, b) <=> DeletionHas(m, b)'
  BY <1>3 DEF DeletionHas, Deletions
<1>. QED
  BY <1>1, <1>3, <1>7, <1>8, HoldersStay, OwnersEnd

\* A worker whose node has the block it reserved would have it twice: without a
\* lost answer GetNode never finds that.
LEMMA GetNodeOwners ==
  ASSUME Quiet, Context, Owners, NEW w \in Workers, GetNode(w) \/ GetNodeFails(w)
  PROVE  Owners'
<1>. USE DEF Context, TypeOK
<1>1. /\ worker[w].pc = "get" /\ UNCHANGED <<api, informer, start, sets, handler, queue>>
  BY DEF GetNode, GetNodeFails, At
<1>2. PICK n \in Nodes, b \in NodeBlocks(1) :
        /\ ItemOf(w) = Item(n, <<b>>) /\ ItemOf(w).node = n /\ ItemOf(w).blocks[1] = b
        /\ Unreleased(w) /\ Meant(w) => Reserves(n, b)
  BY <1>1, ItemIs
<1>3. /\ Unreleased(w) /\ (Meant(w) <=> n \in exists) /\ UNCHANGED exists
  BY <1>1, <1>2 DEF Unreleased, Meant, api
<1>4. CASE n \in exists /\ ~GetNodeFails(w)
  <2>. DEFINE pc == AfterGet(podCIDRs[n], ItemOf(w))
  <2>1. Goto(w, pc, 1)
    BY <1>2, <1>4 DEF GetNode
  <2>2. ~Matches(podCIDRs[n], ItemOf(w))
    <3>1. SUFFICES ASSUME Matches(podCIDRs[n], ItemOf(w))
                   PROVE  FALSE
      OBVIOUS
    <3>2. b \in Names(podCIDRs[n])
      BY <1>1, <1>2, <3>1, WantedNames
    <3>3. Holds(n, b)
      BY <1>4, <3>2, HoldsIs
    <3>. QED
      BY <1>2, <1>3, <1>4, <3>3 DEF Owners, OneOwner, Owns
  <2>3. pc \in {"giveBack", "patch"}
    BY <2>2 DEF AfterGet
  <2>. HIDE DEF pc
  <2>4. /\ worker'[w].pc = pc /\ worker'[w].i = 1 /\ ItemOf(w)' = ItemOf(w)
        /\ \A v \in Workers : v # w => worker'[v] = worker[v]
    BY <1>1, <2>1, WentTo
  <2>5. Unreleased(w)' /\ Meant(w)'
    BY <2>3, <2>4 DEF Unreleased, Meant
  <2>. QED
    BY <1>1, <1>3, <1>4, <2>4, <2>5, KeepsItem
<1>5. CASE n \notin exists \/ GetNodeFails(w)
  <2>1. Goto(w, "requeue", 0)
    BY <1>2, <1>5 DEF GetNode, GetNodeFails
  <2>2. /\ worker'[w].pc = "requeue" /\ ItemOf(w)' = ItemOf(w)
        /\ \A v \in Workers : v # w => worker'[v] = worker[v]
    BY <1>1, <2>1, WentTo
  <2>3. Unreleased(w)' /\ (Meant(w)' <=> n \in exists)
    BY <1>2, <1>3, <2>2 DEF Unreleased, Meant
  <2>. QED
    BY <1>1, <1>3, <2>2, <2>3, KeepsItem
<1>. QED
  BY <1>4, <1>5

\* A rejected patch keeps the item, for another try or to give it up.
LEMMA PatchRejectedOwners ==
  ASSUME Quiet, Context, Owners, NEW w \in Workers, PatchRejected(w)
  PROVE  Owners'
<1>. USE DEF Context, TypeOK
<1>1. /\ worker[w].pc = "patch" /\ PatchError(w, "Invalid")
      /\ UNCHANGED <<api, informer, start, sets, handler, queue>>
  BY DEF PatchRejected, At
<1>2. /\ worker'[w].pc = "patch" \/ (worker'[w].pc = "giveUp" /\ worker'[w].i = 1)
      /\ ItemOf(w)' = ItemOf(w)
      /\ \A v \in Workers : v # w => worker'[v] = worker[v]
  BY <1>1, PatchErrorIs
<1>3. Unreleased(w) /\ Meant(w) /\ Unreleased(w)' /\ Meant(w)'
  BY <1>1, <1>2 DEF Unreleased, Meant
<1>. QED
  BY <1>1, <1>2, <1>3, KeepsItem

\* The reservation becomes the node's.
LEMMA PatchNodeOwners ==
  ASSUME Quiet, Context, Owners, NEW w \in Workers, PatchNode(w)
  PROVE  Owners'
<1>. USE DEF Context, TypeOK
<1>1. /\ phase = "ready" /\ worker[w].pc = "patch"
      /\ Acceptable(w) /\ Goto(w, "done", 0)
      /\ podCIDRs' = [podCIDRs EXCEPT ![ItemOf(w).node] = Wanted(w)]
      /\ UNCHANGED <<exists, informer, start, sets, handler, queue>>
  BY DEF PatchNode, At, Apply
<1>2. PICK n \in Nodes, b \in NodeBlocks(1) :
        /\ ItemOf(w) = Item(n, <<b>>) /\ ItemOf(w).node = n /\ ItemOf(w).blocks[1] = b
        /\ Unreleased(w) /\ Meant(w) => Reserves(n, b)
        /\ \A v \in Workers : v # w => ItemOf(v).node # n
        /\ \A c : ~HandlerHas(n, c) /\ ~QueueHas(n, c)
  BY <1>1, ItemIs
<1>3. /\ worker'[w].pc = "done" /\ ItemOf(w)' = ItemOf(w)
      /\ \A v \in Workers : v # w => worker'[v] = worker[v]
  BY <1>1, WentTo
<1>4. Unreleased(w) /\ Meant(w) /\ ~Unreleased(w)'
  BY <1>1, <1>3 DEF Unreleased, Meant
<1>5. n \in exists /\ podCIDRs[n] = <<>> /\ Names(Wanted(w)) = {b}
  BY <1>1, <1>2, WantedNames DEF Acceptable, WorkersInOrder
<1>6. podCIDRs'[n] = Wanted(w) /\ \A m : m # n => podCIDRs'[m] = podCIDRs[m]
  BY <1>1, <1>2 DEF ListsKnown
<1>7. \A m, c : DeletionHas(m, c) <=> DeletionHas(m, c)'
  BY <1>1 DEF DeletionHas, Deletions, informer
<1>8. \A m, c : Holds(m, c)' <=> Holds(m, c) \/ (m = n /\ c = b)
  <2>1. Names(podCIDRs[n]) = {} /\ Names(podCIDRs'[n]) = {b}
    BY <1>5, <1>6, NamesOfForms
  <2>2. UNCHANGED <<exists, cached, finalCIDRs>>
    BY <1>1 DEF informer
  <2>. QED
    BY <1>5, <1>6, <1>7, <2>1, <2>2, HoldsIs
<1>9. ASSUME NEW m, NEW c
      PROVE  /\ Reserves(m, c)' <=> Reserves(m, c) /\ m # n
             /\ Reserves(n, c) => c = b
  <2>1. /\ HandlerHas(m, c) <=> HandlerHas(m, c)'
        /\ QueueHas(m, c) <=> QueueHas(m, c)'
    BY <1>1 DEF HandlerHas, QueueHas
  <2>2. \A v \in Workers : v # w =>
          /\ ItemOf(v)' = ItemOf(v) /\ (Unreleased(v) <=> Unreleased(v)')
          /\ WorkerReserves(v, m, c) <=> WorkerReserves(v, m, c)'
    BY <1>1, <1>3, OthersStay
  <2>3. ASSUME NEW v \in Workers, v # w, NEW d
        PROVE  ~WorkerReserves(v, n, d)
    <3>1. Item(n, <<d>>).node = n
      BY SameItem
    <3>. QED
      BY <1>2, <2>3, <3>1 DEF WorkerReserves
  <2>4. /\ \A d : WorkerReserves(w, m, d) => m = n /\ d = b
        /\ ~WorkerReserves(w, m, c)'
    BY <1>2, <1>4, SameItem DEF WorkerReserves
  <2>5. Reserves(m, c)' <=> Reserves(m, c) /\ m # n
    BY <1>1, <1>2, <2>1, <2>2, <2>3, <2>4, ReservesIs
  <2>6. Reserves(n, c) => c = b
    <3>1. WorkerReserves(w, n, c) => c = b
      BY <1>2, SameItem DEF WorkerReserves
    <3>. QED
      BY <1>2, <2>3, <3>1, ReservesIs
  <2>. QED
    BY <2>5, <2>6
<1>10. Reserves(n, b)
  BY <1>2, <1>4
<1>11. \A m, c : Owns(m, c)' => Owns(m, c)
  BY <1>8, <1>9, <1>10 DEF Owns
<1>12. \A m, c : ~(Holds(m, c)' /\ Reserves(m, c)')
  BY <1>8, <1>9, Exclusive DEF Owners
<1>13. OneOwner'
  BY <1>11, <1>12, NoNewOwner DEF Owners
<1>14. phase = "ready" /\ UNCHANGED phase
  BY <1>1 DEF start
<1>15. OwnedIsMarked'
  BY <1>1, <1>11, <1>14 DEF Owners, OwnedIsMarked
<1>. QED
  BY <1>13, <1>15 DEF Owners

\* Only the first time: the block is free from then on, and no longer reserved.
LEMMA ReleaseReservedOwners ==
  ASSUME Quiet, Context, Owners, NEW w \in Workers, ReleaseReserved(w)
  PROVE  Owners'
<1>. USE DEF Context, TypeOK
<1>1. /\ phase = "ready" /\ worker[w].pc \in {"giveBack", "giveUp"} /\ worker[w].i = 1
      /\ sets' = [sets EXCEPT ![1] = Release(@, {ItemOf(w).blocks[1]})]
      /\ Goto(w, worker[w].pc, 1 + 1)
      /\ UNCHANGED <<api, informer, start, handler, queue>>
  BY OneSet DEF ReleaseReserved, At
<1>2. PICK n \in Nodes, b \in NodeBlocks(1) :
        /\ ItemOf(w) = Item(n, <<b>>) /\ ItemOf(w).node = n /\ ItemOf(w).blocks[1] = b
        /\ Unreleased(w) /\ Meant(w) => Reserves(n, b)
        /\ \A v \in Workers : v # w => ItemOf(v).node # n
        /\ \A c : ~HandlerHas(n, c) /\ ~QueueHas(n, c)
  BY <1>1, ItemIs
<1>3. /\ worker'[w].pc = worker[w].pc /\ worker'[w].i = 2 /\ ItemOf(w)' = ItemOf(w)
      /\ \A v \in Workers : v # w => worker'[v] = worker[v]
  BY <1>1, WentTo
<1>4. Unreleased(w) /\ Meant(w) /\ ~Unreleased(w)'
  BY <1>1, <1>3 DEF Unreleased, Meant
<1>5. sets'[1].used = sets[1].used \ {b}
  BY <1>1, <1>2, BitmapChanges
<1>6. UNCHANGED <<exists, cached, finalCIDRs, events, phase, toOccupy>>
  BY <1>1 DEF api, informer, start
<1>7. \A m, c : DeletionHas(m, c) <=> DeletionHas(m, c)'
  BY <1>6 DEF DeletionHas, Deletions
<1>8. \A m, c : Holds(m, c) <=> Holds(m, c)'
  BY <1>1, <1>6, <1>7, HoldersStay
<1>9. ASSUME NEW m, NEW c
      PROVE  Reserves(m, c)' => Reserves(m, c) /\ m # n
  <2>1. /\ HandlerHas(m, c) <=> HandlerHas(m, c)'
        /\ QueueHas(m, c) <=> QueueHas(m, c)'
    BY <1>1 DEF HandlerHas, QueueHas
  <2>2. \A v \in Workers : v # w =>
          /\ ItemOf(v)' = ItemOf(v) /\ (Unreleased(v) <=> Unreleased(v)')
          /\ WorkerReserves(v, m, c) <=> WorkerReserves(v, m, c)'
    BY <1>3, <1>6, OthersStay
  <2>3. \A v \in Workers : v # w /\ WorkerReserves(v, m, c) => m # n
    BY <1>2, SameItem DEF WorkerReserves
  <2>4. ~WorkerReserves(w, m, c)'
    BY <1>4 DEF WorkerReserves
  <2>. QED
    BY <1>2, <1>6, <2>1, <2>2, <2>3, <2>4, ReservesIs
<1>10. Reserves(n, b)
  BY <1>2, <1>4
<1>11. ASSUME NEW m, NEW c, Owns(m, c)'
       PROVE  Owns(m, c) /\ c # b
  <2>1. Owns(m, c)
    BY <1>8, <1>9, <1>11 DEF Owns
  <2>2. SUFFICES ASSUME c = b
                 PROVE  FALSE
    BY <2>1
  <2>3. Owns(m, b) /\ Owns(n, b)
    BY <1>10, <2>1, <2>2 DEF Owns
  <2>4. m = n /\ ~Holds(n, b)
    BY <1>10, <2>3, Exclusive DEF Owners
  <2>. QED
    BY <1>8, <1>9, <1>11, <2>2, <2>4 DEF Owns
<1>12. \A m, c : ~(Holds(m, c)' /\ Reserves(m, c)')
  BY <1>8, <1>9, Exclusive DEF Owners
<1>13. OneOwner'
  BY <1>11, <1>12, NoNewOwner DEF Owners
<1>14. OwnedIsMarked'
  BY <1>1, <1>5, <1>6, <1>11 DEF Owners, OwnedIsMarked
<1>. QED
  BY <1>13, <1>14 DEF Owners

\* A worker is done when its block is the node's, or released.
LEMMA DoneOwners ==
  ASSUME Quiet, Context, Owners, NEW w \in Workers, Done(w)
  PROVE  Owners'
<1>. USE DEF Context, TypeOK
<1>1. /\ worker[w].pc \in {"done", "giveBack"} /\ (worker[w].pc = "giveBack" => worker[w].i > 1)
      /\ worker' = [worker EXCEPT ![w] = Idle]
      /\ UNCHANGED <<api, informer, start, sets, handler, queue>>
  BY DEF Done, At, OneIPv4
<1>2. Idle.pc = "idle"
  BY DEF Idle
<1>3. worker'[w].pc = "idle" /\ \A v \in Workers : v # w => worker'[v] = worker[v]
  BY <1>1, <1>2, WorkerIs
<1>4. ~Unreleased(w) /\ ~Unreleased(w)'
  BY <1>1, <1>3 DEF Unreleased
<1>5. UNCHANGED <<exists, cached, finalCIDRs, events, phase, toOccupy>>
  BY <1>1 DEF api, informer, start
<1>6. \A v \in Workers : v # w =>
        /\ ItemOf(v)' = ItemOf(v) /\ (Unreleased(v) <=> Unreleased(v)')
        /\ \A m, b : WorkerReserves(v, m, b) <=> WorkerReserves(v, m, b)'
  BY <1>3, <1>5, OthersStay
<1>7. /\ \A m, b : HandlerHas(m, b) <=> HandlerHas(m, b)'
      /\ \A m, b : QueueHas(m, b) <=> QueueHas(m, b)'
      /\ \A m, b : ~WorkerReserves(w, m, b) /\ ~WorkerReserves(w, m, b)'
  BY <1>1, <1>4, <1>6 DEF HandlerHas, QueueHas, WorkerReserves
<1>8. \A m, b : Reserves(m, b)' => Reserves(m, b)
  BY <1>5, <1>6, <1>7, ReservesIs
<1>9. \A m, b : DeletionHas(m, b) <=> DeletionHas(m, b)'
  BY <1>5 DEF DeletionHas, Deletions
<1>. QED
  BY <1>1, <1>5, <1>8, <1>9, HoldersStay, OwnersEnd

\* What is put back after it was released is the item of a node that is gone.
LEMMA RequeueOwners ==
  ASSUME Quiet, Context, Owners, NEW w \in Workers, Requeue(w)
  PROVE  Owners'
<1>. USE DEF Context, TypeOK
<1>1. /\ worker[w].pc = "requeue" \/ (worker[w].pc = "giveUp" /\ worker[w].i > 1)
      /\ worker' = [worker EXCEPT ![w] = Idle] /\ queue' = Append(queue, ItemOf(w))
      /\ UNCHANGED <<api, informer, start, sets, handler>>
  BY DEF Requeue, At, OneIPv4
<1>2. Idle.pc = "idle"
  BY DEF Idle
<1>3. worker'[w].pc = "idle" /\ \A v \in Workers : v # w => worker'[v] = worker[v]
  BY <1>1, <1>2, WorkerIs
<1>4. ~Unreleased(w)'
  BY <1>3 DEF Unreleased
<1>5. UNCHANGED <<exists, cached, finalCIDRs, events, phase, toOccupy>>
  BY <1>1 DEF api, informer, start
<1>6. ItemOf(w).node \in exists => Unreleased(w) /\ Meant(w)
  BY <1>1 DEF Unreleased, Meant, WorkersInOrder
<1>7. ItemOf(w) \in FullItem
  BY <1>1, BusyTyped
<1>8. /\ DOMAIN queue' = DOMAIN queue \cup {Len(queue) + 1}
      /\ Len(queue) + 1 \notin DOMAIN queue
      /\ \A p \in DOMAIN queue : queue'[p] = queue[p]
      /\ queue'[Len(queue) + 1] = ItemOf(w)
  BY <1>1, <1>7, Appended DEF ItemsTypeOK
<1>9. \A m, b : QueueHas(m, b)' <=> QueueHas(m, b) \/ ItemOf(w) = Item(m, <<b>>)
  BY <1>8 DEF QueueHas
<1>10. \A v \in Workers : v # w =>
         /\ ItemOf(v)' = ItemOf(v) /\ (Unreleased(v) <=> Unreleased(v)')
         /\ \A m, b : WorkerReserves(v, m, b) <=> WorkerReserves(v, m, b)'
  BY <1>3, <1>5, OthersStay
<1>11. ASSUME NEW m, NEW b
       PROVE  Reserves(m, b)' => Reserves(m, b)
  <2>1. HandlerHas(m, b) <=> HandlerHas(m, b)'
    BY <1>1 DEF HandlerHas
  <2>2. ~WorkerReserves(w, m, b)'
    BY <1>4 DEF WorkerReserves
  <2>3. m \in exists /\ ItemOf(w) = Item(m, <<b>>) => WorkerReserves(w, m, b)
    BY <1>6, SameItem DEF WorkerReserves
  <2>. QED
    BY <1>5, <1>9, <1>10, <2>1, <2>2, <2>3, ReservesIs
<1>12. \A m, b : DeletionHas(m, b) <=> DeletionHas(m, b)'
  BY <1>5 DEF DeletionHas, Deletions
<1>. QED
  BY <1>1, <1>5, <1>11, <1>12, HoldersStay, OwnersEnd

-----------------------------------------------------------------------------
\* Ownership is inductive

\* To begin with blocks are held by nodes only, each by one.
LEMMA InitOwners ==
  ASSUME Quiet, TypeOK, ListsKnown, Init
  PROVE  Owners
<1>1. /\ podCIDRs \in [Nodes -> Leftover] /\ exists \subseteq Nodes
      /\ \A m, n \in exists : m # n => ~Shared(podCIDRs[m], podCIDRs[n])
      /\ cached = {} /\ events = <<>> /\ phase = "boot" /\ sets = NewSets
      /\ handler = NoItem /\ queue = <<>> /\ worker = AllIdle
  BY DEF Init
<1>2. \A n, b : ~DeletionHas(n, b)
  BY <1>1 DEF DeletionHas, Deletions
<1>3. \A n, b : Holds(n, b) => n \in exists /\ b \in Names(podCIDRs[n])
  BY <1>1, <1>2, HoldsIs
<1>4. ASSUME NEW m, NEW b
      PROVE  ~HandlerHas(m, b) /\ ~QueueHas(m, b)
  <2>1. Item(m, <<b>>) # NoItem
    BY SameItem
  <2>. QED
    BY <1>1, <2>1 DEF HandlerHas, QueueHas
<1>5. \A m, b : \A w \in Workers : ~WorkerReserves(w, m, b)
  BY <1>1 DEF WorkerReserves, Unreleased, AllIdle, Idle
<1>6. \A m, b : ~Reserves(m, b)
  BY <1>4, <1>5, ReservesIs
<1>7. ASSUME NEW m \in exists, NEW n \in exists, Names(podCIDRs[m]) \cap Names(podCIDRs[n]) # {}
      PROVE  m = n
  BY <1>1, <1>7, SharedNames, QuietIsIPv4
<1>8. OneOwner
  BY <1>3, <1>6, <1>7 DEF OneOwner, Owns
<1>. QED
  BY <1>1, <1>8 DEF Owners, OwnedIsMarked

\* Every step keeps the owners, given what their context says.
LEMMA NextOwners ==
  ASSUME Quiet, Context, Owners, [Next]_vars
  PROVE  Owners'
<1>1. ASSUME NEW n \in Nodes, NodeStep(n) \/ LateWrite(n)
      PROVE  Owners'
  BY <1>1, CreateNodeOwners, DeleteNodeOwners, LeaderAssignsOwners, ObserveOwners,
     QuietSteps DEF NodeStep
<1>2. CASE HandlerStep
  BY <1>2, HandleIgnoredOwners, HandleNodeWithCIDRsOwners, HandleNodeWithoutCIDRsOwners,
     HandleDeleteOwners, AllocateCIDROwners, AllocateFailsOwners, EnqueueOwners
     DEF HandlerStep
<1>3. CASE StartStep
  BY <1>3, InformerListOwners, ReconcileOwners DEF StartStep
<1>4. ASSUME NEW w \in Workers, WorkerStep(w) \/ FaultStep(w)
      PROVE  Owners'
  BY <1>4, TakeOwners, GetNodeOwners, PatchNodeOwners, PatchRejectedOwners,
     ReleaseReservedOwners, DoneOwners, RequeueOwners, QuietSteps
     DEF WorkerStep, FaultStep
<1>5. CASE UNCHANGED vars
  BY <1>5, NothingMoves DEF vars, api, informer, start
<1>. QED
  BY <1>1, <1>2, <1>3, <1>4, <1>5, RestartOwners DEF Next

(***************************************************************************)
(* In a quiet environment a block has one owner at a time - a node, a      *)
(* reservation or a deleted node whose event is to come - and is marked as *)
(* long as it has one, whatever handler, workers, informer, standby leader *)
(* and restarts do in between.                                             *)
(***************************************************************************)
THEOREM OwnershipCorrect ==
  ASSUME Quiet
  PROVE  Spec => []Ownership
<1>1. Spec => []TypeOK /\ []SetsCounted
  BY TypeCorrect, CountersCorrect, PTL
<1>2. Spec => []OneItemPerNode
  BY OneItemCorrect
<1>3. TypeOK /\ OneItemPerNode => OneItem
  BY OneItemIsOneItemPerNode DEF TypeOK
<1>4. TypeOK /\ Init => Ownership
  BY QuietIsIPv4, InitKnown, InitNames, InitEarly, InitInOrder, InitCurrent, InitListed, InitOwners
     DEF Ownership, Owners
<1>5. TypeOK /\ OneItem /\ SetsCounted /\ Ownership /\ [Next]_vars => Ownership'
  <2>. SUFFICES ASSUME TypeOK, OneItem, SetsCounted, Ownership, [Next]_vars
                PROVE  Ownership'
    OBVIOUS
  <2>1. "earlyDelete" \notin Environment /\ OneIPv4
    BY DEF Quiet
  <2>2. \A n \in Nodes : CreateNode(n) => n \notin cached
    BY DEF CreateNode, Ownership, NamesKnown
  <2>. QED
    BY <2>1, <2>2, NextKnown, NextNames, NextEarly, NextInOrder, NextStore, NextCurrent,
       NextListed, NextOwners DEF Ownership, Owners, Context
<1>. QED
  BY <1>1, <1>2, <1>3, <1>4, <1>5, PTL DEF Spec

-----------------------------------------------------------------------------
\* What Ownership says of the Node objects and of the items

\* A reservation for a node that exists is its own, or what the node has by now.
LEMMA ReservedIsOwned ==
  ASSUME Quiet, Context, NEW n \in exists, NEW r \in Reserved(n)
  PROVE  /\ phase = "ready" /\ n \in Nodes
         /\ \E b \in NodeBlocks(1) : r = <<1, b>> /\ Owns(n, b)
<1>. USE DEF Context, TypeOK
<1>1. n \in Nodes /\ n # NoNode
  BY NodesAssumption DEF ApiTypeOK
<1>2. ASSUME NEW k \in DOMAIN handler.blocks, handler.node = n, r = <<k, handler.blocks[k]>>
      PROVE  /\ phase = "ready" /\ \E b \in NodeBlocks(1) : r = <<1, b>> /\ Owns(n, b)
  <2>1. handler \in PartialItem /\ handler.blocks \in BlockLists
    BY <1>1, <1>2, HandlerTyped DEF ItemsTypeOK, PartialItem
  <2>2. handler.blocks \in Seq(Nat) /\ Len(handler.blocks) <= 1
        /\ handler.blocks[k] \in NodeBlocks(k)
    BY <1>2, <2>1 DEF BlockLists, OneIPv4
  <2>3. k = 1 /\ Len(handler.blocks) = 1
    <3>1. DOMAIN handler.blocks = 1 .. Len(handler.blocks) /\ Len(handler.blocks) \in Nat
      BY <2>2
    <3>2. k \in 1 .. Len(handler.blocks) /\ Len(handler.blocks) <= 1
      BY <2>2, <3>1
    <3>3. \A l \in Nat : l <= 1 => \A j \in 1 .. l : j = 1 /\ l = 1
      OBVIOUS
    <3>. QED
      BY <3>1, <3>2, <3>3
  <2>4. handler.blocks = <<handler.blocks[1]>>
    BY <2>2, <2>3
  <2>5. handler = Item(n, <<handler.blocks[1]>>)
    BY <1>2, <2>1, <2>4 DEF PartialItem, Item
  <2>6. Owns(n, handler.blocks[1])
    BY <2>5 DEF Owns, Reserves, HandlerHas
  <2>7. phase = "ready"
    BY <2>4, ShortLists DEF NothingEarly
  <2>. QED
    BY <1>2, <2>2, <2>3, <2>6, <2>7
<1>3. ASSUME NEW p \in DOMAIN queue, queue[p].node = n, NEW k \in SetIndices,
             r = <<k, queue[p].blocks[k]>>
      PROVE  /\ phase = "ready" /\ \E b \in NodeBlocks(1) : r = <<1, b>> /\ Owns(n, b)
  <2>1. queue[p] \in FullItem /\ k = 1 /\ queue # <<>>
    BY OneSet, QueueTyped
  <2>2. queue[p] = Item(n, <<queue[p].blocks[1]>>) /\ queue[p].blocks[1] \in NodeBlocks(1)
    BY <1>3, <2>1, OneBlock
  <2>3. Owns(n, queue[p].blocks[1])
    BY <2>2 DEF Owns, Reserves, QueueHas
  <2>. QED
    BY <1>3, <2>1, <2>2, <2>3 DEF NothingEarly
<1>4. ASSUME NEW w \in Workers, ItemOf(w).node = n, NEW k \in GivenBack(w) + 1 .. NSets,
             r = <<k, ItemOf(w).blocks[k]>>
      PROVE  /\ phase = "ready" /\ \E b \in NodeBlocks(1) : r = <<1, b>> /\ Owns(n, b)
  <2>1. worker[w].pc # "idle"
    BY <1>1, <1>4, IdleTyped, NoItemIsNone
  <2>2. phase = "ready"
    BY <2>1, EarlyItems, IdleIsNotBusy
  <2>3. PICK b \in NodeBlocks(1) : ItemOf(w) = Item(n, <<b>>) /\ ItemOf(w).blocks[1] = b
    BY <1>4, <2>1, ItemIs
  <2>4. /\ worker[w].pc \in Busy
        /\ worker[w].pc \in {"giveBack", "giveUp"} => worker[w].i \in {1, 2}
        /\ worker[w].pc = "done" => b \in Names(podCIDRs[n])
    BY <1>4, <2>1, <2>3, BusyTyped DEF BusyWorker, WorkersInOrder
  <2>5. k = 1 /\ (worker[w].pc \in {"giveBack", "giveUp"} => worker[w].i = 1)
    BY <1>4, <2>4 DEF GivenBack, OneIPv4
  <2>6. CASE worker[w].pc = "done"
    BY <1>4, <2>2, <2>3, <2>4, <2>5, <2>6 DEF Owns, Holds
  <2>7. CASE worker[w].pc # "done"
    <3>1. Unreleased(w) /\ Meant(w)
      BY <1>4, <2>4, <2>5, <2>7 DEF Unreleased, Meant, Busy
    <3>2. Owns(n, b)
      BY <2>3, <3>1 DEF Owns, Reserves
    <3>. QED
      BY <1>4, <2>2, <2>3, <2>5, <3>2
  <2>. QED
    BY <2>6, <2>7
<1>. QED
  BY <1>1, <1>2, <1>3, <1>4 DEF Reserved

\* What is reserved or held has an owner, who is marked and alone.
LEMMA OwnersExclusive == Quiet /\ Context /\ Owners => ReservationsExclusive
<1>. SUFFICES ASSUME Quiet, Context, Owners
              PROVE  ReservationsExclusive
  OBVIOUS
<1>1. ASSUME NEW n \in exists, NEW r \in Reserved(n)
      PROVE  r[2] \in sets[r[1]].used
  BY <1>1, ReservedIsOwned DEF Owners, OwnedIsMarked
<1>2. ASSUME NEW m \in exists, NEW n \in exists, NEW r \in Reserved(m),
             r \in Reserved(n) \cup Held(n)
      PROVE  m = n
  <2>1. PICK b : r = <<1, b>> /\ Owns(m, b)
    BY <1>2, ReservedIsOwned
  <2>2. Owns(n, b)
    <3>1. CASE r \in Reserved(n)
      BY <2>1, <3>1, ReservedIsOwned
    <3>2. CASE r \in Held(n)
      BY <2>1, <3>2, HeldIs DEF Owns, Holds, Context, TypeOK, ApiTypeOK
    <3>. QED
      BY <1>2, <3>1, <3>2
  <2>. QED
    BY <2>1, <2>2, Exclusive DEF Owners, Context
<1>. QED
  BY <1>1, <1>2 DEF ReservationsExclusive

\* What a node holds it owns.
LEMMA OwnersMarked == Quiet /\ Context /\ Owners => HeldIsMarked
<1>. SUFFICES ASSUME Quiet, Context, Owners, phase = "ready",
                     NEW n \in exists, NEW i \in Tracked(podCIDRs[n]),
                     podCIDRs[n][i].set # 0
              PROVE  podCIDRs[n][i].block \in sets[podCIDRs[n][i].set].used
  BY DEF HeldIsMarked
<1>1. n \in Nodes /\ podCIDRs[n] \in Leftover /\ i \in DOMAIN podCIDRs[n]
  BY DEF Context, TypeOK, ApiTypeOK, ListsKnown, Tracked
<1>2. PICK b \in Names(podCIDRs[n]) : podCIDRs[n][i] = V4Block(b)
  BY <1>1, NamesAreBlocks, QuietIsIPv4
<1>3. b \in NodeBlocks(1) /\ Owns(n, b)
  BY <1>1, <1>2, NamesAreBlocks, QuietIsIPv4 DEF Owns, Holds
<1>4. b \in sets[1].used
  BY <1>1, <1>3 DEF Owners, OwnedIsMarked
<1>. QED
  BY <1>2, <1>4 DEF V4Block

\* Two nodes that hold a block would be two owners.
LEMMA OwnersNotShared == Quiet /\ Context /\ Owners => NoSharedBlock
<1>. SUFFICES ASSUME Quiet, Context, Owners, NEW m \in exists, NEW n \in exists,
                     Shared(podCIDRs[m], podCIDRs[n])
              PROVE  m = n
  BY DEF NoSharedBlock
<1>1. PICK b : b \in Names(podCIDRs[m]) \cap Names(podCIDRs[n])
  BY SharedNames DEF Context, TypeOK, ApiTypeOK, ListsKnown
<1>2. Owns(m, b) /\ Owns(n, b)
  BY <1>1 DEF Owns, Holds
<1>. QED
  BY <1>2, Exclusive DEF Owners, Context

-----------------------------------------------------------------------------
\* The refinement, step by step

\* The nodes an earlier process left are a state NodeAssignment starts in.
LEMMA InitAssignment == Init => Assignment!Init
BY DEF Init, Assignment!Init, Assignment!Exclusive, Assignment!Shared, Shared

\* A patch is an assignment: what a worker reserved for its node is no other's.
LEMMA PatchAssigns ==
  ASSUME Quiet, Context, Owners, NEW w \in Workers, PatchNode(w)
  PROVE  \E n \in Nodes : Assignment!Assign(n)
<1>. USE DEF Context, TypeOK
<1>1. /\ worker[w].pc = "patch" /\ Acceptable(w)
      /\ podCIDRs' = [podCIDRs EXCEPT ![ItemOf(w).node] = Wanted(w)]
      /\ UNCHANGED exists
  BY DEF PatchNode, At, Apply
<1>2. PICK n \in Nodes, b \in NodeBlocks(1) :
        /\ ItemOf(w) = Item(n, <<b>>) /\ ItemOf(w).node = n /\ ItemOf(w).blocks[1] = b
        /\ Unreleased(w) /\ Meant(w) => Reserves(n, b)
  BY <1>1, ItemIs
<1>3. n \in exists /\ podCIDRs[n] = <<>> /\ Names(Wanted(w)) = {b} /\ Reserves(n, b)
  BY <1>1, <1>2, WantedNames DEF Acceptable, WorkersInOrder, Unreleased, Meant
<1>4. Wanted(w) \in Leftover
  BY <1>1, BusyTyped, WantedKnown
<1>5. ASSUME NEW m \in exists
      PROVE  ~Shared(podCIDRs[m], Wanted(w))
  <2>1. SUFFICES ASSUME b \in Names(podCIDRs[m])
                 PROVE  FALSE
    BY <1>3, <1>4, SharedNames DEF ListsKnown, ApiTypeOK
  <2>2. Holds(m, b) /\ Owns(m, b) /\ Owns(n, b)
    BY <1>3, <2>1 DEF Holds, Owns
  <2>. QED
    BY <1>3, <2>2, Exclusive DEF Owners
<1>6. \A m \in exists : ~Assignment!Shared(podCIDRs[m], Wanted(w))
  BY <1>5 DEF Shared, Assignment!Shared
<1>. QED
  BY <1>1, <1>2, <1>3, <1>4, <1>6 DEF Assignment!Assign

\* Every step is one of NodeAssignment, or changes no node.
LEMMA NextAssignment ==
  ASSUME Quiet, Context, Owners, [Next]_vars
  PROVE  [Assignment!Next]_(Assignment!vars)
<1>1. ASSUME NEW n \in Nodes, NodeStep(n) \/ LateWrite(n)
      PROVE  Assignment!Next \/ UNCHANGED <<exists, podCIDRs>>
  <2>1. CASE CreateNode(n)
    BY <2>1 DEF CreateNode, Assignment!Next, Assignment!Create
  <2>2. CASE DeleteNode(n)
    BY <2>2 DEF DeleteNode, Assignment!Next, Assignment!Delete
  <2>3. CASE LeaderAssigns(n)
    <3>1. PICK cidrs \in Leftover : /\ \A m \in exists : ~Shared(podCIDRs[m], cidrs)
                                    /\ podCIDRs' = [podCIDRs EXCEPT ![n] = cidrs]
      BY <2>3, LeaderShares DEF Context
    <3>2. n \in exists /\ podCIDRs[n] = <<>> /\ UNCHANGED exists
      BY <2>3 DEF LeaderAssigns, OtherAssigns
    <3>. QED
      BY <3>1, <3>2 DEF Shared, Assignment!Next, Assignment!Assign, Assignment!Shared
  <2>4. CASE Observe(n) \/ Heartbeat(n)
    BY <2>4 DEF Observe, Heartbeat, api
  <2>. QED
    BY <1>1, <2>1, <2>2, <2>3, <2>4, QuietSteps DEF NodeStep
<1>2. CASE Restart \/ HandlerStep \/ StartStep
  BY <1>2 DEF Restart, HandlerStep, HandleIgnored, HandleNodeWithCIDRs,
     HandleNodeWithoutCIDRs, HandleDelete, AllocateCIDR, AllocateFails, Enqueue,
     StartStep, InformerList, ReconcileList, ReconcileListFails, OccupyListed,
     ReconcileDone, api, Assignment!vars
<1>3. ASSUME NEW w \in Workers, WorkerStep(w) \/ FaultStep(w)
      PROVE  Assignment!Next \/ UNCHANGED <<exists, podCIDRs>>
  <2>1. CASE PatchNode(w)
    BY <2>1, PatchAssigns DEF Assignment!Next
  <2>2. CASE ~PatchNode(w)
    BY <1>3, <2>2, QuietSteps DEF WorkerStep, FaultStep, Take, GetNode, PatchRejected,
       ReleaseReserved, Done, Requeue, GetNodeFails, api
  <2>. QED
    BY <2>1, <2>2
<1>4. CASE UNCHANGED vars
  BY <1>4 DEF vars, api, Assignment!vars
<1>. QED
  BY <1>1, <1>2, <1>3, <1>4 DEF Next, Assignment!vars

-----------------------------------------------------------------------------
\* The theorems about Allocator's own properties

\* All of it holds always: the theorems below take from it what they state.
LEMMA OwnersAlways ==
  ASSUME Quiet
  PROVE  Spec => [](Context /\ Owners)
<1>1. Spec => []TypeOK /\ []SetsCounted /\ []OneItemPerNode /\ []Ownership
  BY TypeCorrect, CountersCorrect, OneItemCorrect, OwnershipCorrect, PTL
<1>2. TypeOK /\ SetsCounted /\ OneItemPerNode /\ Ownership => Context /\ Owners
  BY QuietIsIPv4, OneItemIsOneItemPerNode DEF TypeOK, Ownership, Context, Owners
<1>. QED
  BY <1>1, <1>2, PTL

(***************************************************************************)
(* In a quiet environment no block of the cluster CIDR is ever in the      *)
(* podCIDRs of two nodes, which is what reconcileState, the bitmap and     *)
(* nodesInProcessing are there for.                                        *)
(***************************************************************************)
THEOREM NoSharedBlockCorrect ==
  ASSUME Quiet
  PROVE  Spec => []NoSharedBlock
BY OwnersAlways, OwnersNotShared, PTL

(***************************************************************************)
(* A block reserved for a node that exists is marked, reserved for no      *)
(* other and in no other node's podCIDRs: no release and no late event     *)
(* frees a block on its way to a node.                                     *)
(***************************************************************************)
THEOREM ReservationsExclusiveCorrect ==
  ASSUME Quiet
  PROVE  Spec => []ReservationsExclusive
BY OwnersAlways, OwnersExclusive, PTL

(***************************************************************************)
(* Once reconcileState is done the block of every existing node is marked, *)
(* so that AllocateNext cannot hand it out: after any restart, and with    *)
(* events about the node still to be handled.                              *)
(***************************************************************************)
THEOREM HeldIsMarkedCorrect ==
  ASSUME Quiet
  PROVE  Spec => []HeldIsMarked
BY OwnersAlways, OwnersMarked, PTL

(***************************************************************************)
(* Seen at the Node objects, the controller in a quiet environment does    *)
(* what NodeAssignment says: every step is a creation, a deletion or an    *)
(* assignment of CIDRs that no other node has, or changes no node.         *)
(***************************************************************************)
THEOREM ImplementsAssignmentCorrect ==
  ASSUME Quiet
  PROVE  Spec => ImplementsNodeAssignment
<1>1. Spec => [](Context /\ Owners)
  BY OwnersAlways
<1>2. Context /\ Owners /\ [Next]_vars => [Assignment!Next]_(Assignment!vars)
  BY NextAssignment
<1>. QED
  BY <1>1, <1>2, InitAssignment, PTL DEF Spec, ImplementsNodeAssignment, Assignment!Spec
=============================================================================
