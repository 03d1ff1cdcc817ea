------------------------------ MODULE Allocator -----------------------------
(***************************************************************************)
(* The cidrAllocator (pkg/ipam/cidr_allocator.go) with the event handlers  *)
(* that main.go registers, next to the Node objects of the API server and  *)
(* the informer that observes them.                                        *)
(*                                                                         *)
(* Four kinds of goroutine share the CidrSets and nodesInProcessing: the   *)
(* one that runs the informer's event handlers in order, the one in Start  *)
(* that reconciles and then starts the workers, and the workers, fed by a  *)
(* bounded channel.  A step is what one of them does between two points    *)
(* where another may run: a call of a CidrSet or of nodesInProcessing      *)
(* (each under a mutex of its own), a request to the API server, or a send *)
(* or receive on the channel.                                              *)
(***************************************************************************)
EXTENDS PodCIDRs, SequencesExt

CONSTANTS Nodes,                \* node names
          Workers,              \* cidrUpdateWorkers goroutines
          NoNode,               \* the node of no item
          CidrUpdateQueueSize,  \* capacity of nodeCIDRUpdateChannel
          Environment,          \* what the outside may do, see below
          MaxEvents,            \* bound: events waiting for the handlers
          MaxFaults,            \* bound: failing requests
          MaxRestarts           \* bound: restarts of the process

CidrUpdateRetries == 3

(***************************************************************************)
(* What the environment may do apart from creating nodes and restarting    *)
(* the process; a run leaves out what it assumes away:                     *)
(*   "delete"      a node is deleted while a reconciled allocator is up    *)
(*   "earlyDelete" a node is deleted at any time                           *)
(*   "reuse"       a node is created under the name of a deleted one       *)
(*   "getFails"    reading the nodes, one node or its EC2 interface fails  *)
(*   "patchLost"   a patch fails without being applied                     *)
(*   "patchUnacked" a patch is applied and its answer is an error          *)
(*   "unknownCIDR" a node has a CIDR outside the cluster CIDRs             *)
(*   "relist"      the informer's watch misses deletions                   *)
(*   "otherLeader" while this process is a standby, a leader assigns CIDRs *)
(*   "lateWrite"   so does a former leader, by a patch that was on its way *)
(***************************************************************************)
EnvironmentActions ==
  {"delete", "earlyDelete", "reuse", "getFails", "patchLost", "patchUnacked",
   "unknownCIDR", "relist", "otherLeader", "lateWrite"}

ASSUME NodesAssumption == IsFiniteSet(Nodes) /\ NoNode \notin Nodes
ASSUME QueueAssumption == CidrUpdateQueueSize \in Nat \ {0}
ASSUME EnvironmentAssumption == Environment \subseteq EnvironmentActions

VARIABLES
  (* the API server *)
  exists,             \* the nodes that exist
  podCIDRs,           \* node.Spec.PodCIDRs, <<>> without a node
  retired,            \* the names that no node will have again
  (* the informer *)
  cached,             \* the nodes in its store
  cachedCIDRs,        \* their podCIDRs there
  finalCIDRs,         \* those of a cached node at its deletion
  events,             \* what it has not yet handed to the handlers
  (* the allocator *)
  phase,              \* how far Start is
  toOccupy,           \* the CIDRs reconcileState has yet to occupy
  sets,               \* cidrSets
  nodesInProcessing,
  handler,            \* the item AllocateOrOccupyCIDR is building
  queue,              \* nodeCIDRUpdateChannel
  worker,             \* where each worker is, its item and its loop counter
  (* bounds *)
  faults, restarts

api == <<exists, podCIDRs, retired>>
informer == <<cached, cachedCIDRs, finalCIDRs, events>>
start == <<phase, toOccupy>>
bounds == <<faults, restarts>>
vars == <<api, informer, start, sets, nodesInProcessing, handler, queue,
          worker, bounds>>

\* A NodeReservedCIDRs: the block of the k-th cluster CIDR is blocks[k].
Item(n, blocks) == [node |-> n, blocks |-> blocks]
NoItem == Item(NoNode, <<>>)
Idle == [pc |-> "idle", item |-> NoItem, i |-> 0]

-----------------------------------------------------------------------------
\* The CIDRs of a node, applied to the CidrSets

OccupyNode(cidrs) ==
  sets' = [k \in SetIndices |-> Occupy(sets[k], AppliedTo(cidrs, k))]

ReleaseNode(cidrs) ==
  sets' = [k \in SetIndices |-> Release(sets[k], AppliedTo(cidrs, k))]

-----------------------------------------------------------------------------
\* The process: its start and its end

NewSets == [k \in SetIndices |-> NewCIDRSet(ClusterCIDRs[k].maxCIDRs)]
AllIdle == [w \in Workers |-> Idle]
EmptyCache == [n \in Nodes |-> <<>>]

\* The podCIDRs a node may have when the process starts: none, what an earlier
\* process assigned to it, or something that was never a block of ours.
Leftover ==
  {<<>>}
  \cup {PatchedCIDRs(ProposedCIDRs(blocks)) : blocks \in
          {b \in [SetIndices -> UNION {NodeBlocks(k) : k \in SetIndices}] :
             \A k \in SetIndices : b[k] \in NodeBlocks(k)}}
  \cup {<<UnknownCIDR>> : x \in Environment \cap {"unknownCIDR"}}

Shared(S, T) ==
  \E i \in DOMAIN S, j \in DOMAIN T : S[i] = T[j] /\ S[i].set # 0

Init ==
  /\ exists \in SUBSET Nodes
  /\ podCIDRs \in [Nodes -> Leftover]
  /\ \A n \in Nodes \ exists : podCIDRs[n] = <<>>
  /\ \A m, n \in exists : m # n => ~Shared(podCIDRs[m], podCIDRs[n])
  /\ retired = {}
  /\ cached = {} /\ cachedCIDRs = EmptyCache /\ finalCIDRs = EmptyCache
  /\ events = <<>>
  /\ phase = "boot" /\ toOccupy = {}
  /\ sets = NewSets /\ nodesInProcessing = {}
  /\ handler = NoItem /\ queue = <<>> /\ worker = AllIdle
  /\ faults = 0 /\ restarts = 0

\* A crash, a shutdown, a lost lease, or the os.Exit after Start failed: the
\* next process knows nothing of what this one had in memory.
Restart ==
  /\ phase = "failed" \/ (phase # "boot" /\ restarts < MaxRestarts)
  /\ restarts' = IF phase = "failed" THEN restarts ELSE restarts + 1
  /\ cached' = {} /\ cachedCIDRs' = EmptyCache /\ finalCIDRs' = EmptyCache
  /\ events' = <<>>
  /\ phase' = "boot" /\ toOccupy' = {}
  /\ sets' = NewSets /\ nodesInProcessing' = {}
  /\ handler' = NoItem /\ queue' = <<>> /\ worker' = AllIdle
  /\ UNCHANGED <<api, faults>>

-----------------------------------------------------------------------------
\* The API server: nodes come and go, and others may write them

\* The watch reports a deletion before it reports another creation under the
\* name, and a creation before the deletion: what the handlers get does not
\* change when the later one of the two only happens after the report.
CreateNode(n) ==
  /\ n \notin exists \cup retired
  /\ n \in cached => "relist" \in Environment
  /\ exists' = exists \cup {n}
  /\ UNCHANGED <<podCIDRs, retired, informer, start, sets, nodesInProcessing,
                 handler, queue, worker, bounds>>

DeleteNode(n) ==
  /\ n \in exists
  /\ \/ "delete" \in Environment /\ phase = "ready"
     \/ "earlyDelete" \in Environment
  /\ n \in cached \/ phase = "boot" \/ "relist" \in Environment
  /\ exists' = exists \ {n}
  /\ podCIDRs' = [podCIDRs EXCEPT ![n] = <<>>]
  /\ retired' = IF "reuse" \in Environment THEN retired ELSE retired \cup {n}
  /\ finalCIDRs' = IF n \in cached
                   THEN [finalCIDRs EXCEPT ![n] = podCIDRs[n]] ELSE finalCIDRs
  /\ UNCHANGED <<cached, cachedCIDRs, events, start, sets, nodesInProcessing,
                 handler, queue, worker, bounds>>

\* Another replica gives a node CIDRs: the API server takes any of the right form.
OtherAssigns(n) ==
  /\ n \in exists /\ podCIDRs[n] = <<>>
  /\ \E cidrs \in Leftover \ {<<>>} : podCIDRs' = [podCIDRs EXCEPT ![n] = cidrs]
  /\ UNCHANGED <<exists, retired, informer, start, sets, nodesInProcessing,
                 handler, queue, worker>>

Fault(kind) ==
  /\ kind \in Environment
  /\ faults < MaxFaults
  /\ faults' = faults + 1
  /\ UNCHANGED restarts

\* A patch is sent without the context of the lease and arrives when it likes,
\* whatever the leader of the day has made of its blocks.
LateWrite(n) ==
  /\ phase \in {"occupying", "ready"}
  /\ Fault("lateWrite")
  /\ OtherAssigns(n)

\* The leader so far, for which this process is a standby: one in phase "synced",
\* whose Start waits for the lease.  It shares no block, as NodeAssignment says.
LeaderAssigns(n) ==
  /\ "otherLeader" \in Environment
  /\ phase \in {"boot", "synced"}
  /\ OtherAssigns(n)
  /\ \A m \in exists \ {n} : ~Shared(podCIDRs[m], podCIDRs'[n])
  /\ UNCHANGED bounds

-----------------------------------------------------------------------------
\* The informer

Event(type, n, cidrs) == [type |-> type, node |-> n, cidrs |-> cidrs]

\* The first list fills the store; HasSynced is true from then on.
InformerList ==
  /\ phase = "boot"
  /\ phase' = "synced"
  /\ cached' = exists
  /\ cachedCIDRs' = podCIDRs
  /\ \E order \in SetToSeqs(exists) :
       events' = [k \in DOMAIN order |->
                    Event("add", order[k], podCIDRs[order[k]])]
  /\ UNCHANGED <<api, finalCIDRs, toOccupy, sets, nodesInProcessing, handler,
                 queue, worker, bounds>>

\* What the delete event says of the node: the watch reports its last state, and
\* DeletedFinalStateUnknown, after a deletion was missed, the state in the store.
DeletedCIDRs(n) ==
  {finalCIDRs[n]} \cup {cachedCIDRs[n] : x \in Environment \cap {"relist"}}

\* A watch event, or a relist: the store jumps to the present state of the node,
\* and the handlers will get the difference.
Observe(n) ==
  /\ phase # "boot"
  /\ Len(events) < MaxEvents
  /\ \/ /\ n \in exists \ cached
        /\ events' = Append(events, Event("add", n, podCIDRs[n]))
     \/ /\ n \in cached \ exists
        /\ \E cidrs \in DeletedCIDRs(n) :
             events' = Append(events, Event("delete", n, cidrs))
     \/ /\ n \in cached \cap exists
        /\ podCIDRs[n] # cachedCIDRs[n]
        /\ events' = Append(events, Event("update", n, podCIDRs[n]))
  /\ cached' = IF n \in exists THEN cached \cup {n} ELSE cached \ {n}
  /\ cachedCIDRs' = [cachedCIDRs EXCEPT ![n] = podCIDRs[n]]
  /\ finalCIDRs' = [finalCIDRs EXCEPT ![n] = <<>>]
  /\ UNCHANGED <<api, start, sets, nodesInProcessing, handler, queue, worker,
                 bounds>>

\* The kubelet updates the status of its node all the time.  The handler
\* ignores these updates once the store has a CIDR of the node.
Heartbeat(n) ==
  /\ n \in cached \cap exists
  /\ podCIDRs[n] = <<>> /\ cachedCIDRs[n] = <<>>
  /\ Len(events) < MaxEvents
  /\ events' = Append(events, Event("update", n, <<>>))
  /\ UNCHANGED <<api, cached, cachedCIDRs, finalCIDRs, start, sets,
                 nodesInProcessing, handler, queue, worker, bounds>>

-----------------------------------------------------------------------------
\* The event handlers: one goroutine, so an event waits until the one before
\* it is handled

HasEvent == events # <<>> /\ handler = NoItem /\ phase # "failed"
Handled ==
  events' = Tail(events) /\ UNCHANGED <<cached, cachedCIDRs, finalCIDRs>>

\* AllocateOrOccupyCIDR gets the added nodes, and of the updated nodes those
\* without CIDRs.
ForAllocate(e) == e.type = "add" \/ (e.type = "update" /\ e.cidrs = <<>>)

\* The update handler does nothing for a node with CIDRs, and
\* AllocateOrOccupyCIDR nothing for a node that is being processed.
HandleIgnored ==
  /\ HasEvent
  /\ \/ Head(events).type = "update" /\ Head(events).cidrs # <<>>
     \/ ForAllocate(Head(events)) /\ Head(events).node \in nodesInProcessing
  /\ Handled
  /\ UNCHANGED <<api, start, sets, nodesInProcessing, handler, queue, worker,
                 bounds>>

\* occupyCIDRs: the node is in nodesInProcessing only within the call.
HandleNodeWithCIDRs ==
  /\ HasEvent
  /\ ForAllocate(Head(events)) /\ Head(events).node \notin nodesInProcessing
  /\ Head(events).cidrs # <<>>
  /\ OccupyNode(Head(events).cidrs)
  /\ Handled
  /\ UNCHANGED <<api, start, nodesInProcessing, handler, queue, worker, bounds>>

HandleNodeWithoutCIDRs ==
  /\ HasEvent
  /\ ForAllocate(Head(events)) /\ Head(events).node \notin nodesInProcessing
  /\ Head(events).cidrs = <<>>
  /\ nodesInProcessing' = nodesInProcessing \cup {Head(events).node}
  /\ handler' = Item(Head(events).node, <<>>)
  /\ Handled
  /\ UNCHANGED <<api, start, sets, queue, worker, bounds>>

\* ReleaseCIDR does not look at nodesInProcessing.
HandleDelete ==
  /\ HasEvent
  /\ Head(events).type = "delete"
  /\ ReleaseNode(Head(events).cidrs)
  /\ Handled
  /\ UNCHANGED <<api, start, nodesInProcessing, handler, queue, worker, bounds>>

-----------------------------------------------------------------------------
\* The rest of AllocateOrOccupyCIDR, for a node without CIDRs

\* The cluster CIDR whose CidrSet is asked next.
NextSet == Len(handler.blocks) + 1

\* Faulty variant: does not wait for the reconciliation.
AllocatingUnreconciled == handler # NoItem /\ NextSet \in SetIndices

Allocating ==
  /\ handler # NoItem
  /\ phase = "ready"     \* reconcileReady is closed
  /\ NextSet \in SetIndices

AllocateCIDR ==
  /\ Allocating
  /\ ~NoCIDRsRemaining(sets[NextSet])
  /\ sets' = [sets EXCEPT ![NextSet] = AllocateNext(@)]
  /\ handler' = [handler EXCEPT !.blocks = Append(@, Candidate(sets[NextSet]))]
  /\ UNCHANGED <<api, informer, start, nodesInProcessing, queue, worker, bounds>>

\* Faulty variant: the early return leaves the node in nodesInProcessing.
AllocateFailsSilently ==
  /\ Allocating
  /\ NoCIDRsRemaining(sets[NextSet])
  /\ handler' = NoItem
  /\ UNCHANGED <<api, informer, start, sets, nodesInProcessing, queue, worker,
                 bounds>>

\* The early return: what earlier CidrSets have given is not given back.
AllocateFails ==
  /\ Allocating
  /\ NoCIDRsRemaining(sets[NextSet])
  /\ nodesInProcessing' = nodesInProcessing \ {handler.node}
  /\ handler' = NoItem
  /\ UNCHANGED <<api, informer, start, sets, queue, worker, bounds>>

\* The send blocks, and with it every later event, while the channel is full.
Enqueue ==
  /\ handler # NoItem
  /\ NextSet = NSets + 1
  /\ Len(queue) < CidrUpdateQueueSize
  /\ queue' = Append(queue, handler)
  /\ handler' = NoItem
  /\ UNCHANGED <<api, informer, start, sets, nodesInProcessing, worker, bounds>>

-----------------------------------------------------------------------------
\* Start: reconcileState, then the workers

ReconcileList ==
  /\ phase = "synced"
  /\ phase' = "occupying"
  /\ toOccupy' = {podCIDRs[n] : n \in exists} \ {<<>>}
  /\ UNCHANGED <<api, informer, sets, nodesInProcessing, handler, queue, worker,
                 bounds>>

\* Start returns the error, and main exits.
ReconcileListFails ==
  /\ phase = "synced"
  /\ Fault("getFails")
  /\ phase' = "failed"
  /\ UNCHANGED <<api, informer, toOccupy, sets, nodesInProcessing, handler, queue,
                 worker>>

OccupyListed ==
  /\ phase = "occupying"
  /\ \E cidrs \in toOccupy :
       /\ OccupyNode(cidrs)
       /\ toOccupy' = toOccupy \ {cidrs}
       /\ phase' = IF Fails(cidrs) THEN "failed" ELSE phase
  /\ UNCHANGED <<api, informer, nodesInProcessing, handler, queue, worker, bounds>>

\* Faulty variant: reconcileReady is closed while CIDRs wait to be occupied.
ReconcileDoneEarly ==
  /\ phase = "occupying"
  /\ phase' = "ready"
  /\ UNCHANGED <<api, informer, toOccupy, sets, nodesInProcessing, handler, queue,
                 worker, bounds>>

ReconcileDone ==
  /\ phase = "occupying" /\ toOccupy = {}
  /\ phase' = "ready"
  /\ UNCHANGED <<api, informer, toOccupy, sets, nodesInProcessing, handler, queue,
                 worker, bounds>>

-----------------------------------------------------------------------------
\* A worker: updateCIDRsAllocation

At(w, pc) == phase = "ready" /\ worker[w].pc = pc
Goto(w, pc, i) == worker' = [worker EXCEPT ![w].pc = pc, ![w].i = i]
ItemOf(w) == worker[w].item

Take(w) ==
  /\ At(w, "idle")
  /\ queue # <<>>
  /\ queue' = Tail(queue)
  /\ worker' = [worker EXCEPT ![w] = [pc |-> "get", item |-> Head(queue), i |-> 0]]
  /\ UNCHANGED <<api, informer, start, sets, nodesInProcessing, handler, bounds>>

\* Faulty variant: a node that has other CIDRs by now is done with.
AfterGetKept(cidrs, item) == IF cidrs # <<>> THEN "done" ELSE "patch"

\* Faulty variant: whatever CIDRs a node has, they are taken for other ones.
AfterGetUncompared(cidrs, item) == IF cidrs # <<>> THEN "giveBack" ELSE "patch"

\* The comparison with the CIDRs reserved for the node, before the mode adds
\* the delegated prefix.
Matches(cidrs, item) == cidrs = ReservedCIDRs(item.blocks)

AfterGet(cidrs, item) ==
  IF Matches(cidrs, item) THEN "done"
  ELSE IF cidrs # <<>> THEN "giveBack"
  ELSE "patch"

GetNode(w) ==
  /\ At(w, "get")
  /\ IF ItemOf(w).node \in exists
     THEN Goto(w, AfterGet(podCIDRs[ItemOf(w).node], ItemOf(w)), 1)
     ELSE Goto(w, "requeue", 0)
  /\ UNCHANGED <<api, informer, start, sets, nodesInProcessing, handler, queue,
                 bounds>>

\* The request fails, or the node has no instance, interface or prefix yet.
GetNodeFails(w) ==
  /\ At(w, "get")
  /\ Fault("getFails")
  /\ Goto(w, "requeue", 0)
  /\ UNCHANGED <<api, informer, start, sets, nodesInProcessing, handler, queue>>

\* PatchNodePodCIDRs formats the error of the API server into a new one, which
\* has no status any more, so that no error of its is a server timeout.
Formatted(reason) == "Unknown"
IsServerTimeout(reason) == reason = "ServerTimeout"

\* The patch loop goes on; after the last try the reserved CIDRs are released
\* unless the request may have gone through.
PatchError(w, reason) ==
  IF worker[w].i < CidrUpdateRetries
  THEN Goto(w, "patch", worker[w].i + 1)
  ELSE IF IsServerTimeout(Formatted(reason))
  THEN Goto(w, "requeue", 0)
  ELSE Goto(w, "giveUp", 1)

Wanted(w) == PatchedCIDRs(ProposedCIDRs(ItemOf(w).blocks))

Acceptable(w) ==
  /\ ItemOf(w).node \in exists
  /\ Accepted(podCIDRs[ItemOf(w).node], Wanted(w))

Apply(w) ==
  /\ podCIDRs' = [podCIDRs EXCEPT ![ItemOf(w).node] = Wanted(w)]
  /\ UNCHANGED <<exists, retired>>

PatchNode(w) ==
  /\ At(w, "patch")
  /\ Acceptable(w)
  /\ Apply(w)
  /\ Goto(w, "done", 0)
  /\ UNCHANGED <<informer, start, sets, nodesInProcessing, handler, queue, bounds>>

PatchRejected(w) ==
  /\ At(w, "patch")
  /\ ~Acceptable(w)
  /\ PatchError(w, "Invalid")
  /\ UNCHANGED <<api, informer, start, sets, nodesInProcessing, handler, queue,
                 bounds>>

PatchLost(w) ==
  /\ At(w, "patch")
  /\ Fault("patchLost")
  /\ PatchError(w, "ServerTimeout")
  /\ UNCHANGED <<api, informer, start, sets, nodesInProcessing, handler, queue>>

PatchUnacked(w) ==
  /\ At(w, "patch")
  /\ Acceptable(w)
  /\ Fault("patchUnacked")
  /\ Apply(w)
  /\ PatchError(w, "ServerTimeout")
  /\ UNCHANGED <<informer, start, sets, nodesInProcessing, handler, queue>>

\* The loops that release the reserved CIDRs, one CidrSet after the other.
ReleaseReserved(w) ==
  /\ At(w, "giveBack") \/ At(w, "giveUp")
  /\ worker[w].i \in SetIndices
  /\ sets' = [sets EXCEPT ![worker[w].i] =
                Release(@, {ItemOf(w).blocks[worker[w].i]})]
  /\ Goto(w, worker[w].pc, worker[w].i + 1)
  /\ UNCHANGED <<api, informer, start, nodesInProcessing, handler, queue, bounds>>

\* removeNodeFromProcessing and the return without an error.
Done(w) ==
  /\ At(w, "done") \/ (At(w, "giveBack") /\ worker[w].i > NSets)
  /\ nodesInProcessing' = nodesInProcessing \ {ItemOf(w).node}
  /\ worker' = [worker EXCEPT ![w] = Idle]
  /\ UNCHANGED <<api, informer, start, sets, handler, queue, bounds>>

\* Faulty variants: the item is dropped with its node still in processing, or
\* put back with its node no longer in processing.
RequeueDropped(w) ==
  /\ At(w, "requeue") \/ (At(w, "giveUp") /\ worker[w].i > NSets)
  /\ worker' = [worker EXCEPT ![w] = Idle]
  /\ UNCHANGED <<api, informer, start, sets, nodesInProcessing, handler, queue,
                 bounds>>
RequeueForgotten(w) ==
  /\ At(w, "requeue") \/ (At(w, "giveUp") /\ worker[w].i > NSets)
  /\ Len(queue) < CidrUpdateQueueSize
  /\ queue' = Append(queue, ItemOf(w))
  /\ nodesInProcessing' = nodesInProcessing \ {ItemOf(w).node}
  /\ worker' = [worker EXCEPT ![w] = Idle]
  /\ UNCHANGED <<api, informer, start, sets, handler, bounds>>

\* The return with an error: the worker puts the item back, and waits for room
\* in the channel to do so.
Requeue(w) ==
  /\ At(w, "requeue") \/ (At(w, "giveUp") /\ worker[w].i > NSets)
  /\ Len(queue) < CidrUpdateQueueSize
  /\ queue' = Append(queue, ItemOf(w))
  /\ worker' = [worker EXCEPT ![w] = Idle]
  /\ UNCHANGED <<api, informer, start, sets, nodesInProcessing, handler, bounds>>

-----------------------------------------------------------------------------
NodeStep(n) ==
  \/ CreateNode(n) \/ DeleteNode(n) \/ LeaderAssigns(n)
  \/ Observe(n) \/ Heartbeat(n)

HandlerStep ==
  \/ HandleIgnored \/ HandleNodeWithCIDRs \/ HandleNodeWithoutCIDRs
  \/ HandleDelete \/ AllocateCIDR \/ AllocateFails \/ Enqueue

StartStep ==
  \/ InformerList \/ ReconcileList \/ ReconcileListFails \/ OccupyListed
  \/ ReconcileDone

WorkerStep(w) ==
  \/ Take(w) \/ GetNode(w) \/ PatchNode(w) \/ PatchRejected(w)
  \/ ReleaseReserved(w) \/ Done(w) \/ Requeue(w)

FaultStep(w) == GetNodeFails(w) \/ PatchLost(w) \/ PatchUnacked(w)

Next ==
  \/ Restart
  \/ \E n \in Nodes : NodeStep(n) \/ LateWrite(n)
  \/ HandlerStep
  \/ StartStep
  \/ \E w \in Workers : WorkerStep(w) \/ FaultStep(w)

Spec == Init /\ [][Next]_vars

(***************************************************************************)
(* Every goroutine goes on when it can, and the kubelet starts a process   *)
(* that has exited again.  The informer delivers what it sees and the      *)
(* kubelets send their updates for ever; their buffer is unbounded in the  *)
(* code, and so no other node's events keep theirs out, which the bound of *)
(* the model makes a matter of strong fairness.  Creations, deletions,     *)
(* other restarts and faults need not happen.                              *)
(***************************************************************************)
Fairness ==
  /\ WF_vars(HandlerStep)
  /\ WF_vars(StartStep)
  /\ WF_vars(phase = "failed" /\ Restart)
  /\ \A w \in Workers : WF_vars(WorkerStep(w))
  /\ \A n \in Nodes : SF_vars(Observe(n)) /\ SF_vars(Heartbeat(n))

FairSpec == Spec /\ Fairness

-----------------------------------------------------------------------------
BlockLists ==
  {b \in Seq(Nat) : Len(b) <= NSets /\ \A k \in DOMAIN b : b[k] \in NodeBlocks(k)}

\* What the handler builds, and what it puts into the channel.
PartialItem == [node : Nodes, blocks : BlockLists]
FullItem == {item \in PartialItem : Len(item.blocks) = NSets}

EventType == [type : {"add", "update", "delete"}, node : Nodes, cidrs : Seq(CIDR)]
Busy == {"get", "patch", "giveBack", "giveUp", "done", "requeue"}

ApiTypeOK ==
  /\ exists \subseteq Nodes /\ retired \subseteq Nodes
  /\ podCIDRs \in [Nodes -> Seq(CIDR)]

InformerTypeOK ==
  /\ cached \subseteq Nodes
  /\ cachedCIDRs \in [Nodes -> Seq(CIDR)]
  /\ finalCIDRs \in [Nodes -> Seq(CIDR)]
  /\ events \in Seq(EventType)

StartTypeOK ==
  /\ phase \in {"boot", "synced", "occupying", "ready", "failed"}
  /\ toOccupy \subseteq Seq(CIDR)

SetsTypeOK ==
  /\ sets = [k \in SetIndices |-> sets[k]]
  /\ \A k \in SetIndices : sets[k] \in CidrSetState(ClusterCIDRs[k].maxCIDRs)

ItemsTypeOK ==
  /\ nodesInProcessing \subseteq Nodes
  /\ handler \in PartialItem \cup {NoItem}
  /\ queue \in Seq(FullItem)
  /\ worker \in [Workers -> [pc : Busy, item : FullItem, i : Nat] \cup {Idle}]

TypeOK ==
  /\ ApiTypeOK /\ InformerTypeOK /\ StartTypeOK /\ SetsTypeOK /\ ItemsTypeOK
  /\ faults \in Nat /\ restarts \in Nat

(***************************************************************************)
(* "Keep a set of nodes that are currently being processed to avoid races  *)
(* in CIDR allocation": a node is in nodesInProcessing exactly as long as  *)
(* one item of it is under way, and there is never a second one, in the    *)
(* hands of the handler, in the channel or with a worker.  This holds      *)
(* whatever the outside does.                                              *)
(***************************************************************************)
QueuedNodes == {queue[k].node : k \in DOMAIN queue}
WorkedNodes == {ItemOf(w).node : w \in Workers}
InFlight == ({handler.node} \cup QueuedNodes \cup WorkedNodes) \ {NoNode}

OneItemPerNode ==
  /\ nodesInProcessing = InFlight
  /\ handler.node \notin QueuedNodes
  /\ handler # NoItem => handler.node \notin WorkedNodes
  /\ QueuedNodes \cap WorkedNodes = {}
  /\ \A k, l \in DOMAIN queue : queue[k].node = queue[l].node => k = l
  /\ \A w, v \in Workers :
       ItemOf(w) # NoItem /\ ItemOf(w).node = ItemOf(v).node => w = v

(***************************************************************************)
(* "This increases a throughput of CIDR assignment by not blocking on long *)
(* operations": nobody waits for ever at the channel.  Workers receive     *)
(* from it and send to it, and are stuck, the handler with them, once it   *)
(* is full and every one of them has an item to put back.                  *)
(***************************************************************************)
WaitsForRoom(w) ==
  \/ worker[w].pc = "requeue"
  \/ worker[w].pc = "giveUp" /\ worker[w].i > NSets

NoJam ==
  Len(queue) >= CidrUpdateQueueSize => \E w \in Workers : ~WaitsForRoom(w)

(***************************************************************************)
(* No block of a cluster CIDR is in the podCIDRs of two nodes: what the    *)
(* comments of Start, reconcileState and AllocateOrOccupyCIDR call         *)
(* "preventing duplicate CIDR allocations".                                *)
(***************************************************************************)
NoSharedBlock ==
  \A m, n \in exists : m # n => ~Shared(podCIDRs[m], podCIDRs[n])

(***************************************************************************)
(* The reservations behind it.  A block reserved for an existing node that *)
(* was not given back yet is in the podCIDRs of no other existing node and *)
(* reserved for none, and it is marked: a stale cache, a late event, a     *)
(* release or a restart never frees a block on its way to a node.          *)
(***************************************************************************)
GivenBack(w) ==
  IF worker[w].pc \in {"giveBack", "giveUp"} THEN worker[w].i - 1 ELSE 0

Reserved(n) ==
  {<<k, handler.blocks[k]>> : k \in {j \in DOMAIN handler.blocks : handler.node = n}}
  \cup {<<k, queue[p].blocks[k]>> :
          k \in SetIndices, p \in {q \in DOMAIN queue : queue[q].node = n}}
  \cup (UNION {{<<k, ItemOf(w).blocks[k]>> : k \in GivenBack(w) + 1 .. NSets} :
                 w \in {v \in Workers : ItemOf(v).node = n}})

Held(n) ==
  {<<podCIDRs[n][i].set, podCIDRs[n][i].block>> :
     i \in {j \in DOMAIN podCIDRs[n] : podCIDRs[n][j].set # 0}}

ReservationsExclusive ==
  /\ \A n \in exists : \A r \in Reserved(n) : r[2] \in sets[r[1]].used
  /\ \A m, n \in exists :
       m # n => Reserved(m) \cap (Reserved(n) \cup Held(n)) = {}

(***************************************************************************)
(* Once reconcileState is done, the IPv4 block of every existing node is   *)
(* marked as used, after any restart and while events about the node are   *)
(* still on their way: AllocateNext cannot hand it out again.              *)
(***************************************************************************)
HeldIsMarked ==
  phase = "ready" =>
    \A n \in exists : \A i \in Tracked(podCIDRs[n]) :
      LET c == podCIDRs[n][i] IN c.set # 0 => c.block \in sets[c.set].used

(***************************************************************************)
(* Nor is a block lost.  Once reconcileState is done, a marked block is    *)
(* that of an existing node, or reserved by an item under way, or that of  *)
(* a deleted node whose delete event is still to be handled.  A node that  *)
(* is served by another leader, or deleted at any point of the work on it, *)
(* leaves no block behind, apart from the one its own item still reserves. *)
(***************************************************************************)
BlocksOf(cidrs, k) ==
  {cidrs[i].block : i \in {j \in DOMAIN cidrs : cidrs[j].set = k}}

AwaitsRelease(k, b) ==
  \/ \E n \in cached : b \in BlocksOf(finalCIDRs[n], k)
  \/ \E i \in DOMAIN events :
       events[i].type = "delete" /\ b \in BlocksOf(events[i].cidrs, k)

MarksAccounted ==
  phase = "ready" =>
    \A k \in SetIndices : \A b \in sets[k].used :
      \/ \E n \in exists : <<k, b>> \in Held(n)
      \/ \E n \in Nodes : <<k, b>> \in Reserved(n)
      \/ AwaitsRelease(k, b)

(***************************************************************************)
(* However the handler, the workers and the reconciliation interleave, and *)
(* whatever they occupy or release twice, AllocateOrOccupyCIDR is never    *)
(* handed a block that is marked: the counter by which AllocateNext        *)
(* refuses has not drifted from the bitmap that it scans.                  *)
(***************************************************************************)
HandsOutFree ==
  [][Len(handler'.blocks) > Len(handler.blocks) =>
       handler'.blocks[NextSet] \notin sets[NextSet].used]_vars

(***************************************************************************)
(* "Possibly we updated this node and just failed to ack the success": a   *)
(* worker that reads its node and finds CIDRs there recognises its own,    *)
(* and does not take the block the node has for one to give back.  (After  *)
(* the last failed patch it does not read the node again, and releases.)   *)
(***************************************************************************)
AckRecognised ==
  \A w \in Workers :
    worker[w].pc = "giveBack" =>
      \A k \in SetIndices : <<k, ItemOf(w).blocks[k]>> \notin Held(ItemOf(w).node)

(***************************************************************************)
(* Seen at the Node objects, the controller does what NodeAssignment says. *)
(***************************************************************************)
Assignment == INSTANCE NodeAssignment WITH Assignments <- Leftover

ImplementsNodeAssignment == Assignment!Spec

(***************************************************************************)
(* Every node gets its CIDRs, unless it is deleted: neither an item that   *)
(* is put back for ever, nor a full pool that has room again, nor a        *)
(* restart at any point keeps a node out.                                  *)
(***************************************************************************)
NodeServed ==
  \A n \in Nodes : n \in exists ~> (n \notin exists \/ podCIDRs[n] # <<>>)

(***************************************************************************)
(* The same once no node is created any more: "ReleaseCIDR releases the    *)
(* CIDR of the removed node", so that nodes which came and went, however   *)
(* many, do not keep the blocks of those that stay.                        *)
(***************************************************************************)
ServedInTheEnd == <>[][exists' \subseteq exists]_exists => NodeServed
=============================================================================
