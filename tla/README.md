# Verification of the aws-ipam-controller

The aws-ipam-controller gives every Node of a Kubernetes cluster on AWS its
`spec.podCIDRs`: one block of each cluster CIDR (mode `ipv4`), the IPv6 prefix
that EC2 delegates to the node's network interface (`ipv6`), or both
(`dual-stack`).  This directory holds TLA+ models of its core, TLC
configurations that check them on small instances, and proofs, checked by
TLAPS, of theorems that hold for every value of the constants.

Run a check in this directory with `tlc -config X.cfg M`, a proof with
`tlapm M.tla`; `PROJECT.json` lists the runs, what each checks, the source lines
of every definition, the hazards and the findings.

## 1. The system

| Component (source) | State | Operations |
|---|---|---|
| `CidrSet` (`pkg/ipam/cidrset/cidrset.go`) | bitmap `used`, counter `allocatedCIDRs`, cursor `nextCandidate`, under a mutex | `AllocateNext`, `Occupy`, `Release` |
| index arithmetic (same file) | none | block number to CIDR and back, range of blocks a CIDR covers |
| `cidrAllocator` (`pkg/ipam/cidr_allocator.go`) | `cidrSets`, `nodesInProcessing` (mutex), `nodeCIDRUpdateChannel` (capacity 5000), `reconcileReady` | `Start`, `reconcileState`, `AllocateOrOccupyCIDR`, `ReleaseCIDR`, `worker`, `updateCIDRsAllocation` |
| node patch (`pkg/node/node.go`) | none | order of the CIDRs, patch, error formatting |
| event handlers (`pkg/node/controller_utils.go`, `main.go`) | none | add, update, delete, `DeletedFinalStateUnknown` |
| `main.go` | flags | checks and parses the flags, mask sizes, wiring, leader election by controller-runtime, exit on failure |
| credentials (`pkg/updater/credentials.go`) | none after the start | reads a Secret, builds the EC2 client |
| metrics, logger | write-only | - |
| API server, informer, EC2, kubelets (outside) | Node objects; the informer's store and its buffer of notifications | |

How they interact:

- The informer calls the handlers from **one goroutine, in order**.  The add
  handler, and the update handler for a node without CIDRs, call
  `AllocateOrOccupyCIDR`: it occupies the blocks of a node that has some, and
  otherwise waits for `reconcileReady`, takes a block of every CidrSet and sends
  the reservation to the channel.  Both the wait and a send to a full channel
  hold up every later event, the deletions among them.
- `Start` waits for the informer's first list, lists the nodes from the API
  server, occupies their blocks, closes `reconcileReady` and starts 30 workers.
- A **worker** reads the node, compares, patches up to three times, and releases
  the reservation when the node has other CIDRs or the patches failed; after an
  error it puts the item back into the channel.
- The delete handler calls `ReleaseCIDR` with the node as last cached, without a
  look at `nodesInProcessing`.

What is hard: handlers, reconciliation and workers interleave on the bitmap,
which holds the reservations and the real assignments without saying which is
which; the store, the reservations and the Node objects disagree most of the
time; patches may be applied behind an error; the whole state is rebuilt after a
restart or a change of the leader.  `PROJECT.json` lists these hazards at their
lines, each with the property that watches it, and with a note on what that
property assumes away, or on why there is none.

What makes the components correct:

- CidrSet: counter and bitmap agree; a block handed out was free; refusal means
  there is no free block; every free block comes back into use.
- cidrAllocator: no block in two nodes; a reserved or held block is marked;
  exactly one item per node in processing; every node that stays is served.
- Node patch: a timeout is told apart from a rejection.
- Handlers: a deletion gives back what the node had, and only that; no other block
  is lost.
- Index arithmetic: the blocks tile the cluster CIDR, and a CIDR is found again in
  exactly the blocks it overlaps.
- Start: flags and credentials that cannot serve a node are refused (they are not,
  and the model says which).

## 2. The modules

| Module | What it is | Proved in |
|---|---|---|
| `CidrSetOps` | the state of one CidrSet and its operations, as functions of that state | `CidrSetOpsProofs` (lemmas) |
| `CidrSet` | a CidrSet under calls in any order | `CidrSetProofs` |
| `CidrPool` | abstract: a set of used blocks, what callers may rely on | refined by `CidrSet` |
| `Bits` | powers of two, and the bitwise operators and shifts of Go, as recursive functions; aligned runs of numbers | lemmas in `CidrBlocksProofs` |
| `CidrBlocks` | the address arithmetic of a CidrSet: block number to CIDR, CIDR to block numbers, in the shifts of the code | `CidrBlocksProofs` |
| `Startup` | `main` up to the start of the manager: flags, Secret, EC2 client, mask sizes, CidrSets; composes `CidrBlocks` and `PodCIDRs` | `StartupProofs` |
| `PodCIDRs` | lists of CIDRs: what is tracked, proposed, sorted, accepted, per mode | |
| `Allocator` | the controller: handlers, reconciliation, workers, restart, next to API server and informer; composes `PodCIDRs` and one `CidrSetOps` state per cluster CIDR | `AllocatorProofs`, `ListProofs` |
| `Ownership` | who owns a block, in the states of `Allocator`, and the invariant that says so | `HistoryProofs`, `OwnershipProofs` |
| `NodeAssignment` | abstract: Node objects that get CIDRs once and share no block | refined by `Allocator`, proved in `OwnershipProofs` |
| `MCAllocator`, `MCStartup` | small instances of `Allocator` and `Startup` for TLC | |

### CidrSet

The fields of the Go struct are the fields of a record; the bitmap is the set of
the blocks whose bit is 1.  `Candidate` keeps the scan of `AllocateNext`, with the
fall-through that hands out a *used* block when the counter says there is room
and the bitmap does not.  `Release` and `Occupy` take the set of blocks that
`getBeginingAndEndIndices` computes: every aligned run of a power of two blocks,
since a CIDR smaller than a node's lies within one block and a larger one covers
such a run.  That the arithmetic computes no other sets is the theorem
`RangeIsAligned` (section 4).  A CIDR outside the cluster CIDR is refused before
anything is touched.  The operations read and write under one mutex and are one step each;
`indexToCIDRBlock` and the range computation read only immutable fields.

### CidrBlocks and Startup

`CidrBlocks` keeps the arithmetic of the code, operator for operator: the `|` and
`<<` of `indexToCIDRBlock`, with the IPv6 address split at half its length and the
carry of a block number into the left half; the `^` and `>>` of `getIndexForIP`;
the order of the tests in `getBeginingAndEndIndices`; the number of blocks, with
the 0 that a node mask below the cluster mask gives and the negative number of
`1 << 63`.  Go's shifts drop the bits that leave the word.  The lengths of an address
and of an `int` are constants, so that TLC can try every CIDR.  The operators of Go are
recursive functions in `Bits`, since nothing can be proved about the community module
`Bitwise`.  `uint32(subNetMaskSize-clusterMaskSize)` is the difference itself, and 0
blocks when it is negative: a mask size of 2^32 or more is not modelled.

`Startup` has one action for each step of `main` that can fail or that computes
something, in the order of `main`: `CheckRequiredFlags`, `ProcessCIDRs`, `Connect`,
`LoadCredentials`, `NewAWSEC2V2`, `SetNodeCIDRMaskSizes`, `NewAllocator`.  A Secret
maps its keys to whether their value is empty.  A process in state `"started"` is
one that `Allocator` describes from its `Init`: `ServesIffConsistent` joins the two
by asking `PodCIDRs` for the first assignment of that process.

- `BlockAddresses`: the i-th block is the i-th run of addresses of the cluster CIDR.
- `RangeIsOverlap`: `Occupy` and `Release` touch the blocks with an address in common
  with their CIDR, and fail when there is none.  Both properties are about node masks
  that the arithmetic is for (`MasksFit`): not below the cluster mask, not above the
  length of an address, and not IPv4 `/0` in blocks of one address, whose 2^32 blocks
  are 0 for the `uint32(s.maxCIDRs)` of `getIndexForIP`, so that nothing is ever found.
- `ServesIffConsistent`: which flags and Secrets make a controller that starts and
  serves its first node.  `Serves` runs the start to its end: the first assignment, the
  worker with its ticker, the API server, and the next process, which has to apply the
  node's CIDRs to the right CidrSets and find their blocks there (`FoundAgain`).
  `Consistent` is a condition on flags and Secret, written without a look at how the
  code gets there.  A mode that does not exist starts as `ipv4`; a node mask below the
  cluster mask starts with 0 blocks; an IPv6 cluster CIDR in mode `ipv4` starts and
  forgets its blocks on a restart; a dual-stack controller starts with empty access
  keys.  Two kinds of flags start as well and count as serving nobody on both sides:
  a `--tick-period` of 0 or less, over which the first worker with an item panics
  (`time.NewTicker`, `cidr_allocator.go:411`), and 0.0.0.0/0 in blocks of one address,
  which hands a block to the first node and leaves a next process that refuses to occupy
  it and exits each time.

### Allocator

A CIDR is a record of its family, the index of its cluster CIDR (0: none of
ours) and its block.  The variables are

- API server: `exists`, `podCIDRs`, `retired` (names not used again, a device for
  runs without name reuse);
- informer: `cached`, `cachedCIDRs` (its store), `finalCIDRs` (what the watch will
  report of a deleted node that is still in the store), `events` (its buffer);
- allocator: `phase` and `toOccupy` (where `Start` is), `sets`,
  `nodesInProcessing`, `handler` (the `NodeReservedCIDRs` that
  `AllocateOrOccupyCIDR` is filling), `queue` (the channel), `worker` (program
  counter, item, loop counter of each worker).

A step is what one goroutine does between two points where another can run: a
call of a CidrSet or of `nodesInProcessing`, a request, a channel operation.

| Action | Code |
|---|---|
| `HandleIgnored`, `HandleNodeWithCIDRs`, `HandleNodeWithoutCIDRs` | `main.go:170-194`, `AllocateOrOccupyCIDR` to line 341 |
| `AllocateCIDR`, `AllocateFails` | its loop over the CidrSets, lines 366-374, one call per step |
| `Enqueue` | the blocking send, line 378 |
| `HandleDelete` | `CreateDeleteNodeHandler`, `ReleaseCIDR` |
| `InformerList`, `ReconcileList`, `ReconcileListFails`, `OccupyListed`, `ReconcileDone` | `Start`, `reconcileState`; one node of the list per step; a list that cannot be read, or a CIDR that cannot be occupied, fails `Start` |
| `Take`, `Requeue` | `worker`, both sides of the channel |
| `GetNode`, `GetNodeFails` | lines 418-472: read, comparison, EC2 lookup |
| `PatchNode`, `PatchRejected`, `PatchLost`, `PatchUnacked` | one iteration of the patch loop with each outcome a request can have; `PatchError` counts the retries and decides on the release |
| `ReleaseReserved`, `Done` | the two release loops, one CidrSet per step, and the returns without error |
| `Restart` | `os.Exit` after `Start` failed, a crash, or a lost lease |
| `CreateNode`, `DeleteNode`, `Observe`, `Heartbeat` | the outside, as the code sees it |
| `LeaderAssigns`, `LateWrite` | a patch by the leader before this process, or by a former one after it |

`OccupyNode` and `ReleaseNode` are one step although they loop over the CIDRs of
a node: a node has at most one IPv4 CIDR (the API server accepts one of each
family), so at most one CidrSet is called.  For the same reason the index
`c.cidrSets[idx]` at lines 319 and 400 stays in range.  In
`HandleNodeWithCIDRs` the node enters and leaves `nodesInProcessing` within the
call; only the handler inserts and only a worker with an item of that node
removes, and there is none, so nobody can see it in between.

A watch reports every change in its order, and a delete event carries the last
state of the node, which may have CIDRs the store has never seen: that is
`finalCIDRs`.  A relist after a broken watch (`"relist"` in `Environment`) may miss a
deletion, alone or with the creation after it, and reports the node as last cached
(`DeletedFinalStateUnknown`).

The standby of a leader election is a process that stays in phase `"synced"`: its
informer runs and its handler works on events, while `Start` (which
controller-runtime calls with the lease, `NeedLeaderElection`) has not yet listed
the nodes.  Meanwhile the leader assigns CIDRs (`LeaderAssigns`), in any way that
shares no block, which is what `NodeAssignment` promises of it.  A patch that a
former leader sent before it lost the lease (`context.TODO`, `node.go:70`) may arrive
later still (`LateWrite`), and with any CIDRs: the API server compares them with no
other node's.

## 3. The runs

| Run | Module, cfg | Shows |
|---|---|---|
| `cidrset` | `CidrSet`, `MCCidrSet` | types, counter = bitmap, refinement of `CidrPool`, every free block is reused |
| `startup` | `MCStartup`, `MCStartup` | `BlockAddresses`, `RangeIsOverlap`, `ServesIffConsistent` |
| `quiet` | `MCAllocator`, `MCQuiet` | `NoSharedBlock`, `ReservationsExclusive`, `HeldIsMarked`, `Ownership`, refinement of `NodeAssignment`; dual-stack, IPv6 first, with missed deletions and a leader before this one |
| `any_fault` | `MCAllocator`, `MCAnyFault` | types, `OneItemPerNode` and `HandsOutFree` under everything the outside can do |
| `served` | `MCAllocator`, `MCServed` | `MarksAccounted` and `Accounting`, the invariant behind it, `AckRecognised` and `NodeServed` in mode `ipv4` with as many blocks as nodes, deletions, failing reads, failing patches, another leader before and a restart |
| `patch_timeout` | `MCAllocator`, `MCPatchTimeout` | violation of `NoSharedBlock` |
| `early_delete` | `MCAllocator`, `MCEarlyDelete` | violation of `NoSharedBlock` |
| `name_reuse` | `MCAllocator`, `MCNameReuse` | violation of `NoSharedBlock` |
| `second_family` | `MCAllocator`, `MCSecondFamily` | violation of `NoSharedBlock` |
| `jam` | `MCAllocator`, `MCJam` | violation of `NoJam` |
| `ipv6_drain` | `MCAllocator`, `MCIPv6Drain` | violation of `ServedInTheEnd` |
| `dual_stack_ack` | `MCAllocator`, `MCDualStackAck` | violation of `AckRecognised` |

The constant `Environment` says what the outside may do, so that a run names its
assumptions.  `quiet` allows creations, failing reads, and deletions while a
reconciled allocator is up, seen or missed by the watch, with names that are not used
again: in that environment no two nodes share a block, and section 4 proves it for
every number of nodes, workers, blocks, faults and restarts.  Each violation run adds one thing (`jam` takes
one away, the room in the channel), and one thing is enough:

- **patch_timeout**: patches that are applied although the answer is a server
  timeout.  `PatchNodePodCIDRs` formats the error with `%v` (`node.go:72`), so
  `IsServerTimeout` never recognises it and the blocks are released, against the
  comment at `cidr_allocator.go:485-487`.  With `Formatted(reason) == reason`
  the same run passes.
- **early_delete**: a node deleted while the allocator starts.  Its event waits
  behind a node that waits for the reconciliation, and frees the block after that
  block has a new owner.
- **name_reuse**: an item whose blocks were released after the last retry is put
  back, never dropped (lines 263 and 491, against the comment at line 84), and
  served when a node of that name comes back.
- **second_family**: a second, IPv6 cluster CIDR.  Its blocks are allocated but
  skipped by the reconciliation (line 309).
- **jam**: workers receive from the channel and send to it (line 263), so that all of
  them wait for ever, and the handler with them, once the channel is full and each
  has an item to put back.  The comment at line 125 says that the channel
  keeps the assignment from being blocked by long operations, the one at line 84 that an
  item is dropped after its retries.  It takes as many items as channel
  and workers have places, 5030 in the code and 3 in the run, but not as many nodes at a
  time: the item of a deleted node is put back for ever (line 419).  The run has
  three blocks, no failing request, and deletions only.
- **ipv6_drain**: mode `ipv6`, where a node's podCIDRs name the prefix of EC2 and
  never the block reserved for the node, so that no deletion releases it.
  `ServedInTheEnd` asks for service only once no node is created any more.  In mode
  `ipv4` the same instance passes.
- **dual_stack_ack**: a patch is applied, its acknowledgement is lost, the retries
  are lost as well, and the item comes round again: the node's podCIDRs have one
  entry more than the reserved blocks, so line 428 does not see its own patch and
  line 447 releases the block of the node.  In mode `ipv4` that cannot happen, which
  `served` checks and `AckRecognisedCorrect` proves.

`MarksAccounted` is the other half of `HeldIsMarked`: not only are the blocks of
nodes marked, but a marked block is one of a node, of an item, or of a deletion
still to be handled.  It asks for much less than the former: in `served` patches fail
in every way, so that nodes do share blocks, and still no mark is left that nobody would
take back.  Names that come back and late writes do not matter to it either (section 4).
`DeletedFinalStateUnknown` and deletions before the reconciliation are what breaks
it, next to mode `ipv6` and a second cluster CIDR, each with nothing but deletions
beside it; and the item of a node that is gone, put back for ever (line 419), is why items of
deleted nodes are in it.

Two cluster CIDRs of one family are no run of their own.  `GoesWithMode` allows them
in mode `ipv6` only, since in the other modes the API server refuses the list or the
reconciliation skips the second entry; what they do is in `second_family`.  With
two CidrSets, one exhausted, each attempt also loses a block of the other, for the
return at line 369 releases nothing; no property says more of it than that.

### Bounds

- `cidrset`: 8 blocks have runs of 1, 2, 4 and 8 blocks, and the cursor wraps.
- `startup`: IPv4 addresses of 4 bits and IPv6 addresses of 6, in halves of 3, with
  every cluster CIDR and every node mask, those below the cluster mask, above the
  address length, and such with which `1 << n` leaves the `int` included; at most 2^3 blocks in IPv6, so that block numbers lie in
  the left half, in the right half, and across the middle.  `RangeIsOverlap` tries
  every CIDR of both families.  Lists of no, one and two cluster CIDRs of each
  family, with every mode, one that does not exist, and every Secret over four keys.
- `Nodes`: three nodes for two blocks give a holder, a contender and a third to
  profit from a wrong release; two where only contention or one stale item matters.
- `Workers`: two where workers may race, one elsewhere.
- `MaxEvents`: the buffer of the informer is unbounded in the code; two waiting
  events let a late one follow a blocked one, and one is enough in `served` and
  `any_fault`, where the first list exceeds it.
- `MaxFaults`: three lost patches exhaust the retries (`served` has them, with one
  worker, as two never have items of the same node); one failing read sends an
  item round once.  `any_fault` has one fault of any kind: what it checks is broken
  by a wrong disposition after a single failure, and the patch retries are
  exhausted by a deleted node, which is no fault.  A failing list is a fault as well.
- `MaxRestarts`: one restart in the middle of anything in `served`; none in `quiet` and
  `any_fault` but the one after `Start` failed, which has no bound.  All that outlives
  the process is the Node objects, so that a restart leads to a state that `Init`
  also has, with fewer names left.
- `CidrUpdateQueueSize`: one in `any_fault`, so that the channel is full, and in
  `jam`, which has as many names as channel and workers have places; otherwise
  as many as nodes, which items of different nodes do not fill to the point where
  anybody waits, as 5000 is more than a cluster's nodes.
- Node names and workers are interchangeable: the safety runs use symmetry, the
  liveness runs do not.

`Init` covers every state an earlier process can have left: any nodes, each with
no CIDRs or an assignment in the mode's form, no block in two nodes.  Deadlock is
not checked in the runs of `Allocator`: with its nodes served and its bounds used
up the system stops.

### Fairness

`FairSpec` of `CidrSet` says that some caller keeps calling `AllocateNext`.
`FairSpec` of `Allocator` has weak fairness for the handler goroutine, for
`Start` and for each worker: the Go scheduler runs a goroutine that can go on.  A
process whose `Start` has failed is started again, which the kubelet does with a
container that exits.
`Observe` and `Heartbeat` have strong fairness, for the informer's buffer is
unbounded in the code: an event of another node never keeps this one out, which
the bound `MaxEvents` would allow it to do.  Creations, deletions, faults and
other restarts are not fair: they need not happen.

`NodeServed` rests on the kubelets' status updates (`Heartbeat`): a node refused
by a full pool comes back only with its next update event.  `served` has no block
to spare, so that it also says that no block is lost for good: of a deleted node
that had CIDRs, the delete event gives them back, and an item of a deleted node
cannot keep the last block from another, as names are not reused and there are as
many blocks as names.

## 4. The proofs

All hold for every value of the constants that the named assumptions allow:
`MaxCIDRs > 0`; cluster CIDRs a nonempty list with a positive number of blocks
each; a finite set of nodes; a positive channel size; address lengths and
`clusterSubnetMaxDiff` that fit an `int` (32, 128, 16 and 64 bits in the code).  The
theorems of `CidrSetProofs`, `CidrBlocksProofs`, `StartupProofs` and `AllocatorProofs`
assume nothing of the mode, the primary family and the environment.  Those about the owners of blocks cannot:
they have a hypothesis, `PlainIPv4`, `Tidy` or `Quiet`, that names what must not happen, and
a run or TLC counterexample for each thing it names.

- `CidrSetOpsProofs`: the scan looks at every block (`ScanCoversAll`), finds a free
  one if there is one (`CandidateIsFree`), and each operation keeps the types and
  the agreement of counter and bitmap (`AllocateCounted`, `ReleaseCounted`,
  `OccupyCounted`).
- `CidrSetProofs`: `Spec => []TypeOK`, `Spec => []CountMatchesBitmap`,
  `Spec => ImplementsPool`.  The inductive invariant `IInv` joins types and
  count.  The refinement needs it: only with the counter right does refusal mean
  full, and room mean that the scan ends at a free block.
- `AllocatorProofs`: `Spec => []TypeOK`, inductive by itself, one step per action,
  and `Spec => []OneItemPerNode`.  The latter is inductive together with `TypeOK`.
  `OneItem` states it with the nodes of the handler, the channel and the workers as
  three disjoint sets whose union is `nodesInProcessing`; the lemmas `Queued`,
  `Dequeued`, `PickedUp` and `LaidDown` say how an item moves from one to the
  next.  Neither needs anything of the environment.
  `Spec => []SetsCounted` is the agreement of counter and bitmap in
  each CidrSet of the running controller, and from it follows `Spec => HandsOutFree`.
  It carries the lemmas about one CidrSet to all of them: a step leaves the CidrSets
  alone, makes new ones, or applies one of the three operations.  That a CIDR
  occupied by two goroutines, or released by a late event, cannot make
  `AllocateNext` hand out a used block rests on this alone.
- `ListProofs`: `ListsKnown` in every environment, every list of CIDRs in a node, in
  the store or in an event has one of the forms an assignment or the outside gives it;
  and `Spec => []AckRecognised` under `PlainIPv4`: one IPv4 cluster CIDR, mode `ipv4`, no
  late write of a former leader.  It is about the branch that reads the node and compares
  (lines 424-453); giving up after the last retry (lines 490-494) reads nothing and does
  release a block that the node has, as `patch_timeout` shows.  Lost acknowledgements, reused names and missed or
  early deletions are all allowed.  The invariant says of a worker about to give back
  that its node's list does not have its block: `GetNode` establishes it, since a list
  of known form that is not the reserved one names another block (this is where
  dual-stack fails), and nobody can break it, since other workers have other nodes
  (`OneItemPerNode`), other replicas assign only while no worker runs
  (`WorkAfterReady`), and podCIDRs do not change once set.
- `HistoryProofs`: under `Tidy`, `Spec => []Accounting`, and from it `MarksAccounted`.
- `OwnershipProofs`: under `Quiet`, `Spec => []Ownership`, and from it `NoSharedBlock`,
  `ReservationsExclusive`, `HeldIsMarked`, and `Spec => ImplementsNodeAssignment`, step
  by step.

### Ownership

`Quiet` is the environment of the run `quiet`: one IPv4 cluster CIDR, mode `ipv4` or
`dual-stack` with either primary family; deletions once the allocator is reconciled,
and watches that miss some; failing reads; foreign CIDRs in nodes; another leader before
this one; restarts at any point.  What it leaves out breaks the theorem, as the violation
runs show for early deletions, reused names, unacknowledged patches, a second cluster
CIDR and mode `ipv6`.  Patches that are lost unapplied and late writes make two nodes
share a block as well.  A missed deletion only loses blocks.

None of the invariants above is inductive: a block is marked, but the mark does not
say for whom.  `Ownership` says it.  A node *holds* a block from the patch through its
deletion until the handler has the delete event; it *reserves* one while an item that
still means something is with the handler, in the channel or with a worker.

- `OneOwner`: no two nodes own a block, and no node owns it in both ways.  Without the
  latter a worker could give back the block its own node holds.
- `OwnedIsMarked`: an owned block is marked, or in the list of `reconcileState`.  With
  the counters right (`SetsCounted`) `AllocateNext` hands out an unmarked block, which by
  this nobody owns.

The rest is what the steps need to know of the past, each part inductive with those
before it:

- `NamesKnown`: a deleted name stays deleted, is deleted once, and has no delete event
  before it has left the store.  Hence `HandleDelete` releases what the node held, once.
- `NothingEarly`: before `reconcileReady` there is no item and no deletion, so that the
  bitmap may lag behind the nodes in the meantime.
- `StoreCurrent`: CIDRs in the store are those the node has, or had when it was deleted.
  So a `DeletedFinalStateUnknown` releases the node's block or nothing, never another's.
- `ListCurrent` and `EventsCurrent`: what `reconcileState` has listed, and what an add or
  update event says, is still held when it is occupied: the store has it, or the delete
  event comes behind.
- `WorkersInOrder`: the node of a worker that patches has no CIDRs; one that gives up has
  lost its node; a block is released at most once (`worker[w].i`).

`OwnershipProofs` has one lemma for each action; most say that the holders and the
items stay as they are.  The others move a block: `AllocateCIDROwners` to a node that
reserves it, `PatchNodeOwners` from reserving to holding, `DeleteNodeOwners` and
`ObserveOwners` from the node to the store and to the event, `HandleDeleteOwners` and
`ReleaseReservedOwners` out of it, `ReconcileOwners` from the list into the bitmap.

The run `quiet` checks `Ownership` itself, so that TLC has seen what the proof rests on
with two workers and two waiting events.

### Accounting

`Tidy` has one IPv4 cluster CIDR, mode `ipv4` or `dual-stack`, and every environment
without `"earlyDelete"` and `"relist"`.  Blocks have several owners there, so that nothing
of `Ownership` that counts them is left.  But whether a mark can get lost does not depend
on that: `MarkedIsOwned` says that every mark has at least one node that holds the block,
or one item that was not released yet, and a step breaks it only by marking a block that
nobody has, or by ending the last of them without a release.

- No step marks for nobody: an allocated block is in the handler's item, and for what is
  occupied `ListCurrent`, `StoreCurrent` and `EventsCurrent` name the node that holds it
  or the delete event that comes behind.  Without them a late `Occupy` would mark a block
  that nobody releases.  Names that come back do no harm: a watch that misses nothing
  reports a deletion before the next creation of the name, so that the store has
  forgotten the former node (`NextStore` asks for no more).
- No step ends the last of them unreleased: a deleted node passes its block on to the
  store and to the delete event, a patch passes it from the item to the node whether the
  answer arrives or not (`PatchAccounted`), and a worker that goes on without a release
  either keeps its item or has found the block in its node (`GetAccounted`).  Where an
  item is dropped, `ReleaseReserved` came before (`ReleaseAccounted`).
- That a release takes the mark away from others who have the block as well is what
  makes `NoSharedBlock` fail there, and nothing to this invariant.

The run `served` checks `Accounting` itself, in mode `ipv4`, where lost acknowledgements
make two nodes share a block.

### Addresses and the start

`CidrBlocksProofs` is about addresses of any length, so that it holds of 32 and 128 bits,
which TLC cannot enumerate.  The functions of `Bits` are recursive, and the prover knows
of such a function only that it is the one with its equation *if there is one*: the
lemma `Recursion` shows that there is (as the union of its finite beginnings), by
induction on a set of numbers, for which the library's well-founded relation on `Nat`
is enough.  From the equations follow the facts about bits that the arithmetic needs:
an `or` of a multiple of 2^k with a number below 2^k is their sum, an exclusive `or` with
the cluster address takes its bits away, a shift divides.

- `BlockAddress`: `indexToCIDRBlock` gives `cluster address + i * 2^(width - node mask)`.
  The IPv6 case has the three situations of the code: all of the block number in the
  left half, all in the right, or across the middle, where what the right half's shift
  drops is what the left half takes over.
- `RangeOfOverlap`: `getBeginingAndEndIndices` gives the blocks that overlap the CIDR.
  Two CIDRs overlap only if one contains the other, so that the tests by mask size and
  by containment cover all cases.
- `OwnBlock`: the CIDR of a block is found again as that block.  `Allocator` takes this
  for granted when it writes a CIDR as a record with a block number.
- `RangeIsAligned`: what a CIDR covers is an aligned run.  `CidrSet` takes this for
  granted when it takes `AlignedRuns` for the arguments of `Occupy` and `Release`.

`StartupProofs` has one inductive invariant, `IInv`, for the four invariants of the run
`startup`, which says what each step of `main` has made of the flags and the Secret once
`main` is past it (`Results`) and why it has exited (`Exits`).  With it
`BlockAddresses` and `RangeIsOverlap` are the theorems above.  `ServesIffConsistent`
compares two things that were written independently of each other: `Serves`, which
runs the first assignment through `PodCIDRs`, and `Consistent`, a condition on flags and
Secret.  The proof goes by mode: the list that the first node is assigned is worked out
for each (`AssignmentForm`), then what the API server accepts of it, which entries have
a mask that is one, and which the next process marks again.  That it finds the block is
`OwnBlock` when the masks fit; the other way round, `AllOfIPv4Refused` shows that no block of
0.0.0.0/0 in blocks of one address is ever found, so that the condition cannot be weaker.

The flags may be anything: `StartsAssumption` only gives them their types, so that the
result covers every list of cluster CIDRs, every mode, and every Secret over the four
keys, where TLC has a few thousand starts with masks of a few bits.

### What is only model-checked

Everything temporal under fairness (`EveryFreeBlockIsReused`, `NodeServed`,
`ServedInTheEnd`) is out of the prover's reach.
Every invariant and every action property of the passing runs is proved, the refinements
included.

## 5. Not modelled

- Metrics, logging and recorded Kubernetes events: written, never read.
- The tick before each item (`cidr_allocator.go:411-412`): a delay, and every delay
  is in the interleavings already.  What a period of 0 or less does is in `Startup`.
- A providerID whose path has fewer than two slashes: `fetchIPv6Address` indexes the
  split path without looking (`cidr_allocator.go:526`) and panics, which ends the process
  like any other crash (`Restart`), again in each process that gets the item.
- IPv4-mapped IPv6 cluster CIDRs (`::ffff:a.b.c.d/m`), whose address
  `To4` takes for an IPv4 one while the mask counts 128 bits: in the model a CIDR has
  one family.
- Formatting and parsing of CIDRs: a block has one textual form, and a prefix
  belongs to one node.
- Malformed CIDRs in a node: the API server does not store them.
- A change of the flags between two processes (other cluster CIDRs or mask sizes):
  of it only a CIDR outside the cluster CIDRs is modelled (`UnknownCIDR`), on which
  `reconcileState` fails, not one that covers several blocks of the new size.
- Retries, resource versions and bookmarks inside client-go.
- Rotation of the credentials: the code reads the Secret once and never again.
- The lease itself, its renewal and its loss: controller-runtime's.
- `BindAddress`, probes, and the readiness and health checks, which always succeed.
- Cancellation by the context at `AllocateOrOccupyCIDR` lines 349-355: the process
  ends with its context, which is `Restart`.

## 6. Plan

Done: the CidrSet with its arithmetic, refinement and proofs; the start with proofs; the
allocator with its two refinement levels, in all three modes, with standby, former
leader and missed deletions; types, `OneItemPerNode`, `HandsOutFree` and
`AckRecognised` proved, `MarksAccounted` under every environment that does not break it,
and in the quiet environment all that `Allocator` says about blocks, with the refinement
of `NodeAssignment`.

Next:

1. Reconfiguration: a CIDR of a node that covers several blocks, or half of one, of
   the mask size the next process is started with.
