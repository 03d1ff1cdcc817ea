------------------------------ MODULE Ownership ------------------------------
(***************************************************************************)
(* Who owns a block.  The bitmap of a CidrSet does not say whether a mark  *)
(* stands for the podCIDRs of a node, for a reservation under way, or for  *)
(* a deleted node whose event is still to come; the code relies on there   *)
(* never being two of these.  Here that is an invariant of Allocator, with *)
(* all that makes it inductive, for one IPv4 cluster CIDR and an           *)
(* environment that is Quiet.  That every mark has at least one of these   *)
(* is a second one, Accounting, for environments that are only Tidy.       *)
(***************************************************************************)
EXTENDS Allocator

(***************************************************************************)
(* The assumptions.  Ownership fails without any one of them: with a       *)
(* second cluster CIDR, in the mode that tracks nothing, and with each     *)
(* kind of environment that is missing here, even next to "delete" alone:  *)
(* two nodes come to share a block.                                        *)
(***************************************************************************)
OneIPv4 == NSets = 1 /\ ClusterCIDRs[1].fam = "v4" /\ Mode # "ipv6"

Quiet ==
  /\ Environment \subseteq
       {"delete", "relist", "getFails", "unknownCIDR", "otherLeader"}
  /\ OneIPv4

(***************************************************************************)
(* That no block is lost takes less: patches may fail in every way, names  *)
(* come back, and a former leader write late, so that nodes share blocks.  *)
(* It fails without any one of what is left, even next to "delete" alone.  *)
(***************************************************************************)
Tidy ==
  /\ "earlyDelete" \notin Environment /\ "relist" \notin Environment
  /\ OneIPv4

-----------------------------------------------------------------------------
\* The block that a list of CIDRs names, if any.
Names(cidrs) == AppliedTo(cidrs, 1)

Deletions(n) ==
  {i \in DOMAIN events : events[i].type = "delete" /\ events[i].node = n}

\* A node holds a block from the patch on, through its deletion, until the
\* handler has the delete event.
Holds(n, b) ==
  \/ n \in exists /\ b \in Names(podCIDRs[n])
  \/ n \in cached \ exists /\ b \in Names(finalCIDRs[n])
  \/ \E i \in Deletions(n) : b \in Names(events[i].cidrs)

\* The item of a worker has a block until it is the node's or given back.
Unreleased(w) ==
  \/ worker[w].pc \in {"get", "patch", "requeue"}
  \/ worker[w].pc \in {"giveBack", "giveUp"} /\ worker[w].i = 1

HandlerHas(n, b) == handler = Item(n, <<b>>)
QueueHas(n, b) == \E p \in DOMAIN queue : queue[p] = Item(n, <<b>>)
WorkerHas(n, b) == \E w \in Workers : Unreleased(w) /\ ItemOf(w) = Item(n, <<b>>)

Carries(n, b) == HandlerHas(n, b) \/ QueueHas(n, b) \/ WorkerHas(n, b)

\* An item that comes round again after its node has gone means nothing: its
\* block was released and may be another's by now.
Meant(w) == worker[w].pc \in {"get", "requeue"} => ItemOf(w).node \in exists

Reserves(n, b) ==
  \/ HandlerHas(n, b)
  \/ n \in exists /\ QueueHas(n, b)
  \/ \E w \in Workers : Unreleased(w) /\ Meant(w) /\ ItemOf(w) = Item(n, <<b>>)

Owns(n, b) == Holds(n, b) \/ Reserves(n, b)

-----------------------------------------------------------------------------
\* Whatever the environment does, a list of CIDRs has one of the forms of
\* Leftover wherever it is.
ListsKnown ==
  /\ podCIDRs \in [Nodes -> Leftover]
  /\ cachedCIDRs \in [Nodes -> Leftover] /\ finalCIDRs \in [Nodes -> Leftover]
  /\ \A i \in DOMAIN events : events[i].cidrs \in Leftover
  /\ \A n \in Nodes \ exists : podCIDRs[n] = <<>>

\* A node that informer and allocator know exists or has existed; it is deleted
\* once, and by then out of the store.
NamesKnown ==
  /\ exists \cap retired = {}
  /\ cached \subseteq exists \cup retired
  /\ \A i \in DOMAIN events : events[i].node \in exists \cup retired
  /\ nodesInProcessing \subseteq exists \cup retired
  /\ \A n \in Nodes : \A i \in Deletions(n) :
       n \in retired \ cached /\ \A j \in Deletions(n) : i = j

\* Before reconcileState is done nothing is allocated and nobody is deleted.
NothingEarly ==
  phase # "ready" =>
    /\ handler.blocks = <<>> /\ queue = <<>> /\ worker = AllIdle
    /\ cached \subseteq exists
    /\ \A n \in Nodes : Deletions(n) = {}

\* A process that has not listed the nodes has heard of none.
NothingListed ==
  phase = "boot" =>
    cached = {} /\ events = <<>> /\ \A k \in SetIndices : sets[k].used = {}

\* What a worker knows of its node while it acts on it.
WorkersInOrder ==
  \A w \in Workers :
    /\ worker[w].pc = "patch" => podCIDRs[ItemOf(w).node] = <<>>
    /\ worker[w].pc = "giveUp" => ItemOf(w).node \notin exists
    /\ worker[w].pc = "done" /\ ItemOf(w).node \in exists =>
         ItemOf(w).blocks[1] \in Names(podCIDRs[ItemOf(w).node])
    /\ worker[w].pc = "giveBack" =>
         ItemOf(w).blocks[1] \notin Names(podCIDRs[ItemOf(w).node])
    /\ worker[w].pc \in {"giveBack", "giveUp"} => worker[w].i \in {1, 2}

\* CIDRs in the store are those that the node has, or had in the end.
StoreCurrent ==
  \A n \in cached : cachedCIDRs[n] # <<>> =>
    cachedCIDRs[n] = IF n \in exists THEN podCIDRs[n] ELSE finalCIDRs[n]

\* CIDRs that the handler will occupy are in the store when it does, at index i,
\* or in a delete event that it will handle later.
Known(n, cidrs, i) ==
  \/ n \in cached /\ cachedCIDRs[n] = cidrs
  \/ \E j \in Deletions(n) : i < j /\ events[j].cidrs = cidrs

EventsCurrent ==
  \A i \in DOMAIN events :
    events[i].type # "delete" /\ events[i].cidrs # <<>> =>
      Known(events[i].node, events[i].cidrs, i)

ListCurrent ==
  /\ phase = "occupying" =>
       \A cidrs \in toOccupy :
         cidrs # <<>> /\ \E n \in exists : podCIDRs[n] = cidrs
  /\ phase \in {"boot", "synced", "ready"} => toOccupy = {}

-----------------------------------------------------------------------------
\* A block has one owner, in one way.
OneOwner ==
  \A n \in Nodes, b \in NodeBlocks(1) :
    Owns(n, b) =>
      /\ ~(Holds(n, b) /\ Reserves(n, b))
      /\ \A m \in Nodes \ {n} : ~Owns(m, b)

\* An owned block is marked, or in the list that reconcileState works off.
OwnedIsMarked ==
  \A n \in Nodes, b \in NodeBlocks(1) :
    /\ phase = "ready" /\ Owns(n, b) => b \in sets[1].used
    /\ phase = "occupying" /\ Holds(n, b) =>
         b \in sets[1].used \cup UNION {Names(cidrs) : cidrs \in toOccupy}

\* A marked block is held, or in some item.
MarkedIsOwned ==
  \A b \in sets[1].used : \E n \in Nodes : Holds(n, b) \/ Carries(n, b)

(***************************************************************************)
(* The invariant of a Quiet environment: every block has at most one owner *)
(* and is marked as long as it has one.                                    *)
(***************************************************************************)
Ownership ==
  /\ ListsKnown /\ NamesKnown /\ NothingEarly /\ WorkersInOrder
  /\ StoreCurrent /\ EventsCurrent /\ ListCurrent
  /\ OneOwner /\ OwnedIsMarked

(***************************************************************************)
(* The invariant of a Tidy one: every mark has at least one owner, or an   *)
(* item that was not released yet.  Who else has the block does not matter *)
(* to it.                                                                  *)
(***************************************************************************)
Accounting ==
  /\ ListsKnown /\ NothingListed
  /\ StoreCurrent /\ EventsCurrent /\ ListCurrent
  /\ MarkedIsOwned
=============================================================================
