----------------------------- MODULE WorkQueue -----------------------------
(***************************************************************************)
(* The in-process work queue and membership view of one cluster node       *)
(* (crates/bulwark-cluster/src/lib.rs, service.rs).  Work is handed out    *)
(* under a lease; a lease that runs out puts its item back at the front of *)
(* the queue, so an item may be delivered again while its first worker is  *)
(* still busy.  A lease carries whether its 30 s are over instead of a     *)
(* clock.  A long poll that finds nothing returns nothing and changes      *)
(* nothing: only polls that hand out work are actions.  An acknowledgement *)
(* is possible and never due: complete is not an RPC and only tests call   *)
(* it, so a worker that died and one that is silent look the same.         *)
(* Bounds: MaxSeq minted ids, MaxCopies uses of an id, MaxAttempts         *)
(* redeliveries of an item: redeliveries go to the front, so this one      *)
(* stands for leases (30 s) that outlast the polls of the items behind.    *)
(***************************************************************************)
EXTENDS Naturals, Sequences, FiniteSets, SequencesExt

CONSTANTS
    Workers,            \* the workers that poll
    CallerIds,          \* work ids that callers bring along
    Peers,              \* nodes that join and leave
    BackpressureDepth,  \* cfg.backpressure_depth
    MaxBatch,           \* largest max_items of a poll
    MaxSeq, MaxCopies, MaxAttempts

ASSUME WorkQueueAssumption ==
    /\ BackpressureDepth \in Nat /\ MaxBatch \in Nat /\ MaxSeq \in Nat
    /\ MaxCopies \in Nat /\ MaxAttempts \in Nat
    /\ CallerIds \cap Nat = {}

VARIABLES
    items,      \* Queue.items: waiting work, next first
    leased,     \* Queue.leased: id -> lease of its latest delivery
    inflight,   \* Cluster.inflight
    minted,     \* Cluster.seq - 1: ids minted so far
    accepting,  \* Cluster.accepting
    members,    \* Cluster.members
    held,       \* deliveries in the workers' hands: worker -> id -> how many
    copies,     \* how often an id was accepted
    acked       \* ids some worker has acknowledged

queueVars == <<items, leased, inflight, minted, accepting, members, held, copies, acked>>

WorkIds == CallerIds \cup 1..MaxSeq
NoLease == [attempts |-> 0, state |-> "none"]

Leased(id)   == leased[id].state # "none"
IdsIn(queue) == {queue[i].id : i \in DOMAIN queue}
CountOf(id, queue) == Cardinality({i \in DOMAIN queue : queue[i].id = id})

\* complete_inflight: a decrement that stops at zero.
CompleteInflight(n) == IF n > 0 THEN n - 1 ELSE 0

QueueInit ==
    /\ items = <<>>
    /\ leased = [id \in WorkIds |-> NoLease]
    /\ inflight = 0
    /\ minted = 0
    /\ accepting = TRUE
    /\ members = {}
    /\ held = [w \in Workers |-> [id \in WorkIds |-> 0]]
    /\ copies = [id \in WorkIds |-> 0]
    /\ acked = {}

----------------------------------------------------------------------------
\* Callers.  A refusal (draining, or the queue is full) changes nothing: the
\* caller analyses locally.
Refuses == ~accepting \/ Len(items) >= BackpressureDepth

Push(id) ==
    /\ ~Refuses
    /\ copies[id] < MaxCopies
    /\ items' = Append(items, [id |-> id, attempts |-> 0])
    /\ copies' = [copies EXCEPT ![id] = @ + 1]
    /\ UNCHANGED <<leased, inflight, accepting, members, held, acked>>

\* The request names its work id; nothing stops two requests from naming the
\* same one (a retry, or a clash).
EnqueueNamed(id) == Push(id) /\ UNCHANGED minted

EnqueueMinted ==
    /\ minted < MaxSeq
    /\ Push(minted + 1)
    /\ minted' = minted + 1

----------------------------------------------------------------------------
\* Workers.
\* Mutant: nothing is ever put back.
OverNever == {}
Over == {id \in WorkIds : leased[id].state = "over"}

\* The leases that are over go back to the front, in the order in which the
\* map happens to be iterated.
Requeued(order) ==
    [i \in DOMAIN order |->
        [id |-> order[i], attempts |-> leased[order[i]].attempts + 1]] \o items

\* The newest lease of an id among the items handed out.
LeaseOf(id, taken) ==
    LET last == CHOOSE i \in DOMAIN taken :
                    /\ taken[i].id = id
                    /\ \A j \in DOMAIN taken : taken[j].id = id => j <= i
    IN [attempts |-> taken[last].attempts, state |-> "running"]

HandOut(w, taken, rest) ==
    /\ items' = rest
    /\ inflight' = inflight + Len(taken)
    /\ leased' = [id \in WorkIds |->
                     IF id \in IdsIn(taken) THEN LeaseOf(id, taken)
                     ELSE IF id \in Over THEN NoLease ELSE leased[id]]
    /\ held' = [held EXCEPT ![w] = [id \in WorkIds |-> @[id] + CountOf(id, taken)]]

Dequeue(w, n) ==
    \E order \in SetToSeqs(Over) :
        LET queue == Requeued(order)
            k == IF n < Len(queue) THEN n ELSE Len(queue)
        IN /\ queue # <<>>
           /\ HandOut(w, SubSeq(queue, 1, k), SubSeq(queue, k + 1, Len(queue)))
           /\ UNCHANGED <<minted, accepting, members, copies, acked>>

\* complete(work_id): drops whatever lease the id has now, which may be that
\* of a later delivery.
Complete(w, id) ==
    /\ held[w][id] > 0
    /\ held' = [held EXCEPT ![w][id] = @ - 1]
    /\ leased' = [leased EXCEPT ![id] = NoLease]
    /\ inflight' = CompleteInflight(inflight)
    /\ acked' = acked \cup {id}
    /\ UNCHANGED <<items, minted, accepting, members, copies>>

\* LEASE_TTL passes.
LeaseRunsOut(id) ==
    /\ leased[id].state = "running"
    /\ leased[id].attempts < MaxAttempts
    /\ leased' = [leased EXCEPT ![id].state = "over"]
    /\ UNCHANGED <<items, inflight, minted, accepting, members, held, copies, acked>>

----------------------------------------------------------------------------
\* Membership and drain.
Join(n) ==
    /\ members' = members \cup {n}
    /\ UNCHANGED <<items, leased, inflight, minted, accepting, held, copies, acked>>

\* A graceful leave stops this node's intake, whichever node leaves.
Leave(n, graceful) ==
    /\ members' = members \ {n}
    /\ accepting' = (accepting /\ ~graceful)
    /\ UNCHANGED <<items, leased, inflight, minted, held, copies, acked>>

Drain ==
    /\ accepting' = FALSE
    /\ UNCHANGED <<items, leased, inflight, minted, members, held, copies, acked>>

QueueNext ==
    \/ \E id \in CallerIds : EnqueueNamed(id)
    \/ EnqueueMinted
    \/ \E w \in Workers, n \in 1..MaxBatch : Dequeue(w, n)
    \/ \E w \in Workers, id \in WorkIds : Complete(w, id)
    \/ \E id \in WorkIds : LeaseRunsOut(id)
    \/ \E n \in Peers : Join(n) \/ \E g \in BOOLEAN : Leave(n, g)
    \/ Drain

----------------------------------------------------------------------------
(* What the queue promises. *)

\* "A worker that dies after dequeue must not silently drop the item": work that
\* was accepted is in a worker's hands under a running lease again and again, in
\* whatever order leases run out, polls take several items and late
\* acknowledgements arrive, until a worker acknowledges its id.
WorkHandedOut ==
    \A id \in WorkIds :
        []<>(copies[id] = 0 \/ id \in acked \/ leased[id].state = "running")
=============================================================================
