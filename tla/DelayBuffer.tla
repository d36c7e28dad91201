---------------------------- MODULE DelayBuffer ----------------------------
(***************************************************************************)
(* The broadcast-delay buffer that holds video segments until a verdict    *)
(* (crates/bulwark-flow/src/buffer.rs).  Every operation runs under one    *)
(* lock.  Sizes are small numbers; a segment carries whether its deadline  *)
(* has passed instead of a clock.  Bound: MaxTickets segments.             *)
(***************************************************************************)
EXTENDS Naturals, Sequences, FiniteSets, SequencesExt

CONSTANTS
    SegmentSizes,               \* sizes of the segments that arrive
    MaxSegments, MaxBytes,      \* BufferConfig
    MaxTickets

ASSUME DelayBufferAssumption ==
    /\ SegmentSizes \subseteq Nat /\ MaxSegments \in Nat /\ MaxBytes \in Nat
    /\ MaxTickets \in Nat

VARIABLES
    segments,   \* Inner.queue
    heldBytes,  \* Inner.held_bytes
    tickets,    \* Inner.next_id - 1
    released    \* tickets released so far, with what became of them

bufferVars == <<segments, heldBytes, tickets, released>>

Segment == [id: 1..MaxTickets, size: SegmentSizes,
            state: {"pending", "overdue", "held"}, late: BOOLEAN]

BufferInit == segments = <<>> /\ heldBytes = 0 /\ tickets = 0 /\ released = {}

FullFor(size) == Len(segments) >= MaxSegments \/ heldBytes + size > MaxBytes

\* admit, when it does not answer BackPressure.
Admit(size) ==
    /\ ~FullFor(size)
    /\ tickets < MaxTickets
    /\ tickets' = tickets + 1
    /\ segments' = Append(segments, [id |-> tickets + 1, size |-> size,
                                     state |-> "pending", late |-> FALSE])
    /\ heldBytes' = heldBytes + size
    /\ UNCHANGED released

\* apply: an action releases the segment or drops it; blurred and muted segments
\* go out rewritten, or as they are when no rewritten bytes were supplied.
FateOf(action, rewritten) ==
    IF action = "block" THEN "dropped"
    ELSE IF action \in {"blur", "mute"} /\ rewritten THEN "rewritten" ELSE "original"

Positions(id) == {i \in DOMAIN segments : segments[i].id = id}

ApplyDecision(id, action, rewritten) ==
    \E i \in Positions(id) :
        /\ segments' = RemoveAt(segments, i)
        /\ heldBytes' = heldBytes - segments[i].size
        /\ released' = released \cup {<<id, FateOf(action, rewritten)>>}
        /\ UNCHANGED tickets

\* hold, and apply without a decision: the segment is kept and marked.
Hold(id) ==
    \E i \in Positions(id) :
        /\ segments' = [segments EXCEPT ![i].state = "held"]
        /\ UNCHANGED <<heldBytes, tickets, released>>

DeadlinePasses(id) ==
    \E i \in Positions(id) :
        /\ ~segments[i].late
        /\ segments' = [segments EXCEPT ![i].late = TRUE]
        /\ UNCHANGED <<heldBytes, tickets, released>>

\* due_segments: marks what is late and was not explicitly held.
DueSegments ==
    /\ segments' = [i \in DOMAIN segments |->
                        IF segments[i].late /\ segments[i].state # "held"
                        THEN [segments[i] EXCEPT !.state = "overdue"] ELSE segments[i]]
    /\ UNCHANGED <<heldBytes, tickets, released>>

BufferNext ==
    \/ \E size \in SegmentSizes : Admit(size)
    \/ \E id \in 1..MaxTickets, rewritten \in BOOLEAN,
          action \in {"allow", "log", "warn", "blur", "mute", "block"} :
            ApplyDecision(id, action, rewritten)
    \/ \E id \in 1..MaxTickets : Hold(id) \/ DeadlinePasses(id)
    \/ DueSegments

=============================================================================
