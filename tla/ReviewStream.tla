---------------------------- MODULE ReviewStream ----------------------------
(***************************************************************************)
(* How alerts reach a guardian's console: StreamPendingReviews             *)
(* (review_security.rs in front of relay.rs) and the loop in the parent    *)
(* application that keeps it open (apps/parent/src/router.rs).             *)
(*                                                                         *)
(* Opening a stream takes three steps on the server: a snapshot of the     *)
(* alerts waiting in the ledger, a subscription to the broadcast channel,  *)
(* and a second look at the session.  The stream yields the snapshot, then *)
(* what arrives on the channel, through two filters: the inner one with    *)
(* the guardian's scope of that second look, the outer one with the        *)
(* session and the scope of the moment of delivery.  The channel keeps     *)
(* ChannelCap events; a reader that falls behind loses the oldest.         *)
(*                                                                         *)
(* Recorded alerts come from the devices; SOS and tamper alerts go to the  *)
(* channel only (family_safety.rs, tamper.rs); staff notices are stored    *)
(* and sent, and belong to no device.  Scopes only grow (Enrollment).      *)
(***************************************************************************)
EXTENDS Naturals, Sequences

CONSTANTS
    Guardians,
    Devices,
    Alerts,         \* [id, device] records that go through the ledger
    DirectAlerts,   \* [id, device] records that are only published
    Notices,        \* [id, device |-> NoDevice] records: SAFETY_BROADCAST
    NoDevice,
    PairedBy,       \* device -> the guardians in whose scope it is at first
    ChannelCap      \* ALERT_BROADCAST_CAPACITY

ASSUME ReviewStreamAssumption ==
    /\ \A e \in Alerts \union DirectAlerts : e.device \in Devices
    /\ \A n \in Notices : n.device = NoDevice
    /\ NoDevice \notin Devices
    /\ PairedBy \in [Devices -> SUBSET Guardians]
    /\ ChannelCap \in Nat \ {0}

VARIABLES
    ledger,      \* alerts to be reviewed
    publishing,  \* alerts and notices that are stored and not yet published
    notices,     \* SafetyBroadcastStore: the active notices
    guardiansOf, \* device -> the guardians in whose scope it is
    session,     \* guardian -> is logged in
    stream,      \* guardian -> the connection of the console
    console      \* guardian -> the alerts and notices on the screen

vars == <<ledger, publishing, notices, guardiansOf, session, stream, console>>

Events == Alerts \union DirectAlerts \union Notices

\* A connection: the server has taken the snapshot ("replayed"), has subscribed, has
\* checked the session again ("open"), and the console has fetched the notices and reads
\* ("reading").  valid: the session the stream was opened with has not ended.  first and
\* scope: the guardian's scope at the snapshot and at the second check.  missed, for the
\* properties only: what was sent between snapshot and subscription, or fell out of the
\* channel.
Stream == [phase: {"closed", "replayed", "subscribed", "open", "reading"}, valid: BOOLEAN,
           replay: SUBSET Alerts, first: SUBSET Devices, scope: SUBSET Devices,
           queue: Seq(Events), missed: SUBSET Events]
Closed == [phase |-> "closed", valid |-> FALSE, replay |-> {}, first |-> {}, scope |-> {},
           queue |-> <<>>, missed |-> {}]

ScopeOf(g) == {d \in Devices : g \in guardiansOf[d]}

Init ==
    /\ ledger = {}
    /\ publishing = {}
    /\ notices = {}
    /\ guardiansOf = PairedBy
    /\ session = [g \in Guardians |-> TRUE]
    /\ stream = [g \in Guardians |-> Closed]
    /\ console = [g \in Guardians |-> {}]

-----------------------------------------------------------------------------
(* Alerts and notices enter *)

\* An alert is recorded, or is known and will be published again.
Record(e) ==
    /\ ledger' = ledger \union {e}
    /\ publishing' = publishing \union {e}
    /\ UNCHANGED <<notices, guardiansOf, session, stream, console>>

Issue(n) ==
    /\ n \notin notices
    /\ notices' = notices \union {n}
    /\ publishing' = publishing \union {n}
    /\ UNCHANGED <<ledger, guardiansOf, session, stream, console>>

\* A notice expires or makes room for newer ones.
Expire(n) ==
    /\ n \in notices
    /\ notices' = notices \ {n}
    /\ UNCHANGED <<ledger, publishing, guardiansOf, session, stream, console>>

Subscribed(s) == s.phase \in {"subscribed", "open", "reading"}

\* The channel keeps the newest ChannelCap events for each reader.
Queued(q, e) ==
    LET all == Append(q, e) IN IF Len(all) > ChannelCap THEN Tail(all) ELSE all
Dropped(q, e) ==
    LET all == Append(q, e) IN IF Len(all) > ChannelCap THEN {Head(all)} ELSE {}

Receives(s, e) ==
    IF Subscribed(s) THEN [s EXCEPT !.queue = Queued(s.queue, e),
                                    !.missed = s.missed \union Dropped(s.queue, e)]
    ELSE IF s.phase = "replayed" THEN [s EXCEPT !.missed = s.missed \union {e}]
    ELSE s

Send(e) == stream' = [g \in Guardians |-> Receives(stream[g], e)]

Publish(e) ==
    /\ e \in publishing
    /\ publishing' = publishing \ {e}
    /\ Send(e)
    /\ UNCHANGED <<ledger, notices, guardiansOf, session, console>>

PublishDirect(e) ==
    /\ Send(e)
    /\ UNCHANGED <<ledger, publishing, notices, guardiansOf, session, console>>

\* A decision retires the alert, or a full ledger drops it.
Retire(e) ==
    /\ e \in ledger
    /\ ledger' = ledger \ {e}
    /\ UNCHANGED <<publishing, notices, guardiansOf, session, stream, console>>

-----------------------------------------------------------------------------
(* One stream *)

\* Mutant: the snapshot is left out.
NoSnapshot(g) == {}

\* Mutant: the snapshot is not restricted to the guardian's scope.
WholeLedger(g) == ledger

Snapshot(g) == {e \in ledger : e.device \in ScopeOf(g)}

Open(g) ==
    /\ stream[g].phase = "closed"
    /\ session[g]
    /\ stream' = [stream EXCEPT ![g] =
                     [phase |-> "replayed", valid |-> TRUE, replay |-> Snapshot(g),
                      first |-> ScopeOf(g), scope |-> {}, queue |-> <<>>, missed |-> {}]]
    /\ UNCHANGED <<ledger, publishing, notices, guardiansOf, session, console>>

Subscribe(g) ==
    /\ stream[g].phase = "replayed"
    /\ stream' = [stream EXCEPT ![g].phase = "subscribed"]
    /\ UNCHANGED <<ledger, publishing, notices, guardiansOf, session, console>>

\* A session that ended in between is turned away.  The console clears its
\* screen when the stream is there.
CheckScope(g) ==
    /\ stream[g].phase = "subscribed"
    /\ IF stream[g].valid
       THEN /\ stream' = [stream EXCEPT ![g].phase = "open", ![g].scope = ScopeOf(g)]
            /\ console' = [console EXCEPT ![g] = {}]
       ELSE stream' = [stream EXCEPT ![g] = Closed] /\ console' = console
    /\ UNCHANGED <<ledger, publishing, notices, guardiansOf, session>>

\* The console asks for the active notices; without an answer it goes on.
FetchNotices(g, answered) ==
    /\ stream[g].phase = "open"
    /\ answered => session[g]
    /\ console' = [console EXCEPT ![g] = IF answered THEN @ \union notices ELSE @]
    /\ stream' = [stream EXCEPT ![g].phase = "reading"]
    /\ UNCHANGED <<ledger, publishing, notices, guardiansOf, session>>

DeliverReplay(g, e) ==
    /\ stream[g].phase = "reading"
    /\ e \in stream[g].replay
    /\ stream' = [stream EXCEPT ![g].replay = @ \ {e}]
    /\ console' = [console EXCEPT ![g] = @ \union {e}]
    /\ UNCHANGED <<ledger, publishing, notices, guardiansOf, session>>

\* The inner filter lets notices pass.
InnerKeeps(s, e) == e \in Notices \/ e.device \in s.scope

\* Mutant: the session is not looked at again.
NeverEnds(s, e) == FALSE

\* An event that the inner filter keeps finds the session gone: the stream ends.
Ends(s, e) == InnerKeeps(s, e) /\ ~s.valid

\* The outer filter knows devices only.
Keeps(g, e) == InnerKeeps(stream[g], e) /\ e.device \in ScopeOf(g)

DeliverLive(g) ==
    /\ stream[g].phase = "reading"
    /\ stream[g].replay = {}
    /\ stream[g].queue # <<>>
    /\ LET e == Head(stream[g].queue) IN
       IF Ends(stream[g], e)
       THEN stream' = [stream EXCEPT ![g] = Closed] /\ console' = console
       ELSE /\ stream' = [stream EXCEPT ![g].queue = Tail(@)]
            /\ console' = [console EXCEPT ![g] = IF Keeps(g, e) THEN @ \union {e} ELSE @]
    /\ UNCHANGED <<ledger, publishing, notices, guardiansOf, session>>

\* Without a session at hand the console empties its screen.
ClearScreen(g) ==
    /\ stream[g].phase = "closed"
    /\ ~session[g]
    /\ console' = [console EXCEPT ![g] = {}]
    /\ UNCHANGED <<ledger, publishing, notices, guardiansOf, session, stream>>

Break(g) ==
    /\ stream[g].phase # "closed"
    /\ stream' = [stream EXCEPT ![g] = Closed]
    /\ UNCHANGED <<ledger, publishing, notices, guardiansOf, session, console>>

-----------------------------------------------------------------------------
(* Sessions, scopes, restarts *)

\* Logout, a password change or expiry.
EndSession(g) ==
    /\ session[g]
    /\ session' = [session EXCEPT ![g] = FALSE]
    /\ stream' = [stream EXCEPT ![g].valid = FALSE]
    /\ UNCHANGED <<ledger, publishing, notices, guardiansOf, console>>

Login(g) ==
    /\ ~session[g]
    /\ session' = [session EXCEPT ![g] = TRUE]
    /\ UNCHANGED <<ledger, publishing, notices, guardiansOf, stream, console>>

Share(d, g) ==
    /\ guardiansOf' = [guardiansOf EXCEPT ![d] = @ \union {g}]
    /\ UNCHANGED <<ledger, publishing, notices, session, stream, console>>

\* The ledger, the notices and the sessions are on disk; what was being published
\* and the streams are not.
Restart ==
    /\ publishing' = {}
    /\ stream' = [g \in Guardians |-> Closed]
    /\ UNCHANGED <<ledger, notices, guardiansOf, session, console>>

Next ==
    \/ \E e \in Alerts : Record(e) \/ Retire(e)
    \/ \E e \in Alerts \union Notices : Publish(e)
    \/ \E e \in DirectAlerts : PublishDirect(e)
    \/ \E n \in Notices : Issue(n) \/ Expire(n)
    \/ \E g \in Guardians :
         \/ Open(g) \/ Subscribe(g) \/ CheckScope(g) \/ DeliverLive(g) \/ Break(g)
         \/ \E ok \in BOOLEAN : FetchNotices(g, ok)
         \/ \E e \in Alerts : DeliverReplay(g, e)
         \/ EndSession(g) \/ Login(g) \/ ClearScreen(g)
    \/ \E d \in Devices, g \in Guardians : Share(d, g)
    \/ Restart

Spec == Init /\ [][Next]_vars

-----------------------------------------------------------------------------
(* Properties *)

\* No guardian is ever shown an alert of a device outside their scope, by
\* either half of the stream, and a stream reads only for its session.
OwnAlertsOnly ==
    \A g \in Guardians :
        /\ \A e \in console[g] \ Notices : g \in guardiansOf[e.device]
        /\ stream[g].valid => session[g]

\* Once a guardian's session has ended, the stream that was opened with it
\* shows nothing that happened after it was opened.
NothingAfterSessionEnds ==
    [][ \A g \in Guardians :
          ~stream[g].valid =>
              (console'[g] \ console[g]) \subseteq (stream[g].replay \union Notices) ]_vars

\* A console that has read all its stream has to offer shows every alert that waits
\* for review and is not just being published, of each device that was in the guardian's
\* scope when the stream was opened: all that a connection can miss is what was sent
\* between its snapshot and its subscription, and what it was too slow for.
CaughtUpShowsAll ==
    \A g \in Guardians :
        stream[g].phase = "reading" /\ stream[g].replay = {} /\ stream[g].queue = <<>> =>
            \A e \in ledger \ publishing :
                e.device \in stream[g].first => e \in console[g] \union stream[g].missed
=============================================================================
