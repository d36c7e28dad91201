------------------------ MODULE ReviewStream_proofs ------------------------
(***************************************************************************)
(* What a guardian's console may show, for any number of guardians,        *)
(* devices, alerts and notices, and a channel of any capacity.             *)
(***************************************************************************)
EXTENDS ReviewStream, TLAPS

\* Every variable has the shape of the code's struct.
StreamTypes ==
    /\ ledger \subseteq Alerts
    /\ publishing \subseteq Events
    /\ notices \subseteq Notices
    /\ guardiansOf \in [Devices -> SUBSET Guardians]
    /\ session \in [Guardians -> BOOLEAN]
    /\ stream \in [Guardians -> Stream]
    /\ console \in [Guardians -> SUBSET Events]

\* What is on the screen, or is about to be replayed, is in the guardian's scope.
ReplayInScope == \A g \in Guardians : \A e \in stream[g].replay : e.device \in ScopeOf(g)
ScreenInScope == \A g \in Guardians : \A e \in console[g] \ Notices : e.device \in ScopeOf(g)
ValidHasSession == \A g \in Guardians : stream[g].valid => session[g]

StreamInv == StreamTypes /\ ReplayInScope /\ ScreenInScope /\ ValidHasSession

----------------------------------------------------------------------------
(* Operators *)

\* A queue is its head and its tail.
LEMMA TailCovers ==
    ASSUME NEW q \in Seq(Events), Len(q) > 0
    PROVE  /\ Head(q) \in Events /\ Tail(q) \in Seq(Events)
           /\ \A i \in 1..Len(q) : q[i] = Head(q) \/ \E j \in 1..Len(Tail(q)) : q[i] = Tail(q)[j]
<1>1. /\ Head(q) \in Events /\ Head(q) = q[1] /\ Tail(q) \in Seq(Events)
      /\ Len(q) \in Nat /\ Len(Tail(q)) = Len(q) - 1
      /\ \A j \in 1..Len(Tail(q)) : Tail(q)[j] = q[j + 1]
  OBVIOUS
<1>2. ASSUME NEW i \in 1..Len(q), i # 1
      PROVE  \E j \in 1..Len(Tail(q)) : q[i] = Tail(q)[j]
  <2>1. i - 1 \in 1..Len(Tail(q)) /\ (i - 1) + 1 = i
    BY <1>1, <1>2
  <2>. QED
    BY <1>1, <2>1
<1>. QED
  BY <1>1, <1>2

\* The channel holds events.
LEMMA QueuedType ==
    ASSUME NEW q \in Seq(Events), NEW e \in Events
    PROVE  Queued(q, e) \in Seq(Events)
<1>. DEFINE all == Append(q, e)
<1>1. all \in Seq(Events) /\ Len(all) = Len(q) + 1 /\ Len(q) \in Nat
  OBVIOUS
<1>. HIDE DEF all
<1>2. all # <<>>
  BY <1>1
<1>3. Tail(all) \in Seq(Events)
  BY <1>1, <1>2
<1>. QED
  BY <1>1, <1>3 DEF Queued, all

\* What is in a queue.
InQueue(q) == {q[i] : i \in 1..Len(q)}

\* What the channel drops is an event, and an event sent is in the queue or was dropped
\* with the oldest one: nothing goes unnoticed.
LEMMA QueuedCovers ==
    ASSUME NEW q \in Seq(Events), NEW e \in Events
    PROVE  /\ Dropped(q, e) \in SUBSET Events
           /\ InQueue(q) \cup {e} \subseteq InQueue(Queued(q, e)) \cup Dropped(q, e)
<1>. DEFINE all == Append(q, e)
<1>1. /\ all \in Seq(Events) /\ Len(all) = Len(q) + 1 /\ Len(q) \in Nat
      /\ all[Len(q) + 1] = e /\ \A i \in 1..Len(q) : all[i] = q[i]
  OBVIOUS
<1>2. InQueue(q) \cup {e} \subseteq InQueue(all)
  BY <1>1 DEF InQueue
<1>. HIDE DEF all
<1>3. Head(all) \in Events /\ InQueue(all) \subseteq InQueue(Tail(all)) \cup {Head(all)}
  <2>1. Len(all) > 0
    BY <1>1
  <2>. QED
    BY <1>1, <2>1, TailCovers DEF InQueue
<1>. QED
  BY <1>2, <1>3 DEF Queued, Dropped, all

\* The fields of a connection.
LEMMA StreamFields ==
    ASSUME NEW s \in Stream
    PROVE  /\ s.phase \in {"closed", "replayed", "subscribed", "open", "reading"}
           /\ s.valid \in BOOLEAN /\ s.replay \in SUBSET Alerts
           /\ s.first \in SUBSET Devices /\ s.scope \in SUBSET Devices
           /\ s.queue \in Seq(Events) /\ s.missed \in SUBSET Events
  BY DEF Stream

\* A connection that is not there.
LEMMA ClosedType ==
    /\ Closed \in Stream /\ ~Closed.valid /\ Closed.replay = {}
    /\ Closed.phase = "closed" /\ Closed.first = {}
  BY DEF Closed, Stream

\* A step that changes the connection of one guardian.
LEMMA OneStream ==
    ASSUME stream \in [Guardians -> Stream], NEW g \in Guardians, NEW s \in Stream,
           stream' = [stream EXCEPT ![g] = s]
    PROVE  /\ stream' \in [Guardians -> Stream] /\ stream'[g] = s
           /\ \A h \in Guardians \ {g} : stream'[h] = stream[h]
  OBVIOUS

\* A step keeps the invariant when what it puts on a screen comes from the replay,
\* the notices or the guardian's scope, and what it puts in a replay from the scope.
LEMMA ScopeKept ==
    ASSUME StreamInv, StreamTypes', ValidHasSession',
           \A g \in Guardians : ScopeOf(g) \subseteq ScopeOf(g)',
           \A g \in Guardians : stream'[g].replay \subseteq stream[g].replay \cup Snapshot(g),
           \A g \in Guardians : \A e \in console'[g] :
               \/ e \in console[g] \cup stream[g].replay \cup Notices
               \/ e.device \in ScopeOf(g)
    PROVE  StreamInv'
<1>1. ReplayInScope'
  BY DEF StreamInv, ReplayInScope, Snapshot
<1>2. ScreenInScope'
  BY DEF StreamInv, ReplayInScope, ScreenInScope
<1>. QED
  BY <1>1, <1>2 DEF StreamInv

\* The same for a step of one guardian's connection.
LEMMA OneStreamKept ==
    ASSUME StreamInv, NEW g \in Guardians, NEW s \in Stream, NEW shown \in SUBSET Events,
           stream' = [stream EXCEPT ![g] = s], console' = [console EXCEPT ![g] = shown],
           s.valid => session[g],
           s.replay \subseteq stream[g].replay \cup Snapshot(g),
           \A e \in shown : \/ e \in console[g] \cup stream[g].replay \cup Notices
                            \/ e.device \in ScopeOf(g),
           UNCHANGED <<ledger, publishing, notices, guardiansOf, session>>
    PROVE  StreamInv'
<1>1. /\ stream' \in [Guardians -> Stream] /\ stream'[g] = s
      /\ \A h \in Guardians \ {g} : stream'[h] = stream[h]
  BY OneStream DEF StreamInv, StreamTypes
<1>2. /\ console' \in [Guardians -> SUBSET Events] /\ console'[g] = shown
      /\ \A h \in Guardians \ {g} : console'[h] = console[h]
  BY DEF StreamInv, StreamTypes
<1>3. StreamTypes'
  BY <1>1, <1>2 DEF StreamInv, StreamTypes
<1>4. ValidHasSession'
  BY <1>1 DEF StreamInv, ValidHasSession
<1>5. \A h \in Guardians : ScopeOf(h) = ScopeOf(h)'
  BY DEF ScopeOf
<1>6. \A h \in Guardians : stream'[h].replay \subseteq stream[h].replay \cup Snapshot(h)
  BY <1>1
<1>7. \A h \in Guardians : \A e \in console'[h] :
          \/ e \in console[h] \cup stream[h].replay \cup Notices
          \/ e.device \in ScopeOf(h)
  BY <1>2
<1>. QED
  BY <1>3, <1>4, <1>5, <1>6, <1>7, ScopeKept

----------------------------------------------------------------------------
(* Actions *)

\* Alerts, notices, sessions and scopes.
LEMMA EntriesKeep ==
    ASSUME StreamInv, UNCHANGED <<stream, console>>, StreamTypes',
           \A g \in Guardians : ScopeOf(g) \subseteq ScopeOf(g)',
           \A g \in Guardians : session[g] => session'[g]
    PROVE  StreamInv'
<1>1. ValidHasSession'
  BY DEF StreamInv, ValidHasSession
<1>. QED
  BY <1>1, ScopeKept

\* What a sent event does to one connection.
LEMMA ReceivesFields ==
    ASSUME NEW s \in Stream, NEW e \in Events
    PROVE  LET r == Receives(s, e) IN
           /\ r \in Stream /\ r.valid = s.valid /\ r.replay = s.replay /\ r.phase = s.phase
           /\ r.first = s.first /\ r.scope = s.scope
           /\ s.phase # "closed" =>
                 InQueue(s.queue) \cup s.missed \cup {e} \subseteq InQueue(r.queue) \cup r.missed
<1>. DEFINE a == [s EXCEPT !.queue = Queued(s.queue, e), !.missed = s.missed \union Dropped(s.queue, e)]
            b == [s EXCEPT !.missed = s.missed \union {e}]
<1>0. s.queue \in Seq(Events) /\ s.missed \in SUBSET Events
  BY StreamFields
<1>1. /\ Queued(s.queue, e) \in Seq(Events) /\ s.missed \union Dropped(s.queue, e) \in SUBSET Events
      /\ InQueue(s.queue) \cup {e} \subseteq InQueue(Queued(s.queue, e)) \cup Dropped(s.queue, e)
  BY <1>0, QueuedType, QueuedCovers
<1>2. CASE Subscribed(s)
  <2>1. /\ a \in Stream /\ a.valid = s.valid /\ a.replay = s.replay /\ a.phase = s.phase
        /\ a.first = s.first /\ a.scope = s.scope /\ a.queue = Queued(s.queue, e)
        /\ a.missed = s.missed \union Dropped(s.queue, e)
    BY <1>1 DEF Stream
  <2>2. Receives(s, e) = a
    BY <1>2 DEF Receives
  <2>. HIDE DEF a
  <2>. QED
    BY <1>1, <2>1, <2>2
<1>3. CASE ~Subscribed(s) /\ s.phase = "replayed"
  <2>1. /\ b \in Stream /\ b.valid = s.valid /\ b.replay = s.replay /\ b.phase = s.phase
        /\ b.first = s.first /\ b.scope = s.scope /\ b.queue = s.queue /\ b.missed = s.missed \union {e}
    BY <1>0 DEF Stream
  <2>2. Receives(s, e) = b
    BY <1>3 DEF Receives
  <2>. HIDE DEF b
  <2>. QED
    BY <2>1, <2>2
<1>4. CASE ~Subscribed(s) /\ s.phase # "replayed"
  BY <1>4, StreamFields DEF Receives, Subscribed
<1>. QED
  BY <1>2, <1>3, <1>4

\* A send reaches every subscribed reader's queue, and nothing else of theirs.
LEMMA SendKeeps ==
    ASSUME StreamInv, NEW e \in Events, Send(e), publishing' \subseteq Events,
           UNCHANGED <<ledger, notices, guardiansOf, session, console>>
    PROVE  StreamInv'
<1>1. \A g \in Guardians :
          /\ stream'[g] \in Stream
          /\ stream'[g].valid = stream[g].valid /\ stream'[g].replay = stream[g].replay
  <2>. SUFFICES ASSUME NEW g \in Guardians
                PROVE  /\ stream'[g] \in Stream
                       /\ stream'[g].valid = stream[g].valid
                       /\ stream'[g].replay = stream[g].replay
    OBVIOUS
  <2>1. stream[g] \in Stream
    BY DEF StreamInv, StreamTypes
  <2>2. stream'[g] = Receives(stream[g], e)
    BY DEF Send
  <2>. QED
    BY <2>1, <2>2, ReceivesFields
<1>2. stream' \in [Guardians -> Stream]
  BY <1>1 DEF Send
<1>3. StreamTypes' /\ ValidHasSession'
  BY <1>1, <1>2 DEF StreamInv, StreamTypes, ValidHasSession
<1>4. \A g \in Guardians : ScopeOf(g) = ScopeOf(g)'
  BY DEF ScopeOf
<1>. QED
  BY <1>1, <1>3, <1>4, ScopeKept

\* Opening a stream: the snapshot is the ledger's part in the scope.
LEMMA OpenKeeps ==
    ASSUME StreamInv, NEW g \in Guardians, Open(g)
    PROVE  StreamInv'
<1>. DEFINE s == [phase |-> "replayed", valid |-> TRUE, replay |-> Snapshot(g),
                  first |-> ScopeOf(g), scope |-> {}, queue |-> <<>>, missed |-> {}]
<1>1. Snapshot(g) \in SUBSET Alerts /\ ScopeOf(g) \in SUBSET Devices
  BY DEF Snapshot, ScopeOf, StreamInv, StreamTypes
<1>2. s \in Stream /\ s.replay = Snapshot(g)
  BY <1>1 DEF Stream
<1>3. console[g] \in SUBSET Events /\ console' = [console EXCEPT ![g] = console[g]]
  BY DEF StreamInv, StreamTypes, Open
<1>4. stream' = [stream EXCEPT ![g] = s] /\ session[g]
      /\ UNCHANGED <<ledger, publishing, notices, guardiansOf, session>>
  BY DEF Open
<1>. HIDE DEF s
<1>. QED
  BY <1>2, <1>3, <1>4, OneStreamKept

\* A connection that closes shows nothing more.
LEMMA CloseKeeps ==
    ASSUME StreamInv, NEW g \in Guardians, stream' = [stream EXCEPT ![g] = Closed],
           UNCHANGED <<ledger, publishing, notices, guardiansOf, session, console>>
    PROVE  StreamInv'
<1>1. console[g] \in SUBSET Events /\ console' = [console EXCEPT ![g] = console[g]]
  BY DEF StreamInv, StreamTypes
<1>. QED
  BY <1>1, ClosedType, OneStreamKept

\* The subscription touches nothing that is shown.
LEMMA SubscribeKeeps ==
    ASSUME StreamInv, NEW g \in Guardians, Subscribe(g)
    PROVE  StreamInv'
<1>. DEFINE s == [stream[g] EXCEPT !.phase = "subscribed"]
<1>1. stream[g] \in Stream
  BY DEF StreamInv, StreamTypes
<1>2. s \in Stream /\ s.valid = stream[g].valid /\ s.replay = stream[g].replay
  BY <1>1 DEF Stream
<1>3. stream' = [stream EXCEPT ![g] = s]
  BY Zenon DEF Subscribe
<1>4. console[g] \in SUBSET Events /\ console' = [console EXCEPT ![g] = console[g]]
      /\ UNCHANGED <<ledger, publishing, notices, guardiansOf, session>>
  BY DEF StreamInv, StreamTypes, Subscribe
<1>5. s.valid => session[g]
  BY <1>2 DEF StreamInv, ValidHasSession
<1>. HIDE DEF s
<1>. QED
  BY <1>2, <1>3, <1>4, <1>5, OneStreamKept

\* The second check takes the scope of its moment.
LEMMA CheckScopeKeeps ==
    ASSUME StreamInv, NEW g \in Guardians, CheckScope(g)
    PROVE  StreamInv'
<1>1. CASE ~stream[g].valid
  BY <1>1, CloseKeeps DEF CheckScope
<1>2. CASE stream[g].valid
  <2>. DEFINE s == [[stream[g] EXCEPT !.phase = "open"] EXCEPT !.scope = ScopeOf(g)]
  <2>1. stream[g] \in Stream /\ ScopeOf(g) \in SUBSET Devices
    BY DEF StreamInv, StreamTypes, ScopeOf
  <2>2. s \in Stream /\ s.valid = stream[g].valid /\ s.replay = stream[g].replay
    BY <2>1 DEF Stream
  <2>3. stream' = [stream EXCEPT ![g] = s]
    BY <1>2, Zenon DEF CheckScope
  <2>4. /\ console' = [console EXCEPT ![g] = {}]
        /\ UNCHANGED <<ledger, publishing, notices, guardiansOf, session>>
    BY <1>2 DEF CheckScope
  <2>5. s.valid => session[g]
    BY <2>2 DEF StreamInv, ValidHasSession
  <2>. HIDE DEF s
  <2>6. {} \in SUBSET Events /\ s.replay \subseteq stream[g].replay \cup Snapshot(g)
    BY <2>2
  <2>. QED
    BY <2>2, <2>3, <2>4, <2>5, <2>6, OneStreamKept
<1>. QED
  BY <1>1, <1>2

\* The console asks for the notices.
LEMMA FetchNoticesKeeps ==
    ASSUME StreamInv, NEW g \in Guardians, NEW ok \in BOOLEAN, FetchNotices(g, ok)
    PROVE  StreamInv'
<1>. DEFINE s == [stream[g] EXCEPT !.phase = "reading"]
            shown == IF ok THEN console[g] \union notices ELSE console[g]
<1>1. stream[g] \in Stream /\ console[g] \in SUBSET Events /\ notices \subseteq Notices
  BY DEF StreamInv, StreamTypes
<1>2. s \in Stream /\ s.valid = stream[g].valid /\ s.replay = stream[g].replay
  BY <1>1 DEF Stream
<1>3. stream' = [stream EXCEPT ![g] = s]
  BY Zenon DEF FetchNotices
<1>4. /\ console' = [console EXCEPT ![g] = shown]
      /\ UNCHANGED <<ledger, publishing, notices, guardiansOf, session>>
  BY DEF FetchNotices
<1>5. shown \in SUBSET Events /\ \A e \in shown : e \in console[g] \cup Notices
  BY <1>1 DEF Events
<1>6. s.valid => session[g]
  BY <1>2 DEF StreamInv, ValidHasSession
<1>. HIDE DEF s, shown
<1>. QED
  BY <1>2, <1>3, <1>4, <1>5, <1>6, OneStreamKept

\* An alert of the replay is delivered.
LEMMA DeliverReplayKeeps ==
    ASSUME StreamInv, NEW g \in Guardians, NEW e \in Alerts, DeliverReplay(g, e)
    PROVE  StreamInv'
<1>. DEFINE s == [stream[g] EXCEPT !.replay = stream[g].replay \ {e}]
            shown == console[g] \union {e}
<1>1. stream[g] \in Stream /\ console[g] \in SUBSET Events /\ e \in stream[g].replay
  BY DEF StreamInv, StreamTypes, DeliverReplay
<1>2. s \in Stream /\ s.valid = stream[g].valid /\ s.replay = stream[g].replay \ {e}
  BY <1>1 DEF Stream
<1>3. stream' = [stream EXCEPT ![g] = s]
  BY Zenon DEF DeliverReplay
<1>4. /\ console' = [console EXCEPT ![g] = shown]
      /\ UNCHANGED <<ledger, publishing, notices, guardiansOf, session>>
  BY DEF DeliverReplay
<1>5. shown \in SUBSET Events /\ \A x \in shown : x \in console[g] \cup stream[g].replay
  BY <1>1 DEF Events
<1>6. s.valid => session[g]
  BY <1>2 DEF StreamInv, ValidHasSession
<1>. HIDE DEF s, shown
<1>. QED
  BY <1>2, <1>3, <1>4, <1>5, <1>6, OneStreamKept

\* An event of the channel is delivered through both filters.
LEMMA DeliverLiveKeeps ==
    ASSUME StreamInv, NEW g \in Guardians, DeliverLive(g)
    PROVE  StreamInv'
<1>. DEFINE e == Head(stream[g].queue)
<1>1. stream[g] \in Stream /\ console[g] \in SUBSET Events
  BY DEF StreamInv, StreamTypes
<1>2. stream[g].queue \in Seq(Events) /\ stream[g].queue # <<>>
  BY <1>1, StreamFields DEF DeliverLive
<1>3. e \in Events /\ Tail(stream[g].queue) \in Seq(Events)
  BY <1>2
<1>4. CASE Ends(stream[g], e)
  BY <1>4, CloseKeeps DEF DeliverLive
<1>5. CASE ~Ends(stream[g], e)
  <2>. DEFINE s == [stream[g] EXCEPT !.queue = Tail(stream[g].queue)]
              shown == IF Keeps(g, e) THEN console[g] \union {e} ELSE console[g]
  <2>1. s \in Stream /\ s.valid = stream[g].valid /\ s.replay = stream[g].replay
    BY <1>1, <1>3 DEF Stream
  <2>2. stream' = [stream EXCEPT ![g] = s]
    BY <1>5, Zenon DEF DeliverLive
  <2>3. /\ console' = [console EXCEPT ![g] = shown]
        /\ UNCHANGED <<ledger, publishing, notices, guardiansOf, session>>
    BY <1>5 DEF DeliverLive
  <2>4. shown \in SUBSET Events
    BY <1>1, <1>3
  <2>5. \A x \in shown : x \in console[g] \/ x.device \in ScopeOf(g)
    BY DEF Keeps
  <2>6. s.valid => session[g]
    BY <2>1 DEF StreamInv, ValidHasSession
  <2>. HIDE DEF s, shown
  <2>. QED
    BY <2>1, <2>2, <2>3, <2>4, <2>5, <2>6, OneStreamKept
<1>. QED
  BY <1>4, <1>5

\* The end of a session reaches its stream.
LEMMA EndSessionKeeps ==
    ASSUME StreamInv, NEW g \in Guardians, EndSession(g)
    PROVE  StreamInv'
<1>. DEFINE s == [stream[g] EXCEPT !.valid = FALSE]
<1>1. stream[g] \in Stream
  BY DEF StreamInv, StreamTypes
<1>2. s \in Stream /\ ~s.valid /\ s.replay = stream[g].replay
  BY <1>1 DEF Stream
<1>3. stream' = [stream EXCEPT ![g] = s]
  BY Zenon DEF EndSession
<1>. HIDE DEF s
<1>4. /\ stream' \in [Guardians -> Stream] /\ stream'[g] = s
      /\ \A h \in Guardians \ {g} : stream'[h] = stream[h]
  BY <1>2, <1>3, OneStream DEF StreamInv, StreamTypes
<1>5. StreamTypes' /\ ValidHasSession'
  BY <1>2, <1>4 DEF StreamInv, StreamTypes, ValidHasSession, EndSession
<1>6. \A h \in Guardians : ScopeOf(h) = ScopeOf(h)' /\ stream'[h].replay = stream[h].replay
  BY <1>2, <1>4 DEF ScopeOf, EndSession
<1>. QED
  BY <1>5, <1>6, ScopeKept DEF EndSession

\* Logins, new guardians and restarts.
LEMMA SessionsKeep ==
    ASSUME StreamInv, \/ Restart
                      \/ \E g \in Guardians : Login(g) \/ ClearScreen(g)
                      \/ \E d \in Devices, g \in Guardians : Share(d, g)
    PROVE  StreamInv'
<1>1. CASE Restart
  <2>1. \A g \in Guardians : stream'[g] = Closed
    BY <1>1 DEF Restart
  <2>2. stream' \in [Guardians -> Stream]
    BY <1>1, ClosedType DEF Restart
  <2>3. StreamTypes' /\ ValidHasSession'
    BY <1>1, <2>1, <2>2, ClosedType DEF StreamInv, StreamTypes, ValidHasSession, Restart
  <2>4. \A g \in Guardians : ScopeOf(g) = ScopeOf(g)' /\ stream'[g].replay = {}
    BY <1>1, <2>1, ClosedType DEF ScopeOf, Restart
  <2>. QED
    BY <1>1, <2>3, <2>4, ScopeKept DEF Restart
<1>2. ASSUME NEW g \in Guardians, Login(g) PROVE StreamInv'
  <2>1. StreamTypes'
    BY <1>2 DEF Login, StreamInv, StreamTypes
  <2>2. \A h \in Guardians : ScopeOf(h) = ScopeOf(h)' /\ (session[h] => session'[h])
    BY <1>2 DEF Login, ScopeOf, StreamInv, StreamTypes
  <2>. QED
    BY <1>2, <2>1, <2>2, EntriesKeep DEF Login
<1>3. ASSUME NEW g \in Guardians, ClearScreen(g) PROVE StreamInv'
  <2>1. StreamTypes'
    BY <1>3 DEF ClearScreen, StreamInv, StreamTypes
  <2>2. \A h \in Guardians : ScopeOf(h) = ScopeOf(h)' /\ console'[h] \subseteq console[h]
    BY <1>3 DEF ClearScreen, ScopeOf, StreamInv, StreamTypes
  <2>3. ValidHasSession'
    BY <1>3 DEF ClearScreen, StreamInv, ValidHasSession
  <2>. QED
    BY <1>3, <2>1, <2>2, <2>3, ScopeKept DEF ClearScreen
<1>4. ASSUME NEW d \in Devices, NEW g \in Guardians, Share(d, g) PROVE StreamInv'
  <2>1. StreamTypes'
    BY <1>4 DEF Share, StreamInv, StreamTypes
  <2>2. \A h \in Guardians : ScopeOf(h) \subseteq ScopeOf(h)'
    BY <1>4 DEF Share, ScopeOf, StreamInv, StreamTypes
  <2>. QED
    BY <1>4, <2>1, <2>2, EntriesKeep DEF Share
<1>. QED
  BY <1>1, <1>2, <1>3, <1>4

\* Alerts and notices come and go.
LEMMA EventsKeep ==
    ASSUME StreamInv, \/ \E e \in Alerts : Record(e) \/ Retire(e)
                      \/ \E n \in Notices : Issue(n) \/ Expire(n)
    PROVE  StreamInv'
<1>1. UNCHANGED <<guardiansOf, session, stream, console>>
  BY DEF Record, Retire, Issue, Expire
<1>2. StreamTypes'
  BY DEF Record, Retire, Issue, Expire, StreamInv, StreamTypes, Events
<1>3. \A h \in Guardians : ScopeOf(h) = ScopeOf(h)'
  BY <1>1 DEF ScopeOf
<1>. QED
  BY <1>1, <1>2, <1>3, EntriesKeep

\* Every step keeps the invariant.
LEMMA StreamStep == StreamInv /\ [Next]_vars => StreamInv'
<1>. SUFFICES ASSUME StreamInv, [Next]_vars PROVE StreamInv'
  OBVIOUS
<1>1. ASSUME NEW e \in Alerts \union Notices, Publish(e) PROVE StreamInv'
  <2>1. e \in Events /\ publishing' \subseteq Events
    BY <1>1 DEF Publish, Events, StreamInv, StreamTypes
  <2>. QED
    BY <1>1, <2>1, SendKeeps DEF Publish
<1>2. ASSUME NEW e \in DirectAlerts, PublishDirect(e) PROVE StreamInv'
  <2>1. e \in Events /\ publishing' \subseteq Events
    BY <1>2 DEF PublishDirect, Events, StreamInv, StreamTypes
  <2>. QED
    BY <1>2, <2>1, SendKeeps DEF PublishDirect
<1>3. ASSUME NEW g \in Guardians, Break(g) PROVE StreamInv'
  BY <1>3, CloseKeeps DEF Break
<1>4. CASE UNCHANGED vars
  BY <1>4 DEF vars, StreamInv, StreamTypes, ReplayInScope, ScreenInScope, ValidHasSession, ScopeOf
<1>. QED
  BY <1>1, <1>2, <1>3, <1>4, EventsKeep, SessionsKeep, OpenKeeps, SubscribeKeeps,
     CheckScopeKeeps, FetchNoticesKeeps, DeliverReplayKeeps, DeliverLiveKeeps, EndSessionKeeps DEF Next

\* The invariant holds at the start.
LEMMA StreamStart == Init => StreamInv
  BY ReviewStreamAssumption, ClosedType DEF Init, StreamInv, StreamTypes, ReplayInScope,
     ScreenInScope, ValidHasSession

----------------------------------------------------------------------------
(* Theorems *)

\* Every variable keeps its shape, the queue of every reader included.
THEOREM StreamsTyped == Spec => []StreamTypes
<1>1. StreamInv => StreamTypes
  BY DEF StreamInv
<1>. QED
  BY <1>1, StreamStart, StreamStep, PTL DEF Spec

\* StreamPendingReviews: no guardian ever sees an alert of a device outside their
\* scope, and a stream that counts as valid has its session.
THEOREM OwnAlerts == Spec => []OwnAlertsOnly
<1>1. StreamInv => OwnAlertsOnly
  BY DEF StreamInv, ScreenInScope, ValidHasSession, OwnAlertsOnly, ScopeOf
<1>. QED
  BY <1>1, StreamStart, StreamStep, PTL DEF Spec

\* GuardianReviewService: a stream whose session has ended adds to the screen
\* only what its snapshot held, and notices.
THEOREM NothingLater == Spec => NothingAfterSessionEnds
<1>. DEFINE Quiet == \A g \in Guardians :
                         ~stream[g].valid =>
                            (console'[g] \ console[g]) \subseteq (stream[g].replay \union Notices)
<1>1. StreamInv /\ [Next]_vars => [Quiet]_vars
  <2>. SUFFICES ASSUME StreamInv, Next, NEW g \in Guardians, ~stream[g].valid
                PROVE  (console'[g] \ console[g]) \subseteq (stream[g].replay \union Notices)
    OBVIOUS
  <2>. USE DEF StreamInv, StreamTypes
  <2>1. CASE console' = console
    BY <2>1
  <2>2. ASSUME NEW h \in Guardians, CheckScope(h) \/ ClearScreen(h)
        PROVE  console'[g] \subseteq console[g]
    BY <2>2 DEF CheckScope, ClearScreen
  <2>3. ASSUME NEW h \in Guardians, NEW ok \in BOOLEAN, FetchNotices(h, ok)
        PROVE  console'[g] \subseteq console[g] \cup Notices
    BY <2>3 DEF FetchNotices
  <2>4. ASSUME NEW h \in Guardians, NEW e \in Alerts, DeliverReplay(h, e)
        PROVE  console'[g] \subseteq console[g] \cup stream[g].replay
    BY <2>4 DEF DeliverReplay
  <2>5. ASSUME NEW h \in Guardians, DeliverLive(h)
        PROVE  console'[g] = console[g]
    BY <2>5 DEF DeliverLive, Ends, Keeps
  <2>. QED
    BY <2>1, <2>2, <2>3, <2>4, <2>5 DEF Next, Record, Retire, Publish, PublishDirect, Issue,
       Expire, Open, Subscribe, Break, EndSession, Login, Share, Restart
<1>. QED
  BY <1>1, StreamStart, StreamStep, PTL DEF Spec, NothingAfterSessionEnds

----------------------------------------------------------------------------
(* What a connection can miss *)

\* An alert is on its way to a console, or there.
OnItsWay(s, shown, e) ==
    \/ e \in s.replay \cup s.missed \cup InQueue(s.queue)
    \/ s.phase \in {"open", "reading"} /\ e \in shown

\* A connection s with the screen shown, the guardian's scope sc, and the alerts
\* waiting that are not just being published.
CoveredAt(s, shown, sc, waiting) ==
    /\ s.first \subseteq sc
    /\ s.phase \in {"open", "reading"} => s.first \subseteq s.scope
    /\ s.phase # "closed" =>
          \A e \in waiting : e.device \in s.first => OnItsWay(s, shown, e)

Waiting == ledger \ publishing
CoverInv == \A g \in Guardians : CoveredAt(stream[g], console[g], ScopeOf(g), Waiting)

\* Scopes grow, and fewer alerts wait.
LEMMA CoveredStill ==
    ASSUME NEW s, NEW shown, NEW sc, NEW waiting, NEW sc2, NEW waiting2,
           CoveredAt(s, shown, sc, waiting), sc \subseteq sc2, waiting2 \subseteq waiting
    PROVE  CoveredAt(s, shown, sc2, waiting2)
  BY DEF CoveredAt

\* A closed connection misses nothing.
LEMMA ClosedCovered ==
    ASSUME NEW shown, NEW sc, NEW waiting PROVE CoveredAt(Closed, shown, sc, waiting)
  BY ClosedType DEF CoveredAt

\* A step of one guardian's connection.
LEMMA OneCovered ==
    ASSUME StreamInv, CoverInv, NEW g \in Guardians, NEW s \in Stream, NEW shown \in SUBSET Events,
           stream' = [stream EXCEPT ![g] = s], console' = [console EXCEPT ![g] = shown],
           CoveredAt(s, shown, ScopeOf(g), Waiting),
           UNCHANGED <<ledger, publishing, guardiansOf>>
    PROVE  CoverInv'
<1>1. /\ stream'[g] = s /\ console'[g] = shown
      /\ \A h \in Guardians \ {g} : stream'[h] = stream[h] /\ console'[h] = console[h]
  BY DEF StreamInv, StreamTypes
<1>2. Waiting' = Waiting /\ \A h \in Guardians : ScopeOf(h)' = ScopeOf(h)
  BY DEF Waiting, ScopeOf
<1>. QED
  BY <1>1, <1>2 DEF CoverInv

\* The connection closes.
LEMMA CloseCovers ==
    ASSUME StreamInv, CoverInv, NEW g \in Guardians, stream' = [stream EXCEPT ![g] = Closed],
           UNCHANGED <<ledger, publishing, guardiansOf, console>>
    PROVE  CoverInv'
<1>1. console[g] \in SUBSET Events /\ console' = [console EXCEPT ![g] = console[g]]
  BY DEF StreamInv, StreamTypes
<1>. QED
  BY <1>1, ClosedType, ClosedCovered, OneCovered

\* An event sent is in every reader's queue, or is missed and known to be.
LEMMA SendCovers ==
    ASSUME StreamInv, CoverInv, NEW e \in Events, Send(e), publishing \ {e} \subseteq publishing',
           UNCHANGED <<ledger, guardiansOf, console>>
    PROVE  CoverInv'
<1>. SUFFICES ASSUME NEW g \in Guardians
              PROVE  CoveredAt(stream'[g], console[g], ScopeOf(g), Waiting')
  BY DEF CoverInv, ScopeOf
<1>. DEFINE s == stream[g]
            r == Receives(s, e)
<1>1. s \in Stream /\ stream'[g] = r /\ CoveredAt(s, console[g], ScopeOf(g), Waiting)
  BY DEF StreamInv, StreamTypes, Send, CoverInv
<1>2. /\ r.replay = s.replay /\ r.phase = s.phase /\ r.first = s.first /\ r.scope = s.scope
      /\ s.phase # "closed" =>
            InQueue(s.queue) \cup s.missed \cup {e} \subseteq InQueue(r.queue) \cup r.missed
  BY <1>1, ReceivesFields
<1>3. Waiting' \subseteq Waiting \cup {e}
  BY DEF Waiting
<1>. HIDE DEF s, r
<1>. QED
  BY <1>1, <1>2, <1>3 DEF CoveredAt, OnItsWay

\* A new connection's snapshot holds all there is in the scope.
LEMMA OpenCovers ==
    ASSUME StreamInv, CoverInv, NEW g \in Guardians, Open(g)
    PROVE  CoverInv'
<1>. DEFINE s == [phase |-> "replayed", valid |-> TRUE, replay |-> Snapshot(g),
                  first |-> ScopeOf(g), scope |-> {}, queue |-> <<>>, missed |-> {}]
<1>1. Snapshot(g) \in SUBSET Alerts /\ ScopeOf(g) \in SUBSET Devices
  BY DEF Snapshot, ScopeOf, StreamInv, StreamTypes
<1>2. s \in Stream /\ s.replay = Snapshot(g) /\ s.first = ScopeOf(g) /\ s.phase = "replayed"
  BY <1>1 DEF Stream
<1>3. console[g] \in SUBSET Events /\ console' = [console EXCEPT ![g] = console[g]]
  BY DEF StreamInv, StreamTypes, Open
<1>4. stream' = [stream EXCEPT ![g] = s] /\ UNCHANGED <<ledger, publishing, guardiansOf>>
  BY DEF Open
<1>. HIDE DEF s
<1>5. CoveredAt(s, console[g], ScopeOf(g), Waiting)
  BY <1>2 DEF CoveredAt, OnItsWay, Snapshot, Waiting
<1>. QED
  BY <1>2, <1>3, <1>4, <1>5, OneCovered

\* The subscription, the second check and the fetch of the notices keep what is on its way.
LEMMA PhasesCover ==
    ASSUME StreamInv, CoverInv, NEW g \in Guardians,
           Subscribe(g) \/ CheckScope(g) \/ \E ok \in BOOLEAN : FetchNotices(g, ok)
    PROVE  CoverInv'
<1>0. stream[g] \in Stream /\ console[g] \in SUBSET Events /\ ScopeOf(g) \in SUBSET Devices
      /\ notices \in SUBSET Events /\ CoveredAt(stream[g], console[g], ScopeOf(g), Waiting)
  BY DEF StreamInv, StreamTypes, ScopeOf, CoverInv, Events
<1>1. CASE Subscribe(g)
  <2>. DEFINE s == [stream[g] EXCEPT !.phase = "subscribed"]
  <2>1. /\ s \in Stream /\ s.phase = "subscribed" /\ s.replay = stream[g].replay
        /\ s.first = stream[g].first /\ s.missed = stream[g].missed /\ s.queue = stream[g].queue
    BY <1>0 DEF Stream
  <2>2. stream' = [stream EXCEPT ![g] = s]
    BY <1>1, Zenon DEF Subscribe
  <2>3. console' = [console EXCEPT ![g] = console[g]] /\ UNCHANGED <<ledger, publishing, guardiansOf>>
        /\ stream[g].phase = "replayed"
    BY <1>0, <1>1 DEF Subscribe, StreamInv, StreamTypes
  <2>. HIDE DEF s
  <2>4. CoveredAt(s, console[g], ScopeOf(g), Waiting)
    BY <1>0, <2>1, <2>3 DEF CoveredAt, OnItsWay
  <2>. QED
    BY <1>0, <2>1, <2>2, <2>3, <2>4, OneCovered
<1>2. CASE CheckScope(g) /\ ~stream[g].valid
  BY <1>2, CloseCovers DEF CheckScope
<1>3. CASE CheckScope(g) /\ stream[g].valid
  <2>. DEFINE s == [[stream[g] EXCEPT !.phase = "open"] EXCEPT !.scope = ScopeOf(g)]
  <2>1. /\ s \in Stream /\ s.phase = "open" /\ s.replay = stream[g].replay /\ s.scope = ScopeOf(g)
        /\ s.first = stream[g].first /\ s.missed = stream[g].missed /\ s.queue = stream[g].queue
    BY <1>0 DEF Stream
  <2>2. stream' = [stream EXCEPT ![g] = s]
    BY <1>3, Zenon DEF CheckScope
  <2>3. console' = [console EXCEPT ![g] = {}] /\ UNCHANGED <<ledger, publishing, guardiansOf>>
        /\ stream[g].phase = "subscribed"
    BY <1>3 DEF CheckScope
  <2>. HIDE DEF s
  <2>4. CoveredAt(s, {}, ScopeOf(g), Waiting)
    BY <1>0, <2>1, <2>3 DEF CoveredAt, OnItsWay
  <2>5. {} \in SUBSET Events
    OBVIOUS
  <2>. QED
    BY <2>1, <2>2, <2>3, <2>4, <2>5, OneCovered
<1>4. ASSUME NEW ok \in BOOLEAN, FetchNotices(g, ok) PROVE CoverInv'
  <2>. DEFINE s == [stream[g] EXCEPT !.phase = "reading"]
              shown == IF ok THEN console[g] \union notices ELSE console[g]
  <2>1. /\ s \in Stream /\ s.phase = "reading" /\ s.replay = stream[g].replay /\ s.scope = stream[g].scope
        /\ s.first = stream[g].first /\ s.missed = stream[g].missed /\ s.queue = stream[g].queue
    BY <1>0 DEF Stream
  <2>2. stream' = [stream EXCEPT ![g] = s]
    BY <1>4, Zenon DEF FetchNotices
  <2>3. console' = [console EXCEPT ![g] = shown] /\ UNCHANGED <<ledger, publishing, guardiansOf>>
        /\ stream[g].phase = "open"
    BY <1>4 DEF FetchNotices
  <2>4. console[g] \subseteq shown /\ shown \in SUBSET Events
    BY <1>0
  <2>. HIDE DEF s, shown
  <2>5. CoveredAt(s, shown, ScopeOf(g), Waiting)
    BY <1>0, <2>1, <2>3, <2>4 DEF CoveredAt, OnItsWay
  <2>. QED
    BY <2>1, <2>2, <2>3, <2>4, <2>5, OneCovered
<1>. QED
  BY <1>1, <1>2, <1>3, <1>4

\* What leaves the replay is on the screen.
LEMMA DeliverReplayCovers ==
    ASSUME StreamInv, CoverInv, NEW g \in Guardians, NEW e \in Alerts, DeliverReplay(g, e)
    PROVE  CoverInv'
<1>. DEFINE s == [stream[g] EXCEPT !.replay = stream[g].replay \ {e}]
            shown == console[g] \union {e}
<1>0. stream[g] \in Stream /\ console[g] \in SUBSET Events
      /\ CoveredAt(stream[g], console[g], ScopeOf(g), Waiting)
  BY DEF StreamInv, StreamTypes, CoverInv
<1>1. /\ s \in Stream /\ s.phase = stream[g].phase /\ s.replay = stream[g].replay \ {e}
      /\ s.scope = stream[g].scope /\ s.first = stream[g].first /\ s.missed = stream[g].missed
      /\ s.queue = stream[g].queue
  BY <1>0 DEF Stream
<1>2. stream' = [stream EXCEPT ![g] = s]
  BY Zenon DEF DeliverReplay
<1>3. console' = [console EXCEPT ![g] = shown] /\ UNCHANGED <<ledger, publishing, guardiansOf>>
      /\ stream[g].phase = "reading"
  BY DEF DeliverReplay
<1>4. shown \in SUBSET Events
  BY <1>0 DEF Events
<1>. HIDE DEF s
<1>5. CoveredAt(s, shown, ScopeOf(g), Waiting)
  BY <1>0, <1>1, <1>3 DEF CoveredAt, OnItsWay
<1>. QED
  BY <1>1, <1>2, <1>3, <1>4, <1>5, OneCovered

\* What leaves the queue is on the screen, or of no device of the first scope.
LEMMA DeliverLiveCovers ==
    ASSUME StreamInv, CoverInv, NEW g \in Guardians, DeliverLive(g)
    PROVE  CoverInv'
<1>. DEFINE e == Head(stream[g].queue)
<1>0. stream[g] \in Stream /\ console[g] \in SUBSET Events
      /\ CoveredAt(stream[g], console[g], ScopeOf(g), Waiting)
  BY DEF StreamInv, StreamTypes, CoverInv
<1>1. stream[g].queue \in Seq(Events) /\ stream[g].queue # <<>> /\ stream[g].phase = "reading"
  BY <1>0, StreamFields DEF DeliverLive
<1>2. Len(stream[g].queue) > 0
  BY <1>1
<1>3. /\ e \in Events /\ Tail(stream[g].queue) \in Seq(Events)
      /\ InQueue(stream[g].queue) \subseteq InQueue(Tail(stream[g].queue)) \cup {e}
  BY <1>1, <1>2, TailCovers DEF InQueue
<1>4. CASE Ends(stream[g], e)
  BY <1>4, CloseCovers DEF DeliverLive
<1>5. CASE ~Ends(stream[g], e)
  <2>. DEFINE s == [stream[g] EXCEPT !.queue = Tail(stream[g].queue)]
              shown == IF Keeps(g, e) THEN console[g] \union {e} ELSE console[g]
  <2>1. /\ s \in Stream /\ s.phase = stream[g].phase /\ s.replay = stream[g].replay
        /\ s.scope = stream[g].scope /\ s.first = stream[g].first /\ s.missed = stream[g].missed
        /\ s.queue = Tail(stream[g].queue)
    BY <1>0, <1>3 DEF Stream
  <2>2. stream' = [stream EXCEPT ![g] = s]
    BY <1>5, Zenon DEF DeliverLive
  <2>3. console' = [console EXCEPT ![g] = shown] /\ UNCHANGED <<ledger, publishing, guardiansOf>>
    BY <1>5 DEF DeliverLive
  <2>4. shown \in SUBSET Events /\ console[g] \subseteq shown
    BY <1>0, <1>3
  <2>5. e.device \in stream[g].first => e \in shown
    BY <1>0, <1>1 DEF Keeps, InnerKeeps, CoveredAt
  <2>. HIDE DEF s, shown, e
  <2>6. CoveredAt(s, shown, ScopeOf(g), Waiting)
    BY <1>0, <1>1, <1>3, <2>1, <2>4, <2>5 DEF CoveredAt, OnItsWay
  <2>. QED
    BY <2>1, <2>2, <2>3, <2>4, <2>6, OneCovered
<1>. QED
  BY <1>4, <1>5

\* The end of a session takes nothing off its way.
LEMMA EndSessionCovers ==
    ASSUME StreamInv, CoverInv, NEW g \in Guardians, EndSession(g)
    PROVE  CoverInv'
<1>. DEFINE s == [stream[g] EXCEPT !.valid = FALSE]
<1>0. stream[g] \in Stream /\ console[g] \in SUBSET Events
      /\ CoveredAt(stream[g], console[g], ScopeOf(g), Waiting)
  BY DEF StreamInv, StreamTypes, CoverInv
<1>1. /\ s \in Stream /\ s.phase = stream[g].phase /\ s.replay = stream[g].replay
      /\ s.scope = stream[g].scope /\ s.first = stream[g].first /\ s.missed = stream[g].missed
      /\ s.queue = stream[g].queue
  BY <1>0 DEF Stream
<1>2. stream' = [stream EXCEPT ![g] = s]
  BY Zenon DEF EndSession
<1>3. console' = [console EXCEPT ![g] = console[g]] /\ UNCHANGED <<ledger, publishing, guardiansOf>>
  BY DEF EndSession, StreamInv, StreamTypes
<1>. HIDE DEF s
<1>4. CoveredAt(s, console[g], ScopeOf(g), Waiting)
  BY <1>0, <1>1 DEF CoveredAt, OnItsWay
<1>. QED
  BY <1>0, <1>1, <1>2, <1>3, <1>4, OneCovered

\* Steps that leave every connection alone, or close them all.
LEMMA RestCovers ==
    ASSUME StreamInv, CoverInv,
           \/ UNCHANGED vars \/ Restart
           \/ \E e \in Alerts : Record(e) \/ Retire(e)
           \/ \E n \in Notices : Issue(n) \/ Expire(n)
           \/ \E g \in Guardians : Login(g) \/ ClearScreen(g)
           \/ \E d \in Devices, g \in Guardians : Share(d, g)
    PROVE  CoverInv'
<1>1. CASE Restart
  <2>1. \A g \in Guardians : stream'[g] = Closed
    BY <1>1 DEF Restart
  <2>. QED
    BY <2>1, ClosedCovered DEF CoverInv
<1>2. ASSUME NEW g \in Guardians, ClearScreen(g) PROVE CoverInv'
  <2>1. /\ stream' = stream /\ stream[g].phase = "closed" /\ Waiting' = Waiting
        /\ \A h \in Guardians : ScopeOf(h)' = ScopeOf(h)
        /\ \A h \in Guardians \ {g} : console'[h] = console[h]
    BY <1>2 DEF ClearScreen, StreamInv, StreamTypes, Waiting, ScopeOf
  <2>. QED
    BY <2>1 DEF CoverInv, CoveredAt
<1>3. CASE ~Restart /\ ~\E g \in Guardians : ClearScreen(g)
  <2>1. UNCHANGED <<stream, console>> /\ Waiting' \subseteq Waiting
    BY <1>3 DEF vars, Record, Retire, Issue, Expire, Login, Share, Waiting
  <2>2. \A h \in Guardians : ScopeOf(h) \subseteq ScopeOf(h)'
    BY <1>3 DEF vars, Record, Retire, Issue, Expire, Login, Share, ScopeOf, StreamInv, StreamTypes
  <2>. QED
    BY <2>1, <2>2, CoveredStill DEF CoverInv
<1>. QED
  BY <1>1, <1>2, <1>3

\* StreamPendingReviews and the parent's loop: a console that has read all its
\* stream offers shows every alert waiting in the scope the stream was opened with,
\* but for those sent between snapshot and subscription or dropped by the channel.
THEOREM CaughtUp == Spec => []CaughtUpShowsAll
<1>1. Init => CoverInv
  BY ClosedCovered DEF Init, CoverInv
<1>2. StreamInv /\ CoverInv /\ [Next]_vars => CoverInv'
  <2>. SUFFICES ASSUME StreamInv, CoverInv, [Next]_vars PROVE CoverInv'
    OBVIOUS
  <2>1. ASSUME NEW e \in Alerts \union Notices, Publish(e) PROVE CoverInv'
    BY <2>1, SendCovers DEF Publish, Events
  <2>2. ASSUME NEW e \in DirectAlerts, PublishDirect(e) PROVE CoverInv'
    BY <2>2, SendCovers DEF PublishDirect, Events
  <2>3. ASSUME NEW g \in Guardians, Break(g) PROVE CoverInv'
    BY <2>3, CloseCovers DEF Break
  <2>. QED
    BY <2>1, <2>2, <2>3, OpenCovers, PhasesCover, DeliverReplayCovers, DeliverLiveCovers,
       EndSessionCovers, RestCovers DEF Next
<1>3. StreamInv /\ CoverInv => CaughtUpShowsAll
  <2>. SUFFICES ASSUME StreamInv, CoverInv, NEW g \in Guardians, stream[g].phase = "reading",
                       stream[g].replay = {}, stream[g].queue = <<>>,
                       NEW e \in ledger \ publishing, e.device \in stream[g].first
                PROVE  e \in console[g] \union stream[g].missed
    BY DEF CaughtUpShowsAll
  <2>1. InQueue(stream[g].queue) = {}
    BY DEF InQueue
  <2>. QED
    BY <2>1 DEF CoverInv, CoveredAt, OnItsWay, Waiting
<1>. QED
  BY <1>1, <1>2, <1>3, StreamStart, StreamStep, PTL DEF Spec
=============================================================================
