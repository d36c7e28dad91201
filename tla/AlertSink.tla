----------------------------- MODULE AlertSink -----------------------------
(***************************************************************************)
(* The alert channels of the server (crates/bulwark-alert: ratelimit.rs,   *)
(* sink.rs, push.rs): the e-mail sink with its limiter, behind it the push *)
(* fan-out, both driven one after the other by the CompositeSink that      *)
(* main.rs builds.  The limiter is consulted under its lock; the mail is   *)
(* sent after the lock is released, and may fail.  Reading the clock and   *)
(* taking the lock are one step: the lock is never held over I/O and the   *)
(* windows are minutes.  Bounds: MaxAlertTime ticks, MaxRaises calls.      *)
(***************************************************************************)
EXTENDS Naturals, Sequences, FiniteSets, SequencesExt, Functions

CONSTANTS
    AlertIds,       \* alert_id values
    NoId,           \* the empty alert_id
    Raisers,        \* tasks that raise alerts
    Batches,        \* the batches they raise, sequences of alerts
    DedupeWindow, BurstWindow, MaxImmediate, DigestMax,   \* RateLimitConfig
    MaxAlertTime, MaxRaises

ASSUME AlertSinkAssumption ==
    /\ NoId \notin AlertIds
    /\ DedupeWindow \in Nat /\ BurstWindow \in Nat
    /\ MaxImmediate \in Nat /\ DigestMax \in Nat
    /\ MaxAlertTime \in Nat /\ MaxRaises \in Nat
    /\ Batches \subseteq Seq(AlertIds \cup {NoId})

VARIABLES
    now,        \* the clock
    seen,       \* RateLimiter.seen: id -> when first seen
    recent,     \* RateLimiter.recent_sends
    digest,     \* RateLimiter.pending_digest
    calls,      \* raiser -> the call it is in
    mails,      \* every mail handed to the transport: what, when, how it ended
    pushed,     \* ids some guardian endpoint accepted
    answers,    \* every acknowledgement given: <<id, answer>>
    raises      \* calls made so far

alertVars == <<now, seen, recent, digest, calls, mails, pushed, answers, raises>>

Events   == AlertIds \cup {NoId}

\* A call: the events it raises, those its mail carries, the acknowledgement
\* of the e-mail sink, and how far it got.
Idle == [stage |-> "idle", events |-> <<>>, mail |-> 0, acks |-> {}]

AlertInit ==
    /\ now = 0 /\ raises = 0
    /\ seen = <<>> /\ recent = <<>> /\ digest = <<>>
    /\ calls = [r \in Raisers |-> Idle]
    /\ mails = <<>> /\ pushed = {} /\ answers = {}

AlertTick ==
    /\ now < MaxAlertTime
    /\ now' = now + 1
    /\ UNCHANGED <<seen, recent, digest, calls, mails, pushed, answers, raises>>

----------------------------------------------------------------------------
\* The limiter, as a function of its own state.
Limiter == [seen |-> seen, recent |-> recent, digest |-> digest]

\* expire: the seen ids are filtered; the sends are popped from the front
\* until one is still in the window.
FreshSeen(s) == Restrict(s, {id \in DOMAIN s : now - s[id] < DedupeWindow})

FreshSends(q) == SelectSeq(q, LAMBDA t : now - t < BurstWindow)

Expire(lim) ==
    [seen |-> FreshSeen(lim.seen), recent |-> FreshSends(lim.recent), digest |-> lim.digest]

\* admit: the decision and what it leaves behind.

\* Mutant: nothing counts as seen.
IsDuplicateNever(lim, e) == FALSE
IsDuplicate(lim, e) == e # NoId /\ e \in DOMAIN lim.seen

NoteSeen(known, e) ==
    IF e = NoId THEN known
    ELSE [id \in DOMAIN known \cup {e} |-> IF id = e THEN now ELSE known[id]]

\* A full digest drops the alert.
Buffer(waiting, e) == IF Len(waiting) < DigestMax THEN Append(waiting, e) ELSE waiting

AdmitAlert(lim0, e) ==
    LET lim == Expire(lim0)
        noted == NoteSeen(lim.seen, e)
    IN IF IsDuplicate(lim, e) THEN [decision |-> "deduped", lim |-> lim]
       ELSE IF Len(lim.recent) < MaxImmediate
            THEN [decision |-> "send_now",
                  lim |-> [seen |-> noted, recent |-> Append(lim.recent, now),
                           digest |-> lim.digest]]
            ELSE [decision |-> "coalesced",
                  lim |-> [seen |-> noted, recent |-> lim.recent,
                           digest |-> Buffer(lim.digest, e)]]

\* The events of a batch are admitted one after the other under one lock.
AdmitNone(lim) == [lim |-> lim, send |-> <<>>, dups |-> {}]

AdmitNext(acc, e) ==
    LET a == AdmitAlert(acc.lim, e)
    IN IF a.decision = "deduped"
       THEN [lim |-> a.lim, send |-> acc.send, dups |-> acc.dups \cup {e}]
       ELSE [lim |-> a.lim, send |-> Append(acc.send, e), dups |-> acc.dups]

AdmitAll(lim0, events) ==
    LET after[n \in 0..Len(events)] ==
            IF n = 0 THEN AdmitNone(lim0) ELSE AdmitNext(after[n - 1], events[n])
    IN after[Len(events)]

Install(lim) ==
    /\ seen' = lim.seen /\ recent' = lim.recent
    /\ digest' = lim.digest

----------------------------------------------------------------------------
\* The e-mail sink.
StartMail(kind, events) ==
    mails' = Append(mails, [events |-> events, at |-> now, kind |-> kind, end |-> "sending"])

Begin(r, call) ==
    /\ calls[r].stage = "idle"
    /\ raises < MaxRaises
    /\ raises' = raises + 1
    /\ calls' = [calls EXCEPT ![r] = call]
    /\ UNCHANGED <<now, pushed, answers>>

\* raise: a duplicate and a coalesced alert are acknowledged at once, as
\* deduped; the composite goes on to the push sink either way.
Raise(r, e) ==
    LET a == AdmitAlert(Limiter, e)
    IN /\ Install(a.lim)
       /\ IF a.decision = "send_now"
          THEN /\ StartMail("single", <<e>>)
               /\ Begin(r, [stage |-> "mail", events |-> <<e>>, mail |-> Len(mails) + 1,
                            acks |-> {}])
          ELSE /\ Begin(r, [stage |-> "push", events |-> <<e>>, mail |-> 0,
                            acks |-> {<<e, "deduped">>}])
               /\ UNCHANGED mails

\* raise_batch: what is not a duplicate goes out in one mail, and what the
\* limiter coalesced stays in the pending digest too.
RaiseBatch(r, events) ==
    LET a == AdmitAll(Limiter, events)
        dups == {<<e, "deduped">> : e \in a.dups}
    IN /\ Install(a.lim)
       /\ IF a.send # <<>>
          THEN /\ StartMail("batch", a.send)
               /\ Begin(r, [stage |-> "mail", events |-> events, mail |-> Len(mails) + 1,
                            acks |-> dups])
          ELSE /\ Begin(r, [stage |-> "push", events |-> events, mail |-> 0, acks |-> dups])
               /\ UNCHANGED mails

\* flush_digest: public, "safe to call on a timer"; the events leave the
\* buffer before their mail is sent.
FlushDigest(r) ==
    /\ digest # <<>>
    /\ recent' = Append(recent, now)
    /\ digest' = <<>>
    /\ StartMail("flush", digest)
    /\ Begin(r, [stage |-> "flush", events |-> digest, mail |-> Len(mails) + 1, acks |-> {}])
    /\ UNCHANGED seen

Delivered(events) == {<<e, "delivered">> : e \in ToSet(events)}

\* The transport answers.  An error drops the acknowledgements gathered so
\* far: the sink as a whole failed.
\* Mutant: the mail counts as delivered whatever the transport says.
AcksAfterMailAlways(call, ok) == call.acks \cup Delivered(mails[call.mail].events)
AcksAfterMail(call, ok) ==
    IF ok THEN call.acks \cup Delivered(mails[call.mail].events) ELSE {}

Ended(mail, ok) ==
    [events |-> mail.events, at |-> mail.at, kind |-> mail.kind,
     end |-> IF ok THEN "sent" ELSE "failed"]

Answered(call, acks) ==
    [stage |-> "push", events |-> call.events, mail |-> call.mail, acks |-> acks]

MailEnds(r, ok) ==
    /\ calls[r].stage \in {"mail", "flush"}
    /\ mails' = [mails EXCEPT ![calls[r].mail] = Ended(@, ok)]
    /\ LET acks == AcksAfterMail(calls[r], ok)
       IN IF calls[r].stage = "mail"
          THEN /\ calls' = [calls EXCEPT ![r] = Answered(@, acks)]
               /\ UNCHANGED answers
          ELSE /\ calls' = [calls EXCEPT ![r] = Idle]
               /\ answers' = answers \cup acks
    /\ UNCHANGED <<now, seen, recent, digest, pushed, raises>>

----------------------------------------------------------------------------
\* The push fan-out: some events reach an endpoint, the others have none or
\* every endpoint fails.  The first sink that succeeded answers the caller.
PushEnds(r, took) ==
    /\ calls[r].stage = "push"
    /\ took \subseteq ToSet(calls[r].events)
    /\ pushed' = pushed \cup took
    /\ LET own == {<<e, IF e \in took THEN "delivered" ELSE "failed">> :
                       e \in ToSet(calls[r].events)}
       IN answers' = answers \cup (IF calls[r].acks # {} THEN calls[r].acks ELSE own)
    /\ calls' = [calls EXCEPT ![r] = Idle]
    /\ UNCHANGED <<now, seen, recent, digest, mails, raises>>

AlertNext ==
    \/ AlertTick
    \/ \E r \in Raisers, e \in Events : Raise(r, e)
    \/ \E r \in Raisers, b \in Batches : RaiseBatch(r, b)
    \/ \E r \in Raisers : FlushDigest(r)
    \/ \E r \in Raisers, ok \in BOOLEAN : MailEnds(r, ok)
    \/ \E r \in Raisers : \E took \in SUBSET ToSet(calls[r].events) : PushEnds(r, took)

----------------------------------------------------------------------------
(* What the channels promise. *)

\* Retries and concurrent raises of one alert mail it once per dedupe window,
\* as a single mail or in a batch (ratelimit.rs: "idempotent across retries").
MailedOnce ==
    \A i, j \in DOMAIN mails : \A e \in AlertIds :
        /\ i # j
        /\ mails[i].kind # "flush" /\ mails[j].kind # "flush"
        /\ Contains(mails[i].events, e) /\ Contains(mails[j].events, e)
        => \/ mails[i].at + DedupeWindow <= mails[j].at
           \/ mails[j].at + DedupeWindow <= mails[i].at

\* A caller who is told "delivered" can rely on it: a transport took the alert.
AckTruth ==
    \A e \in Events : <<e, "delivered">> \in answers =>
        e \in pushed \/ \E i \in DOMAIN mails : /\ e \in ToSet(mails[i].events)
                                                /\ mails[i].end = "sent"
=============================================================================
