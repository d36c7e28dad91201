---------------------------- MODULE ReviewRelay ----------------------------
(***************************************************************************)
(* An alert's way from a child's device to a guardian's decision           *)
(* (bulwark-server/src: service.rs deliver, review_security.rs, relay.rs,  *)
(* remote_vpn_linux.rs emit_alert).                                        *)
(*                                                                         *)
(* Two stores know an alert by its id.  The ledger is the queue of alerts  *)
(* to be reviewed; it binds the id to the device, the category and the     *)
(* content hash, and a decision is authorised against it.  The hub's       *)
(* pending map holds the facts the decision is applied to; it keeps the    *)
(* latest publication of the id and never forgets one.  Each has a lock of *)
(* its own, so a raise is two steps and a decision five, and other calls   *)
(* and crashes come between them.  The allowlist is saved as the journal   *)
(* of the decisions, and a starting server applies the journal row by row  *)
(* before it serves.                                                       *)
(*                                                                         *)
(* A write of the ledger takes effect only if it succeeds ("ok"); it may   *)
(* fail before the rename of the file ("failed") or after it ("late").     *)
(* The hub goes on in memory when a write of its files fails.              *)
(***************************************************************************)
EXTENDS Allowlist, FiniteSets, SequencesExt

CONSTANTS
    Guardians,
    SeenBy,         \* device -> the guardians in whose scope it is
    Alerts,         \* the alerts that devices raise, any number of times
    Requests,       \* the decisions guardians submit: [decision, scope]
    WriteOutcomes,  \* subset of {"ok", "failed", "late"}
    MaxLedger,      \* MAX_REPLAY_ALERTS
    MaxAudit        \* bound on the decisions that are applied

ASSUME ReviewRelayAssumption ==
    /\ SeenBy \in [Devices -> SUBSET Guardians]
    /\ \A e \in Alerts : e.device \in Devices /\
          [host |-> e.host, hash |-> e.hash, category |-> e.category] \in Facts
    /\ Requests \subseteq [decision: Decision, scope: Scope]
    /\ WriteOutcomes \subseteq {"ok", "failed", "late"}
    /\ MaxLedger \in Nat \ {0}
    /\ MaxAudit \in Nat

\* Ids are chosen by the side that raises an alert (rvpn-{device}-{flow}-{unit},
\* {device}-{request}, net-{flow}-{request}-{ms}): they come back, and two devices may
\* use the same one.

VARIABLES
    ledger,     \* ReviewLedger: the alerts to be reviewed, oldest first
    pending,    \* AlertHub.pending
    entries,    \* AlertHub.allowlist
    audit,      \* its audit log
    loading,    \* the rows of the journal that a starting server has yet to apply
    stored,       \* review_ledger.json, pending_reviews.json, allowlist_audit.json
    raising,    \* alerts that are recorded and not yet published
    deciding,       \* the SubmitDecision call of each guardian
    raised      \* auxiliary: the alerts that the ledger, in memory or on disk, has held or known

hub == <<pending, entries, audit, loading>>
relayVars == <<ledger, hub, stored, raising, deciding, raised>>

Ids == {e.id : e \in Alerts}
FactsOf(e) == [host |-> e.host, hash |-> e.hash, category |-> e.category]

\* A decision that was applied, with the alert it was admitted for.
Row == [device: Devices, alert: Alerts, facts: Facts, decision: Decision, scope: Scope]

Deciding == [stage: {"admitted", "resolved", "scoped", "applied"}, row: Row]
NotDeciding == [stage |-> "idle"]
At(stage, row) == [stage |-> stage, row |-> row]

Files(l, p, a) == [ledger |-> l, pending |-> p, audit |-> a]

\* Calls are answered once the journal is loaded.
Serving == loading = <<>>

RelayInit ==
    /\ ledger = <<>>
    /\ pending = [i \in Ids |-> NoFacts]
    /\ entries = NoEntries
    /\ audit = <<>>
    /\ loading = <<>>
    /\ stored = Files(ledger, pending, audit)
    /\ raising = {}
    /\ deciding = [g \in Guardians |-> NotDeciding]
    /\ raised = {}

-----------------------------------------------------------------------------
(* Raising an alert *)

Bound(id) == {e \in ToSet(ledger) : e.id = id}

\* immutable_identity_eq: the host is not part of an alert's identity.
SameIdentity(e, f) ==
    /\ e.device = f.device
    /\ e.category = f.category
    /\ e.hash = f.hash

Accepts(e) == \A f \in Bound(e.id) : SameIdentity(e, f)

\* The queue with a new alert; the oldest make room.
Enqueued(e) ==
    LET all == Append(ledger, e)
    IN  IF Len(all) > MaxLedger THEN Tail(all) ELSE all

\* A write of review_ledger.json and the change it makes visible.
LedgerBecomes(next, outcome) ==
    /\ stored' = Files(IF outcome = "failed" THEN stored.ledger ELSE next, stored.pending, stored.audit)
    /\ ledger' = IF outcome = "ok" THEN next ELSE ledger

\* ReviewLedger::record.  A repetition of a known alert is published again; an
\* alert whose id is taken by another is answered with an error, and so is one
\* that could not be saved.
Record(e, outcome) ==
    /\ Serving
    /\ IF Bound(e.id) = {}
       THEN /\ LedgerBecomes(Enqueued(e), outcome)
            /\ raising' = IF outcome = "ok" THEN raising \union {e} ELSE raising
            /\ raised' = IF outcome = "failed" THEN raised ELSE raised \union {e}
       ELSE /\ UNCHANGED <<ledger, stored>>
            /\ raising' = IF Accepts(e) THEN raising \union {e} ELSE raising
            /\ raised' = IF Accepts(e) THEN raised \union {e} ELSE raised
    /\ UNCHANGED <<hub, deciding>>

\* AlertHub::publish: the facts of the latest publication are the ones kept.
Publish(e, saved) ==
    /\ e \in raising
    /\ raising' = raising \ {e}
    /\ pending' = [pending EXCEPT ![e.id] = FactsOf(e)]
    /\ stored' = Files(stored.ledger, IF saved THEN pending' ELSE stored.pending, stored.audit)
    /\ UNCHANGED <<ledger, entries, audit, loading, deciding, raised>>

-----------------------------------------------------------------------------
(* Deciding on an alert: SubmitDecision *)

\* Mutant: the request may name any device the guardian sees.
SomeDevice(g, e, d) == g \in SeenBy[d]

\* The alert's device is in the guardian's scope and is the one named by the
\* request.
AuthorizedFor(g, e, d) == g \in SeenBy[e.device] /\ d = e.device

\* SecureReviewService: the request is authorised against the ledger.
Admit(g, e, d, r) ==
    /\ Serving
    /\ deciding[g] = NotDeciding
    /\ e \in ToSet(ledger)
    /\ AuthorizedFor(g, e, d)
    /\ r.decision = "approve" => Allowlistable(e.category)
    /\ Len(audit) + Cardinality({h \in Guardians : deciding[h] # NotDeciding}) < MaxAudit
    /\ deciding' = [deciding EXCEPT ![g] =
          At("admitted", [device |-> d, alert |-> e, facts |-> NoFacts,
                          decision |-> r.decision, scope |-> r.scope])]
    /\ UNCHANGED <<ledger, hub, stored, raising, raised>>

\* AlertHub::resolve_item
Resolve(g) ==
    /\ deciding[g].stage = "admitted"
    /\ LET r == deciding[g].row IN
       deciding' = [deciding EXCEPT ![g] =
          At("resolved", [device |-> r.device, alert |-> r.alert, facts |-> pending[r.alert.id],
                          decision |-> r.decision, scope |-> r.scope])]
    /\ UNCHANGED <<ledger, hub, stored, raising, raised>>

\* AlertHub::effective_scope: the approval of an image that has no host is the
\* approval of its hash.
EffectiveScope(f, decision, scope) ==
    IF decision = "approve" /\ scope = "this_host" /\ f.host = None /\ f.hash # None
    THEN "this_item"
    ELSE scope

ChooseScope(g) ==
    /\ deciding[g].stage = "resolved"
    /\ LET r == deciding[g].row IN
       deciding' = [deciding EXCEPT ![g] =
          At("scoped", [device |-> r.device, alert |-> r.alert, facts |-> r.facts,
                        decision |-> r.decision,
                        scope |-> EffectiveScope(pending[r.alert.id], r.decision, r.scope)])]
    /\ UNCHANGED <<ledger, hub, stored, raising, raised>>

\* Mutant: every decision is written down as one on the host.
JournalledForHost(r) == [r EXCEPT !.scope = "this_host"]

\* The audit row is the decision as it is applied.
Journalled(r) == r

\* Mutant: a refused decision settles its alert too.
AlwaysSettles(outcome) == TRUE

Settles(outcome) == outcome # "refused"

\* AlertHub::apply_decision: allowlist, audit log and journal under one lock.
ApplyDecision(g, saved) ==
    /\ deciding[g].stage = "scoped"
    /\ LET r == deciding[g].row IN
       /\ entries' = Apply(entries, r.device, r.facts, r.decision, r.scope)
       /\ audit' = Append(audit, Journalled(r))
       /\ deciding' = [deciding EXCEPT ![g] =
             IF Settles(OutcomeOf(r.facts, r.decision, r.scope)) THEN At("applied", r) ELSE NotDeciding]
    /\ stored' = Files(stored.ledger, stored.pending, IF saved THEN audit' ELSE stored.audit)
    /\ UNCHANGED <<ledger, pending, loading, raising, raised>>

\* The queue without the alert of this id: the alerts are kept in a map by id, so
\* there is one.
Without(id) == RemoveAt(ledger, CHOOSE i \in DOMAIN ledger : ledger[i].id = id)

\* ReviewLedger::retire.  If it fails the guardian is told so and the alert
\* stays in the queue, decided.
Retire(g, outcome) ==
    /\ deciding[g].stage = "applied"
    /\ LET id == deciding[g].row.alert.id IN
       IF Bound(id) = {}
       THEN UNCHANGED <<ledger, stored>>
       ELSE LedgerBecomes(Without(id), outcome)
    /\ deciding' = [deciding EXCEPT ![g] = NotDeciding]
    /\ UNCHANGED <<hub, raising, raised>>

-----------------------------------------------------------------------------
(* The server stops anywhere and starts from its files *)

RelayRestart ==
    /\ ledger' = stored.ledger
    /\ pending' = stored.pending
    /\ entries' = NoEntries
    /\ audit' = <<>>
    /\ loading' = stored.audit
    /\ raising' = {}
    /\ deciding' = [g \in Guardians |-> NotDeciding]
    /\ UNCHANGED <<stored, raised>>

\* replay_audit: a row is applied, and logged, as it was when it was decided.
LoadRow ==
    /\ ~Serving
    /\ LET r == Head(loading) IN
       /\ entries' = Apply(entries, r.device, r.facts, r.decision, r.scope)
       /\ audit' = Append(audit, r)
    /\ loading' = Tail(loading)
    /\ UNCHANGED <<ledger, pending, stored, raising, deciding, raised>>

HubSaves(outcomes) == {o # "failed" : o \in outcomes}

\* The steps when these alerts are raised and writes end like this.
Steps(alerts, outcomes) ==
    \/ \E e \in alerts, o \in outcomes : Record(e, o)
    \/ \E e \in alerts, s \in HubSaves(outcomes) : Publish(e, s)
    \/ \E g \in Guardians, e \in alerts, d \in Devices, r \in Requests : Admit(g, e, d, r)
    \/ \E g \in Guardians : Resolve(g) \/ ChooseScope(g)
    \/ \E g \in Guardians, s \in HubSaves(outcomes) : ApplyDecision(g, s)
    \/ \E g \in Guardians, o \in outcomes : Retire(g, o)
    \/ RelayRestart \/ LoadRow

RelayNext == Steps(Alerts, WriteOutcomes)

RelaySpec == RelayInit /\ [][RelayNext]_relayVars

-----------------------------------------------------------------------------
(* Properties *)

\* Every variable has the shape the code's structs give it, and the queue keeps
\* to MAX_REPLAY_ALERTS.
RelayTypeOK ==
    /\ ledger \in Seq(Alerts) /\ Len(ledger) <= MaxLedger
    /\ pending \in [Ids -> Facts]
    /\ entries \in [Devices -> Entry]
    /\ audit \in Seq(Row) /\ loading \in Seq(Row)
    /\ stored \in [ledger: Seq(Alerts), pending: [Ids -> Facts], audit: Seq(Row)]
    /\ raising \subseteq Alerts /\ raised \subseteq Alerts
    /\ deciding \in [Guardians -> Deciding \union {NotDeciding}]

\* Two alerts under one id: the second, of device d, is the one a decision was
\* authorised for, the first the one whose facts were found.
RaisedUnder(d, e) ==
    /\ e.category = "reviewable"
    /\ \E f \in raised : f.id = e.id /\ f.device = d /\ f.category = "reviewable"

\* Content passes on a device only if it was raised in a category that may be
\* approved, under an id that this device raised in such a category too: no
\* decision turns an alert of another device's own id, suspected CSAM or an
\* incomplete analysis into an approval, whatever happens between the
\* authorisation (ledger) and the application (pending).
AllowedWasRaisedHere ==
    \A d \in Devices :
        /\ \A h \in entries[d].hosts : \E e \in raised : e.host = h /\ RaisedUnder(d, e)
        /\ \A x \in entries[d].hashes : \E e \in raised : e.hash = x /\ RaisedUnder(d, e)

\* replay_audit: the journal always tells the whole story.  Applied step by
\* step, in memory or while loading, the decisions give the allowlist in which
\* the last word on a host or a hash counts; and the saved journal is a
\* beginning of the log of a running server.
JournalRebuilds ==
    /\ entries = LastWord(audit)
    /\ IF Serving THEN IsPrefix(stored.audit, audit) ELSE audit \o loading = stored.audit

\* A decision on this id was applied and not refused.
Decided(id) ==
    \E i \in DOMAIN audit :
        /\ audit[i].alert.id = id
        /\ audit[i].decision = "deny" \/
           (audit[i].facts # NoFacts /\ audit[i].facts.category = "reviewable")

\* Whoever is not in the next queue was decided on, or made room for another.
LeftFor(next) ==
    \A e \in ToSet(ledger) \ ToSet(next) :
        Decided(e.id) \/ (Len(ledger) = MaxLedger /\ ~(ToSet(next) \subseteq ToSet(ledger)))

\* ReviewLedger::retire: an alert leaves the queue because a decision on its id
\* was applied or because the queue was full, never because a decision was
\* refused, a write failed or the server restarted.
PendingUntilDecided == [][LeftFor(ledger')]_relayVars

\* What is approved is what the guardian was shown: the facts of an applied
\* approval are those of the alert the guardian decided on (AlertHub::publish
\* remembers "the content-free facts of this alert").
ShownIsApplied ==
    \A i \in DOMAIN audit :
        audit[i].decision = "approve" /\ audit[i].facts # NoFacts
            => audit[i].facts = FactsOf(audit[i].alert)
=============================================================================
