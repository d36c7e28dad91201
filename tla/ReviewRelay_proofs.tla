------------------------- MODULE ReviewRelay_proofs -------------------------
(***************************************************************************)
(* What holds of the review queue for any number of devices, guardians and *)
(* alerts, and however long the journal grows.                             *)
(*                                                                         *)
(* The argument: the allowlist is at every moment what the journal says    *)
(* (JournalRebuilds), and every row of the journal was authorised for an   *)
(* alert of its device, and is about content raised under that alert's id, *)
(* or about nothing (RowsRaised).  The second fact is only preserved if it *)
(* also holds of the rows on disk, of the rows being loaded, of the        *)
(* decisions in flight, if the queue holds raised alerts, and if the       *)
(* pending facts of an id, in memory and on disk, come from an alert with  *)
(* that id.                                                                *)
(***************************************************************************)
EXTENDS ReviewRelay, SequenceTheorems, TLAPS

\* The types the argument needs.
Typed ==
    /\ pending \in [Ids -> Facts]
    /\ audit \in Seq(Row) /\ loading \in Seq(Row)
    /\ stored.pending \in [Ids -> Facts]
    /\ stored.audit \in Seq(Row)
    /\ raised \subseteq Alerts /\ raising \subseteq raised
    /\ ledger \in Seq(raised) /\ stored.ledger \in Seq(raised)
    /\ deciding \in [Guardians -> Deciding \union {NotDeciding}]

Names(f) == f.host # None \/ f.hash # None

\* If f names content then it was raised under the id of a.
About(f, a) == Names(f) => \E e \in raised : e.id = a.id /\ FactsOf(e) = f

FromId(p) == \A i \in Ids : Names(p[i]) => \E e \in raised : e.id = i /\ FactsOf(e) = p[i]

\* A decision was authorised for a raised alert of its device.
RowRaised(r) ==
    /\ r.alert \in raised /\ r.device = r.alert.device
    /\ r.decision = "approve" => Allowlistable(r.alert.category)
    /\ About(r.facts, r.alert)

RowsRaised(rows) == \A i \in DOMAIN rows : RowRaised(rows[i])

TasksRaised == \A g \in Guardians : deciding[g] # NotDeciding => RowRaised(deciding[g].row)

\* A server that still loads its journal has not admitted anything.
QuietWhileLoading == ~Serving => \A g \in Guardians : deciding[g] = NotDeciding

IInv ==
    /\ Typed
    /\ FromId(pending) /\ FromId(stored.pending)
    /\ RowsRaised(audit) /\ RowsRaised(loading) /\ RowsRaised(stored.audit)
    /\ TasksRaised
    /\ QuietWhileLoading
    /\ JournalRebuilds

-----------------------------------------------------------------------------
(* Facts about the operators *)

\* Allowlist::apply gives the newest decision the last word: one more row and
\* one more application lead to the same allowlist.
LEMMA ApplyIsLastWord ==
    ASSUME NEW rows \in Seq(Row), NEW r \in Row
    PROVE  Apply(LastWord(rows), r.device, r.facts, r.decision, r.scope)
             = LastWord(Append(rows, r))
  <1> DEFINE new == Append(rows, r)
             was == LastWord(rows)
             now == Apply(was, r.device, r.facts, r.decision, r.scope)
             out == OutcomeOf(r.facts, r.decision, r.scope)
  <1>1. /\ DOMAIN new = 1 .. Len(rows) + 1
        /\ DOMAIN rows = 1 .. Len(rows)
        /\ \A i \in DOMAIN rows : new[i] = rows[i]
        /\ new[Len(rows) + 1] = r
        /\ Len(rows) \in Nat
    OBVIOUS
  <1>2. /\ r.device \in Devices /\ r.decision \in Decision /\ r.scope \in Scope
        /\ r.facts \in Facts
        /\ r.facts.host \in Hosts \union {None} /\ r.facts.hash \in Hashes \union {None}
    BY DEF Row, Facts
  <1>3. /\ out = "deny_confirmed" <=> r.decision = "deny"
        /\ out = "approved" => r.decision = "approve" /\ Keyed(r.facts, r.scope)
    BY <1>2 DEF OutcomeOf, Decision
  <1> HIDE DEF new
  <1>4. ASSUME NEW d \in Devices, NEW h \in Hosts
        PROVE  h \in LastWord(new)[d].hosts <=>
                 \/ ApprovesHost(r, d, h)
                 \/ h \in was[d].hosts /\ ~DeniesHost(r, d, h)
    <2>1. h \in LastWord(new)[d].hosts <=>
            \E i \in DOMAIN new : /\ ApprovesHost(new[i], d, h)
                                  /\ \A j \in DOMAIN new : j > i => ~DeniesHost(new[j], d, h)
      BY DEF LastWord
    <2>2. h \in was[d].hosts <=>
            \E i \in DOMAIN rows : /\ ApprovesHost(rows[i], d, h)
                                   /\ \A j \in DOMAIN rows : j > i => ~DeniesHost(rows[j], d, h)
      BY DEF LastWord
    <2> QED BY <1>1, <2>1, <2>2
  <1>5. ASSUME NEW d \in Devices, NEW x \in Hashes
        PROVE  x \in LastWord(new)[d].hashes <=>
                 \/ ApprovesHash(r, d, x)
                 \/ x \in was[d].hashes /\ ~DeniesHash(r, d, x)
    <2>1. x \in LastWord(new)[d].hashes <=>
            \E i \in DOMAIN new : /\ ApprovesHash(new[i], d, x)
                                  /\ \A j \in DOMAIN new : j > i => ~DeniesHash(new[j], d, x)
      BY DEF LastWord
    <2>2. x \in was[d].hashes <=>
            \E i \in DOMAIN rows : /\ ApprovesHash(rows[i], d, x)
                                   /\ \A j \in DOMAIN rows : j > i => ~DeniesHash(rows[j], d, x)
      BY DEF LastWord
    <2> QED BY <1>1, <2>1, <2>2
  <1>6. /\ was \in [Devices -> Entry] /\ LastWord(new) \in [Devices -> Entry]
    BY DEF LastWord, Entry
  <1>7. now = [was EXCEPT ![r.device] =
                  CASE out = "approved" -> Approved(was[r.device], r.facts, r.scope)
                    [] out = "deny_confirmed" -> Denied(was[r.device], r.facts, r.scope)
                    [] OTHER -> was[r.device]]
    BY DEF Apply
  <1> HIDE DEF was, now
  <1>8. ASSUME NEW d \in Devices PROVE LastWord(new)[d] = now[d]
    <2> DEFINE a == LastWord(new)[d]
               b == was[d]
    <2>1. a \in Entry /\ b \in Entry BY <1>6
    <2>2. \A h \in Hosts : h \in a.hosts <=>
             ApprovesHost(r, d, h) \/ (h \in b.hosts /\ ~DeniesHost(r, d, h))
      BY <1>4
    <2>3. \A x \in Hashes : x \in a.hashes <=>
             ApprovesHash(r, d, x) \/ (x \in b.hashes /\ ~DeniesHash(r, d, x))
      BY <1>5
    <2>4. CASE d # r.device
      <3>1. now[d] = b BY <1>6, <1>7, <2>4
      <3>2. a.hosts = b.hosts /\ a.hashes = b.hashes
        BY <2>1, <2>2, <2>3, <2>4 DEF Entry, ApprovesHost, DeniesHost, ApprovesHash, DeniesHash
      <3> QED BY <2>1, <3>1, <3>2 DEF Entry
    <2>5. CASE d = r.device /\ out = "approved"
      <3>1. now[d] = Approved(b, r.facts, r.scope) BY <1>6, <1>7, <2>5
      <3>2. Approved(b, r.facts, r.scope) \in Entry
        BY <1>2, <1>3, <2>1, <2>5 DEF Approved, Entry, Keyed
      <3>3. a.hosts = Approved(b, r.facts, r.scope).hosts
        BY <1>2, <1>3, <2>1, <2>2, <2>5, <3>2 DEF Entry, ApprovesHost, DeniesHost, Approved
      <3>4. a.hashes = Approved(b, r.facts, r.scope).hashes
        BY <1>2, <1>3, <2>1, <2>3, <2>5, <3>2 DEF Entry, ApprovesHash, DeniesHash, Approved
      <3> QED BY <2>1, <3>1, <3>2, <3>3, <3>4 DEF Entry
    <2>6. CASE d = r.device /\ out = "deny_confirmed"
      <3>1. now[d] = Denied(b, r.facts, r.scope) BY <1>6, <1>7, <2>6
      <3>2. Denied(b, r.facts, r.scope) \in Entry
        BY <2>1 DEF Denied, Entry
      <3>3. a.hosts = Denied(b, r.facts, r.scope).hosts
        BY <1>2, <1>3, <2>1, <2>2, <2>6, <3>2 DEF Entry, ApprovesHost, DeniesHost, Denied
      <3>4. a.hashes = Denied(b, r.facts, r.scope).hashes
        BY <1>2, <1>3, <2>1, <2>3, <2>6, <3>2 DEF Entry, ApprovesHash, DeniesHash, Denied
      <3> QED BY <2>1, <3>1, <3>2, <3>3, <3>4 DEF Entry
    <2>7. CASE d = r.device /\ out # "approved" /\ out # "deny_confirmed"
      <3>1. now[d] = b BY <1>6, <1>7, <2>7
      <3>2. a.hosts = b.hosts /\ a.hashes = b.hashes
        BY <1>3, <2>1, <2>2, <2>3, <2>7 DEF Entry, ApprovesHost, DeniesHost, ApprovesHash, DeniesHash
      <3> QED BY <2>1, <3>1, <3>2 DEF Entry
    <2> QED BY <2>4, <2>5, <2>6, <2>7
  <1> QED BY <1>6, <1>7, <1>8 DEF now, was, new

\* A sequence begins with itself, ...
LEMMA PrefixRefl == ASSUME NEW S, NEW s \in Seq(S) PROVE IsPrefix(s, s)
  BY DEF IsPrefix

\* ... and what it begins with does not change at the end.
LEMMA PrefixAppend ==
    ASSUME NEW S, NEW s \in Seq(S), NEW t \in Seq(S), NEW x \in S, IsPrefix(s, t)
    PROVE  IsPrefix(s, Append(t, x))
  <1>1. Len(s) <= Len(t) /\ SubSeq(s, 1, Len(s)) = SubSeq(t, 1, Len(s))
    BY DEF IsPrefix
  <1>2. SubSeq(Append(t, x), 1, Len(s)) = SubSeq(t, 1, Len(s))
    BY <1>1
  <1> QED BY <1>1, <1>2 DEF IsPrefix

\* Moving the first of one sequence to the end of the one before it.
LEMMA ShiftOne ==
    ASSUME NEW S, NEW s \in Seq(S), NEW t \in Seq(S), t # <<>>
    PROVE  Append(s, Head(t)) \o Tail(t) = s \o t
  <1> DEFINE a == Append(s, Head(t))
             b == Tail(t)
             left == a \o b
             right == s \o t
  <1>1. /\ a \in Seq(S) /\ Len(a) = Len(s) + 1 /\ a[Len(s) + 1] = t[1]
        /\ \A i \in 1 .. Len(s) : a[i] = s[i]
        /\ b \in Seq(S) /\ Len(b) = Len(t) - 1
        /\ \A i \in 1 .. Len(t) - 1 : b[i] = t[i + 1]
        /\ Len(s) \in Nat /\ Len(t) \in Nat \ {0}
    OBVIOUS
  <1>2. /\ left \in Seq(S) /\ Len(left) = Len(a) + Len(b)
        /\ \A i \in 1 .. Len(a) + Len(b) : left[i] = IF i <= Len(a) THEN a[i] ELSE b[i - Len(a)]
    BY <1>1, ConcatProperties
  <1>3. /\ right \in Seq(S) /\ Len(right) = Len(s) + Len(t)
        /\ \A i \in 1 .. Len(s) + Len(t) : right[i] = IF i <= Len(s) THEN s[i] ELSE t[i - Len(s)]
    BY ConcatProperties
  <1> HIDE DEF a, b, left, right
  <1> DEFINE m == Len(s)
             n == Len(t)
  <1>4. /\ m \in Nat /\ n \in Nat \ {0}
        /\ Len(a) = m + 1 /\ Len(a) + Len(b) = m + n
    BY <1>1
  <1>5. \A i \in 1 .. m + n : left[i] = IF i <= m + 1 THEN a[i] ELSE b[i - (m + 1)]
    BY <1>2, <1>4
  <1>6. \A i \in 1 .. m + n : left[i] = right[i]
    <2>1. /\ a[m + 1] = t[1] /\ \A i \in 1 .. m : a[i] = s[i]
          /\ \A i \in 1 .. n - 1 : b[i] = t[i + 1]
          /\ \A i \in 1 .. m + n : right[i] = IF i <= m THEN s[i] ELSE t[i - m]
      BY <1>1, <1>3
    <2> HIDE DEF m, n
    <2> SUFFICES ASSUME NEW i \in 1 .. m + n PROVE left[i] = right[i] OBVIOUS
    <2>2. CASE i <= m BY <1>4, <1>5, <2>1, <2>2
    <2>3. CASE i = m + 1 BY <1>4, <1>5, <2>1, <2>3
    <2>4. CASE i > m + 1
      <3>1. i - (m + 1) \in 1 .. n - 1 /\ (i - (m + 1)) + 1 = i - m
        BY <1>4, <2>4
      <3> QED BY <1>4, <1>5, <2>1, <2>4, <3>1
    <2> QED BY <1>4, <2>2, <2>3, <2>4
  <1>7. left = right
    BY <1>2, <1>3, <1>4, <1>6
  <1> QED BY <1>7 DEF left, right, a, b

\* Every id, and the facts of every alert, are where they should be.
LEMMA AlertFacts ==
    ASSUME NEW e \in Alerts
    PROVE  /\ e.id \in Ids
           /\ e.device \in Devices
           /\ FactsOf(e) \in Facts
           /\ FactsOf(e).host = e.host /\ FactsOf(e).hash = e.hash
           /\ FactsOf(e).category = e.category
  BY ReviewRelayAssumption DEF Ids, FactsOf

\* The facts found under an alert's id are about that id, or name nothing.
LEMMA PendingIsAbout ==
    ASSUME NEW p \in [Ids -> Facts], FromId(p), NEW a \in Alerts
    PROVE  About(p[a.id], a)
  BY AlertFacts DEF FromId, About

\* A queue stays a queue when more alerts count.
LEMMA QueueGrows ==
    ASSUME NEW S, NEW T, S \subseteq T, NEW q \in Seq(S)
    PROVE  q \in Seq(T)
  <1>1. Len(q) \in Nat /\ q \in [1..Len(q) -> S]
    OBVIOUS
  <1>2. q \in [1..Len(q) -> T]
    BY <1>1
  <1> QED BY <1>1, <1>2, IsASeq, SeqDef

\* The queue with one more alert.
LEMMA EnqueuedIn ==
    ASSUME NEW S, ledger \in Seq(S), NEW e \in S
    PROVE  Enqueued(e) \in Seq(S)
  <1> DEFINE all == Append(ledger, e)
  <1>1. all \in Seq(S) /\ Len(all) = Len(ledger) + 1 /\ Len(ledger) \in Nat
    OBVIOUS
  <1> HIDE DEF all
  <1>2. all # <<>>
    BY <1>1
  <1>3. Tail(all) \in Seq(S)
    BY <1>1, <1>2
  <1> QED BY <1>1, <1>3 DEF Enqueued, all

\* The queue with one alert less.
LEMMA WithoutIn ==
    ASSUME NEW S, ledger \in Seq(S), NEW id, Bound(id) # {}
    PROVE  Without(id) \in Seq(S)
  <1> DEFINE k == CHOOSE i \in DOMAIN ledger : ledger[i].id = id
             n == Len(ledger)
  <1>1. k \in DOMAIN ledger
    <2>1. \E i \in DOMAIN ledger : ledger[i].id = id
      BY DEF Bound, ToSet
    <2> QED BY <2>1
  <1>2. Without(id) = SubSeq(ledger, 1, k - 1) \o SubSeq(ledger, k + 1, n)
    BY DEF Without, RemoveAt
  <1> HIDE DEF k
  <1>3. n \in Nat /\ k \in 1..n /\ \A i \in 1..n : ledger[i] \in S
    BY <1>1
  <1>4. (\A i \in 1..k - 1 : ledger[i] \in S) /\ (\A i \in k + 1..n : ledger[i] \in S)
    BY <1>3
  <1>5. SubSeq(ledger, 1, k - 1) \in Seq(S) /\ SubSeq(ledger, k + 1, n) \in Seq(S)
    BY <1>3, <1>4, SubSeqProperties
  <1> QED BY <1>2, <1>5, ConcatProperties

\* Loading or applying one more row keeps the rows well typed and raised.
LEMMA OneMoreRow ==
    ASSUME NEW rows \in Seq(Row), NEW r \in Row, RowsRaised(rows), RowRaised(r)
    PROVE  Append(rows, r) \in Seq(Row) /\ RowsRaised(Append(rows, r))
  BY DEF RowsRaised

-----------------------------------------------------------------------------
(* The invariant is inductive *)

\* It holds of an empty server.
LEMMA InitInv == RelayInit => IInv
  <1> SUFFICES ASSUME RelayInit PROVE IInv OBVIOUS
  <1>1. NoFacts \in Facts /\ ~Names(NoFacts)
    BY DEF NoFacts, Facts, Category, Names
  <1>2. Typed
    BY <1>1 DEF RelayInit, Typed, Files
  <1>3. FromId(pending) /\ FromId(stored.pending)
    BY <1>1 DEF RelayInit, FromId, Files
  <1>4. RowsRaised(audit) /\ RowsRaised(loading) /\ RowsRaised(stored.audit)
    BY DEF RelayInit, RowsRaised, Files
  <1>5. TasksRaised /\ QuietWhileLoading
    BY DEF RelayInit, TasksRaised, QuietWhileLoading
  <1>6. entries = LastWord(audit)
    <2>1. DOMAIN audit = {} BY DEF RelayInit
    <2> QED BY <2>1 DEF RelayInit, LastWord, NoEntries, NothingDecided
  <1>7. JournalRebuilds
    BY <1>6 DEF RelayInit, JournalRebuilds, Serving, IsPrefix, Files
  <1> QED BY <1>2, <1>3, <1>4, <1>5, <1>7 DEF IInv

\* More alerts are raised: what was raised stays so.
LEMMA RaisedGrows ==
    ASSUME raised \subseteq raised'
    PROVE  /\ \A p : FromId(p) => FromId(p)'
           /\ \A r : RowRaised(r) => RowRaised(r)'
           /\ \A rows : RowsRaised(rows) => RowsRaised(rows)'
  <1>1. ASSUME NEW p, FromId(p) PROVE FromId(p)'
    BY <1>1 DEF FromId
  <1>2. ASSUME NEW r, RowRaised(r) PROVE RowRaised(r)'
    BY <1>2 DEF RowRaised, About
  <1>3. ASSUME NEW rows, RowsRaised(rows) PROVE RowsRaised(rows)'
    BY <1>2, <1>3 DEF RowsRaised
  <1> QED BY <1>1, <1>2, <1>3

\* A write of the ledger, and whatever happens to the alerts in flight, leaves
\* the journal, the facts and the decisions alone.
LEMMA LedgerStepInv ==
    ASSUME IInv,
           stored'.pending = stored.pending /\ stored'.audit = stored.audit,
           raised \subseteq raised', raised' \subseteq Alerts, raising' \subseteq raised',
           ledger' \in Seq(raised'), stored'.ledger \in Seq(raised'),
           UNCHANGED <<hub, deciding>>
    PROVE  IInv'
  <1>2. Typed' BY DEF IInv, Typed, hub
  <1>3. FromId(pending)' /\ FromId(stored.pending)'
    BY RaisedGrows DEF IInv, FromId, hub
  <1>4. RowsRaised(audit)' /\ RowsRaised(loading)' /\ RowsRaised(stored.audit)'
    BY RaisedGrows DEF IInv, hub
  <1>5. TasksRaised' /\ QuietWhileLoading'
    BY RaisedGrows DEF IInv, TasksRaised, QuietWhileLoading, Serving, hub
  <1>6. JournalRebuilds'
    BY DEF IInv, JournalRebuilds, Serving, hub
  <1> QED BY <1>2, <1>3, <1>4, <1>5, <1>6 DEF IInv

\* ReviewLedger::record
LEMMA RecordInv ==
    ASSUME IInv, NEW e \in Alerts, NEW o \in WriteOutcomes, Record(e, o)
    PROVE  IInv'
  <1>1. /\ stored'.pending = stored.pending /\ stored'.audit = stored.audit
        /\ UNCHANGED <<hub, deciding>>
    BY DEF Record, LedgerBecomes, Files
  <1>2. /\ raised' = raised \/ raised' = raised \union {e}
        /\ raised \subseteq Alerts /\ raising \subseteq raised
        /\ ledger \in Seq(raised) /\ stored.ledger \in Seq(raised)
    BY DEF Record, IInv, Typed
  <1>3. raising' \subseteq raised'
    BY <1>2 DEF Record
  <1>4. ledger \in Seq(raised') /\ stored.ledger \in Seq(raised')
    BY <1>2, QueueGrows
  <1>5. ledger' \in Seq(raised') /\ stored'.ledger \in Seq(raised')
    <2>1. CASE Bound(e.id) = {} /\ o # "failed"
      <3>1. e \in raised' /\ LedgerBecomes(Enqueued(e), o)
        BY <2>1 DEF Record
      <3>2. Enqueued(e) \in Seq(raised')
        BY <1>4, <3>1, EnqueuedIn
      <3> QED BY <1>4, <2>1, <3>1, <3>2 DEF LedgerBecomes, Files
    <2>2. CASE Bound(e.id) = {} /\ o = "failed"
      BY <1>4, <2>2 DEF Record, LedgerBecomes, Files
    <2>3. CASE Bound(e.id) # {}
      BY <1>4, <2>3 DEF Record
    <2> QED BY <2>1, <2>2, <2>3
  <1> QED BY <1>1, <1>2, <1>3, <1>5, LedgerStepInv

\* AlertHub::publish: the facts of one id change, to those of a raised alert.
LEMMA PublishInv ==
    ASSUME IInv, NEW e \in Alerts, NEW s \in HubSaves(WriteOutcomes), Publish(e, s)
    PROVE  IInv'
  <1>1. /\ e \in raising /\ raising \subseteq raised
        /\ pending' = [pending EXCEPT ![e.id] = FactsOf(e)]
        /\ raising' \subseteq raising
        /\ UNCHANGED <<ledger, audit, entries, loading, deciding, raised>>
        /\ stored' = Files(stored.ledger, IF s THEN pending' ELSE stored.pending, stored.audit)
    BY DEF Publish, IInv, Typed
  <1>2. /\ stored'.audit = stored.audit /\ stored'.ledger = stored.ledger
        /\ stored'.pending = pending' \/ stored'.pending = stored.pending
    BY <1>1 DEF Files
  <1>3. pending' \in [Ids -> Facts]
    BY <1>1, AlertFacts DEF IInv, Typed
  <1>4. Typed'
    BY <1>1, <1>2, <1>3 DEF IInv, Typed
  <1>5. FromId(pending)'
    <2> SUFFICES ASSUME NEW i \in Ids, Names(pending'[i])
                 PROVE  \E f \in raised' : f.id = i /\ FactsOf(f) = pending'[i]
      BY DEF FromId
    <2>1. CASE i = e.id BY <1>1, <2>1 DEF IInv, Typed
    <2>2. CASE i # e.id
      <3>1. pending'[i] = pending[i] BY <1>1, <2>2 DEF IInv, Typed
      <3> QED BY <1>1, <3>1 DEF IInv, FromId
    <2> QED BY <2>1, <2>2
  <1>6. FromId(stored.pending)'
    <2>1. CASE stored'.pending = pending' BY <1>5, <2>1 DEF FromId
    <2>2. CASE stored'.pending = stored.pending
      <3>1. FromId(stored.pending) BY DEF IInv
      <3> QED BY <1>1, <2>2, <3>1 DEF FromId
    <2> QED BY <1>2, <2>1, <2>2
  <1>7. RowsRaised(audit)' /\ RowsRaised(loading)' /\ RowsRaised(stored.audit)'
    BY <1>1, <1>2, RaisedGrows DEF IInv
  <1>8. TasksRaised' /\ QuietWhileLoading'
    BY <1>1, RaisedGrows DEF IInv, TasksRaised, QuietWhileLoading, Serving
  <1>9. JournalRebuilds'
    BY <1>1, <1>2 DEF IInv, JournalRebuilds, Serving
  <1> QED BY <1>4, <1>5, <1>6, <1>7, <1>8, <1>9 DEF IInv

\* A step of one call to its next stage: the row it carries stays raised.
LEMMA TaskStepInv ==
    ASSUME IInv, NEW g \in Guardians, NEW t \in Deciding \union {NotDeciding},
           deciding' = [deciding EXCEPT ![g] = t],
           t # NotDeciding => Serving /\ RowRaised(t.row),
           ledger' \in Seq(raised), stored'.ledger \in Seq(raised),
           stored'.pending = stored.pending /\ stored'.audit = stored.audit,
           UNCHANGED <<hub, raising, raised>>
    PROVE  IInv'
  <1>1. Typed' BY DEF IInv, Typed, hub
  <1>2. FromId(pending)' /\ FromId(stored.pending)'
    BY DEF IInv, FromId, hub
  <1>3. RowsRaised(audit)' /\ RowsRaised(loading)' /\ RowsRaised(stored.audit)'
    BY RaisedGrows DEF IInv, hub
  <1>4. TasksRaised'
    BY RaisedGrows DEF IInv, TasksRaised, Typed
  <1>5. QuietWhileLoading'
    BY DEF IInv, QuietWhileLoading, Serving, Typed, hub
  <1>6. JournalRebuilds'
    BY DEF IInv, JournalRebuilds, Serving, hub
  <1> QED BY <1>1, <1>2, <1>3, <1>4, <1>5, <1>6 DEF IInv

\* SecureReviewService::submit_decision names the alert's own device.
LEMMA AdmitInv ==
    ASSUME IInv, NEW g \in Guardians, NEW e \in Alerts, NEW d \in Devices, NEW q \in Requests,
           Admit(g, e, d, q)
    PROVE  IInv'
  <1> DEFINE r == [device |-> d, alert |-> e, facts |-> NoFacts,
                   decision |-> q.decision, scope |-> q.scope]
             t == At("admitted", r)
  <1>1. /\ Serving
        /\ d = e.device /\ e \in ToSet(ledger)
        /\ q.decision = "approve" => Allowlistable(e.category)
        /\ deciding' = [deciding EXCEPT ![g] = t]
        /\ UNCHANGED <<ledger, hub, stored, raising, raised>>
    BY DEF Admit, AuthorizedFor
  <1>2. r \in Row
    BY ReviewRelayAssumption DEF Row, NoFacts, Facts, Category
  <1>3. About(r.facts, r.alert)
    BY DEF About, Names, NoFacts
  <1>4. ledger \in Seq(raised) /\ stored.ledger \in Seq(raised) /\ e \in raised
    BY <1>1 DEF IInv, Typed, ToSet
  <1>6. RowRaised(r)
    BY <1>1, <1>3, <1>4 DEF RowRaised
  <1> HIDE DEF r
  <1>5. t \in Deciding /\ t.row = r
    BY <1>2 DEF Deciding, At
  <1> HIDE DEF t
  <1> QED BY <1>1, <1>4, <1>5, <1>6, TaskStepInv

\* A call at a stage carries a row and is served.
LEMMA InFlight ==
    ASSUME IInv, NEW g \in Guardians, deciding[g] # NotDeciding
    PROVE  /\ Serving
           /\ deciding[g] \in Deciding
           /\ deciding[g].row \in Row
           /\ RowRaised(deciding[g].row)
           /\ ledger \in Seq(raised) /\ stored.ledger \in Seq(raised)
  BY DEF IInv, Typed, QuietWhileLoading, TasksRaised, Deciding

\* AlertHub::resolve_item: what is found under the alert's id was raised
\* under it.
LEMMA ResolveInv ==
    ASSUME IInv, NEW g \in Guardians, Resolve(g)
    PROVE  IInv'
  <1> DEFINE q == deciding[g].row
             r == [device |-> q.device, alert |-> q.alert, facts |-> pending[q.alert.id],
                   decision |-> q.decision, scope |-> q.scope]
             t == At("resolved", r)
  <1>1. /\ deciding[g] # NotDeciding
        /\ deciding' = [deciding EXCEPT ![g] = t]
        /\ UNCHANGED <<ledger, hub, stored, raising, raised>>
    BY DEF Resolve, NotDeciding
  <1>2. Serving /\ q \in Row /\ RowRaised(q) /\ ledger \in Seq(raised) /\ stored.ledger \in Seq(raised)
    BY <1>1, InFlight
  <1> HIDE DEF q
  <1>3. q.alert \in Alerts /\ q.alert.id \in Ids
    BY <1>2, AlertFacts DEF Row
  <1>4. r \in Row
    BY <1>2, <1>3 DEF Row, IInv, Typed
  <1>5. About(r.facts, r.alert)
    BY <1>3, PendingIsAbout DEF IInv, Typed
  <1>6. RowRaised(r)
    BY <1>2, <1>5 DEF RowRaised
  <1> HIDE DEF r
  <1>7. t \in Deciding /\ t.row = r
    BY <1>4 DEF Deciding, At
  <1> HIDE DEF t
  <1> QED BY <1>1, <1>2, <1>6, <1>7, TaskStepInv

\* AlertHub::effective_scope reads the pending facts once more, and only to
\* choose the scope.
LEMMA ChooseScopeInv ==
    ASSUME IInv, NEW g \in Guardians, ChooseScope(g)
    PROVE  IInv'
  <1> DEFINE q == deciding[g].row
             s == EffectiveScope(pending[q.alert.id], q.decision, q.scope)
             r == [device |-> q.device, alert |-> q.alert, facts |-> q.facts,
                   decision |-> q.decision, scope |-> s]
             t == At("scoped", r)
  <1>1. /\ deciding[g] # NotDeciding
        /\ deciding' = [deciding EXCEPT ![g] = t]
        /\ UNCHANGED <<ledger, hub, stored, raising, raised>>
    BY DEF ChooseScope, NotDeciding
  <1>2. Serving /\ q \in Row /\ RowRaised(q) /\ ledger \in Seq(raised) /\ stored.ledger \in Seq(raised)
    BY <1>1, InFlight
  <1> HIDE DEF q
  <1>3. s \in Scope
    BY <1>2 DEF EffectiveScope, Scope, Row
  <1> HIDE DEF s
  <1>4. r \in Row
    BY <1>2, <1>3 DEF Row
  <1>5. RowRaised(r)
    BY <1>2 DEF RowRaised
  <1> HIDE DEF r
  <1>6. t \in Deciding /\ t.row = r
    BY <1>4 DEF Deciding, At
  <1> HIDE DEF t
  <1> QED BY <1>1, <1>2, <1>5, <1>6, TaskStepInv

\* ReviewLedger::retire
LEMMA RetireInv ==
    ASSUME IInv, NEW g \in Guardians, NEW o \in WriteOutcomes, Retire(g, o)
    PROVE  IInv'
  <1>1. stored'.pending = stored.pending /\ stored'.audit = stored.audit
    BY DEF Retire, LedgerBecomes, Files
  <1>2. deciding' = [deciding EXCEPT ![g] = NotDeciding] /\ UNCHANGED <<hub, raising, raised>>
    BY DEF Retire
  <1>3. ledger \in Seq(raised) /\ stored.ledger \in Seq(raised)
    BY DEF IInv, Typed
  <1>4. ledger' \in Seq(raised) /\ stored'.ledger \in Seq(raised)
    <2> DEFINE id == deciding[g].row.alert.id
    <2>1. CASE Bound(id) = {}
      BY <1>3, <2>1 DEF Retire
    <2>2. CASE Bound(id) # {}
      <3>1. Without(id) \in Seq(raised)
        BY <1>3, <2>2, WithoutIn
      <3> QED BY <1>3, <2>2, <3>1 DEF Retire, LedgerBecomes, Files
    <2> QED BY <2>1, <2>2
  <1> QED BY <1>1, <1>2, <1>4, TaskStepInv

\* AlertHub::apply_decision: the allowlist and the journal move together.
LEMMA ApplyDecisionInv ==
    ASSUME IInv, NEW g \in Guardians, NEW s \in HubSaves(WriteOutcomes), ApplyDecision(g, s)
    PROVE  IInv'
  <1> DEFINE r == deciding[g].row
             t == IF Settles(OutcomeOf(r.facts, r.decision, r.scope)) THEN At("applied", r) ELSE NotDeciding
  <1>1. /\ deciding[g] # NotDeciding
        /\ entries' = Apply(entries, r.device, r.facts, r.decision, r.scope)
        /\ audit' = Append(audit, r)
        /\ deciding' = [deciding EXCEPT ![g] = t]
        /\ stored' = Files(stored.ledger, stored.pending, IF s THEN audit' ELSE stored.audit)
        /\ UNCHANGED <<ledger, pending, loading, raising, raised>>
    BY DEF ApplyDecision, NotDeciding, Journalled
  <1>2. /\ loading = <<>>
        /\ r \in Row
        /\ RowRaised(r)
    BY <1>1, InFlight DEF Serving
  <1> HIDE DEF r
  <1>3. /\ t \in Deciding \union {NotDeciding}
        /\ t # NotDeciding => t.row = r
    BY <1>2 DEF Deciding, At
  <1> HIDE DEF t
  <1>4. /\ stored'.pending = stored.pending /\ stored'.ledger = stored.ledger
        /\ stored'.audit = audit' \/ stored'.audit = stored.audit
    BY <1>1 DEF Files
  <1>5. audit \in Seq(Row) /\ stored.audit \in Seq(Row) /\ RowsRaised(audit)
    BY DEF IInv, Typed
  <1>6. audit' \in Seq(Row) /\ RowsRaised(audit')
    BY <1>1, <1>2, <1>5, OneMoreRow
  <1>7. Typed'
    BY <1>1, <1>3, <1>4, <1>6 DEF IInv, Typed
  <1>8. FromId(pending)' /\ FromId(stored.pending)'
    BY <1>1, <1>4 DEF IInv, FromId
  <1>9. RowsRaised(audit)' /\ RowsRaised(loading)' /\ RowsRaised(stored.audit)'
    <2>1. RowsRaised(audit)' BY <1>1, <1>6, RaisedGrows
    <2>2. RowsRaised(loading)' BY <1>1, RaisedGrows DEF IInv
    <2>3. RowsRaised(stored.audit)'
      <3>1. CASE stored'.audit = audit' BY <2>1, <3>1 DEF RowsRaised
      <3>2. CASE stored'.audit = stored.audit BY <1>1, <3>2, RaisedGrows DEF IInv
      <3> QED BY <1>4, <3>1, <3>2
    <2> QED BY <2>1, <2>2, <2>3
  <1>10. TasksRaised'
    BY <1>1, <1>2, <1>3, RaisedGrows DEF IInv, Typed, TasksRaised
  <1>11. QuietWhileLoading'
    BY <1>1, <1>2 DEF QuietWhileLoading, Serving
  <1>12. JournalRebuilds'
    <2>1. entries = LastWord(audit) /\ IsPrefix(stored.audit, audit)
      BY <1>2 DEF IInv, JournalRebuilds, Serving
    <2>2. entries' = LastWord(audit')
      BY <1>1, <1>2, <1>5, <2>1, ApplyIsLastWord
    <2>3. IsPrefix(stored'.audit, audit')
      BY <1>1, <1>2, <1>4, <1>5, <1>6, <2>1, PrefixRefl, PrefixAppend
    <2> QED BY <1>1, <1>2, <2>2, <2>3 DEF JournalRebuilds, Serving
  <1> QED BY <1>7, <1>8, <1>9, <1>10, <1>11, <1>12 DEF IInv

\* A crash: the journal on disk is all there is, and nothing of it is applied.
LEMMA RestartInv == ASSUME IInv, RelayRestart PROVE IInv'
  <1>1. /\ pending' = stored.pending /\ entries' = NoEntries /\ audit' = <<>>
        /\ loading' = stored.audit /\ raising' = {} /\ UNCHANGED <<stored, raised>>
        /\ ledger' = stored.ledger
        /\ deciding' = [g \in Guardians |-> NotDeciding]
    BY DEF RelayRestart
  <1>2. Typed' BY <1>1 DEF IInv, Typed
  <1>3. FromId(pending)' /\ FromId(stored.pending)'
    BY <1>1 DEF IInv, FromId
  <1>4. RowsRaised(audit)' /\ RowsRaised(loading)' /\ RowsRaised(stored.audit)'
    <2>1. RowsRaised(<<>>)
      BY DEF RowsRaised
    <2> QED BY <1>1, <2>1, RaisedGrows DEF IInv
  <1>5. TasksRaised' /\ QuietWhileLoading'
    BY <1>1 DEF TasksRaised, QuietWhileLoading
  <1>6. JournalRebuilds'
    <2>1. entries' = LastWord(audit')
      <3>1. DOMAIN audit' = {} BY <1>1
      <3> QED BY <1>1, <3>1 DEF LastWord, NoEntries, NothingDecided
    <2>2. audit' \o loading' = stored'.audit
      BY <1>1 DEF IInv, Typed
    <2>3. loading' = <<>> => IsPrefix(stored'.audit, audit')
      BY <1>1 DEF IsPrefix
    <2> QED BY <2>1, <2>2, <2>3 DEF JournalRebuilds, Serving
  <1> QED BY <1>2, <1>3, <1>4, <1>5, <1>6 DEF IInv

\* replay_audit: one more row of the journal.
LEMMA LoadRowInv == ASSUME IInv, LoadRow PROVE IInv'
  <1> DEFINE r == Head(loading)
  <1>1. /\ loading # <<>>
        /\ entries' = Apply(entries, r.device, r.facts, r.decision, r.scope)
        /\ audit' = Append(audit, r)
        /\ loading' = Tail(loading)
        /\ UNCHANGED <<ledger, pending, stored, raising, deciding, raised>>
    BY DEF LoadRow, Serving
  <1>2. /\ audit \in Seq(Row) /\ loading \in Seq(Row)
        /\ RowsRaised(audit) /\ RowsRaised(loading)
        /\ entries = LastWord(audit) /\ audit \o loading = stored.audit
        /\ \A g \in Guardians : deciding[g] = NotDeciding
    BY <1>1 DEF IInv, Typed, JournalRebuilds, Serving, QuietWhileLoading
  <1>3. /\ r \in Row /\ Tail(loading) \in Seq(Row)
        /\ RowRaised(r)
        /\ RowsRaised(Tail(loading))
    <2>1. r = loading[1] /\ 1 \in DOMAIN loading /\ r \in Row
      BY <1>1, <1>2
    <2>2. /\ Tail(loading) \in Seq(Row)
          /\ \A i \in DOMAIN Tail(loading) :
                i + 1 \in DOMAIN loading /\ Tail(loading)[i] = loading[i + 1]
      BY <1>1, <1>2
    <2> QED BY <1>2, <2>1, <2>2 DEF RowsRaised
  <1> HIDE DEF r
  <1>4. audit' \in Seq(Row) /\ RowsRaised(audit')
    BY <1>1, <1>2, <1>3, OneMoreRow
  <1>5. Typed' BY <1>1, <1>3, <1>4 DEF IInv, Typed
  <1>6. FromId(pending)' /\ FromId(stored.pending)'
    BY <1>1 DEF IInv, FromId
  <1>7. RowsRaised(audit)' /\ RowsRaised(loading)' /\ RowsRaised(stored.audit)'
    BY <1>1, <1>3, <1>4, RaisedGrows DEF IInv
  <1>8. TasksRaised' /\ QuietWhileLoading'
    BY <1>1, <1>2 DEF TasksRaised, QuietWhileLoading
  <1>9. JournalRebuilds'
    <2>1. entries' = LastWord(audit')
      BY <1>1, <1>2, <1>3, ApplyIsLastWord
    <2>2. audit' \o loading' = stored'.audit
      BY <1>1, <1>2, ShiftOne DEF r
    <2>3. loading' = <<>> => audit' = stored'.audit
      BY <1>4, <2>2
    <2>4. loading' = <<>> => IsPrefix(stored'.audit, audit')
      BY <1>4, <2>3, PrefixRefl
    <2> QED BY <2>1, <2>2, <2>4 DEF JournalRebuilds, Serving
  <1> QED BY <1>5, <1>6, <1>7, <1>8, <1>9 DEF IInv

\* A stuttering step.
LEMMA StutterInv == ASSUME IInv, UNCHANGED relayVars PROVE IInv'
  BY LedgerStepInv DEF relayVars, IInv, Typed

\* Every action preserves the invariant.
LEMMA InvHolds == RelaySpec => []IInv
  <1>1. IInv /\ [RelayNext]_relayVars => IInv'
    BY RecordInv, PublishInv, AdmitInv, ResolveInv, ChooseScopeInv, ApplyDecisionInv,
       RetireInv, RestartInv, LoadRowInv, StutterInv DEF RelayNext, Steps
  <1> QED BY <1>1, InitInv, PTL DEF RelaySpec

-----------------------------------------------------------------------------
(* The theorems *)

\* At every moment, loading included, the allowlist is the one in which the
\* last word of the journal counts, and the journal on disk is a beginning of
\* the one in memory (AlertHub::apply_decision, replay_audit).
THEOREM JournalSafe == RelaySpec => []JournalRebuilds
  <1>1. IInv => JournalRebuilds BY DEF IInv
  <1> QED BY <1>1, InvHolds, PTL

\* No decision, race, eviction, reuse of an id by the same or another device, failed
\* write or crash allows content on a device that was not raised in a category that
\* may be approved, under an id that the device raised in such a category too
\* (SecureReviewService::submit_decision, Allowlist::apply_approve).
THEOREM AllowedSafe == RelaySpec => []AllowedWasRaisedHere
  <1>1. IInv => AllowedWasRaisedHere
    <2> SUFFICES ASSUME IInv PROVE AllowedWasRaisedHere OBVIOUS
    <2>1. /\ entries = LastWord(audit) /\ audit \in Seq(Row) /\ raised \subseteq Alerts
          /\ \A i \in DOMAIN audit : audit[i] \in Row /\ RowRaised(audit[i])
      BY DEF IInv, JournalRebuilds, Typed, RowsRaised
    <2>2. ASSUME NEW d \in Devices, NEW h \in entries[d].hosts
          PROVE  \E e \in raised : e.host = h /\ RaisedUnder(d, e)
      <3>1. PICK i \in DOMAIN audit : ApprovesHost(audit[i], d, h) /\ h \in Hosts
        BY <2>1, <2>2 DEF LastWord
      <3>2. /\ audit[i].device = d /\ audit[i].facts.host = h /\ h # None
            /\ audit[i].facts.category = "reviewable" /\ audit[i].decision = "approve"
        BY <2>1, <3>1, AllowlistAssumption
           DEF ApprovesHost, OutcomeOf, Allowlistable, Row, Facts, Category, Decision
      <3>3. PICK e \in raised : e.id = audit[i].alert.id /\ FactsOf(e) = audit[i].facts
        BY <2>1, <3>2 DEF RowRaised, About, Names
      <3>4. /\ audit[i].alert \in raised /\ audit[i].alert.device = d
            /\ audit[i].alert.category = "reviewable"
        BY <2>1, <3>2, AlertFacts DEF RowRaised, Allowlistable, Row, Facts, Category
      <3> QED BY <2>1, <3>2, <3>3, <3>4, AlertFacts DEF RaisedUnder
    <2>3. ASSUME NEW d \in Devices, NEW x \in entries[d].hashes
          PROVE  \E e \in raised : e.hash = x /\ RaisedUnder(d, e)
      <3>1. PICK i \in DOMAIN audit : ApprovesHash(audit[i], d, x) /\ x \in Hashes
        BY <2>1, <2>3 DEF LastWord
      <3>2. /\ audit[i].device = d /\ audit[i].facts.hash = x /\ x # None
            /\ audit[i].facts.category = "reviewable" /\ audit[i].decision = "approve"
        BY <2>1, <3>1, AllowlistAssumption
           DEF ApprovesHash, OutcomeOf, Allowlistable, Row, Facts, Category, Decision
      <3>3. PICK e \in raised : e.id = audit[i].alert.id /\ FactsOf(e) = audit[i].facts
        BY <2>1, <3>2 DEF RowRaised, About, Names
      <3>4. /\ audit[i].alert \in raised /\ audit[i].alert.device = d
            /\ audit[i].alert.category = "reviewable"
        BY <2>1, <3>2, AlertFacts DEF RowRaised, Allowlistable, Row, Facts, Category
      <3> QED BY <2>1, <3>2, <3>3, <3>4, AlertFacts DEF RaisedUnder
    <2> QED BY <2>2, <2>3 DEF AllowedWasRaisedHere
  <1> QED BY <1>1, InvHolds, PTL

-----------------------------------------------------------------------------
(* The queue *)

\* The types of the queue in memory and on disk.
Queue(q) == q \in Seq(Alerts) /\ Len(q) <= MaxLedger

\* A call that goes on to retire an alert has had its decision applied, ...
AppliedIsDecided ==
    \A g \in Guardians : deciding[g].stage = "applied" => Decided(deciding[g].row.alert.id)

\* ... and so a restart, on a file that may be ahead of the memory, is as good as the
\* step whose write took effect and was reported as failed.
QueueInv ==
    /\ Queue(ledger) /\ Queue(stored.ledger)
    /\ AppliedIsDecided
    /\ LeftFor(stored.ledger)

\* Nobody leaves a queue that stays.
LEMMA NobodyLeft == LeftFor(ledger)
  BY DEF LeftFor

\* A new alert takes the place of the oldest only when the queue is full.
LEMMA EnqueueLeaves ==
    ASSUME Queue(ledger), NEW e \in Alerts, Bound(e.id) = {}
    PROVE  Queue(Enqueued(e)) /\ LeftFor(Enqueued(e))
  <1> DEFINE all == Append(ledger, e)
             n == Len(ledger)
  <1>1. /\ n \in Nat /\ n <= MaxLedger /\ MaxLedger \in Nat \ {0} /\ ledger \in Seq(Alerts)
        /\ e \notin ToSet(ledger)
    BY ReviewRelayAssumption DEF Queue, Bound
  <1>2. /\ all \in Seq(Alerts) /\ Len(all) = n + 1 /\ all[n + 1] = e
        /\ \A i \in 1..n : all[i] = ledger[i]
    BY <1>1, AppendProperties
  <1>3. DOMAIN all = 1..n + 1 /\ DOMAIN ledger = 1..n
    BY <1>1, <1>2
  <1> HIDE DEF all, n
  <1>4. CASE n + 1 > MaxLedger
    <2> DEFINE next == Tail(all)
    <2>1. Enqueued(e) = next /\ n = MaxLedger /\ all # <<>>
      BY <1>1, <1>2, <1>4 DEF Enqueued, all, n
    <2>2. /\ next \in Seq(Alerts) /\ Len(next) = n /\ \A i \in 1..n : next[i] = all[i + 1]
      <3>1. /\ next \in Seq(Alerts) /\ Len(next) = Len(all) - 1
            /\ \A i \in 1..Len(next) : next[i] = all[i + 1]
        BY <1>2, <2>1, HeadTailProperties
      <3> HIDE DEF next
      <3> QED BY <1>1, <1>2, <3>1
    <2> HIDE DEF next
    <2>3. DOMAIN next = 1..n
      BY <2>2
    <2>4. e \in ToSet(next)
      <3>1. n \in 1..n /\ next[n] = e
        BY <1>1, <1>2, <2>1, <2>2
      <3> QED BY <2>3, <3>1 DEF ToSet
    <2> QED BY <1>1, <2>1, <2>2, <2>4 DEF Queue, LeftFor, n
  <1>5. CASE ~(n + 1 > MaxLedger)
    <2>1. Enqueued(e) = all /\ Len(all) <= MaxLedger
      BY <1>1, <1>2, <1>5 DEF Enqueued, all, n
    <2>2. ToSet(ledger) \subseteq ToSet(all)
      <3> SUFFICES ASSUME NEW i \in 1..n PROVE ledger[i] \in ToSet(all)
        BY <1>3 DEF ToSet
      <3>1. i \in DOMAIN all /\ all[i] = ledger[i]
        BY <1>1, <1>2, <1>3
      <3> QED BY <3>1 DEF ToSet
    <2> QED BY <1>2, <2>1, <2>2 DEF Queue, LeftFor
  <1> QED BY <1>4, <1>5

\* Retiring frees one position, and the others keep theirs.
LEMMA RetireLeaves ==
    ASSUME Queue(ledger), NEW id, Bound(id) # {}, Decided(id)
    PROVE  Queue(Without(id)) /\ LeftFor(Without(id))
  <1> DEFINE k == CHOOSE i \in DOMAIN ledger : ledger[i].id = id
             n == Len(ledger)
             a == SubSeq(ledger, 1, k - 1)
             z == SubSeq(ledger, k + 1, n)
             next == a \o z
  <1>1. k \in DOMAIN ledger /\ ledger[k].id = id
    <2>1. \E i \in DOMAIN ledger : ledger[i].id = id
      BY DEF Bound, ToSet
    <2> QED BY <2>1
  <1>2. Without(id) = next
    BY DEF Without, RemoveAt
  <1> HIDE DEF k
  <1>3. /\ n \in Nat /\ ledger \in Seq(Alerts) /\ DOMAIN ledger = 1..n /\ k \in 1..n
        /\ n <= MaxLedger /\ MaxLedger \in Nat /\ \A i \in 1..n : ledger[i] \in Alerts
    BY <1>1, ReviewRelayAssumption DEF Queue
  <1> HIDE DEF n
  <1>4. /\ a \in Seq(Alerts) /\ Len(a) = k - 1 /\ \A i \in 1..k - 1 : a[i] = ledger[i]
    <2>1. \A i \in 1..k - 1 : ledger[i] \in Alerts
      BY <1>3
    <2>2. /\ a \in Seq(Alerts) /\ Len(a) = (IF 1 <= k - 1 THEN k - 1 - 1 + 1 ELSE 0)
          /\ \A i \in 1..k - 1 - 1 + 1 : a[i] = ledger[1 + i - 1]
      BY <1>3, <2>1, SubSeqProperties DEF n
    <2> HIDE DEF a
    <2>3. Len(a) = k - 1
      BY <1>3, <2>2
    <2>4. \A i \in 1..k - 1 : i \in 1..k - 1 - 1 + 1 /\ 1 + i - 1 = i
      BY <1>3
    <2> QED BY <2>2, <2>3, <2>4
  <1>5. /\ z \in Seq(Alerts) /\ Len(z) = n - k /\ \A i \in 1..n - k : z[i] = ledger[k + i]
    <2>1. \A i \in k + 1..n : ledger[i] \in Alerts
      BY <1>3
    <2>2. /\ z \in Seq(Alerts) /\ Len(z) = (IF k + 1 <= n THEN n - (k + 1) + 1 ELSE 0)
          /\ \A i \in 1..n - (k + 1) + 1 : z[i] = ledger[k + 1 + i - 1]
      BY <1>3, <2>1, SubSeqProperties DEF n
    <2> HIDE DEF z
    <2>3. Len(z) = n - k
      <3>1. CASE k + 1 <= n
        BY <1>3, <2>2, <3>1
      <3>2. CASE ~(k + 1 <= n)
        BY <1>3, <2>2, <3>2
      <3> QED BY <3>1, <3>2
    <2>4. \A i \in 1..n - k : i \in 1..n - (k + 1) + 1 /\ k + 1 + i - 1 = k + i
      BY <1>3
    <2> QED BY <2>2, <2>3, <2>4
  <1> HIDE DEF a, z
  <1>6. /\ next \in Seq(Alerts) /\ Len(next) = n - 1
        /\ \A i \in 1..n - 1 : next[i] = IF i <= k - 1 THEN a[i] ELSE z[i - (k - 1)]
    <2>1. /\ next \in Seq(Alerts) /\ Len(next) = Len(a) + Len(z)
          /\ \A i \in 1..Len(a) + Len(z) :
                next[i] = IF i <= Len(a) THEN a[i] ELSE z[i - Len(a)]
      BY <1>4, <1>5, ConcatProperties
    <2> HIDE DEF next
    <2>2. Len(a) + Len(z) = n - 1
      BY <1>3, <1>4, <1>5
    <2> QED BY <1>4, <2>1, <2>2
  <1> HIDE DEF next
  <1>7. DOMAIN next = 1..n - 1
    BY <1>3, <1>6
  <1>8. ASSUME NEW i \in 1..n, i # k PROVE ledger[i] \in ToSet(next)
    <2>1. CASE i < k
      <3>1. i \in 1..n - 1 /\ i \in 1..k - 1 /\ i <= k - 1
        BY <1>3, <2>1
      <3>2. next[i] = ledger[i]
        BY <1>4, <1>6, <3>1
      <3> QED BY <1>7, <3>1, <3>2 DEF ToSet
    <2>2. CASE ~(i < k)
      <3> DEFINE j == i - 1
      <3>1. /\ j \in 1..n - 1 /\ ~(j <= k - 1) /\ j - (k - 1) = i - k
            /\ i - k \in 1..n - k /\ k + (i - k) = i
        BY <1>3, <1>8, <2>2
      <3> HIDE DEF j
      <3>2. next[j] = ledger[i]
        BY <1>5, <1>6, <3>1
      <3> QED BY <1>7, <3>1, <3>2 DEF ToSet
    <2> QED BY <2>1, <2>2
  <1>9. \A x \in ToSet(ledger) \ ToSet(next) : x.id = id
    BY <1>1, <1>3, <1>8 DEF ToSet
  <1>10. Queue(next)
    BY <1>3, <1>6 DEF Queue
  <1> QED BY <1>2, <1>9, <1>10 DEF LeftFor

\* One more row in the log takes no decision back.
LEMMA MoreRows ==
    ASSUME audit \in Seq(Row), NEW r \in Row, audit' = Append(audit, r)
    PROVE  /\ \A id : Decided(id) => Decided(id)'
           /\ r.decision = "deny" \/ (r.facts # NoFacts /\ r.facts.category = "reviewable")
                 => Decided(r.alert.id)'
  <1>1. /\ DOMAIN audit = 1..Len(audit) /\ DOMAIN audit' = 1..Len(audit) + 1 /\ Len(audit) \in Nat
        /\ audit'[Len(audit) + 1] = r /\ \A i \in 1..Len(audit) : audit'[i] = audit[i]
    OBVIOUS
  <1>2. Len(audit) + 1 \in DOMAIN audit' /\ \A i \in DOMAIN audit : i \in DOMAIN audit'
    BY <1>1
  <1> QED BY <1>1, <1>2 DEF Decided

\* A step that leaves the queue, its file and the log alone.
LEMMA QueueSame ==
    ASSUME QueueInv, UNCHANGED <<ledger, audit>>, stored'.ledger = stored.ledger,
           \A g \in Guardians : deciding'[g].stage = "applied" => deciding'[g] = deciding[g]
    PROVE  QueueInv' /\ LeftFor(ledger')
  <1>1. LeftFor(stored.ledger)' /\ Queue(ledger)' /\ Queue(stored.ledger)'
    BY DEF QueueInv, LeftFor, Decided, Queue
  <1>2. AppliedIsDecided'
    BY DEF QueueInv, AppliedIsDecided, Decided
  <1> QED BY <1>1, <1>2, NobodyLeft DEF QueueInv

\* A write of the queue, however it ends.
LEMMA QueueWritten ==
    ASSUME QueueInv, NEW next, Queue(next), LeftFor(next), NEW o \in WriteOutcomes,
           LedgerBecomes(next, o), UNCHANGED audit,
           \A g \in Guardians : deciding'[g].stage = "applied" => deciding'[g] = deciding[g]
    PROVE  QueueInv' /\ LeftFor(ledger')
  <1>1. /\ stored'.ledger = (IF o = "failed" THEN stored.ledger ELSE next)
        /\ ledger' = (IF o = "ok" THEN next ELSE ledger)
    BY DEF LedgerBecomes, Files
  <1>2. LeftFor(ledger') /\ Queue(ledger)' /\ Queue(stored.ledger)'
    BY <1>1, NobodyLeft DEF QueueInv, Queue
  <1>3. AppliedIsDecided'
    BY DEF QueueInv, AppliedIsDecided, Decided
  <1>4. LeftFor(stored.ledger)'
    <2>1. CASE o = "ok"
      BY <1>1, <2>1 DEF LeftFor
    <2>2. CASE o # "ok"
      <3>1. ledger' = ledger /\ LeftFor(stored'.ledger)
        BY <1>1, <2>2 DEF QueueInv
      <3> QED BY <3>1 DEF LeftFor, Decided
    <2> QED BY <2>1, <2>2
  <1> QED BY <1>2, <1>3, <1>4 DEF QueueInv

\* Every step keeps the queue and its file in step, and lets nobody go undecided.
LEMMA QueueStep ==
    ASSUME IInv, QueueInv, [RelayNext]_relayVars
    PROVE  QueueInv' /\ LeftFor(ledger')
  <1>1. CASE UNCHANGED relayVars
    BY <1>1, QueueSame DEF relayVars, hub
  <1>2. ASSUME NEW e \in Alerts, NEW o \in WriteOutcomes, Record(e, o)
        PROVE  QueueInv' /\ LeftFor(ledger')
    <2>1. CASE Bound(e.id) = {}
      <3>1. Queue(Enqueued(e)) /\ LeftFor(Enqueued(e))
        BY <2>1, EnqueueLeaves DEF QueueInv
      <3> QED BY <1>2, <2>1, <3>1, QueueWritten DEF Record, hub
    <2>2. CASE Bound(e.id) # {}
      BY <1>2, <2>2, QueueSame DEF Record, hub
    <2> QED BY <2>1, <2>2
  <1>3. ASSUME NEW e \in Alerts, NEW s \in HubSaves(WriteOutcomes), Publish(e, s)
        PROVE  QueueInv' /\ LeftFor(ledger')
    BY <1>3, QueueSame DEF Publish, Files
  <1>4. ASSUME NEW g \in Guardians, NEW t, t.stage # "applied",
               deciding' = [deciding EXCEPT ![g] = t], UNCHANGED <<ledger, hub, stored>>
        PROVE  QueueInv' /\ LeftFor(ledger')
    <2>1. \A h \in Guardians : deciding'[h].stage = "applied" => deciding'[h] = deciding[h]
      BY <1>4 DEF IInv, Typed
    <2> QED BY <1>4, <2>1, QueueSame DEF hub
  <1>5. ASSUME NEW g \in Guardians, NEW e \in Alerts, NEW d \in Devices, NEW q \in Requests,
               Admit(g, e, d, q)
        PROVE  QueueInv' /\ LeftFor(ledger')
    <2> DEFINE t == At("admitted", [device |-> d, alert |-> e, facts |-> NoFacts,
                                    decision |-> q.decision, scope |-> q.scope])
    <2>1. t.stage # "applied"
      BY DEF At
    <2>2. deciding' = [deciding EXCEPT ![g] = t] /\ UNCHANGED <<ledger, hub, stored>>
      BY <1>5 DEF Admit
    <2> HIDE DEF t
    <2> QED BY <1>4, <2>1, <2>2
  <1>6. ASSUME NEW g \in Guardians, Resolve(g)
        PROVE  QueueInv' /\ LeftFor(ledger')
    <2> DEFINE q == deciding[g].row
               t == At("resolved", [device |-> q.device, alert |-> q.alert,
                                    facts |-> pending[q.alert.id],
                                    decision |-> q.decision, scope |-> q.scope])
    <2>1. t.stage # "applied"
      BY DEF At
    <2>2. deciding' = [deciding EXCEPT ![g] = t] /\ UNCHANGED <<ledger, hub, stored>>
      BY <1>6 DEF Resolve
    <2> HIDE DEF t
    <2> QED BY <1>4, <2>1, <2>2
  <1>7. ASSUME NEW g \in Guardians, ChooseScope(g)
        PROVE  QueueInv' /\ LeftFor(ledger')
    <2> DEFINE q == deciding[g].row
               t == At("scoped", [device |-> q.device, alert |-> q.alert, facts |-> q.facts,
                                  decision |-> q.decision,
                                  scope |-> EffectiveScope(pending[q.alert.id], q.decision, q.scope)])
    <2>1. t.stage # "applied"
      BY DEF At
    <2>2. deciding' = [deciding EXCEPT ![g] = t] /\ UNCHANGED <<ledger, hub, stored>>
      BY <1>7 DEF ChooseScope
    <2> HIDE DEF t
    <2> QED BY <1>4, <2>1, <2>2
  <1>8. ASSUME NEW g \in Guardians, NEW s \in HubSaves(WriteOutcomes), ApplyDecision(g, s)
        PROVE  QueueInv' /\ LeftFor(ledger')
    <2>1. deciding[g] # NotDeciding /\ stored'.ledger = stored.ledger /\ UNCHANGED ledger
      BY <1>8 DEF ApplyDecision, NotDeciding, Files
    <2>2. PICK r \in Row : r = deciding[g].row
      BY <2>1, InFlight
    <2> DEFINE settled == Settles(OutcomeOf(r.facts, r.decision, r.scope))
               t == IF settled THEN At("applied", r) ELSE NotDeciding
    <2>3. /\ audit' = Append(audit, r) /\ audit \in Seq(Row)
          /\ deciding' = [deciding EXCEPT ![g] = t] /\ deciding \in [Guardians -> Deciding \union {NotDeciding}]
      BY <1>8, <2>2 DEF ApplyDecision, Journalled, IInv, Typed
    <2>4. settled => \/ r.decision = "deny"
                     \/ r.facts # NoFacts /\ r.facts.category = "reviewable"
      BY <2>2 DEF Settles, OutcomeOf, Allowlistable, Row, Facts, Category, Decision, NoFacts
    <2>5. t.stage = "applied" => settled /\ t.row = r
      BY DEF At, NotDeciding
    <2> HIDE DEF t, settled
    <2>6. /\ \A id : Decided(id) => Decided(id)'
          /\ settled => Decided(r.alert.id)'
      BY <2>2, <2>3, <2>4, MoreRows
    <2>7. ASSUME NEW h \in Guardians, deciding'[h].stage = "applied"
          PROVE  \E id : id = deciding'[h].row.alert.id /\ Decided(id)'
      <3>1. CASE h = g
        <4>1. deciding'[h] = t
          BY <2>3, <3>1
        <4> QED BY <2>5, <2>6, <2>7, <4>1
      <3>2. CASE h # g
        <4>1. deciding'[h] = deciding[h]
          BY <2>3, <3>2
        <4> QED BY <2>6, <2>7, <4>1 DEF QueueInv, AppliedIsDecided
      <3> QED BY <3>1, <3>2
    <2>8. AppliedIsDecided'
      BY <2>7 DEF AppliedIsDecided, Decided
    <2>9. LeftFor(stored.ledger)'
      BY <2>1, <2>6 DEF QueueInv, LeftFor
    <2> QED BY <2>1, <2>8, <2>9, NobodyLeft DEF QueueInv, Queue
  <1>9. ASSUME NEW g \in Guardians, NEW o \in WriteOutcomes, Retire(g, o)
        PROVE  QueueInv' /\ LeftFor(ledger')
    <2> DEFINE id == deciding[g].row.alert.id
    <2>1. /\ deciding[g].stage = "applied" /\ deciding' = [deciding EXCEPT ![g] = NotDeciding]
          /\ UNCHANGED audit
      BY <1>9 DEF Retire, hub
    <2>2. Decided(id)
      BY <2>1 DEF QueueInv, AppliedIsDecided
    <2>3. \A h \in Guardians : deciding'[h].stage = "applied" => deciding'[h] = deciding[h]
      BY <2>1 DEF IInv, Typed, NotDeciding
    <2>4. CASE Bound(id) = {}
      <3>1. UNCHANGED <<ledger, stored>>
        BY <1>9, <2>4 DEF Retire
      <3> QED BY <2>1, <2>3, <3>1, QueueSame
    <2>5. CASE Bound(id) # {}
      <3>1. LedgerBecomes(Without(id), o)
        BY <1>9, <2>5 DEF Retire
      <3>2. Queue(Without(id)) /\ LeftFor(Without(id))
        BY <2>2, <2>5, RetireLeaves DEF QueueInv
      <3> QED BY <2>1, <2>3, <3>1, <3>2, QueueWritten
    <2> QED BY <2>4, <2>5
  <1>10. CASE RelayRestart
    <2>1. /\ ledger' = stored.ledger /\ stored' = stored
          /\ deciding' = [g \in Guardians |-> NotDeciding]
      BY <1>10 DEF RelayRestart
    <2>2. AppliedIsDecided'
      BY <2>1 DEF AppliedIsDecided, NotDeciding
    <2>3. LeftFor(stored.ledger)'
      BY <2>1 DEF LeftFor
    <2> QED BY <2>1, <2>2, <2>3 DEF QueueInv, Queue
  <1>11. CASE LoadRow
    <2>1. /\ audit' = Append(audit, Head(loading)) /\ loading # <<>>
          /\ UNCHANGED <<ledger, stored, deciding>>
      BY <1>11 DEF LoadRow, Serving
    <2>2. audit \in Seq(Row) /\ Head(loading) \in Row
      BY <2>1 DEF IInv, Typed
    <2>3. \A id : Decided(id) => Decided(id)'
      BY <2>1, <2>2, MoreRows
    <2>4. AppliedIsDecided'
      BY <2>1, <2>3 DEF QueueInv, AppliedIsDecided
    <2>5. LeftFor(stored.ledger)'
      BY <2>1, <2>3 DEF QueueInv, LeftFor
    <2> QED BY <2>1, <2>4, <2>5, NobodyLeft DEF QueueInv, Queue
  <1> QED BY <1>1, <1>2, <1>3, <1>5, <1>6, <1>7, <1>8, <1>9, <1>10, <1>11 DEF RelayNext, Steps

\* An alert leaves the queue only because a decision on its id was applied, or because
\* the queue was full when another came, through refused decisions, writes that fail
\* before or after they took effect, and restarts (ReviewLedger::record, retire).
THEOREM NobodyLeavesUndecided == RelaySpec => PendingUntilDecided
  <1>1. RelayInit => QueueInv
    <2> SUFFICES ASSUME RelayInit PROVE QueueInv OBVIOUS
    <2>1. Queue(ledger) /\ Queue(stored.ledger) /\ stored.ledger = ledger
      BY ReviewRelayAssumption DEF RelayInit, Queue, Files
    <2>2. AppliedIsDecided
      BY DEF RelayInit, AppliedIsDecided, NotDeciding
    <2> QED BY <2>1, <2>2, NobodyLeft DEF QueueInv
  <1>2. IInv /\ QueueInv /\ [RelayNext]_relayVars => QueueInv' /\ LeftFor(ledger')
    BY QueueStep
  <1> QED BY <1>1, <1>2, InvHolds, PTL DEF RelaySpec, PendingUntilDecided
=============================================================================
