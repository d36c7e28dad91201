-------------------------- MODULE Services_proofs --------------------------
(***************************************************************************)
(* What holds of the services of the server for any number of staff,       *)
(* officers, cases, raisers and calls: staff accounts with their audit     *)
(* chain, the safety cases, and the alert channels.                        *)
(***************************************************************************)
EXTENDS StaffAccounts, SafetyCases, AlertSink, SequenceTheorems, WellFoundedInduction, TLAPS

----------------------------------------------------------------------------
(* Sequences of anything *)

\* The audit chain and the mails hold entries that no set contains; what is
\* known is that they are sequences.
IsSeq(s) == \E S : s \in Seq(S)

\* What an appended entry does to a sequence.
LEMMA AppendedEntry ==
    ASSUME NEW s, IsSeq(s), NEW x
    PROVE  /\ IsSeq(Append(s, x))
           /\ Len(s) \in Nat /\ DOMAIN s = 1..Len(s)
           /\ Len(Append(s, x)) = Len(s) + 1
           /\ DOMAIN Append(s, x) = 1..Len(s) + 1
           /\ \A i \in DOMAIN s : Append(s, x)[i] = s[i]
           /\ Append(s, x)[Len(s) + 1] = x
<1>1. PICK S : s \in Seq(S)
  BY DEF IsSeq
<1>2. s \in Seq(S \cup {x}) /\ x \in S \cup {x}
  BY <1>1
<1>3. Append(s, x) \in Seq(S \cup {x})
  BY <1>2
<1>. QED
  BY <1>1, <1>2, <1>3 DEF IsSeq

\* The elements of a sequence.
LEMMA Elements ==
    ASSUME NEW S, NEW s \in Seq(S)
    PROVE  Len(s) \in Nat /\ DOMAIN s = 1..Len(s) /\ \A i \in DOMAIN s : s[i] \in S
  OBVIOUS

----------------------------------------------------------------------------
(* Staff accounts *)

StaffSpec == StaffInit /\ [][StaffNext]_staffVars

StaffRole == {"support", "safety_officer", "operator", "admin"}
StaffRec  == {NoStaff} \cup [role: StaffRole, counter: Nat]
Verifying == [stage: {"verify"}, email: Emails, now: Nat, rec: StaffRec,
              code: Nat, before: Nat]
SignIn    == [email: Emails, code: Nat \ {0}, before: Nat]

\* Every variable the argument needs has the shape the code's structs give it.
StaffTyped ==
    /\ step \in Nat
    /\ staff \in [Emails -> StaffRec]
    /\ rpc = [c \in StaffRpcs |-> rpc[c]]
    /\ \A c \in StaffRpcs : rpc[c].stage = "verify" => rpc[c] \in Verifying
    /\ accepted \in Seq(SignIn)

\* The account that the bootstrap code made is still there.
BootstrapSpent == bootstraps = 0 \/ (bootstraps = 1 /\ \E e \in Emails : Exists(e))

\* An account that a sign-in has read is still there.
ReadIsThere ==
    \A c \in StaffRpcs :
        rpc[c].stage = "verify" /\ rpc[c].rec # NoStaff => Exists(rpc[c].email)

\* The stored counter is at least every code that was accepted, the counter a
\* sign-in has read at least every code accepted before it began.
CounterCovers ==
    /\ \A i \in DOMAIN accepted : accepted[i].code <= staff[accepted[i].email].counter
    /\ \A c \in StaffRpcs : rpc[c].stage = "verify" =>
          /\ rpc[c].before <= Len(accepted)
          /\ \A i \in 1..rpc[c].before :
                accepted[i].email = rpc[c].email => accepted[i].code <= rpc[c].rec.counter
    /\ \A j \in DOMAIN accepted : accepted[j].before < j

StaffInv == /\ StaffTyped /\ BootstrapSpent /\ ReadIsThere /\ CounterCovers
            /\ AcceptedCodeDead

\* Nothing here depends on what a step leaves alone.
LEMMA StaffFrame ==
    ASSUME StaffInv, UNCHANGED <<staff, accepted, bootstraps>>, step' \in Nat,
           rpc' = [c \in StaffRpcs |-> rpc'[c]],
           \A c \in StaffRpcs : rpc'[c] = rpc[c] \/ rpc'[c].stage # "verify"
    PROVE  StaffInv'
<1>1. StaffTyped'
  BY DEF StaffInv, StaffTyped
<1>2. BootstrapSpent' /\ ReadIsThere'
  BY DEF StaffInv, BootstrapSpent, ReadIsThere, Exists
<1>3. CounterCovers'
  BY DEF StaffInv, CounterCovers
<1>4. AcceptedCodeDead'
  BY DEF StaffInv, AcceptedCodeDead
<1>. QED
  BY <1>1, <1>2, <1>3, <1>4 DEF StaffInv

\* A new account: the bootstrap code works on an empty store only.
LEMMA CreateKeeps ==
    ASSUME StaffInv, NEW c \in StaffRpcs, NEW actor, NEW e \in Emails, NEW role \in StaffRole,
           Create(c, actor, e, role),
           bootstraps' = bootstraps \/ (MayBootstrap /\ bootstraps' = bootstraps + 1)
    PROVE  StaffInv'
<1>1. /\ staff' = [staff EXCEPT ![e] = [role |-> role, counter |-> 0]] /\ staff[e] = NoStaff
      /\ UNCHANGED <<step, accepted>>
      /\ rpc' = [rpc EXCEPT ![c] = [stage |-> "audit", body |-> <<"staff.create", actor, e>>]]
  BY DEF Create, WillAudit, Exists
<1>2. [role |-> role, counter |-> 0] \in StaffRec /\ [role |-> role, counter |-> 0] # NoStaff
  BY DEF StaffRec, StaffRole, NoStaff
<1>3. \A d \in StaffRpcs : rpc'[d] = rpc[d] \/ rpc'[d].stage # "verify"
  BY <1>1 DEF StaffInv, StaffTyped
<1>4. StaffTyped'
  BY <1>1, <1>2, <1>3 DEF StaffInv, StaffTyped
<1>5. \A f \in Emails : Exists(f) => Exists(f)'
  BY <1>1, <1>2 DEF StaffInv, StaffTyped, Exists
<1>6. Exists(e)'
  BY <1>1, <1>2 DEF StaffInv, StaffTyped, Exists
<1>7. BootstrapSpent'
  BY <1>5, <1>6 DEF StaffInv, BootstrapSpent, MayBootstrap
<1>8. ReadIsThere'
  BY <1>3, <1>5 DEF StaffInv, ReadIsThere, StaffTyped, Verifying
<1>9. CounterCovers'
  <2>1. \A i \in DOMAIN accepted : accepted[i] \in SignIn
    BY Elements DEF StaffInv, StaffTyped
  <2>2. \A i \in DOMAIN accepted : accepted[i].email # e
    BY <1>1, <2>1 DEF StaffInv, CounterCovers, SignIn, NoStaff
  <2>3. \A i \in DOMAIN accepted : accepted[i].code <= staff'[accepted[i].email].counter
    <3>. TAKE i \in DOMAIN accepted
    <3>1. accepted[i].email \in Emails \ {e}
      BY <2>1, <2>2 DEF SignIn
    <3>. QED
      BY <1>1, <3>1 DEF StaffInv, StaffTyped, CounterCovers
  <2>. QED
    BY <1>1, <1>3, <2>3 DEF StaffInv, CounterCovers
<1>10. AcceptedCodeDead'
  BY <1>1 DEF StaffInv, AcceptedCodeDead
<1>. QED
  BY <1>4, <1>7, <1>8, <1>9, <1>10 DEF StaffInv

\* A sign-in begins: it reads a record and a counter that cover what was accepted
\* so far.
LEMMA LoginReadsKeeps ==
    ASSUME StaffInv, NEW c \in StaffRpcs, NEW e \in Emails,
           NEW code \in Codes \cup {WrongCode}, LoginReads(c, e, code)
    PROVE  StaffInv'
<1>. DEFINE k == [stage |-> "verify", email |-> e, now |-> step, rec |-> staff[e],
                  code |-> code, before |-> Len(accepted)]
<1>1. /\ rpc' = [rpc EXCEPT ![c] = k]
      /\ UNCHANGED <<step, staff, accepted, bootstraps>>
  BY DEF LoginReads
<1>2. /\ Len(accepted) \in Nat /\ DOMAIN accepted = 1..Len(accepted)
      /\ \A i \in DOMAIN accepted : accepted[i] \in SignIn
  BY Elements DEF StaffInv, StaffTyped
<1>3. k \in Verifying
  BY <1>2, StaffAccountsAssumption DEF StaffInv, StaffTyped, Verifying, Codes, WrongCode
<1>4. rpc' = [d \in StaffRpcs |-> rpc'[d]] /\ \A d \in StaffRpcs : rpc'[d] = IF d = c THEN k ELSE rpc[d]
  BY <1>1 DEF StaffInv, StaffTyped
<1>5. StaffTyped'
  BY <1>1, <1>3, <1>4 DEF StaffInv, StaffTyped
<1>6. BootstrapSpent' /\ ReadIsThere'
  BY <1>1, <1>4 DEF StaffInv, BootstrapSpent, ReadIsThere, Exists
<1>7. CounterCovers'
  BY <1>1, <1>2, <1>4 DEF StaffInv, CounterCovers
<1>8. AcceptedCodeDead'
  BY <1>1 DEF StaffInv, AcceptedCodeDead
<1>. QED
  BY <1>5, <1>6, <1>7, <1>8 DEF StaffInv

\* A sign-in is accepted: its code is newer than the counter it read, and the
\* stored counter is raised, never lowered.
LEMMA LoginAcceptsKeeps ==
    ASSUME StaffInv, NEW c \in StaffRpcs, LoginAccepts(c)
    PROVE  StaffInv'
<1>. DEFINE k == rpc[c]
            e == k.email
            new == [role |-> staff[e].role, counter |-> Remembered(staff[e].counter, k.code)]
            entry == [email |-> e, code |-> k.code, before |-> k.before]
            n == Len(accepted) + 1
<1>1. k.stage = "verify" /\ k \in Verifying
  BY DEF LoginAccepts, StaffInv, StaffTyped
<1>2. /\ staff' = [staff EXCEPT ![e] = new] /\ accepted' = Append(accepted, entry)
      /\ UNCHANGED <<step, bootstraps>>
      /\ rpc' = [rpc EXCEPT ![c] = [stage |-> "audit", body |-> <<"staff.login", e, n>>]]
  BY DEF LoginAccepts, WillAudit
<1>3. k.rec # NoStaff /\ k.code # 0 /\ k.code > k.rec.counter
  BY DEF LoginAccepts, Verified, CodeAccepted, WrongCode
<1>4. e \in Emails /\ Exists(e) /\ staff[e] \in [role: StaffRole, counter: Nat] /\ k.code \in Nat
  BY <1>1, <1>3 DEF Verifying, StaffInv, ReadIsThere, StaffTyped, StaffRec, Exists
<1>5. /\ new \in [role: StaffRole, counter: Nat] /\ new # NoStaff
      /\ new.counter >= staff[e].counter /\ new.counter >= k.code
  BY <1>4 DEF Remembered, NoStaff, StaffRole
<1>6. /\ Len(accepted) \in Nat /\ DOMAIN accepted = 1..Len(accepted)
      /\ \A i \in DOMAIN accepted : accepted[i] \in SignIn
  BY Elements DEF StaffInv, StaffTyped
<1>7. entry \in SignIn /\ accepted' \in Seq(SignIn)
  BY <1>1, <1>2, <1>3, <1>4 DEF SignIn, Verifying, StaffInv, StaffTyped
<1>8. /\ DOMAIN accepted' = 1..n /\ Len(accepted') = n /\ accepted'[n] = entry
      /\ \A i \in DOMAIN accepted : accepted'[i] = accepted[i]
  BY <1>2, <1>6, <1>7 DEF StaffInv, StaffTyped
<1>9. /\ rpc' = [d \in StaffRpcs |-> rpc'[d]]
      /\ \A d \in StaffRpcs : rpc'[d] = rpc[d] \/ rpc'[d].stage # "verify"
  BY <1>2 DEF StaffInv, StaffTyped
<1>10. staff' \in [Emails -> StaffRec] /\ \A f \in Emails : staff'[f] = IF f = e THEN new ELSE staff[f]
  BY <1>2, <1>4, <1>5 DEF StaffInv, StaffTyped, StaffRec
<1>. HIDE DEF new, entry
<1>11. \A f \in Emails : Exists(f) => Exists(f)'
  BY <1>5, <1>10 DEF Exists
<1>12. StaffTyped'
  BY <1>2, <1>7, <1>9, <1>10 DEF StaffInv, StaffTyped
<1>13. BootstrapSpent' /\ ReadIsThere'
  BY <1>2, <1>9, <1>11 DEF StaffInv, BootstrapSpent, ReadIsThere, StaffTyped, Verifying
<1>14. entry.email = e /\ entry.code = k.code /\ entry.before = k.before /\ k.before \in Nat
  BY <1>1 DEF entry, Verifying
<1>15. k.before <= Len(accepted) /\ \A i \in 1..k.before :
          accepted[i].email = e => accepted[i].code <= k.rec.counter
  BY <1>1 DEF StaffInv, CounterCovers
<1>16. CounterCovers'
  <2>1. \A i \in DOMAIN accepted' : accepted'[i].code <= staff'[accepted'[i].email].counter
    <3>. SUFFICES ASSUME NEW i \in DOMAIN accepted'
                  PROVE  accepted'[i].code <= staff'[accepted'[i].email].counter
      OBVIOUS
    <3>1. CASE i = n
      BY <3>1, <1>4, <1>5, <1>8, <1>10, <1>14
    <3>2. CASE i \in DOMAIN accepted
      <4>1. accepted[i] \in SignIn /\ accepted[i].code <= staff[accepted[i].email].counter
        BY <3>2, <1>6 DEF StaffInv, CounterCovers
      <4>2. accepted[i].email \in Emails /\ accepted[i].code \in Nat
        BY <4>1 DEF SignIn
      <4>3. CASE accepted[i].email = e
        BY <3>2, <4>1, <4>2, <4>3, <1>4, <1>5, <1>8, <1>10
      <4>4. CASE accepted[i].email # e
        BY <3>2, <4>1, <4>2, <4>4, <1>8, <1>10
      <4>. QED
        BY <4>3, <4>4
    <3>. QED
      BY <3>1, <3>2, <1>6, <1>8
  <2>2. \A d \in StaffRpcs : rpc'[d].stage = "verify" =>
          /\ rpc'[d].before <= Len(accepted')
          /\ \A i \in 1..rpc'[d].before :
                accepted'[i].email = rpc'[d].email => accepted'[i].code <= rpc'[d].rec.counter
    <3>. SUFFICES ASSUME NEW d \in StaffRpcs, rpc'[d].stage = "verify"
                  PROVE  /\ rpc'[d].before <= Len(accepted')
                         /\ \A i \in 1..rpc'[d].before :
                               accepted'[i].email = rpc'[d].email
                                   => accepted'[i].code <= rpc'[d].rec.counter
      OBVIOUS
    <3>1. rpc'[d] = rpc[d] /\ rpc[d].before \in Nat
      BY <1>9 DEF StaffInv, StaffTyped, Verifying
    <3>2. rpc[d].before <= Len(accepted) /\ \A i \in 1..rpc[d].before :
            accepted[i].email = rpc[d].email => accepted[i].code <= rpc[d].rec.counter
      BY <3>1 DEF StaffInv, CounterCovers
    <3>. QED
      BY <3>1, <3>2, <1>6, <1>8
  <2>3. \A j \in DOMAIN accepted' : accepted'[j].before < j
    BY <1>6, <1>8, <1>14, <1>15 DEF StaffInv, CounterCovers
  <2>. QED
    BY <2>1, <2>2, <2>3 DEF CounterCovers
<1>17. AcceptedCodeDead'
  <2>. SUFFICES ASSUME NEW i \in DOMAIN accepted', NEW j \in DOMAIN accepted',
                       accepted'[i].email = accepted'[j].email, i <= accepted'[j].before
                PROVE  accepted'[i].code < accepted'[j].code
    BY DEF AcceptedCodeDead
  <2>1. accepted'[j].before < j /\ accepted'[j].before \in Nat /\ j \in 1..n /\ i \in 1..n
    <3>1. accepted'[j] \in SignIn
      BY <1>7, Elements
    <3>. QED
      BY <3>1, <1>8, <1>16 DEF CounterCovers, SignIn
  <2>2. i \in DOMAIN accepted
    BY <2>1, <1>6
  <2>3. CASE j = n
    <3>1. accepted[i] \in SignIn /\ accepted[i].code <= k.rec.counter
      BY <2>2, <2>3, <1>6, <1>8, <1>14, <1>15
    <3>2. k.rec.counter \in Nat /\ accepted[i].code \in Nat
      BY <3>1, <1>1 DEF Verifying, StaffRec, NoStaff, SignIn
    <3>. QED
      BY <2>2, <2>3, <3>1, <3>2, <1>3, <1>4, <1>8, <1>14
  <2>4. CASE j \in DOMAIN accepted
    BY <2>2, <2>4, <1>8 DEF StaffInv, AcceptedCodeDead
  <2>. QED
    BY <2>1, <2>3, <2>4, <1>6
<1>. QED
  BY <1>12, <1>13, <1>16, <1>17 DEF StaffInv

\* A chain that grew at its end begins as it did.
LEMMA SamePrefix ==
    ASSUME NEW S, NEW s \in Seq(S), NEW t, NEW n \in 0..Len(s),
           \A i \in DOMAIN s : t[i] = s[i]
    PROVE  SubSeq(t, 1, n) = SubSeq(s, 1, n)
<1>1. \A i \in 1..n : s[i] \in S /\ t[i] = s[i]
  OBVIOUS
<1>. DEFINE p == SubSeq(t, 1, n)
            q == SubSeq(s, 1, n)
<1>2. /\ p \in Seq(S) /\ Len(p) = n
      /\ \A i \in 1..n : p[i] = t[i]
  BY <1>1, SubSeqProperties
<1>3. /\ q \in Seq(S) /\ Len(q) = n
      /\ \A i \in 1..n : q[i] = s[i]
  BY <1>1, SubSeqProperties
<1>. HIDE DEF p, q
<1>4. p = q
  BY <1>1, <1>2, <1>3, SeqEqual
<1>. QED
  BY <1>4 DEF p, q

\* An entry linked to the end of a chain that verifies leaves one that verifies.
LEMMA AppendedVerifies ==
    ASSUME NEW s, IsSeq(s), Verifies(s), NEW body
    PROVE  Verifies(Appended(s, body))
<1>. DEFINE x == [seq |-> NextSeq(s), body |-> body,
                  hash |-> AuditLink(LastHash(s), NextSeq(s), body)]
            t == Append(s, x)
<1>1. /\ x.hash = AuditLink(LastHash(s), x.seq, x.body)
      /\ Appended(s, body) = t
  BY DEF Appended
<1>. HIDE DEF x
<1>2. /\ Len(s) \in Nat /\ DOMAIN s = 1..Len(s) /\ DOMAIN t = 1..Len(s) + 1
      /\ \A i \in DOMAIN s : t[i] = s[i]
      /\ t[Len(s) + 1] = x
  BY AppendedEntry
<1>3. PICK S : s \in Seq(S)
  BY DEF IsSeq
<1>. HIDE DEF t
<1>4. \A i \in DOMAIN s : SubSeq(t, 1, i - 1) = SubSeq(s, 1, i - 1)
  BY <1>2, <1>3, SamePrefix
<1>5. SubSeq(t, 1, Len(s)) = s
  BY <1>2, <1>3, SamePrefix, SubSeqFull
<1>6. ASSUME NEW i \in DOMAIN t
      PROVE  t[i].hash = AuditLink(LastHash(SubSeq(t, 1, i - 1)), t[i].seq, t[i].body)
  <2>1. CASE i \in DOMAIN s
    BY <2>1, <1>2, <1>4 DEF Verifies
  <2>2. CASE i = Len(s) + 1
    <3>1. i - 1 = Len(s) /\ t[i] = x
      BY <2>2, <1>2
    <3>. QED
      BY <3>1, <1>1, <1>5
  <2>. QED
    BY <1>2, <2>1, <2>2
<1>. QED
  BY <1>1, <1>6 DEF Verifies

\* Every step of the console's server keeps the invariant.
LEMMA StaffStep == StaffInv /\ [StaffNext]_staffVars => StaffInv'
<1>. SUFFICES ASSUME StaffInv, [StaffNext]_staffVars PROVE StaffInv'
  OBVIOUS
<1>. USE DEF StaffInv, StaffTyped
<1>1. CASE StaffTick
  BY <1>1, StaffFrame DEF StaffTick
<1>2. ASSUME NEW c \in StaffRpcs, NEW o \in AuditWrites, AuditAppend(c, o) PROVE StaffInv'
  BY <1>2, StaffFrame DEF AuditAppend, Reboot, IdleRpc
<1>3. ASSUME NEW c \in StaffRpcs, NEW e \in Emails, CreateByBootstrap(c, e) PROVE StaffInv'
  BY <1>3, CreateKeeps DEF CreateByBootstrap, StaffRole
<1>4. ASSUME NEW c \in StaffRpcs, NEW e \in Emails, NEW s \in DOMAIN sessions,
             NEW role \in NewRoles, CreateByAdmin(c, s, e, role)
      PROVE  StaffInv'
  BY <1>4, CreateKeeps, StaffAccountsAssumption DEF CreateByAdmin, StaffRole
<1>5. ASSUME NEW c \in StaffRpcs, NEW e \in Emails, NEW code \in Codes \cup {WrongCode},
             LoginReads(c, e, code)
      PROVE  StaffInv'
  BY <1>5, LoginReadsKeeps
<1>6. ASSUME NEW c \in StaffRpcs, LoginRefuses(c) PROVE StaffInv'
  BY <1>6, StaffFrame DEF LoginRefuses, IdleRpc
<1>7. ASSUME NEW c \in StaffRpcs, LoginAccepts(c) PROVE StaffInv'
  BY <1>7, LoginAcceptsKeeps
<1>8. ASSUME NEW c \in StaffRpcs, NEW s \in DOMAIN sessions, NEW action \in StaffActions,
             StaffRpc(c, s, action)
      PROVE  StaffInv'
  BY <1>8, StaffFrame DEF StaffRpc, WillAudit
<1>9. ASSUME NEW c \in StaffRpcs, Answer(c) PROVE StaffInv'
  BY <1>9, StaffFrame DEF Answer, IdleRpc
<1>10. CASE StaffRestarts
  BY <1>10, StaffFrame DEF StaffRestarts, Reboot, IdleRpc
<1>11. CASE UNCHANGED staffVars
  BY <1>11, StaffFrame DEF staffVars
<1>. QED
  BY <1>1, <1>2, <1>3, <1>4, <1>5, <1>6, <1>7, <1>8, <1>9, <1>10, <1>11 DEF StaffNext

\* The invariant holds of the empty store.
LEMMA StaffStart == StaffInit => StaffInv
<1>. SUFFICES ASSUME StaffInit PROVE StaffInv
  OBVIOUS
<1>1. accepted \in Seq(SignIn) /\ DOMAIN accepted = {} /\ Len(accepted) = 0
  BY DEF StaffInit
<1>2. \A c \in StaffRpcs : rpc[c].stage = "idle"
  BY DEF StaffInit, IdleRpc
<1>3. StaffTyped
  BY <1>1, <1>2 DEF StaffInit, StaffTyped, StaffRec
<1>. QED
  BY <1>1, <1>2, <1>3 DEF StaffInit, StaffInv, BootstrapSpent, ReadIsThere, CounterCovers,
     AcceptedCodeDead

\* create_staff: the bootstrap code makes at most one account, in every
\* interleaving of calls and restarts.
THEOREM BootstrapOnce == StaffSpec => []OneBootstrap
<1>1. StaffInv => OneBootstrap
  BY DEF StaffInv, BootstrapSpent, OneBootstrap
<1>. QED
  BY <1>1, StaffStart, StaffStep, PTL DEF StaffSpec

\* login: a code that was accepted is dead for every sign-in that begins later.
THEOREM AcceptedCodesStayDead == StaffSpec => []AcceptedCodeDead
<1>1. StaffInv => AcceptedCodeDead
  BY DEF StaffInv
<1>. QED
  BY <1>1, StaffStart, StaffStep, PTL DEF StaffSpec

----------------------------------------------------------------------------
(* The audit chain *)

\* The file holds a chain that verifies and every entry that ever reached it, and
\* so does the memory; a production server never has more in memory than in the
\* file, and what it is about to answer is there.
ChainInv ==
    /\ IsSeq(chain) /\ IsSeq(auditFile) /\ rpc = [c \in StaffRpcs |-> rpc[c]]
    /\ Verifies(chain) /\ Verifies(auditFile)
    /\ written \subseteq ToSet(auditFile) /\ ToSet(auditFile) \subseteq ToSet(chain)
    /\ production =>
          /\ auditFile = chain /\ answered \subseteq ToSet(chain)
          /\ \A c \in StaffRpcs : rpc[c].stage = "answer" => rpc[c].entry \in ToSet(chain)

\* audit_append adds one entry, the last.
LEMMA AppendedLast ==
    ASSUME NEW s, IsSeq(s), NEW body
    PROVE  /\ IsSeq(Appended(s, body)) /\ ToSet(s) \subseteq ToSet(Appended(s, body))
           /\ Last(Appended(s, body)) \in ToSet(Appended(s, body))
<1>. DEFINE x == [seq |-> NextSeq(s), body |-> body,
                  hash |-> AuditLink(LastHash(s), NextSeq(s), body)]
            t == Append(s, x)
<1>1. Appended(s, body) = t
  BY DEF Appended
<1>. HIDE DEF x
<1>2. /\ IsSeq(t) /\ Len(s) \in Nat /\ DOMAIN s = 1..Len(s) /\ DOMAIN t = 1..Len(s) + 1
      /\ Len(t) = Len(s) + 1
      /\ \A i \in DOMAIN s : t[i] = s[i]
  BY AppendedEntry
<1>. HIDE DEF t
<1>3. Len(t) \in DOMAIN t /\ DOMAIN s \subseteq DOMAIN t
  BY <1>2
<1>4. ToSet(s) \subseteq ToSet(t) /\ Last(t) \in ToSet(t)
  BY <1>2, <1>3 DEF ToSet, Last
<1>. QED
  BY <1>1, <1>2, <1>4

\* audit_append with every outcome of its write.
LEMMA AppendKeepsChain ==
    ASSUME ChainInv, NEW c \in StaffRpcs, NEW o, AuditAppend(c, o)
    PROVE  ChainInv'
<1>. DEFINE new == Appended(chain, rpc[c].body)
            idle == [d \in StaffRpcs |-> IdleRpc]
            told == [stage |-> "answer", entry |-> Last(new)]
<1>1. /\ IsSeq(new) /\ ToSet(chain) \subseteq ToSet(new) /\ Last(new) \in ToSet(new)
      /\ Verifies(new)
  BY AppendedLast, AppendedVerifies DEF ChainInv
<1>2. /\ auditFile' \in {auditFile, new} /\ written' = written \cup ToSet(auditFile')
      /\ UNCHANGED <<production, answered>>
      /\ o = "ok" => auditFile' = new
      /\ \/ production /\ o # "ok" /\ chain' = auditFile' /\ rpc' = idle
         \/ /\ ~(production /\ o # "ok")
            /\ chain' = new /\ rpc' = [rpc EXCEPT ![c] = told]
  BY DEF AuditAppend, Stored, Fatal, Reboot
<1>3. told.stage = "answer" /\ told.entry = Last(new)
  OBVIOUS
<1>4. \A d \in StaffRpcs : idle[d].stage # "answer"
  BY DEF IdleRpc
<1>. HIDE DEF new, told
<1>5. rpc' = [d \in StaffRpcs |-> rpc'[d]]
  BY <1>2 DEF ChainInv
<1>6. IsSeq(auditFile') /\ Verifies(auditFile') /\ ToSet(auditFile) \subseteq ToSet(auditFile')
  BY <1>1, <1>2 DEF ChainInv
<1>7. written' \subseteq ToSet(auditFile')
  BY <1>2, <1>6 DEF ChainInv
<1>8. CASE production /\ o # "ok" /\ chain' = auditFile' /\ rpc' = idle
  <2>1. IsSeq(chain') /\ Verifies(chain') /\ ToSet(chain) \subseteq ToSet(chain')
    BY <1>6, <1>8 DEF ChainInv
  <2>2. answered' \subseteq ToSet(chain')
    BY <1>2, <1>8, <2>1 DEF ChainInv
  <2>. QED
    BY <1>4, <1>5, <1>6, <1>7, <1>8, <2>1, <2>2 DEF ChainInv
<1>9. CASE ~(production /\ o # "ok") /\ chain' = new /\ rpc' = [rpc EXCEPT ![c] = told]
  <2>1. ToSet(auditFile') \subseteq ToSet(chain')
    BY <1>1, <1>2, <1>9 DEF ChainInv
  <2>2. production => /\ auditFile' = chain' /\ answered' \subseteq ToSet(chain')
                      /\ \A d \in StaffRpcs : rpc'[d].stage = "answer" =>
                            rpc'[d].entry \in ToSet(chain')
    <3>. SUFFICES ASSUME production
                  PROVE  /\ auditFile' = chain' /\ answered' \subseteq ToSet(chain')
                         /\ \A d \in StaffRpcs : rpc'[d].stage = "answer" =>
                               rpc'[d].entry \in ToSet(chain')
      OBVIOUS
    <3>1. auditFile' = chain' /\ answered' \subseteq ToSet(chain')
      BY <1>1, <1>2, <1>9 DEF ChainInv
    <3>2. ASSUME NEW d \in StaffRpcs, rpc'[d].stage = "answer" PROVE rpc'[d].entry \in ToSet(chain')
      BY <1>1, <1>3, <1>9, <3>2 DEF ChainInv
    <3>. QED
      BY <3>1, <3>2
  <2>. QED
    BY <1>1, <1>2, <1>5, <1>6, <1>7, <1>9, <2>1, <2>2 DEF ChainInv
<1>. QED
  BY <1>2, <1>8, <1>9

\* What no step but an append, an answer and a restart touches.
LEMMA ChainFrame ==
    ASSUME ChainInv, UNCHANGED <<chain, auditFile, written, production, answered>>,
           rpc' = [c \in StaffRpcs |-> rpc'[c]],
           \A c \in StaffRpcs : rpc'[c] = rpc[c] \/ rpc'[c].stage # "answer"
    PROVE  ChainInv'
  BY DEF ChainInv

LEMMA ChainStep == ChainInv /\ [StaffNext]_staffVars => ChainInv'
<1>. SUFFICES ASSUME ChainInv, [StaffNext]_staffVars PROVE ChainInv'
  OBVIOUS
<1>0. rpc = [c \in StaffRpcs |-> rpc[c]]
  BY DEF ChainInv
<1>1. CASE StaffTick
  BY <1>0, <1>1, ChainFrame DEF StaffTick, auditVars
<1>2. ASSUME NEW c \in StaffRpcs, NEW o \in AuditWrites, AuditAppend(c, o) PROVE ChainInv'
  BY <1>2, AppendKeepsChain
<1>3. ASSUME NEW c \in StaffRpcs, NEW e \in Emails, CreateByBootstrap(c, e) PROVE ChainInv'
  BY <1>0, <1>3, ChainFrame DEF CreateByBootstrap, Create, WillAudit, auditVars
<1>4. ASSUME NEW c \in StaffRpcs, NEW e \in Emails, NEW s \in DOMAIN sessions,
             NEW role \in NewRoles, CreateByAdmin(c, s, e, role)
      PROVE  ChainInv'
  BY <1>0, <1>4, ChainFrame DEF CreateByAdmin, Create, WillAudit, auditVars
<1>5. ASSUME NEW c \in StaffRpcs, NEW e \in Emails, NEW code \in Codes \cup {WrongCode},
             LoginReads(c, e, code)
      PROVE  ChainInv'
  BY <1>0, <1>5, ChainFrame DEF LoginReads, auditVars
<1>6. ASSUME NEW c \in StaffRpcs, LoginRefuses(c) PROVE ChainInv'
  BY <1>0, <1>6, ChainFrame DEF LoginRefuses, IdleRpc, auditVars
<1>7. ASSUME NEW c \in StaffRpcs, LoginAccepts(c) PROVE ChainInv'
  BY <1>0, <1>7, ChainFrame DEF LoginAccepts, WillAudit, auditVars
<1>8. ASSUME NEW c \in StaffRpcs, NEW s \in DOMAIN sessions, NEW action \in StaffActions,
             StaffRpc(c, s, action)
      PROVE  ChainInv'
  BY <1>0, <1>8, ChainFrame DEF StaffRpc, WillAudit, auditVars
<1>9. ASSUME NEW c \in StaffRpcs, Answer(c) PROVE ChainInv'
  <2>1. /\ rpc[c].stage = "answer" /\ answered' = answered \cup {rpc[c].entry}
        /\ rpc' = [rpc EXCEPT ![c] = IdleRpc] /\ IdleRpc.stage = "idle"
        /\ UNCHANGED <<chain, auditFile, written, production>>
    BY <1>9 DEF Answer, auditVars, IdleRpc
  <2>. QED
    BY <2>1 DEF ChainInv
<1>10. CASE StaffRestarts
  <2>1. /\ chain' = auditFile /\ rpc' = [c \in StaffRpcs |-> IdleRpc] /\ IdleRpc.stage = "idle"
        /\ UNCHANGED <<auditFile, written, production, answered>>
    BY <1>10 DEF StaffRestarts, Reboot, IdleRpc
  <2>. QED
    BY <2>1 DEF ChainInv
<1>11. CASE UNCHANGED staffVars
  BY <1>0, <1>11, ChainFrame DEF staffVars, auditVars
<1>. QED
  BY <1>1, <1>2, <1>3, <1>4, <1>5, <1>6, <1>7, <1>8, <1>9, <1>10, <1>11 DEF StaffNext

LEMMA ChainStart == StaffInit => ChainInv
<1>. SUFFICES ASSUME StaffInit PROVE ChainInv
  OBVIOUS
<1>1. chain = <<>> /\ auditFile = <<>> /\ written = {} /\ answered = {}
      /\ rpc = [c \in StaffRpcs |-> IdleRpc] /\ IdleRpc.stage = "idle"
  BY DEF StaffInit, IdleRpc
<1>2. IsSeq(<<>>) /\ DOMAIN <<>> = {}
  BY DEF IsSeq
<1>. QED
  BY <1>1, <1>2 DEF ChainInv, Verifies, ToSet

\* audit_append on a production server: whatever was answered is in the chain for
\* good, whatever writes fail and whenever the server crashes.
THEOREM AnswersAudited == StaffSpec => []AnsweredIsAudited
<1>1. ChainInv => AnsweredIsAudited
  BY DEF ChainInv, AnsweredIsAudited
<1>. QED
  BY <1>1, ChainStart, ChainStep, PTL DEF StaffSpec

\* audit_append and verify_entries: the chain verifies and keeps what reached the
\* file, also on a server that goes on in memory after failed writes and is rolled
\* back by a crash.
THEOREM ChainSurvives == StaffSpec => []AuditChainHolds
<1>1. ChainInv => AuditChainHolds
  BY DEF ChainInv, AuditChainHolds
<1>. QED
  BY <1>1, ChainStart, ChainStep, PTL DEF StaffSpec

----------------------------------------------------------------------------
(* Safety cases *)

CasesSpec == CasesInit /\ [][CasesNext]_caseVars

\* The entry an officer still has to append is about a case.
CasesTyped ==
    /\ cases = [k \in Cases |-> cases[k]] /\ IsSeq(trail)
    /\ pending = [o \in Officers |-> pending[o]]
    /\ \A o \in Officers : pending[o] # NoEntryDue =>
          pending[o] = <<pending[o][1], pending[o][2]>>

\* What the chain tells of a case, or will once the officers' calls have ended.
Told(k) == Audited(k) \cup
           {pending[o][2] : o \in {x \in Officers : pending[x] # NoEntryDue /\ pending[x][1] = k}}

\* Those are the states the case went through, from its opening to where it is.
ToldIsHistory ==
    \A k \in Cases \ torn :
        /\ Told(k) \subseteq CaseStates
        /\ cases[k] = NoCase => Told(k) = {}
        /\ cases[k] # NoCase =>
              /\ cases[k].state \in Told(k)
              /\ \A s \in Told(k) :
                    /\ s # cases[k].state => Rank[s] < Rank[cases[k].state]
                    /\ s # "opened" => \E from \in Told(k) : IsValidTransition(from, s)

CasesInv == CasesTyped /\ ToldIsHistory

\* The workflow only goes forward.
LEMMA Forward ==
    ASSUME NEW from, NEW to, IsValidTransition(from, to)
    PROVE  from \in CaseStates /\ to \in CaseStates /\ Rank[from] < Rank[to]
  BY DEF IsValidTransition, CaseStates, Rank

LEMMA Ranks == \A s \in CaseStates : Rank[s] \in Nat
  BY DEF CaseStates, Rank

\* A move of one case: its new state is told of it, and of no other case.
LEMMA MoveTells ==
    ASSUME CasesInv, NEW o \in Officers, NEW k \in Cases, NEW rec, Move(o, k, rec)
    PROVE  /\ CasesTyped' /\ UNCHANGED torn
           /\ cases'[k] = rec /\ \A x \in Cases \ {k} : cases'[x] = cases[x]
           /\ Told(k)' = Told(k) \cup {rec.state}
           /\ \A x \in Cases \ {k} : Told(x)' = Told(x)
<1>. DEFINE e == <<k, rec.state>>
<1>1. /\ pending[o] = NoEntryDue /\ pending' = [pending EXCEPT ![o] = e]
      /\ cases' = [cases EXCEPT ![k] = rec] /\ UNCHANGED <<trail, torn>>
  BY DEF Move
<1>2. e # NoEntryDue /\ e[1] = k /\ e[2] = rec.state /\ e = <<e[1], e[2]>>
  BY DEF NoEntryDue
<1>. HIDE DEF e
<1>3. /\ pending' = [x \in Officers |-> pending'[x]] /\ pending'[o] = e
      /\ \A x \in Officers \ {o} : pending'[x] = pending[x]
  BY <1>1 DEF CasesInv, CasesTyped
<1>4. CasesTyped'
  BY <1>1, <1>2, <1>3 DEF CasesInv, CasesTyped
<1>5. cases'[k] = rec /\ \A x \in Cases \ {k} : cases'[x] = cases[x]
  BY <1>1 DEF CasesInv, CasesTyped
<1>6. \A x \in Cases : Audited(x)' = Audited(x)
  BY <1>1 DEF Audited
<1>7. Told(k)' = Told(k) \cup {rec.state}
  BY <1>1, <1>2, <1>3, <1>6 DEF Told
<1>8. \A x \in Cases \ {k} : Told(x)' = Told(x)
  BY <1>1, <1>2, <1>3, <1>6 DEF Told
<1>. QED
  BY <1>1, <1>4, <1>5, <1>7, <1>8

\* open_case.
LEMMA OpenKeeps ==
    ASSUME CasesInv, NEW o \in Officers, NEW k \in Cases, OpenCase(o, k)
    PROVE  CasesInv'
<1>. DEFINE rec == [state |-> "opened", reference |-> FALSE]
<1>1. cases[k] = NoCase /\ Move(o, k, rec) /\ rec.state = "opened" /\ rec # NoCase
  BY DEF OpenCase, NoCase
<1>. HIDE DEF rec
<1>2. /\ CasesTyped' /\ UNCHANGED torn
      /\ cases'[k] = rec /\ \A x \in Cases \ {k} : cases'[x] = cases[x]
      /\ Told(k)' = Told(k) \cup {"opened"}
      /\ \A x \in Cases \ {k} : Told(x)' = Told(x)
  BY <1>1, MoveTells
<1>3. k \notin torn => Told(k)' = {"opened"}
  BY <1>1, <1>2 DEF CasesInv, ToldIsHistory
<1>4. ToldIsHistory'
  BY <1>1, <1>2, <1>3 DEF CasesInv, ToldIsHistory, CaseStates
<1>. QED
  BY <1>2, <1>4 DEF CasesInv

\* transition, along the table of the workflow.
LEMMA TransitionKeeps ==
    ASSUME CasesInv, NEW o \in Officers, NEW k \in Cases, NEW to, NEW ref,
           Transition(o, k, to, ref)
    PROVE  CasesInv'
<1>. DEFINE rec == [state |-> to, reference |-> IF to = "reported_ncmec" THEN ref
                                                ELSE cases[k].reference]
            from == cases[k].state
<1>1. cases[k] # NoCase /\ IsValidTransition(from, to) /\ Move(o, k, rec)
  BY DEF Transition
<1>2. rec.state = to
  OBVIOUS
<1>. HIDE DEF rec
<1>3. from \in CaseStates /\ to \in CaseStates /\ Rank[from] < Rank[to]
      /\ Rank[from] \in Nat /\ Rank[to] \in Nat
  BY <1>1, Forward, Ranks
<1>4. /\ CasesTyped' /\ UNCHANGED torn
      /\ cases'[k].state = to /\ \A x \in Cases \ {k} : cases'[x] = cases[x]
      /\ Told(k)' = Told(k) \cup {to}
      /\ \A x \in Cases \ {k} : Told(x)' = Told(x)
  BY <1>1, <1>2, MoveTells
<1>5. cases'[k] # NoCase
  BY <1>3, <1>4 DEF NoCase, CaseStates
<1>6. ASSUME k \notin torn
      PROVE  /\ Told(k)' \subseteq CaseStates
             /\ cases'[k].state \in Told(k)'
             /\ \A s \in Told(k)' :
                   /\ s # cases'[k].state => Rank[s] < Rank[cases'[k].state]
                   /\ s # "opened" => \E f \in Told(k)' : IsValidTransition(f, s)
  <2>1. /\ Told(k) \subseteq CaseStates /\ from \in Told(k)
        /\ \A s \in Told(k) :
              /\ s # from => Rank[s] < Rank[from]
              /\ s # "opened" => \E f \in Told(k) : IsValidTransition(f, s)
    BY <1>1, <1>6 DEF CasesInv, ToldIsHistory
  <2>2. \A s \in Told(k) : Rank[s] < Rank[to]
    BY <1>3, <2>1, Ranks
  <2>3. ASSUME NEW s \in Told(k)'
        PROVE  /\ s # to => Rank[s] < Rank[to]
               /\ s # "opened" => \E f \in Told(k)' : IsValidTransition(f, s)
    <3>1. CASE s \in Told(k)
      BY <1>4, <2>1, <2>2, <3>1
    <3>2. CASE s = to
      BY <1>1, <1>4, <2>1, <3>2
    <3>. QED
      BY <1>4, <2>3, <3>1, <3>2
  <2>. QED
    BY <1>3, <1>4, <2>1, <2>3
<1>7. ToldIsHistory'
  BY <1>4, <1>5, <1>6 DEF CasesInv, ToldIsHistory
<1>. QED
  BY <1>4, <1>7 DEF CasesInv

\* audit_append: the entry goes from due to appended, behind whatever was appended
\* before it.
LEMMA AuditMoveKeeps ==
    ASSUME CasesInv, NEW o \in Officers, AuditMove(o)
    PROVE  CasesInv'
<1>. DEFINE e == pending[o]
<1>1. /\ e # NoEntryDue /\ trail' = Append(trail, e)
      /\ pending' = [pending EXCEPT ![o] = NoEntryDue] /\ UNCHANGED <<cases, torn>>
  BY DEF AuditMove, EntryOf
<1>2. /\ IsSeq(trail') /\ Len(trail) \in Nat /\ DOMAIN trail = 1..Len(trail)
      /\ DOMAIN trail' = 1..Len(trail) + 1
      /\ \A i \in DOMAIN trail : trail'[i] = trail[i]
      /\ trail'[Len(trail) + 1] = e
  BY <1>1, AppendedEntry DEF CasesInv, CasesTyped
<1>3. /\ pending' = [x \in Officers |-> pending'[x]] /\ pending'[o] = NoEntryDue
      /\ \A x \in Officers \ {o} : pending'[x] = pending[x]
  BY <1>1 DEF CasesInv, CasesTyped
<1>4. CasesTyped'
  BY <1>1, <1>2, <1>3 DEF CasesInv, CasesTyped
<1>5. \A i \in DOMAIN trail' : i \in DOMAIN trail \/ i = Len(trail) + 1
  BY <1>2
<1>6. Len(trail) + 1 \in DOMAIN trail' /\ DOMAIN trail \subseteq DOMAIN trail'
  BY <1>2
<1>. HIDE DEF e
<1>7. \A k \in Cases : Audited(k)' = IF e[1] = k THEN Audited(k) \cup {e[2]} ELSE Audited(k)
  BY <1>2, <1>5, <1>6 DEF Audited
<1>8. \A k \in Cases : Told(k)' = Told(k)
  BY <1>1, <1>3, <1>7 DEF Told, e
<1>. QED
  BY <1>1, <1>4, <1>8 DEF CasesInv, ToldIsHistory

\* A restart leaves the cases that it does not tear apart as they were.
LEMMA CasesRestartKeeps ==
    ASSUME CasesInv, CasesRestart, caseFile = [k \in Cases |-> caseFile[k]]
    PROVE  CasesInv'
<1>1. /\ cases' = caseFile /\ pending' = [o \in Officers |-> NoEntryDue]
      /\ torn' = torn \cup {k \in Cases : Due(k) \/ caseFile[k] # cases[k]}
      /\ UNCHANGED <<trail, caseFile>>
  BY DEF CasesRestart
<1>2. CasesTyped'
  BY <1>1 DEF CasesInv, CasesTyped
<1>3. ASSUME NEW k \in Cases \ torn'
      PROVE  cases'[k] = cases[k] /\ k \in Cases \ torn /\ Told(k)' = Told(k)
  <2>1. ~Due(k) /\ caseFile[k] = cases[k] /\ k \in Cases \ torn
    BY <1>1, <1>3
  <2>2. Audited(k)' = Audited(k)
    BY <1>1 DEF Audited
  <2>3. Told(k)' = Audited(k) /\ Told(k) = Audited(k)
    BY <1>1, <2>1, <2>2 DEF Told, Due
  <2>. QED
    BY <1>1, <2>1, <2>3
<1>4. ToldIsHistory'
  BY <1>3 DEF CasesInv, ToldIsHistory
<1>. QED
  BY <1>2, <1>4 DEF CasesInv

\* audit_append after open_case and transition: whatever the order in which the
\* officers' entries are appended, the chain tells the history of every case that no
\* crash tore from it, for any number of officers, cases and moves.
THEOREM TrailTellsEveryState == CasesSpec => []TrailTellsState
<1>. DEFINE Filed == caseFile = [k \in Cases |-> caseFile[k]]
<1>1. CasesInit => CasesInv /\ Filed
  <2>. SUFFICES ASSUME CasesInit PROVE CasesInv /\ Filed
    OBVIOUS
  <2>1. /\ cases = [k \in Cases |-> NoCase] /\ caseFile = cases /\ trail = <<>>
        /\ pending = [o \in Officers |-> NoEntryDue]
    BY DEF CasesInit
  <2>2. \A k \in Cases : Audited(k) = {}
    BY <2>1 DEF Audited
  <2>3. \A k \in Cases : Told(k) = {}
    BY <2>1, <2>2 DEF Told
  <2>4. CasesTyped
    BY <2>1 DEF CasesTyped, IsSeq
  <2>. QED
    BY <2>1, <2>3, <2>4 DEF CasesInv, ToldIsHistory
<1>2. CasesInv /\ Filed /\ [CasesNext]_caseVars => CasesInv' /\ Filed'
  <2>. SUFFICES ASSUME CasesInv, Filed, [CasesNext]_caseVars PROVE CasesInv' /\ Filed'
    OBVIOUS
  <2>1. ASSUME NEW o \in Officers, NEW k \in Cases, OpenCase(o, k) PROVE CasesInv' /\ Filed'
    BY <2>1, OpenKeeps DEF OpenCase, Move, PersistCases, CasesInv, CasesTyped
  <2>2. ASSUME NEW o \in Officers, NEW k \in Cases, NEW to \in CaseStates, NEW ref \in BOOLEAN,
               Transition(o, k, to, ref)
        PROVE  CasesInv' /\ Filed'
    <3>1. CasesInv'
      BY <2>2, TransitionKeeps
    <3>2. caseFile' = cases' \/ caseFile' = caseFile
      BY <2>2 DEF Transition, Move, PersistCases
    <3>3. cases' = [x \in Cases |-> cases'[x]]
      BY <3>1 DEF CasesInv, CasesTyped
    <3>4. Filed'
      BY <3>2, <3>3
    <3>. QED
      BY <3>1, <3>4
  <2>3. ASSUME NEW o \in Officers, AuditMove(o) PROVE CasesInv' /\ Filed'
    <3>1. CasesInv'
      BY <2>3, AuditMoveKeeps
    <3>2. UNCHANGED caseFile
      BY <2>3 DEF AuditMove
    <3>. QED
      BY <3>1, <3>2
  <2>4. CASE CasesRestart
    <3>1. CasesInv'
      BY <2>4, CasesRestartKeeps
    <3>2. UNCHANGED caseFile
      BY <2>4 DEF CasesRestart
    <3>. QED
      BY <3>1, <3>2
  <2>5. CASE UNCHANGED caseVars
    <3>1. UNCHANGED <<cases, caseFile, pending, trail, torn>>
      BY <2>5 DEF caseVars
    <3>2. \A k \in Cases : Told(k)' = Told(k)
      BY <3>1 DEF Told, Audited
    <3>3. CasesTyped' /\ Filed'
      BY <3>1 DEF CasesInv, CasesTyped
    <3>4. ToldIsHistory'
      BY <3>1, <3>2 DEF CasesInv, ToldIsHistory
    <3>. QED
      BY <3>3, <3>4 DEF CasesInv
  <2>. QED
    BY <2>1, <2>2, <2>3, <2>4, <2>5 DEF CasesNext
<1>3. CasesInv => TrailTellsState
  <2>. SUFFICES ASSUME CasesInv, NEW k \in Cases \ torn, cases[k] # NoCase, ~Due(k)
                PROVE  /\ cases[k].state \in Audited(k)
                       /\ \A s \in Audited(k) :
                             /\ s # cases[k].state => Rank[s] < Rank[cases[k].state]
                             /\ s # "opened" => \E from \in Audited(k) : IsValidTransition(from, s)
    BY DEF TrailTellsState
  <2>1. Told(k) = Audited(k)
    BY DEF Told, Due
  <2>. QED
    BY <2>1 DEF CasesInv, ToldIsHistory
<1>. QED
  BY <1>1, <1>2, <1>3, PTL DEF CasesSpec

----------------------------------------------------------------------------
(* Alert channels *)

AlertSpec == AlertInit /\ [][AlertNext]_alertVars

InFlight(r) == calls[r].stage \in {"mail", "flush"}

\* A transport took the alert.
Backed(e) ==
    \/ e \in pushed
    \/ \E i \in DOMAIN mails : e \in ToSet(mails[i].events) /\ mails[i].end = "sent"

\* Every call in flight waits for a mail of its own, which has not ended.
OwnMail ==
    \A r \in Raisers : InFlight(r) =>
        /\ calls[r].mail \in DOMAIN mails /\ mails[calls[r].mail].end = "sending"
        /\ \A q \in Raisers \ {r} : InFlight(q) => calls[q].mail # calls[r].mail

\* What is acknowledged, or is about to be, was taken.
AcksBacked ==
    /\ \A r \in Raisers : \A e : <<e, "delivered">> \in calls[r].acks => Backed(e)
    /\ \A e : <<e, "delivered">> \in answers => Backed(e)

AlertInv == /\ IsSeq(mails) /\ calls = [r \in Raisers |-> calls[r]]
            /\ OwnMail /\ AcksBacked

\* A call that hands a mail to the transport.
LEMMA MailStarts ==
    ASSUME AlertInv, NEW r \in Raisers, NEW m, NEW k,
           ~InFlight(r), mails' = Append(mails, m), m.end = "sending",
           calls' = [calls EXCEPT ![r] = k], k.mail = Len(mails) + 1,
           \A e : <<e, "delivered">> \notin k.acks,
           UNCHANGED <<pushed, answers>>
    PROVE  AlertInv'
<1>1. /\ IsSeq(mails') /\ Len(mails) \in Nat /\ DOMAIN mails = 1..Len(mails)
      /\ DOMAIN mails' = 1..Len(mails) + 1
      /\ \A i \in DOMAIN mails : mails'[i] = mails[i]
      /\ mails'[Len(mails) + 1] = m
  BY AppendedEntry DEF AlertInv
<1>2. \A e : Backed(e) => Backed(e)'
  BY <1>1 DEF Backed
<1>3. /\ calls' = [q \in Raisers |-> calls'[q]] /\ calls'[r] = k
      /\ \A q \in Raisers \ {r} : calls'[q] = calls[q]
  BY DEF AlertInv
<1>4. \A q \in Raisers \ {r} : InFlight(q)' => InFlight(q) /\ calls'[q].mail \in DOMAIN mails
  BY <1>3 DEF AlertInv, OwnMail, InFlight
<1>5. OwnMail'
  <2>1. \A q \in Raisers : InFlight(q)' =>
            calls'[q].mail \in DOMAIN mails' /\ mails'[calls'[q].mail].end = "sending"
    BY <1>1, <1>3, <1>4 DEF AlertInv, OwnMail
  <2>2. \A q, p \in Raisers : q # p /\ InFlight(q)' /\ InFlight(p)' => calls'[q].mail # calls'[p].mail
    BY <1>1, <1>3, <1>4 DEF AlertInv, OwnMail
  <2>. QED
    BY <2>1, <2>2 DEF OwnMail, InFlight
<1>6. AcksBacked'
  BY <1>2, <1>3 DEF AlertInv, AcksBacked
<1>. QED
  BY <1>1, <1>3, <1>5, <1>6 DEF AlertInv

\* A call that goes on, or ends, without a mail.
LEMMA NoMailStarts ==
    ASSUME AlertInv, NEW r \in Raisers, NEW k, calls' = [calls EXCEPT ![r] = k],
           k.stage \notin {"mail", "flush"}, UNCHANGED mails, pushed \subseteq pushed',
           \A e : <<e, "delivered">> \in k.acks => Backed(e)',
           \A e : <<e, "delivered">> \in answers' => Backed(e)'
    PROVE  AlertInv'
<1>1. /\ calls' = [q \in Raisers |-> calls'[q]] /\ calls'[r] = k
      /\ \A q \in Raisers \ {r} : calls'[q] = calls[q]
  BY DEF AlertInv
<1>2. \A e : Backed(e) => Backed(e)'
  BY DEF Backed
<1>3. OwnMail'
  BY <1>1 DEF AlertInv, OwnMail, InFlight
<1>4. AcksBacked'
  BY <1>1, <1>2 DEF AlertInv, AcksBacked
<1>. QED
  BY <1>1, <1>3, <1>4 DEF AlertInv

\* The transport answers: the mail of this call ends, and no mail that was taken
\* is touched, because this call's mail had not ended before.
LEMMA MailEndsKeeps ==
    ASSUME AlertInv, NEW r \in Raisers, NEW ok \in BOOLEAN, MailEnds(r, ok)
    PROVE  AlertInv'
<1>. DEFINE n == calls[r].mail
            acks == AcksAfterMail(calls[r], ok)
<1>1. /\ InFlight(r) /\ n \in DOMAIN mails /\ mails[n].end = "sending"
      /\ mails' = [mails EXCEPT ![n] = Ended(mails[n], ok)] /\ UNCHANGED pushed
  BY DEF AlertInv, OwnMail, InFlight, MailEnds
<1>2. /\ Ended(mails[n], ok).events = mails[n].events
      /\ Ended(mails[n], ok).end = IF ok THEN "sent" ELSE "failed"
  BY DEF Ended
<1>3. /\ IsSeq(mails') /\ DOMAIN mails' = DOMAIN mails /\ mails'[n] = Ended(mails[n], ok)
      /\ \A i \in DOMAIN mails \ {n} : mails'[i] = mails[i]
  <2>1. PICK S : mails \in Seq(S)
    BY DEF AlertInv, IsSeq
  <2>2. mails \in Seq(S \cup {Ended(mails[n], ok)})
    BY <2>1
  <2>3. mails' \in Seq(S \cup {Ended(mails[n], ok)})
    BY <1>1, <2>2
  <2>. QED
    BY <1>1, <2>2, <2>3 DEF IsSeq
<1>4. \A e : Backed(e) => Backed(e)'
  BY <1>1, <1>2, <1>3 DEF Backed
<1>5. \A e : <<e, "delivered">> \in acks => Backed(e)'
  <2>. SUFFICES ASSUME NEW e, <<e, "delivered">> \in acks PROVE Backed(e)'
    OBVIOUS
  <2>1. CASE <<e, "delivered">> \in calls[r].acks
    BY <2>1, <1>4 DEF AlertInv, AcksBacked
  <2>2. CASE ok /\ e \in ToSet(mails[n].events)
    BY <2>2, <1>1, <1>2, <1>3 DEF Backed
  <2>. QED
    BY <2>1, <2>2 DEF AcksAfterMail, Delivered
<1>. HIDE DEF acks
<1>6. /\ calls' = [q \in Raisers |-> calls'[q]] /\ calls'[r].stage \notin {"mail", "flush"}
      /\ calls'[r].acks \in {acks, {}}
      /\ \A q \in Raisers \ {r} : calls'[q] = calls[q]
      /\ answers' = answers \/ answers' = answers \cup acks
  <2>1. CASE calls[r].stage = "mail"
    BY <2>1 DEF AlertInv, MailEnds, Answered, acks
  <2>2. CASE calls[r].stage = "flush"
    BY <2>2 DEF AlertInv, MailEnds, Idle, acks
  <2>. QED
    BY <1>1, <2>1, <2>2 DEF InFlight
<1>7. OwnMail'
  BY <1>1, <1>3, <1>6 DEF AlertInv, OwnMail, InFlight
<1>8. AcksBacked'
  BY <1>4, <1>5, <1>6 DEF AlertInv, AcksBacked
<1>. QED
  BY <1>3, <1>6, <1>7, <1>8 DEF AlertInv

\* Every step keeps the invariant.
LEMMA AlertStep == AlertInv /\ [AlertNext]_alertVars => AlertInv'
<1>. SUFFICES ASSUME AlertInv, [AlertNext]_alertVars PROVE AlertInv'
  OBVIOUS
<1>1. ASSUME UNCHANGED <<calls, mails, pushed, answers>> PROVE AlertInv'
  BY <1>1 DEF AlertInv, OwnMail, AcksBacked, InFlight, Backed
<1>2. ASSUME NEW r \in Raisers, NEW e \in Events, Raise(r, e) PROVE AlertInv'
  <2>. DEFINE sends == AdmitAlert(Limiter, e).decision = "send_now"
              m == [events |-> <<e>>, at |-> now, kind |-> "single", end |-> "sending"]
              k == IF sends
                   THEN [stage |-> "mail", events |-> <<e>>, mail |-> Len(mails) + 1, acks |-> {}]
                   ELSE [stage |-> "push", events |-> <<e>>, mail |-> 0, acks |-> {<<e, "deduped">>}]
  <2>1. /\ ~InFlight(r) /\ calls' = [calls EXCEPT ![r] = k] /\ UNCHANGED <<pushed, answers>>
        /\ IF sends THEN mails' = Append(mails, m) ELSE UNCHANGED mails
    BY <1>2 DEF Raise, Begin, StartMail, InFlight
  <2>2. \A x : <<x, "delivered">> \notin k.acks
    OBVIOUS
  <2>3. /\ m.end = "sending"
        /\ sends => k.mail = Len(mails) + 1
        /\ ~sends => k.stage \notin {"mail", "flush"}
    OBVIOUS
  <2>. HIDE DEF sends, m, k
  <2>4. \A x : <<x, "delivered">> \in answers => Backed(x)'
    BY <2>1, AppendedEntry DEF AlertInv, AcksBacked, Backed
  <2>5. CASE sends
    BY <2>1, <2>2, <2>3, <2>5, MailStarts
  <2>6. CASE ~sends
    <3>1. /\ k.stage \notin {"mail", "flush"} /\ UNCHANGED mails /\ pushed \subseteq pushed'
          /\ \A x : <<x, "delivered">> \in k.acks => Backed(x)'
          /\ \A x : <<x, "delivered">> \in answers' => Backed(x)'
      BY <2>1, <2>2, <2>3, <2>4, <2>6
    <3>. QED
      BY <2>1, <3>1, NoMailStarts
  <2>. QED
    BY <2>5, <2>6
<1>3. ASSUME NEW r \in Raisers, NEW b \in Batches, RaiseBatch(r, b) PROVE AlertInv'
  <2>. DEFINE a == AdmitAll(Limiter, b)
              dups == {<<x, "deduped">> : x \in a.dups}
              m == [events |-> a.send, at |-> now, kind |-> "batch", end |-> "sending"]
              k == IF a.send # <<>>
                   THEN [stage |-> "mail", events |-> b, mail |-> Len(mails) + 1, acks |-> dups]
                   ELSE [stage |-> "push", events |-> b, mail |-> 0, acks |-> dups]
  <2>. HIDE DEF a
  <2>1. /\ ~InFlight(r) /\ calls' = [calls EXCEPT ![r] = k] /\ UNCHANGED <<pushed, answers>>
        /\ IF a.send # <<>> THEN mails' = Append(mails, m) ELSE UNCHANGED mails
    BY <1>3 DEF RaiseBatch, Begin, StartMail, InFlight, a
  <2>2. \A x : <<x, "delivered">> \notin k.acks
    OBVIOUS
  <2>3. /\ m.end = "sending"
        /\ a.send # <<>> => k.mail = Len(mails) + 1
        /\ a.send = <<>> => k.stage \notin {"mail", "flush"}
    OBVIOUS
  <2>. HIDE DEF m, k, dups
  <2>4. \A x : <<x, "delivered">> \in answers => Backed(x)'
    BY <2>1, AppendedEntry DEF AlertInv, AcksBacked, Backed
  <2>5. CASE a.send # <<>>
    BY <2>1, <2>2, <2>3, <2>5, MailStarts
  <2>6. CASE a.send = <<>>
    <3>1. /\ k.stage \notin {"mail", "flush"} /\ UNCHANGED mails /\ pushed \subseteq pushed'
          /\ \A x : <<x, "delivered">> \in k.acks => Backed(x)'
          /\ \A x : <<x, "delivered">> \in answers' => Backed(x)'
      BY <2>1, <2>2, <2>3, <2>4, <2>6
    <3>. QED
      BY <2>1, <3>1, NoMailStarts
  <2>. QED
    BY <2>5, <2>6
<1>4. ASSUME NEW r \in Raisers, FlushDigest(r) PROVE AlertInv'
  <2>. DEFINE m == [events |-> digest, at |-> now, kind |-> "flush", end |-> "sending"]
              k == [stage |-> "flush", events |-> digest, mail |-> Len(mails) + 1, acks |-> {}]
  <2>1. /\ ~InFlight(r) /\ calls' = [calls EXCEPT ![r] = k] /\ UNCHANGED <<pushed, answers>>
        /\ mails' = Append(mails, m)
    BY <1>4 DEF FlushDigest, Begin, StartMail, InFlight
  <2>2. m.end = "sending" /\ k.mail = Len(mails) + 1 /\ k.acks = {}
    OBVIOUS
  <2>. HIDE DEF m, k
  <2>. QED
    BY <2>1, <2>2, MailStarts
<1>5. ASSUME NEW r \in Raisers, NEW ok \in BOOLEAN, MailEnds(r, ok) PROVE AlertInv'
  BY <1>5, MailEndsKeeps
<1>6. ASSUME NEW r \in Raisers, NEW took \in SUBSET ToSet(calls[r].events), PushEnds(r, took)
      PROVE  AlertInv'
  <2>1. /\ calls' = [calls EXCEPT ![r] = Idle] /\ UNCHANGED mails /\ pushed' = pushed \cup took
        /\ Idle.stage = "idle" /\ Idle.acks = {}
    BY <1>6 DEF PushEnds, Idle
  <2>2. \A x : Backed(x) \/ x \in took => Backed(x)'
    BY <2>1 DEF Backed
  <2>3. \A x : <<x, "delivered">> \in answers' =>
            <<x, "delivered">> \in answers \cup calls[r].acks \/ x \in took
    BY <1>6 DEF PushEnds
  <2>4. \A x : <<x, "delivered">> \in answers' => Backed(x)'
    BY <2>2, <2>3 DEF AlertInv, AcksBacked
  <2>. QED
    BY <2>1, <2>4, NoMailStarts
<1>. QED
  BY <1>1, <1>2, <1>3, <1>4, <1>5, <1>6 DEF AlertNext, AlertTick, alertVars

LEMMA AlertStart == AlertInit => AlertInv
<1>1. AlertInit => IsSeq(mails)
  BY DEF AlertInit, IsSeq
<1>2. AlertInit => \A r \in Raisers : calls[r].stage = "idle" /\ calls[r].acks = {}
  BY DEF AlertInit, Idle
<1>. QED
  BY <1>1, <1>2 DEF AlertInit, AlertInv, OwnMail, AcksBacked, InFlight

\* raise, raise_batch, flush_digest: whoever is told "delivered" can rely on it,
\* for any number of raisers, batches and limits, and whatever the limiter does.
THEOREM AcksTrue == AlertSpec => []AckTruth
<1>1. AlertInv => AckTruth
  BY DEF AlertInv, AcksBacked, AckTruth, Backed
<1>. QED
  BY <1>1, AlertStart, AlertStep, PTL DEF AlertSpec

----------------------------------------------------------------------------
(* One mail in each window *)

\* The ids known to the limiter have their times, none of them ahead of the clock, and
\* all that seen knows and that has not aged out is known, from no earlier.
Grown(known) ==
    /\ \A id \in DOMAIN known : known[id] \in Nat /\ known[id] <= now
    /\ \A id \in DOMAIN seen :
           now - seen[id] < DedupeWindow => id \in DOMAIN known /\ seen[id] <= known[id]

\* An id that is mailed now: it is known from now on, unless windows are empty,
\* and seen did not know it any more.
Covered(known, e) == 0 < DedupeWindow => e \in DOMAIN known /\ known[e] = now
AgedOut(e) == e \in DOMAIN seen => DedupeWindow <= now - seen[e]

\* A mail of the deduplicated kinds with the alert in it.
Carries(mail, e) == mail.kind # "flush" /\ Contains(mail.events, e)

\* What was mailed within the window is still known, from no earlier.
MailsKnown ==
    \A i \in DOMAIN mails : \A e \in AlertIds : Carries(mails[i], e) =>
        \/ mails[i].at + DedupeWindow <= now
        \/ e \in DOMAIN seen /\ mails[i].at <= seen[e]

OnceInv ==
    /\ now \in Nat /\ Grown(seen)
    /\ \A i \in DOMAIN mails : mails[i].at \in Nat /\ mails[i].at <= now
    /\ MailsKnown /\ MailedOnce

\* What admit does to one alert.
LEMMA AdmitOne ==
    ASSUME now \in Nat, \A id \in DOMAIN seen : seen[id] \in Nat,
           NEW lim, Grown(lim.seen), NEW e
    PROVE  LET a == AdmitAlert(lim, e)
           IN /\ Grown(a.lim.seen)
              /\ \A x : Covered(lim.seen, x) => Covered(a.lim.seen, x)
              /\ a.decision # "deduped" /\ e # NoId => Covered(a.lim.seen, e) /\ AgedOut(e)
<1>. DEFINE a == AdmitAlert(lim, e)
            kept == FreshSeen(lim.seen)
            noted == NoteSeen(kept, e)
<1>. USE AlertSinkAssumption
<1>1. /\ DOMAIN kept = {id \in DOMAIN lim.seen : now - lim.seen[id] < DedupeWindow}
      /\ \A id \in DOMAIN kept : kept[id] = lim.seen[id]
  BY DEF FreshSeen, Restrict
<1>2. Grown(kept)
  <2>1. ASSUME NEW id \in DOMAIN seen, now - seen[id] < DedupeWindow
        PROVE  id \in DOMAIN kept /\ seen[id] <= kept[id]
    <3>1. id \in DOMAIN lim.seen /\ seen[id] <= lim.seen[id] /\ lim.seen[id] \in Nat
      BY <2>1 DEF Grown
    <3>2. now - lim.seen[id] < DedupeWindow
      BY <2>1, <3>1
    <3>. QED
      BY <1>1, <3>1, <3>2
  <2>. HIDE DEF kept
  <2>. QED
    BY <1>1, <2>1 DEF Grown
<1>3. \A x : Covered(lim.seen, x) => Covered(kept, x)
  <2>1. now - now = 0
    OBVIOUS
  <2>. HIDE DEF kept
  <2>. QED
    BY <1>1, <2>1 DEF Covered
<1>. HIDE DEF kept
<1>4. e # NoId => /\ DOMAIN noted = DOMAIN kept \cup {e} /\ noted[e] = now
                  /\ \A id \in DOMAIN kept : id # e => noted[id] = kept[id]
  BY DEF NoteSeen
<1>5. e = NoId => noted = kept
  BY DEF NoteSeen
<1>. HIDE DEF noted
<1>6. Grown(noted)
  BY <1>2, <1>4, <1>5 DEF Grown
<1>7. \A x : Covered(kept, x) => Covered(noted, x)
  BY <1>4, <1>5 DEF Covered
<1>8. CASE e # NoId /\ e \in DOMAIN kept
  <2>1. a.decision = "deduped" /\ a.lim.seen = kept
    BY <1>8 DEF AdmitAlert, Expire, IsDuplicate, kept
  <2>. HIDE DEF a
  <2>2. Grown(a.lim.seen)
    BY <1>2, <2>1
  <2>3. \A x : Covered(lim.seen, x) => Covered(a.lim.seen, x)
    BY <1>3, <2>1
  <2>. QED
    BY <2>1, <2>2, <2>3 DEF a
<1>9. CASE ~(e # NoId /\ e \in DOMAIN kept)
  <2>1. a.lim.seen = noted
    BY <1>9 DEF AdmitAlert, Expire, IsDuplicate, kept, noted
  <2>. HIDE DEF a
  <2>2. e # NoId => Covered(noted, e)
    BY <1>4 DEF Covered
  <2>3. e # NoId => AgedOut(e)
    <3>. SUFFICES ASSUME e # NoId, e \in DOMAIN seen, ~(DedupeWindow <= now - seen[e])
                  PROVE  FALSE
      BY DEF AgedOut
    <3>1. now - seen[e] < DedupeWindow
      OBVIOUS
    <3>. QED
      BY <1>2, <1>9, <3>1 DEF Grown
  <2>4. \A x : Covered(lim.seen, x) => Covered(a.lim.seen, x)
    BY <1>3, <1>7, <2>1
  <2>. QED
    BY <1>6, <2>1, <2>2, <2>3, <2>4 DEF a
<1>. QED
  BY <1>8, <1>9

\* A set of numbers that is not empty has a least one.
LEMMA LeastNumber ==
    ASSUME NEW T, T \subseteq Nat, T # {}
    PROVE  \E m \in T : \A k \in T : m <= k
<1>1. PICK m \in T : \A k \in T : ~(<<k, m>> \in OpToRel(<, Nat))
  BY NatLessThanWellFounded, WFMin, Zenon
<1>2. \A k \in T : k < m => <<k, m>> \in OpToRel(<, Nat)
  BY DEF OpToRel
<1>3. \A k \in T : ~(k < m)
  BY <1>1, <1>2, Zenon
<1>. QED
  BY <1>3

\* raise_batch under its lock is a run of admissions: the recursion of AdmitAll
\* has a solution, by the least length for which it would have none.
LEMMA AdmitRun ==
    ASSUME NEW lim0, NEW events, Len(events) \in Nat
    PROVE  \E f : /\ AdmitAll(lim0, events) = f[Len(events)]
                  /\ f[0] = AdmitNone(lim0)
                  /\ \A n \in 1..Len(events) : f[n] = AdmitNext(f[n - 1], events[n])
<1>. DEFINE Run(f, k) == f = [n \in 0..k |-> IF n = 0 THEN AdmitNone(lim0)
                                             ELSE AdmitNext(f[n - 1], events[n])]
            stuck == {k \in Nat : ~\E f : Run(f, k)}
<1>1. stuck = {}
  <2>. SUFFICES ASSUME stuck # {} PROVE FALSE
    OBVIOUS
  <2>1. PICK m \in stuck : \A k \in stuck : m <= k
    BY LeastNumber
  <2>2. m # 0
    <3>1. Run([n \in 0..0 |-> AdmitNone(lim0)], 0)
      OBVIOUS
    <3>. QED
      BY <2>1, <3>1
  <2>3. m \in Nat /\ m - 1 \in Nat /\ ~(m <= m - 1)
    BY <2>2
  <2>4. PICK g : Run(g, m - 1)
    BY <2>1, <2>3
  <2>. DEFINE h == [n \in 0..m |-> IF n < m THEN g[n] ELSE AdmitNext(g[m - 1], events[m])]
  <2>5. \A n \in 0..m : h[n] = IF n = 0 THEN AdmitNone(lim0) ELSE AdmitNext(h[n - 1], events[n])
    <3>. TAKE n \in 0..m
    <3>1. CASE n = 0
      <4>1. 0 \in 0..(m - 1) /\ 0 < m /\ g[0] = AdmitNone(lim0)
        BY <2>2, <2>3, <2>4
      <4>. QED
        BY <3>1, <4>1
    <3>2. CASE n # 0 /\ n < m
      <4>1. n \in 0..(m - 1) /\ n - 1 \in 0..m /\ n - 1 < m
        BY <2>3, <3>2
      <4>2. g[n] = AdmitNext(g[n - 1], events[n])
        BY <2>4, <3>2, <4>1
      <4>3. h[n] = g[n] /\ h[n - 1] = g[n - 1]
        BY <3>2, <4>1
      <4>. QED
        BY <3>2, <4>2, <4>3
    <3>3. CASE n # 0 /\ n = m
      <4>1. n - 1 \in 0..m /\ n - 1 < m /\ ~(n < m)
        BY <2>3, <3>3
      <4>2. h[n] = AdmitNext(g[m - 1], events[m]) /\ h[n - 1] = g[m - 1]
        BY <3>3, <4>1
      <4>. QED
        BY <3>3, <4>2
    <3>. QED
      BY <2>3, <3>1, <3>2, <3>3
  <2>6. Run(h, m)
    BY <2>5
  <2>. QED
    BY <2>1, <2>6
<1>2. PICK f0 : Run(f0, Len(events))
  BY <1>1
<1>. DEFINE f == CHOOSE f : Run(f, Len(events))
<1>3. Run(f, Len(events))
  BY <1>2
<1>4. AdmitAll(lim0, events) = f[Len(events)]
  BY DEF AdmitAll
<1>. HIDE DEF f
<1>5. f[0] = AdmitNone(lim0)
  <2>1. 0 \in 0..Len(events)
    OBVIOUS
  <2>. QED
    BY <1>3, <2>1
<1>6. ASSUME NEW n \in 1..Len(events) PROVE f[n] = AdmitNext(f[n - 1], events[n])
  <2>1. n \in 0..Len(events) /\ n # 0
    OBVIOUS
  <2>. QED
    BY <1>3, <2>1
<1>. QED
  BY <1>4, <1>5, <1>6

\* So far a batch is admitted as it should be.
AdmittedWell(acc) ==
    /\ Grown(acc.lim.seen) /\ IsSeq(acc.send)
    /\ \A x \in AlertIds : Contains(acc.send, x) => Covered(acc.lim.seen, x) /\ AgedOut(x)

LEMMA AdmitNextKeeps ==
    ASSUME now \in Nat, \A id \in DOMAIN seen : seen[id] \in Nat,
           NEW acc, AdmittedWell(acc), NEW e
    PROVE  AdmittedWell(AdmitNext(acc, e))
<1>. DEFINE a == AdmitAlert(acc.lim, e)
            next == AdmitNext(acc, e)
<1>1. /\ Grown(a.lim.seen)
      /\ \A x : Covered(acc.lim.seen, x) => Covered(a.lim.seen, x)
      /\ a.decision # "deduped" /\ e # NoId => Covered(a.lim.seen, e) /\ AgedOut(e)
  BY AdmitOne DEF AdmittedWell
<1>. HIDE DEF a
<1>2. CASE a.decision = "deduped"
  <2>1. next.lim = a.lim /\ next.send = acc.send
    BY <1>2 DEF AdmitNext, a
  <2>. HIDE DEF next
  <2>2. AdmittedWell(next)
    BY <1>1, <2>1 DEF AdmittedWell
  <2>. QED
    BY <2>2 DEF next
<1>3. CASE a.decision # "deduped"
  <2>1. next.lim = a.lim /\ next.send = Append(acc.send, e)
    BY <1>3 DEF AdmitNext, a
  <2>. HIDE DEF next
  <2>2. /\ IsSeq(next.send) /\ Len(acc.send) \in Nat /\ DOMAIN acc.send = 1..Len(acc.send)
        /\ Len(next.send) = Len(acc.send) + 1
        /\ \A i \in 1..Len(acc.send) : next.send[i] = acc.send[i]
        /\ next.send[Len(acc.send) + 1] = e
    BY <2>1, AppendedEntry DEF AdmittedWell
  <2>3. ASSUME NEW x \in AlertIds, Contains(next.send, x)
        PROVE  Contains(acc.send, x) \/ x = e
    BY <2>2, <2>3 DEF Contains
  <2>4. \A x \in AlertIds : x # NoId
    BY AlertSinkAssumption
  <2>5. AdmittedWell(next)
    BY <1>1, <1>3, <2>1, <2>2, <2>3, <2>4 DEF AdmittedWell
  <2>. QED
    BY <2>5 DEF next
<1>. QED
  BY <1>2, <1>3

\* What a whole batch leaves, by the first event that would have spoilt it.
LEMMA AdmitAllKeeps ==
    ASSUME now \in Nat, Grown(seen), NEW events, Len(events) \in Nat
    PROVE  AdmittedWell(AdmitAll(Limiter, events))
<1>1. PICK f : /\ AdmitAll(Limiter, events) = f[Len(events)]
               /\ f[0] = AdmitNone(Limiter)
               /\ \A n \in 1..Len(events) : f[n] = AdmitNext(f[n - 1], events[n])
  BY AdmitRun
<1>2. AdmittedWell(f[0])
  <2>1. f[0].lim.seen = seen /\ f[0].send = <<>>
    BY <1>1 DEF AdmitNone, Limiter
  <2>2. IsSeq(<<>>) /\ Len(<<>>) = 0
    BY DEF IsSeq
  <2>. QED
    BY <2>1, <2>2 DEF AdmittedWell, Contains
<1>. DEFINE spoilt == {n \in 0..Len(events) : ~AdmittedWell(f[n])}
<1>3. spoilt = {}
  <2>. SUFFICES ASSUME spoilt # {} PROVE FALSE
    OBVIOUS
  <2>1. spoilt \subseteq Nat
    OBVIOUS
  <2>2. PICK m \in spoilt : \A k \in spoilt : m <= k
    BY <2>1, LeastNumber
  <2>3. m \in 1..Len(events) /\ m - 1 \in 0..Len(events) /\ ~(m <= m - 1)
    BY <1>2, <2>2
  <2>4. AdmittedWell(f[m - 1])
    BY <2>2, <2>3
  <2>5. \A id \in DOMAIN seen : seen[id] \in Nat
    BY DEF Grown
  <2>6. AdmittedWell(f[m])
    BY <1>1, <2>3, <2>4, <2>5, AdmitNextKeeps
  <2>. QED
    BY <2>2, <2>6
<1>. QED
  BY <1>1, <1>3

\* A call in which the limiter grew and which mailed only what had aged out.
LEMMA OnceKept ==
    ASSUME OnceInv, IsSeq(mails), UNCHANGED now, Grown(seen')
    PROVE  /\ UNCHANGED mails => OnceInv'
           /\ \A m : /\ mails' = Append(mails, m) /\ m.at = now
                     /\ \A x \in AlertIds : Carries(m, x) => Covered(seen', x) /\ AgedOut(x)
                     => OnceInv'
<1>. USE AlertSinkAssumption
<1>1. Grown(seen)'
  BY DEF Grown
<1>2. ASSUME NEW i \in DOMAIN mails, NEW e \in AlertIds, Carries(mails[i], e)
      PROVE  \/ mails[i].at + DedupeWindow <= now
             \/ e \in DOMAIN seen' /\ mails[i].at <= seen'[e]
  <2>1. mails[i].at \in Nat
    BY DEF OnceInv
  <2>2. CASE e \in DOMAIN seen /\ mails[i].at <= seen[e]
    <3>1. seen[e] \in Nat /\ now \in Nat
      BY <2>2 DEF OnceInv, Grown
    <3>2. CASE now - seen[e] < DedupeWindow
      <4>1. e \in DOMAIN seen' /\ seen[e] <= seen'[e] /\ seen'[e] \in Nat
        BY <2>2, <3>2 DEF Grown
      <4>. QED
        BY <2>1, <2>2, <3>1, <4>1
    <3>3. CASE ~(now - seen[e] < DedupeWindow)
      BY <2>1, <2>2, <3>1, <3>3
    <3>. QED
      BY <3>2, <3>3
  <2>. QED
    BY <1>2, <2>2 DEF OnceInv, MailsKnown
<1>3. ASSUME UNCHANGED mails PROVE OnceInv'
  <2>1. MailsKnown'
    BY <1>2, <1>3 DEF MailsKnown
  <2>2. MailedOnce'
    BY <1>3 DEF OnceInv, MailedOnce
  <2>. QED
    BY <1>1, <1>3, <2>1, <2>2 DEF OnceInv
<1>4. ASSUME NEW m, mails' = Append(mails, m), m.at = now,
             \A x \in AlertIds : Carries(m, x) => Covered(seen', x) /\ AgedOut(x)
      PROVE  OnceInv'
  <2>. DEFINE l == Len(mails) + 1
  <2>1. /\ Len(mails) \in Nat /\ DOMAIN mails = 1..Len(mails)
        /\ DOMAIN mails' = 1..l /\ mails'[l] = m
        /\ \A i \in DOMAIN mails : mails'[i] = mails[i]
    BY <1>4, AppendedEntry
  <2>2. \A i \in DOMAIN mails' : i \in DOMAIN mails \/ i = l
    BY <2>1
  <2>3. l \notin DOMAIN mails
    BY <2>1
  <2>. HIDE DEF l
  <2>4. \A i \in DOMAIN mails' : mails'[i].at \in Nat /\ mails'[i].at <= now
    BY <1>4, <2>1, <2>2 DEF OnceInv
  <2>5. ASSUME NEW e \in AlertIds, Carries(m, e)
        PROVE  now + DedupeWindow <= now \/ (e \in DOMAIN seen' /\ now <= seen'[e])
    <3>1. CASE 0 < DedupeWindow
      BY <1>4, <2>5, <3>1 DEF Covered, OnceInv
    <3>2. CASE ~(0 < DedupeWindow)
      BY <3>2 DEF OnceInv
    <3>. QED
      BY <3>1, <3>2
  <2>6. MailsKnown'
    <3>. SUFFICES ASSUME NEW i \in DOMAIN mails', NEW e \in AlertIds, Carries(mails'[i], e)
                  PROVE  \/ mails'[i].at + DedupeWindow <= now
                         \/ e \in DOMAIN seen' /\ mails'[i].at <= seen'[e]
      BY DEF MailsKnown, Carries
    <3>1. CASE i \in DOMAIN mails
      BY <1>2, <2>1, <3>1
    <3>2. CASE i = l
      BY <1>4, <2>1, <2>5, <3>2
    <3>. QED
      BY <2>2, <3>1, <3>2
  <2>7. ASSUME NEW i \in DOMAIN mails, NEW e \in AlertIds, Carries(mails[i], e), Carries(m, e)
        PROVE  mails[i].at + DedupeWindow <= m.at
    <3>1. mails[i].at \in Nat /\ now \in Nat
      BY DEF OnceInv
    <3>2. CASE e \in DOMAIN seen /\ mails[i].at <= seen[e]
      <4>1. seen[e] \in Nat /\ DedupeWindow <= now - seen[e]
        BY <1>4, <2>7, <3>2 DEF OnceInv, Grown, AgedOut
      <4>. QED
        BY <1>4, <3>1, <3>2, <4>1
    <3>. QED
      BY <1>4, <2>7, <3>2 DEF OnceInv, MailsKnown
  <2>8. MailedOnce'
    <3>. SUFFICES ASSUME NEW i \in DOMAIN mails', NEW j \in DOMAIN mails', NEW e \in AlertIds,
                         i # j, Carries(mails'[i], e), Carries(mails'[j], e)
                  PROVE  \/ mails'[i].at + DedupeWindow <= mails'[j].at
                         \/ mails'[j].at + DedupeWindow <= mails'[i].at
      BY DEF MailedOnce, Carries
    <3>1. CASE i \in DOMAIN mails /\ j \in DOMAIN mails
      BY <2>1, <3>1 DEF OnceInv, MailedOnce, Carries
    <3>2. CASE i \in DOMAIN mails /\ j = l
      BY <2>1, <2>7, <3>2
    <3>3. CASE i = l /\ j \in DOMAIN mails
      BY <2>1, <2>7, <3>3
    <3>. QED
      BY <2>2, <3>1, <3>2, <3>3
  <2>. QED
    BY <1>1, <2>4, <2>6, <2>8 DEF OnceInv
<1>. QED
  BY <1>3, <1>4

LEMMA OnceStep == AlertInv /\ OnceInv /\ [AlertNext]_alertVars => OnceInv'
<1>. SUFFICES ASSUME AlertInv, OnceInv, [AlertNext]_alertVars PROVE OnceInv'
  OBVIOUS
<1>. USE AlertSinkAssumption
<1>0. /\ IsSeq(mails) /\ now \in Nat /\ Grown(seen) /\ \A id \in DOMAIN seen : seen[id] \in Nat
      /\ Limiter.seen = seen
  BY DEF AlertInv, OnceInv, Grown, Limiter
<1>1. CASE AlertTick
  <2>1. now' = now + 1 /\ UNCHANGED <<seen, mails>>
    BY <1>1 DEF AlertTick
  <2>2. Grown(seen)'
    BY <1>0, <2>1 DEF Grown
  <2>3. MailsKnown'
    <3>. SUFFICES ASSUME NEW i \in DOMAIN mails, NEW e \in AlertIds, Carries(mails[i], e)
                  PROVE  \/ mails[i].at + DedupeWindow <= now + 1
                         \/ e \in DOMAIN seen /\ mails[i].at <= seen[e]
      BY <2>1 DEF MailsKnown, Carries
    <3>1. mails[i].at \in Nat
      BY DEF OnceInv
    <3>. QED
      BY <1>0, <3>1 DEF OnceInv, MailsKnown
  <2>4. MailedOnce'
    BY <2>1 DEF OnceInv, MailedOnce
  <2>5. now' \in Nat /\ \A i \in DOMAIN mails' : mails'[i].at \in Nat /\ mails'[i].at <= now'
    BY <2>1 DEF OnceInv
  <2>. QED
    BY <2>2, <2>3, <2>4, <2>5 DEF OnceInv
<1>2. ASSUME NEW r \in Raisers, NEW e \in Events, Raise(r, e) PROVE OnceInv'
  <2>. DEFINE a == AdmitAlert(Limiter, e)
              m == [events |-> <<e>>, at |-> now, kind |-> "single", end |-> "sending"]
  <2>1. /\ Grown(a.lim.seen)
        /\ a.decision # "deduped" /\ e # NoId => Covered(a.lim.seen, e) /\ AgedOut(e)
    BY <1>0, AdmitOne
  <2>2. /\ seen' = a.lim.seen /\ UNCHANGED now
        /\ IF a.decision = "send_now" THEN mails' = Append(mails, m) ELSE UNCHANGED mails
    BY <1>2 DEF Raise, Install, Begin, StartMail
  <2>. HIDE DEF a
  <2>3. Grown(seen')
    BY <2>1, <2>2
  <2>4. ASSUME NEW x \in AlertIds, Carries(m, x) PROVE x = e /\ x # NoId
    BY <2>4 DEF Carries, Contains
  <2>5. m.at = now
    OBVIOUS
  <2>. HIDE DEF m
  <2>6. CASE a.decision = "send_now"
    <3>1. \A x \in AlertIds : Carries(m, x) => Covered(seen', x) /\ AgedOut(x)
      BY <2>1, <2>2, <2>4, <2>6
    <3>. QED
      BY <1>0, <2>2, <2>3, <2>5, <2>6, <3>1, OnceKept
  <2>7. CASE a.decision # "send_now"
    BY <1>0, <2>2, <2>3, <2>7, OnceKept
  <2>. QED
    BY <2>6, <2>7
<1>3. ASSUME NEW r \in Raisers, NEW b \in Batches, RaiseBatch(r, b) PROVE OnceInv'
  <2>. DEFINE a == AdmitAll(Limiter, b)
              m == [events |-> a.send, at |-> now, kind |-> "batch", end |-> "sending"]
  <2>1. Len(b) \in Nat
    OBVIOUS
  <2>2. AdmittedWell(a)
    BY <1>0, <2>1, AdmitAllKeeps
  <2>. HIDE DEF a
  <2>3. /\ seen' = a.lim.seen /\ UNCHANGED now
        /\ IF a.send # <<>> THEN mails' = Append(mails, m) ELSE UNCHANGED mails
    BY <1>3 DEF RaiseBatch, Install, Begin, StartMail, a
  <2>4. m.events = a.send /\ m.at = now
    OBVIOUS
  <2>. HIDE DEF m
  <2>5. Grown(seen')
    BY <2>2, <2>3 DEF AdmittedWell
  <2>6. \A x \in AlertIds : Carries(m, x) => Covered(seen', x) /\ AgedOut(x)
    BY <2>2, <2>3, <2>4 DEF AdmittedWell, Carries
  <2>7. CASE a.send # <<>>
    BY <1>0, <2>3, <2>4, <2>5, <2>6, <2>7, OnceKept
  <2>8. CASE a.send = <<>>
    BY <1>0, <2>3, <2>5, <2>8, OnceKept
  <2>. QED
    BY <2>7, <2>8
<1>4. ASSUME NEW r \in Raisers, FlushDigest(r) PROVE OnceInv'
  <2>. DEFINE m == [events |-> digest, at |-> now, kind |-> "flush", end |-> "sending"]
  <2>1. mails' = Append(mails, m) /\ UNCHANGED <<now, seen>>
    BY <1>4 DEF FlushDigest, Begin, StartMail
  <2>2. m.at = now /\ m.kind = "flush"
    OBVIOUS
  <2>. HIDE DEF m
  <2>3. Grown(seen') /\ \A x : ~Carries(m, x)
    BY <1>0, <2>1, <2>2 DEF Carries
  <2>. QED
    BY <1>0, <2>1, <2>2, <2>3, OnceKept
<1>5. ASSUME NEW r \in Raisers, NEW ok \in BOOLEAN, MailEnds(r, ok) PROVE OnceInv'
  <2>1. /\ mails' = [mails EXCEPT ![calls[r].mail] = Ended(mails[calls[r].mail], ok)]
        /\ UNCHANGED <<now, seen>>
    BY <1>5 DEF MailEnds
  <2>2. \A mail : /\ Ended(mail, ok).events = mail.events /\ Ended(mail, ok).at = mail.at
                  /\ Ended(mail, ok).kind = mail.kind
    BY DEF Ended
  <2>3. DOMAIN mails' = DOMAIN mails
    BY <2>1
  <2>4. \A i \in DOMAIN mails : /\ mails'[i].events = mails[i].events
                                /\ mails'[i].at = mails[i].at /\ mails'[i].kind = mails[i].kind
    BY <2>1, <2>2
  <2>5. MailsKnown'
    BY <2>1, <2>3, <2>4 DEF OnceInv, MailsKnown, Carries
  <2>6. MailedOnce'
    BY <2>1, <2>3, <2>4 DEF OnceInv, MailedOnce
  <2>7. Grown(seen)'
    BY <1>0, <2>1 DEF Grown
  <2>. QED
    BY <2>1, <2>3, <2>4, <2>5, <2>6, <2>7 DEF OnceInv
<1>6. CASE UNCHANGED <<now, seen, mails>>
  BY <1>0, <1>6, OnceKept
<1>7. ASSUME NEW r \in Raisers, NEW took \in SUBSET ToSet(calls[r].events), PushEnds(r, took)
      PROVE  OnceInv'
  BY <1>6, <1>7 DEF PushEnds
<1>. QED
  BY <1>1, <1>2, <1>3, <1>4, <1>5, <1>6, <1>7 DEF AlertNext, alertVars

\* admit, raise, raise_batch: retries and concurrent raises of an alert mail it once
\* in each dedupe window, for batches of any length and any burst limit.
THEOREM RetriesMailOnce == AlertSpec => []MailedOnce
<1>1. AlertInit => AlertInv /\ OnceInv
  <2>. SUFFICES ASSUME AlertInit PROVE AlertInv /\ OnceInv
    OBVIOUS
  <2>1. AlertInv
    BY AlertStart
  <2>2. now = 0 /\ DOMAIN seen = {} /\ DOMAIN mails = {}
    BY DEF AlertInit
  <2>. QED
    BY <2>1, <2>2 DEF OnceInv, Grown, MailsKnown, MailedOnce
<1>2. OnceInv => MailedOnce
  BY DEF OnceInv
<1>. QED
  BY <1>1, <1>2, AlertStep, OnceStep, PTL DEF AlertSpec
=============================================================================
