--------------------- MODULE AccountCredentials_proofs ---------------------
(***************************************************************************)
(* What holds of the credential store for any number of accounts,          *)
(* passwords and concurrent handlers.                                      *)
(***************************************************************************)
EXTENDS AccountCredentials, TLAPS

-----------------------------------------------------------------------------
(* Facts about the operators *)

\* record_failure turns a counter into a counter.
LEMMA RecordFailureType ==
    ASSUME NEW c \in Counter, NEW now \in Nat
    PROVE  RecordFailure(c, now) \in Counter
  BY DEF RecordFailure, Counter

\* The empty throttle entry is a counter.
LEMMA NoEntryType == NoEntry \in Counter
  BY DEF NoEntry, Counter

\* Storing a password leaves an account.
LEMMA WithPasswordType ==
    ASSUME NEW acct \in Account, NEW p \in Passwords
    PROVE  WithPassword(acct, p) \in Account
  BY DEF WithPassword, Account, Argon2, PwHash

\* So does storing what a reset stores.
LEMMA AfterResetType ==
    ASSUME NEW acct \in Account, NEW p \in Passwords, NEW code \in Nat
    PROVE  AfterReset(acct, p, code) \in Account
  BY DEF AfterReset, Account, Argon2, PwHash, NoToken, NoCode, ResetToken

\* So does storing an emailed reset token.
LEMMA WithResetType ==
    ASSUME NEW acct \in Account, NEW tok \in ResetToken
    PROVE  WithReset(acct, tok) \in Account
  BY DEF WithReset, Account

\* The operation a handler carries tells which fields it carries.
LEMMA TaskKind ==
    ASSUME NEW k \in Task
    PROVE  /\ k.op = "login" => k \in LoginTask
           /\ k.op = "change" => k \in ChangeTask
           /\ k.op = "reset" => k \in ResetTask
           /\ k.op = "request" => k \in RequestTask
  BY DEF Task, Idle, LoginTask, ChangeTask, ResetTask, RequestTask

\* What a restart loads has the type of what was saved.
LEMMA LoadedType ==
    ASSUME TypeOK
    PROVE  /\ LoadedAccounts \in [Emails -> Account]
           /\ LoadedSessions \in SUBSET Session
  BY DEF TypeOK, LoadedAccounts, LoadedSessions, LiveReset, Account, ResetToken,
         NoToken, NoCode

\* A save leaves a well-typed document on disk.
LEMMA PersistType ==
    ASSUME TypeOK, Persist, byEmail' \in [Emails -> Account],
           sessions' \in SUBSET Session
    PROVE  disk' \in [byEmail: [Emails -> Account], sessions: SUBSET Session]
  BY DEF TypeOK, Persist, Snapshot

-----------------------------------------------------------------------------
(* Type correctness *)

\* The initial state is well typed.
LEMMA InitType == Init => TypeOK
<1> SUFFICES ASSUME Init PROVE TypeOK
  OBVIOUS
<1>1. NoAccount \in Account /\ LegacyAccount \in Account
  BY CredentialsAssumption DEF NoAccount, LegacyAccount, Account, PwHash, ResetToken,
     NoToken, NoCode, Argon2, Pbkdf2
<1>2. byEmail \in [Emails -> Account] /\ sessions \in SUBSET Session
  <2>1. PICK held \in SUBSET LegacyEmails :
            byEmail = [e \in Emails |-> IF e \in held THEN LegacyAccount ELSE NoAccount]
    BY DEF Init
  <2>. QED
    BY <1>1, <2>1 DEF Init
<1>3. disk \in [byEmail: [Emails -> Account], sessions: SUBSET Session]
  BY <1>2 DEF Init, Snapshot
<1>4. redeemed \in Seq(Codes)
  BY DEF Init
<1> QED
  BY <1>2, <1>3, <1>4, NoEntryType, CredentialsAssumption DEF Init, TypeOK, Task

\* Every handler step preserves the types.
LEMMA NextType == TypeOK /\ [Next]_vars => TypeOK'
<1> SUFFICES ASSUME TypeOK, [Next]_vars PROVE TypeOK'
  OBVIOUS
<1> USE NoEntryType
<1>1. ASSUME NEW e \in Emails, NEW p \in Passwords, CreateAccount(e, p) PROVE TypeOK'
  <2>1. byEmail' \in [Emails -> Account]
    BY <1>1 DEF CreateAccount, TypeOK, Account, Argon2, PwHash, NoToken, NoCode, ResetToken
  <2>2. disk' \in [byEmail: [Emails -> Account], sessions: SUBSET Session]
    BY <1>1, <2>1, PersistType DEF CreateAccount, TypeOK
  <2> QED
    BY <1>1, <2>1, <2>2 DEF CreateAccount, TypeOK
<1>2. ASSUME NEW e \in Emails, StaffClearLockout(e) PROVE TypeOK'
  <2>1. disk' \in [byEmail: [Emails -> Account], sessions: SUBSET Session]
    BY <1>2, PersistType DEF StaffClearLockout, TypeOK
  <2> QED
    BY <1>2, <2>1 DEF StaffClearLockout, TypeOK, aux
<1>3. ASSUME NEW t \in Tasks, NEW e \in Emails, NEW p \in Passwords, LoginBegin(t, e, p)
      PROVE  TypeOK'
  <2>1. task' \in [Tasks -> Task]
    BY <1>3 DEF LoginBegin, TypeOK, Task, LoginTask, Verifies, Account
  <2> QED
    BY <1>3, <2>1 DEF LoginBegin, TypeOK, inner, aux
<1>4. ASSUME NEW t \in Tasks, LoginFail(t) PROVE TypeOK'
  <2>1. task[t] \in LoginTask
    BY <1>4, TaskKind DEF LoginFail, TypeOK
  <2>2. loginFails' \in [Emails -> Counter]
    BY <1>4, <2>1, RecordFailureType DEF LoginFail, TypeOK, LoginTask
  <2>3. task' \in [Tasks -> Task]
    BY <1>4 DEF LoginFail, TypeOK, Task
  <2> QED
    BY <1>4, <2>2, <2>3 DEF LoginFail, TypeOK, aux
<1>5. ASSUME NEW t \in Tasks, LoginCommit(t) PROVE TypeOK'
  <2>1. task[t] \in LoginTask
    BY <1>5, TaskKind DEF LoginCommit, TypeOK
  <2>2. byEmail' \in [Emails -> Account]
    BY <1>5, <2>1, WithPasswordType DEF LoginCommit, TypeOK, LoginTask
  <2>3. sessions' \in SUBSET Session
    BY <1>5, <2>1 DEF LoginCommit, TypeOK, LoginTask, Session, Codes
  <2>4. disk' \in [byEmail: [Emails -> Account], sessions: SUBSET Session]
    BY <1>5, <2>2, <2>3, PersistType DEF LoginCommit
  <2>5. task' \in [Tasks -> Task] /\ loginFails' \in [Emails -> Counter]
    BY <1>5 DEF LoginCommit, TypeOK, Task
  <2> QED
    BY <1>5, <2>2, <2>3, <2>4, <2>5 DEF LoginCommit, TypeOK, aux
<1>6. ASSUME NEW t \in Tasks, NEW s \in sessions, NEW old \in Passwords,
             NEW new \in Passwords, ChangeBegin(t, s, old, new)
      PROVE  TypeOK'
  <2>1. task' \in [Tasks -> Task]
    BY <1>6 DEF ChangeBegin, TypeOK, Task, ChangeTask, Session
  <2> QED
    BY <1>6, <2>1 DEF ChangeBegin, TypeOK, inner, aux
<1>7. ASSUME NEW t \in Tasks, ChangeCommit(t) PROVE TypeOK'
  <2>1. task[t] \in ChangeTask
    BY <1>7, TaskKind DEF ChangeCommit, TypeOK
  <2>2. byEmail' \in [Emails -> Account]
    BY <1>7, <2>1, WithPasswordType DEF ChangeCommit, TypeOK, ChangeTask
  <2>3. sessions' \in SUBSET Session
    BY <1>7 DEF ChangeCommit, TypeOK
  <2>4. disk' \in [byEmail: [Emails -> Account], sessions: SUBSET Session]
    BY <1>7, <2>2, <2>3, PersistType DEF ChangeCommit
  <2>5. task' \in [Tasks -> Task] /\ lastSet' \in [Emails -> Passwords]
    BY <1>7, <2>1 DEF ChangeCommit, TypeOK, Task, ChangeTask
  <2> QED
    BY <1>7, <2>2, <2>3, <2>4, <2>5 DEF ChangeCommit, TypeOK
<1>8. ASSUME NEW t \in Tasks, NEW e \in Emails, NEW c \in Presentable,
             NEW new \in Passwords, ResetBegin(t, e, c, new)
      PROVE  TypeOK'
  <2>1. c \in Codes
    BY CredentialsAssumption DEF Presentable, Codes, TypeOK
  <2>2. task' \in [Tasks -> Task]
    BY <1>8, <2>1 DEF ResetBegin, TypeOK, Task, ResetTask, RecoveryMatches, TokenMatches,
       Account
  <2> QED
    BY <1>8, <2>2 DEF ResetBegin, TypeOK, inner, aux
<1>9. ASSUME NEW t \in Tasks, ResetFail(t) PROVE TypeOK'
  <2>1. task[t] \in ResetTask
    BY <1>9, TaskKind DEF ResetFail, TypeOK
  <2>2. resetFails' \in [Emails -> Counter]
    BY <1>9, <2>1, RecordFailureType DEF ResetFail, TypeOK, ResetTask
  <2>3. task' \in [Tasks -> Task]
    BY <1>9 DEF ResetFail, TypeOK, Task
  <2> QED
    BY <1>9, <2>2, <2>3 DEF ResetFail, TypeOK, aux
<1>10. ASSUME NEW t \in Tasks, ResetCommit(t) PROVE TypeOK'
  <2>1. task[t] \in ResetTask
    BY <1>10, TaskKind DEF ResetCommit, TypeOK
  <2>2. byEmail' \in [Emails -> Account]
    BY <1>10, <2>1, AfterResetType DEF ResetCommit, TypeOK, ResetTask
  <2>3. sessions' \in SUBSET Session
    BY <1>10 DEF ResetCommit, TypeOK, SessionsAfterReset
  <2>4. disk' \in [byEmail: [Emails -> Account], sessions: SUBSET Session]
    BY <1>10, <2>2, <2>3, PersistType DEF ResetCommit
  <2>5. /\ task' \in [Tasks -> Task] /\ lastSet' \in [Emails -> Passwords]
        /\ resetFails' \in [Emails -> Counter] /\ resets' \in [Emails -> Nat]
    BY <1>10, <2>1 DEF ResetCommit, TypeOK, Task, ResetTask
  <2>6. redeemed' \in Seq(Codes)
    BY <1>10, <2>1 DEF ResetCommit, TypeOK, ResetTask
  <2> QED
    BY <1>10, <2>2, <2>3, <2>4, <2>5, <2>6 DEF ResetCommit, TypeOK
<1>11. ASSUME NEW t \in Tasks, NEW e \in Emails, RequestBegin(t, e) PROVE TypeOK'
  <2>1. task' \in [Tasks -> Task]
    BY <1>11 DEF RequestBegin, TypeOK, Task, RequestTask
  <2>2. requestFails' \in [Emails -> Counter]
    BY <1>11, RecordFailureType DEF RequestBegin, TypeOK
  <2> QED
    BY <1>11, <2>1, <2>2 DEF RequestBegin, TypeOK, aux
<1>12. ASSUME NEW t \in Tasks, RequestCommit(t) PROVE TypeOK'
  <2>1. task[t] \in RequestTask
    BY <1>12, TaskKind DEF RequestCommit, TypeOK
  <2>5. [code |-> minted', expires |-> Expiry(task[t].now)] \in ResetToken
    BY <1>12, <2>1, CredentialsAssumption
    DEF RequestCommit, TypeOK, RequestTask, ResetToken, Expiry
  <2>2. byEmail' \in [Emails -> Account]
    BY <1>12, <2>1, <2>5, WithResetType DEF RequestCommit, TypeOK, RequestTask
  <2>3. disk' \in [byEmail: [Emails -> Account], sessions: SUBSET Session]
    BY <1>12, <2>2, PersistType DEF RequestCommit, TypeOK
  <2>4. task' \in [Tasks -> Task]
    BY <1>12 DEF RequestCommit, TypeOK, Task
  <2> QED
    BY <1>12, <2>2, <2>3, <2>4 DEF RequestCommit, TypeOK, aux
<1>13. CASE Restart
  <2>1. task' \in [Tasks -> Task]
    BY <1>13 DEF Restart, Task
  <2> QED
    BY <1>13, <2>1, LoadedType DEF Restart, TypeOK, aux
<1>14. CASE Tick
  BY <1>14 DEF Tick, TypeOK, inner, aux
<1>15. CASE UNCHANGED vars
  BY <1>15 DEF vars, inner, aux, TypeOK
<1> QED
  BY <1>1, <1>2, <1>3, <1>4, <1>5, <1>6, <1>7, <1>8, <1>9, <1>10, <1>11, <1>12, <1>13,
     <1>14, <1>15 DEF Next

\* Every reachable state of the credential store is well typed.
THEOREM CredentialsTyped == Spec => []TypeOK
<1>1. Init => TypeOK
  BY InitType
<1>2. TypeOK /\ [Next]_vars => TypeOK'
  BY NextType
<1> QED
  BY <1>1, <1>2, PTL DEF Spec

-----------------------------------------------------------------------------
(* The cap on emailed reset codes *)

\* A failure counted while the key is not paused leaves the count within the
\* limit.
LEMMA RecordFailurePaced ==
    ASSUME NEW c \in Counter, NEW now \in Nat, c.fails <= MaxFails,
           ~ThrottleLocked(c, now)
    PROVE  RecordFailure(c, now).fails <= MaxFails
  BY ThrottleAssumption DEF RecordFailure, ThrottleLocked, Counter

\* However many handlers race, request_password_reset admits at most the
\* limit of requests per email and window: it checks and counts under one
\* lock, unlike login and reset_password.
THEOREM RequestCapHolds == Spec => []RequestsPaced
<1>1. Init => RequestsPaced
  BY ThrottleAssumption DEF Init, RequestsPaced, NoEntry
<1>2. ASSUME TypeOK, RequestsPaced, [Next]_vars PROVE RequestsPaced'
  <2>1. ASSUME NEW t \in Tasks, NEW e \in Emails, RequestBegin(t, e)
        PROVE  RequestsPaced'
    <3>1. requestFails[e] \in Counter /\ clock \in Nat /\ requestFails[e].fails <= MaxFails
      BY <1>2 DEF TypeOK, RequestsPaced
    <3>2. RecordFailure(requestFails[e], clock).fails <= MaxFails
      BY <2>1, <3>1, RecordFailurePaced DEF RequestBegin
    <3> QED
      BY <1>2, <2>1, <3>2 DEF RequestBegin, RequestsPaced, TypeOK
  <2>2. ASSUME NEW e \in Emails, StaffClearLockout(e) PROVE RequestsPaced'
    BY <1>2, <2>2, ThrottleAssumption DEF StaffClearLockout, RequestsPaced, TypeOK, NoEntry
  <2>3. CASE Restart
    BY <2>3, ThrottleAssumption DEF Restart, RequestsPaced, NoEntry
  <2>4. CASE UNCHANGED requestFails
    BY <1>2, <2>4 DEF RequestsPaced
  <2> QED
    BY <1>2, <2>1, <2>2, <2>3, <2>4
       DEF Next, vars, inner, CreateAccount, LoginBegin, LoginFail, LoginCommit,
           ChangeBegin, ChangeCommit, ResetBegin, ResetFail, ResetCommit,
           RequestCommit, Tick
<1> QED
  BY <1>1, <1>2, CredentialsTyped, PTL DEF Spec

-----------------------------------------------------------------------------
(* What the file knows *)

\* In production a write that fails ends the process before anybody is answered.
WritesSucceed == PersistOutcomes = {TRUE}

\* No session was issued, and no login began, in the future.
IssuedInPast ==
    /\ \A s \in disk.sessions : s.issued <= clock
    /\ \A t \in Tasks : task[t].op = "login" => task[t].now <= clock

\* The file holds what memory holds; what memory has lost since, a restart would
\* not load: it has expired.
DiskTracks ==
    /\ \A e \in Emails :
          /\ disk.byEmail[e].exists = byEmail[e].exists
          /\ disk.byEmail[e].pw = byEmail[e].pw
          /\ disk.byEmail[e].recovery = byEmail[e].recovery
          /\ \/ byEmail[e].reset = disk.byEmail[e].reset
             \/ byEmail[e].reset = NoToken /\ disk.byEmail[e].reset.expires <= clock
    /\ sessions \subseteq disk.sessions
    /\ \A s \in disk.sessions \ sessions : ~SessionLive(s.issued, clock, SessionTtl)

FileInv == TypeOK /\ IssuedInPast /\ DiskTracks

\* persist_locked leaves the state of this step in the file.
LEMMA Saves ==
    ASSUME WritesSucceed, Persist
    PROVE  disk'.byEmail = byEmail' /\ disk'.sessions = sessions'
  BY DEF WritesSucceed, Persist, Snapshot

\* A handler that saves.
LEMMA SavedTracks ==
    ASSUME WritesSucceed, FileInv, Persist, UNCHANGED clock,
           \A s \in sessions' : s.issued <= clock,
           \A t \in Tasks : task'[t] = task[t] \/ task'[t].op # "login"
    PROVE  IssuedInPast' /\ DiskTracks'
<1>1. disk'.byEmail = byEmail' /\ disk'.sessions = sessions'
  BY Saves
<1>2. IssuedInPast'
  BY <1>1 DEF FileInv, IssuedInPast
<1>3. DiskTracks'
  BY <1>1 DEF DiskTracks
<1>. QED
  BY <1>2, <1>3

\* A handler that changes neither the accounts nor the sessions, and time passing.
LEMMA UntouchedTracks ==
    ASSUME FileInv, UNCHANGED <<byEmail, sessions, disk>>, clock' \in Nat, clock <= clock',
           \A t \in Tasks : \/ task'[t] = task[t]
                            \/ task'[t].op # "login"
                            \/ task'[t].now <= clock'
    PROVE  IssuedInPast' /\ DiskTracks'
<1>1. clock \in Nat /\ \A s \in disk.sessions : s.issued \in Nat /\ s.issued <= clock
  BY DEF FileInv, TypeOK, IssuedInPast, Session
<1>2. \A t \in Tasks : task[t].op = "login" => task[t].now \in Nat
  BY TaskKind DEF FileInv, TypeOK, LoginTask
<1>3. IssuedInPast'
  BY <1>1, <1>2 DEF FileInv, IssuedInPast
<1>4. \A s \in disk.sessions \ sessions : ~SessionLive(s.issued, clock', SessionTtl)
  <2>. SUFFICES ASSUME NEW s \in disk.sessions \ sessions
                PROVE  ~SessionLive(s.issued, clock', SessionTtl)
    OBVIOUS
  <2>1. ~SessionLive(s.issued, clock, SessionTtl) /\ s.issued \in Nat /\ s.issued <= clock
    BY <1>1 DEF FileInv, DiskTracks
  <2>. QED
    BY <1>1, <2>1, CredentialsAssumption DEF SessionLive
<1>5. \A e \in Emails : disk.byEmail[e].reset.expires \in Nat
  BY DEF FileInv, TypeOK, Account, ResetToken
<1>6. DiskTracks'
  BY <1>1, <1>4, <1>5 DEF FileInv, DiskTracks
<1>. QED
  BY <1>3, <1>6

\* from_snapshot.
LEMMA RestartTracks ==
    ASSUME FileInv, Restart
    PROVE  IssuedInPast' /\ DiskTracks'
<1>1. /\ byEmail' = LoadedAccounts /\ sessions' = LoadedSessions
      /\ UNCHANGED <<clock, disk>> /\ \A t \in Tasks : task'[t].op = "idle"
  BY DEF Restart, Idle
<1>2. \A e \in Emails :
          /\ byEmail'[e].exists = disk.byEmail[e].exists
          /\ byEmail'[e].pw = disk.byEmail[e].pw
          /\ byEmail'[e].recovery = disk.byEmail[e].recovery
          /\ byEmail'[e].reset = LiveReset(disk.byEmail[e].reset)
  BY <1>1 DEF LoadedAccounts, FileInv, TypeOK, Account
<1>3. \A e \in Emails : disk.byEmail[e].reset.expires \in Nat
  BY DEF FileInv, TypeOK, Account, ResetToken
<1>4. \A e \in Emails :
          \/ byEmail'[e].reset = disk.byEmail[e].reset
          \/ byEmail'[e].reset = NoToken /\ disk.byEmail[e].reset.expires <= clock
  BY <1>2, <1>3 DEF LiveReset, FileInv, TypeOK
<1>5. IssuedInPast'
  BY <1>1 DEF FileInv, IssuedInPast
<1>6. DiskTracks'
  BY <1>1, <1>2, <1>4 DEF DiskTracks, LoadedSessions
<1>. QED
  BY <1>5, <1>6

\* Every step keeps the file in step with memory.
LEMMA FileStep ==
    ASSUME WritesSucceed
    PROVE  FileInv /\ [Next]_vars => FileInv'
<1>. SUFFICES ASSUME FileInv, [Next]_vars PROVE FileInv'
  OBVIOUS
<1>1. TypeOK' /\ TypeOK
  BY NextType DEF FileInv
<1>. SUFFICES IssuedInPast' /\ DiskTracks'
  BY <1>1 DEF FileInv
<1>2. \A s \in sessions : s.issued <= clock
  BY DEF FileInv, IssuedInPast, DiskTracks
<1>3. clock \in Nat /\ clock <= clock /\ Idle.op = "idle" /\ task \in [Tasks -> Task]
  BY <1>1 DEF TypeOK, Idle
<1>4. ASSUME NEW e \in Emails, \/ StaffClearLockout(e)
                               \/ \E p \in Passwords : CreateAccount(e, p)
      PROVE  IssuedInPast' /\ DiskTracks'
  BY <1>2, <1>4, SavedTracks DEF StaffClearLockout, CreateAccount
<1>5. ASSUME NEW t \in Tasks, LoginCommit(t) PROVE IssuedInPast' /\ DiskTracks'
  <2>1. \A s \in sessions' : s.issued <= clock
    BY <1>2, <1>5 DEF LoginCommit, FileInv, IssuedInPast
  <2>. QED
    BY <1>3, <1>5, <2>1, SavedTracks DEF LoginCommit
<1>6. ASSUME NEW t \in Tasks, ChangeCommit(t) \/ ResetCommit(t) \/ RequestCommit(t)
      PROVE  IssuedInPast' /\ DiskTracks'
  <2>1. sessions' \subseteq sessions
    BY <1>6 DEF ChangeCommit, ResetCommit, SessionsAfterReset, RequestCommit
  <2>2. UNCHANGED clock /\ Persist /\ task' = [task EXCEPT ![t] = Idle]
    BY <1>6 DEF ChangeCommit, ResetCommit, RequestCommit
  <2>. QED
    BY <1>2, <1>3, <2>1, <2>2, SavedTracks
<1>7. ASSUME NEW t \in Tasks, NEW k, task' = [task EXCEPT ![t] = k],
             k.op # "login" \/ k.now <= clock,
             UNCHANGED <<clock, byEmail, sessions, disk>>
      PROVE  IssuedInPast' /\ DiskTracks'
  BY <1>3, <1>7, UntouchedTracks
<1>8. ASSUME NEW t \in Tasks, NEW e \in Emails, NEW p \in Passwords, LoginBegin(t, e, p)
      PROVE  IssuedInPast' /\ DiskTracks'
  <2>. DEFINE k == [op |-> "login", email |-> e, now |-> clock,
                    ok |-> byEmail[e].exists /\ Verifies(byEmail[e].pw, p),
                    rehash |-> (byEmail[e].exists /\ Verifies(byEmail[e].pw, p))
                               /\ byEmail[e].pw.kind = "pbkdf2",
                    pw |-> p, era |-> resets[e]]
  <2>1. task' = [task EXCEPT ![t] = k] /\ UNCHANGED <<clock, byEmail, sessions, disk>>
    BY <1>8 DEF LoginBegin, inner
  <2>2. k.now = clock
    OBVIOUS
  <2>. HIDE DEF k
  <2>. QED
    BY <1>3, <1>7, <2>1, <2>2
<1>9. ASSUME NEW t \in Tasks, NEW s \in sessions, NEW old \in Passwords, NEW new \in Passwords,
             ChangeBegin(t, s, old, new)
      PROVE  IssuedInPast' /\ DiskTracks'
  <2>. DEFINE k == [op |-> "change", email |-> s.email, keep |-> s.token, pw |-> new]
  <2>1. task' = [task EXCEPT ![t] = k] /\ UNCHANGED <<clock, byEmail, sessions, disk>>
    BY <1>9 DEF ChangeBegin, inner
  <2>2. k.op = "change"
    OBVIOUS
  <2>. HIDE DEF k
  <2>. QED
    BY <1>7, <2>1, <2>2
<1>10. ASSUME NEW t \in Tasks, NEW e \in Emails, NEW c \in Presentable, NEW new \in Passwords,
              ResetBegin(t, e, c, new)
       PROVE  IssuedInPast' /\ DiskTracks'
  <2>. DEFINE ok == byEmail[e].exists /\ (\/ RecoveryMatches(byEmail[e], c)
                                         \/ TokenMatches(byEmail[e], c, clock))
              k == [op |-> "reset", email |-> e, now |-> clock, ok |-> ok, code |-> c, pw |-> new]
  <2>1. task' = [task EXCEPT ![t] = k] /\ UNCHANGED <<clock, byEmail, sessions, disk>>
    BY <1>10 DEF ResetBegin, inner
  <2>2. k.op = "reset"
    OBVIOUS
  <2>. HIDE DEF k
  <2>. QED
    BY <1>7, <2>1, <2>2
<1>11. ASSUME NEW t \in Tasks, NEW e \in Emails, RequestBegin(t, e)
       PROVE  IssuedInPast' /\ DiskTracks'
  <2>. DEFINE k == [op |-> "request", email |-> e, now |-> clock]
  <2>1. /\ task' = [task EXCEPT ![t] = k] \/ UNCHANGED task
        /\ UNCHANGED <<clock, byEmail, sessions, disk>>
    BY <1>11 DEF RequestBegin
  <2>2. k.op = "request"
    OBVIOUS
  <2>. HIDE DEF k
  <2>. QED
    BY <1>3, <1>7, <2>1, <2>2, UntouchedTracks
<1>12. ASSUME NEW t \in Tasks, LoginFail(t) \/ ResetFail(t)
       PROVE  IssuedInPast' /\ DiskTracks'
  BY <1>3, <1>7, <1>12 DEF LoginFail, ResetFail
<1>13. CASE Tick
  BY <1>3, <1>13, UntouchedTracks DEF Tick, inner
<1>14. CASE UNCHANGED vars
  BY <1>3, <1>14, UntouchedTracks DEF vars, inner
<1>. QED
  BY <1>4, <1>5, <1>6, <1>8, <1>9, <1>10, <1>11, <1>12, <1>13, <1>14, RestartTracks DEF Next

\* The file a server starts on holds what the server knows.
LEMMA FileStart == Init => FileInv
<1>. SUFFICES ASSUME Init PROVE FileInv
  OBVIOUS
<1>1. disk.byEmail = byEmail /\ disk.sessions = sessions /\ sessions = {}
  BY DEF Init, Snapshot
<1>2. \A t \in Tasks : task[t].op = "idle"
  BY DEF Init, Idle
<1>. QED
  BY <1>1, <1>2, InitType DEF FileInv, IssuedInPast, DiskTracks

\* persist_locked, from_snapshot: in production a server that starts again knows
\* every account, live session and live reset token that was acknowledged.
THEOREM NothingLostOnRestart ==
    ASSUME WritesSucceed
    PROVE  Spec => []RestartLosesNothing
<1>1. FileInv => RestartLosesNothing
  <2>. SUFFICES ASSUME FileInv PROVE RestartLosesNothing
    OBVIOUS
  <2>1. LoadedSessions = {s \in sessions : SessionLive(s.issued, clock, SessionTtl)}
    BY DEF FileInv, DiskTracks, LoadedSessions
  <2>2. ASSUME NEW e \in Emails
        PROVE  [disk.byEmail[e] EXCEPT !.reset = LiveReset(@)]
                 = [byEmail[e] EXCEPT !.reset = LiveReset(@)]
    <3>. DEFINE a == disk.byEmail[e]
                b == byEmail[e]
    <3>1. a \in Account /\ b \in Account /\ clock \in Nat
      BY DEF FileInv, TypeOK
    <3>2. a.exists = b.exists /\ a.pw = b.pw /\ a.recovery = b.recovery
      BY DEF FileInv, DiskTracks
    <3>3. a.reset.expires \in Nat /\ NoToken.expires = 0
      BY <3>1 DEF Account, ResetToken, NoToken
    <3>4. LiveReset(a.reset) = LiveReset(b.reset)
      BY <3>1, <3>3 DEF FileInv, DiskTracks, LiveReset
    <3>. HIDE DEF a, b
    <3>5. [a EXCEPT !.reset = LiveReset(a.reset)] = [b EXCEPT !.reset = LiveReset(b.reset)]
      BY <3>1, <3>2, <3>4 DEF Account
    <3>. QED
      BY <3>5 DEF a, b
  <2>3. LoadedAccounts = [e \in Emails |-> [byEmail[e] EXCEPT !.reset = LiveReset(@)]]
    BY <2>2 DEF LoadedAccounts
  <2>. QED
    BY <2>1, <2>3 DEF RestartLosesNothing
<1>2. FileInv /\ [Next]_vars => FileInv'
  BY FileStep
<1>. QED
  BY <1>1, <1>2, FileStart, PTL DEF Spec

-----------------------------------------------------------------------------
(* Reset credentials are single-use *)

\* The codes that the file, and so a restart, would accept for an account.
Kept(e) == {disk.byEmail[e].recovery, disk.byEmail[e].reset.code} \ {NoCode}

\* Codes are fresh: each belongs to one account at most.
CodesFresh ==
    /\ \A e \in Emails : \A c \in Kept(e) : c <= minted
    /\ \A e, f \in Emails : e # f => Kept(e) \cap Kept(f) = {}

\* A reset that was verified carries a code no other account has.
VerifiedOwn ==
    \A t \in Tasks : task[t].op = "reset" /\ task[t].ok =>
        task[t].code <= minted /\ \A f \in Emails \ {task[t].email} : task[t].code \notin Kept(f)

RedeemedGone ==
    \A i \in DOMAIN redeemed : redeemed[i] <= minted /\ \A e \in Emails : redeemed[i] \notin Kept(e)

CodesInv == CodesFresh /\ VerifiedOwn /\ RedeemedGone

\* What is in memory is in the file.
LEMMA MemoryKept ==
    ASSUME FileInv, NEW e \in Emails
    PROVE  /\ byEmail[e].recovery \in Kept(e) \cup {NoCode}
           /\ byEmail[e].reset.code \in Kept(e) \cup {NoCode}
           /\ \A c \in Kept(e) : c \in Nat \ {0}
<1>1. NoToken.code = NoCode
  BY DEF NoToken
<1>2. disk.byEmail[e] \in Account
  BY DEF FileInv, TypeOK
<1>. QED
  BY <1>1, <1>2 DEF FileInv, DiskTracks, Kept, Account, ResetToken, NoCode

\* A step that hands out at most one new code, to one account, and takes no code
\* in that is somebody else's.
LEMMA CodesKept ==
    ASSUME FileInv, CodesInv, NEW e \in Emails, minted' \in {minted, minted + 1},
           \A f \in Emails \ {e} : Kept(f)' \subseteq Kept(f),
           \A c \in Kept(e)' : c \in Kept(e) \/ (minted' = minted + 1 /\ c = minted'),
           \A t \in Tasks : task'[t] = task[t] \/ task'[t].op # "reset" \/ ~task'[t].ok,
           UNCHANGED redeemed
    PROVE  CodesInv'
<1>1. minted \in Nat /\ \A f \in Emails : \A c \in Kept(f) : c \in Nat /\ c <= minted
  BY MemoryKept DEF FileInv, TypeOK, CodesInv, CodesFresh
<1>2. CodesFresh'
  <2>1. \A f \in Emails : \A c \in Kept(f)' : c <= minted'
    BY <1>1
  <2>2. ASSUME NEW f \in Emails, NEW g \in Emails, f # g, NEW c, c \in Kept(f)', c \in Kept(g)'
        PROVE  FALSE
    <3>1. CASE c \in Kept(f) /\ c \in Kept(g)
      BY <2>2, <3>1 DEF CodesInv, CodesFresh
    <3>2. CASE c = minted + 1
      BY <1>1, <2>2, <3>2
    <3>. QED
      BY <2>2, <3>1, <3>2
  <2>. QED
    BY <2>1, <2>2 DEF CodesFresh
<1>3. VerifiedOwn'
  <2>. SUFFICES ASSUME NEW t \in Tasks, task'[t].op = "reset", task'[t].ok
                PROVE  /\ task'[t].code <= minted'
                       /\ \A f \in Emails \ {task'[t].email} : task'[t].code \notin Kept(f)'
    BY DEF VerifiedOwn
  <2>1. task'[t] = task[t] /\ task[t].code \in Nat
    BY TaskKind DEF FileInv, TypeOK, ResetTask, Codes
  <2>2. /\ task[t].code <= minted
        /\ \A f \in Emails \ {task[t].email} : task[t].code \notin Kept(f)
    BY <2>1 DEF CodesInv, VerifiedOwn
  <2>. QED
    BY <1>1, <2>1, <2>2
<1>4. RedeemedGone'
  <2>. SUFFICES ASSUME NEW i \in DOMAIN redeemed
                PROVE  redeemed[i] <= minted' /\ \A f \in Emails : redeemed[i] \notin Kept(f)'
    BY DEF RedeemedGone
  <2>1. redeemed[i] \in Nat
    BY DEF FileInv, TypeOK, Codes
  <2>2. redeemed[i] <= minted /\ \A f \in Emails : redeemed[i] \notin Kept(f)
    BY DEF CodesInv, RedeemedGone
  <2>. QED
    BY <1>1, <2>1, <2>2
<1>. QED
  BY <1>2, <1>3, <1>4 DEF CodesInv

\* Saving what memory holds adds no code.
LEMMA SavedCodes ==
    ASSUME WritesSucceed, FileInv, Persist, NEW f \in Emails,
           byEmail'[f].recovery = byEmail[f].recovery, byEmail'[f].reset = byEmail[f].reset
    PROVE  Kept(f)' \subseteq Kept(f)
<1>1. disk'.byEmail = byEmail'
  BY Saves
<1>. QED
  BY <1>1, MemoryKept DEF Kept

\* A step that saves nothing and verifies no code.
LEMMA CodesSame ==
    ASSUME CodesInv, UNCHANGED <<disk, minted, redeemed>>,
           \A t \in Tasks : task'[t] = task[t] \/ task'[t].op # "reset"
    PROVE  CodesInv'
  BY DEF CodesInv, CodesFresh, VerifiedOwn, RedeemedGone, Kept

\* login and change_password store a password, and no code.
LEMMA PasswordKeepsCodes ==
    ASSUME WritesSucceed, FileInv, CodesInv, NEW t \in Tasks, LoginCommit(t) \/ ChangeCommit(t)
    PROVE  CodesInv'
<1>. DEFINE e == task[t].email
<1>1. e \in Emails /\ byEmail \in [Emails -> Account] /\ task \in [Tasks -> Task]
  BY TaskKind DEF LoginCommit, ChangeCommit, FileInv, TypeOK, LoginTask, ChangeTask
<1>2. /\ \/ byEmail' = byEmail
         \/ \E p : byEmail' = [byEmail EXCEPT ![e] = WithPassword(byEmail[e], p)]
      /\ task' = [task EXCEPT ![t] = Idle] /\ Persist /\ UNCHANGED redeemed
      /\ minted' \in {minted, minted + 1}
  BY DEF LoginCommit, ChangeCommit, aux
<1>3. \A p : /\ WithPassword(byEmail[e], p).recovery = byEmail[e].recovery
             /\ WithPassword(byEmail[e], p).reset = byEmail[e].reset
  BY <1>1 DEF WithPassword, Account
<1>. HIDE DEF e
<1>4. \A f \in Emails : /\ byEmail'[f].recovery = byEmail[f].recovery
                        /\ byEmail'[f].reset = byEmail[f].reset
  BY <1>1, <1>2, <1>3
<1>5. \A f \in Emails : Kept(f)' \subseteq Kept(f)
  BY <1>2, <1>4, SavedCodes
<1>6. \A u \in Tasks : task'[u] = task[u] \/ task'[u].op # "reset"
  BY <1>1, <1>2 DEF Idle
<1>. QED
  BY <1>1, <1>2, <1>5, <1>6, CodesKept

\* create_account and request_password_reset hand out a new code.
LEMMA NewCodeKeeps ==
    ASSUME WritesSucceed, FileInv, CodesInv, NEW e \in Emails, NEW acct,
           minted' = minted + 1, byEmail' = [byEmail EXCEPT ![e] = acct],
           acct.recovery \in {byEmail[e].recovery, minted'},
           acct.reset.code \in {NoCode, minted'},
           \A t \in Tasks : task'[t] = task[t] \/ task'[t].op # "reset",
           Persist, UNCHANGED redeemed
    PROVE  CodesInv'
<1>1. byEmail \in [Emails -> Account]
  BY DEF FileInv, TypeOK
<1>2. byEmail'[e] = acct /\ \A f \in Emails \ {e} : byEmail'[f] = byEmail[f]
  BY <1>1
<1>3. \A f \in Emails \ {e} : Kept(f)' \subseteq Kept(f)
  BY <1>2, SavedCodes
<1>4. \A c \in Kept(e)' : c \in Kept(e) \/ (minted' = minted + 1 /\ c = minted')
  <2>1. disk'.byEmail[e] = acct
    BY <1>2, Saves
  <2>2. byEmail[e].recovery \in Kept(e) \cup {NoCode}
    BY MemoryKept
  <2>. QED
    BY <2>1, <2>2 DEF Kept
<1>. QED
  BY <1>3, <1>4, CodesKept

\* reset_password, first lock: the code is compared with the account's own.
LEMMA ResetBeginKeeps ==
    ASSUME FileInv, CodesInv, NEW t \in Tasks, NEW e \in Emails, NEW c \in Presentable,
           NEW new \in Passwords, ResetBegin(t, e, c, new)
    PROVE  CodesInv'
<1>. DEFINE ok == byEmail[e].exists /\ (\/ RecoveryMatches(byEmail[e], c)
                                       \/ TokenMatches(byEmail[e], c, clock))
            k == [op |-> "reset", email |-> e, now |-> clock, ok |-> ok, code |-> c, pw |-> new]
<1>1. task' = [task EXCEPT ![t] = k] /\ UNCHANGED <<disk, minted, redeemed>>
  BY DEF ResetBegin, aux
<1>2. c \in Codes /\ task \in [Tasks -> Task]
  BY CredentialsAssumption DEF Presentable, Codes, FileInv, TypeOK
<1>3. ok => c \in Kept(e)
  BY <1>2, MemoryKept DEF RecoveryMatches, TokenMatches, NoCode, Codes
<1>4. k.ok = ok /\ k.code = c /\ k.email = e
  OBVIOUS
<1>. HIDE DEF k, ok
<1>5. k.ok => k.code <= minted /\ \A f \in Emails \ {k.email} : k.code \notin Kept(f)
  BY <1>3, <1>4 DEF CodesInv, CodesFresh
<1>6. VerifiedOwn'
  <2>. SUFFICES ASSUME NEW u \in Tasks, task'[u].op = "reset", task'[u].ok
                PROVE  /\ task'[u].code <= minted
                       /\ \A f \in Emails \ {task'[u].email} : task'[u].code \notin Kept(f)
    BY <1>1 DEF VerifiedOwn, Kept
  <2>1. CASE u = t
    BY <2>1, <1>1, <1>2, <1>5
  <2>2. CASE u # t
    BY <2>2, <1>1, <1>2 DEF CodesInv, VerifiedOwn
  <2>. QED
    BY <2>1, <2>2
<1>. QED
  BY <1>1, <1>6 DEF CodesInv, CodesFresh, RedeemedGone, Kept

\* reset_password, second lock: the code is spent and every code of the account
\* is replaced, in memory and in the file.
LEMMA ResetCommitKeeps ==
    ASSUME WritesSucceed, FileInv, CodesInv, NEW t \in Tasks, ResetCommit(t)
    PROVE  CodesInv'
<1>. DEFINE acct == AfterReset(byEmail[task[t].email], task[t].pw, minted')
<1>0. PICK e \in Emails, c \in Codes : e = task[t].email /\ c = task[t].code
  BY TaskKind DEF ResetCommit, FileInv, TypeOK, ResetTask
<1>1. /\ c \in Nat /\ minted \in Nat /\ redeemed \in Seq(Codes)
      /\ byEmail \in [Emails -> Account] /\ task \in [Tasks -> Task]
  BY DEF FileInv, TypeOK, Codes
<1>2. c <= minted /\ \A f \in Emails \ {e} : c \notin Kept(f)
  BY <1>0 DEF ResetCommit, CodesInv, VerifiedOwn
<1>3. /\ minted' = minted + 1 /\ byEmail' = [byEmail EXCEPT ![e] = acct]
      /\ task' = [task EXCEPT ![t] = Idle] /\ redeemed' = Append(redeemed, c) /\ Persist
  BY <1>0 DEF ResetCommit
<1>4. acct.recovery = minted' /\ acct.reset.code = NoCode
  BY DEF AfterReset, NoToken
<1>. HIDE DEF acct
<1>5. \A f \in Emails \ {e} : Kept(f)' \subseteq Kept(f)
  <2>1. \A f \in Emails \ {e} : byEmail'[f] = byEmail[f]
    BY <1>1, <1>3
  <2>. QED
    BY <1>3, <2>1, SavedCodes
<1>6. Kept(e)' \subseteq {minted + 1}
  <2>1. disk'.byEmail[e] = acct
    BY <1>1, <1>3, Saves
  <2>. QED
    BY <1>3, <1>4, <2>1 DEF Kept
<1>7. \A f \in Emails : \A x \in Kept(f) : x \in Nat /\ x <= minted
  BY MemoryKept DEF CodesInv, CodesFresh
<1>8. CodesFresh'
  <2>1. \A f \in Emails : \A x \in Kept(f)' : x <= minted'
    BY <1>1, <1>3, <1>5, <1>6, <1>7
  <2>2. ASSUME NEW f \in Emails, NEW g \in Emails, f # g, NEW x, x \in Kept(f)', x \in Kept(g)'
        PROVE  FALSE
    <3>1. CASE f # e /\ g # e
      BY <1>5, <2>2, <3>1 DEF CodesInv, CodesFresh
    <3>2. CASE f = e \/ g = e
      BY <1>1, <1>5, <1>6, <1>7, <2>2, <3>2
    <3>. QED
      BY <3>1, <3>2
  <2>. QED
    BY <2>1, <2>2 DEF CodesFresh
<1>9. VerifiedOwn'
  <2>. SUFFICES ASSUME NEW u \in Tasks, task'[u].op = "reset", task'[u].ok
                PROVE  /\ task'[u].code <= minted'
                       /\ \A f \in Emails \ {task'[u].email} : task'[u].code \notin Kept(f)'
    BY DEF VerifiedOwn
  <2>1. task'[u] = task[u] /\ task[u].op = "reset" /\ task[u].ok
    BY <1>1, <1>3 DEF Idle
  <2>2. task[u].code \in Nat /\ task[u].code <= minted
        /\ \A f \in Emails \ {task[u].email} : task[u].code \notin Kept(f)
    BY <1>1, <2>1, TaskKind DEF CodesInv, VerifiedOwn, ResetTask, Codes
  <2>. QED
    BY <1>1, <1>3, <1>5, <1>6, <2>1, <2>2
<1>10. RedeemedGone'
  <2>. SUFFICES ASSUME NEW i \in DOMAIN redeemed'
                PROVE  redeemed'[i] <= minted' /\ \A f \in Emails : redeemed'[i] \notin Kept(f)'
    BY DEF RedeemedGone
  <2>1. /\ redeemed'[i] \in Nat /\ redeemed'[i] <= minted
        /\ \A f \in Emails \ {e} : redeemed'[i] \notin Kept(f)
    <3>1. DOMAIN redeemed' = 1..Len(redeemed) + 1 /\ DOMAIN redeemed = 1..Len(redeemed)
          /\ Len(redeemed) \in Nat
      BY <1>1, <1>3
    <3>2. CASE i = Len(redeemed) + 1
      <4>1. redeemed'[i] = c
        BY <1>1, <1>3, <3>2
      <4>. QED
        BY <4>1, <1>1, <1>2
    <3>3. CASE i \in DOMAIN redeemed
      <4>1. redeemed'[i] = redeemed[i] /\ redeemed[i] \in Nat
        BY <1>1, <1>3, <3>3 DEF Codes
      <4>. QED
        BY <3>3, <4>1 DEF CodesInv, RedeemedGone
    <3>. QED
      BY <3>1, <3>2, <3>3
  <2>2. redeemed'[i] <= minted' /\ redeemed'[i] # minted + 1
    BY <1>1, <1>3, <2>1
  <2>3. ASSUME NEW f \in Emails PROVE redeemed'[i] \notin Kept(f)'
    <3>1. CASE f = e
      BY <1>6, <2>2, <3>1
    <3>2. CASE f # e
      BY <1>5, <2>1, <3>2
    <3>. QED
      BY <3>1, <3>2
  <2>. QED
    BY <2>2, <2>3
<1>. QED
  BY <1>8, <1>9, <1>10 DEF CodesInv

\* Every step keeps codes fresh and spent codes dead.
LEMMA CodesStep ==
    ASSUME WritesSucceed
    PROVE  FileInv /\ CodesInv /\ [Next]_vars => CodesInv'
<1>. SUFFICES ASSUME FileInv, CodesInv, [Next]_vars PROVE CodesInv'
  OBVIOUS
<1>1. /\ task \in [Tasks -> Task] /\ byEmail \in [Emails -> Account] /\ minted \in Nat
      /\ Idle.op = "idle"
  BY DEF FileInv, TypeOK, Idle
<1>2. ASSUME NEW e \in Emails, NEW p \in Passwords, CreateAccount(e, p) PROVE CodesInv'
  <2>. DEFINE acct == [exists |-> TRUE, pw |-> Argon2(p), recovery |-> minted', reset |-> NoToken]
  <2>1. acct.recovery = minted' /\ acct.reset.code = NoCode
    BY DEF NoToken
  <2>2. /\ minted' = minted + 1 /\ byEmail' = [byEmail EXCEPT ![e] = acct]
        /\ UNCHANGED <<task, redeemed>> /\ Persist
    BY <1>2 DEF CreateAccount
  <2>. HIDE DEF acct
  <2>. QED
    BY <2>1, <2>2, NewCodeKeeps
<1>3. ASSUME NEW t \in Tasks, RequestCommit(t) PROVE CodesInv'
  <2>. DEFINE e == task[t].email
              tok == [code |-> minted', expires |-> Expiry(task[t].now)]
  <2>1. e \in Emails
    BY <1>1, <1>3, TaskKind DEF RequestCommit, RequestTask
  <2>2. tok.code = minted'
    OBVIOUS
  <2>3. /\ minted' = minted + 1 /\ byEmail' = [byEmail EXCEPT ![e] = WithReset(byEmail[e], tok)]
        /\ task' = [task EXCEPT ![t] = Idle] /\ UNCHANGED redeemed /\ Persist
    BY <1>3 DEF RequestCommit, aux
  <2>. HIDE DEF e, tok
  <2>4. /\ WithReset(byEmail[e], tok).recovery = byEmail[e].recovery
        /\ WithReset(byEmail[e], tok).reset = tok
    BY <1>1, <2>1 DEF WithReset, Account
  <2>5. \A u \in Tasks : task'[u] = task[u] \/ task'[u].op # "reset"
    BY <1>1, <2>3
  <2>. QED
    BY <2>1, <2>2, <2>3, <2>4, <2>5, NewCodeKeeps
<1>4. ASSUME NEW e \in Emails, StaffClearLockout(e) PROVE CodesInv'
  <2>1. UNCHANGED <<byEmail, minted, task, redeemed>> /\ Persist
    BY <1>4 DEF StaffClearLockout, aux
  <2>2. \A f \in Emails : Kept(f)' \subseteq Kept(f)
    BY <2>1, SavedCodes
  <2>. QED
    BY <2>1, <2>2, CodesKept
<1>5. ASSUME UNCHANGED <<disk, minted, redeemed>>, NEW t \in Tasks, NEW k,
             task' = [task EXCEPT ![t] = k] \/ task' = task, k.op # "reset"
      PROVE  CodesInv'
  BY <1>1, <1>5, CodesSame
<1>6. ASSUME NEW t \in Tasks, LoginFail(t) \/ ResetFail(t) PROVE CodesInv'
  BY <1>1, <1>5, <1>6 DEF LoginFail, ResetFail, aux
<1>7. ASSUME NEW t \in Tasks, NEW e \in Emails, NEW p \in Passwords, LoginBegin(t, e, p)
      PROVE  CodesInv'
  <2>. DEFINE k == [op |-> "login", email |-> e, now |-> clock,
                    ok |-> byEmail[e].exists /\ Verifies(byEmail[e].pw, p),
                    rehash |-> (byEmail[e].exists /\ Verifies(byEmail[e].pw, p))
                               /\ byEmail[e].pw.kind = "pbkdf2",
                    pw |-> p, era |-> resets[e]]
  <2>1. task' = [task EXCEPT ![t] = k] /\ UNCHANGED <<disk, minted, redeemed>>
    BY <1>7 DEF LoginBegin, aux
  <2>2. k.op # "reset"
    OBVIOUS
  <2>. HIDE DEF k
  <2>. QED
    BY <1>5, <2>1, <2>2
<1>8. ASSUME NEW t \in Tasks, NEW s \in sessions, NEW old \in Passwords, NEW new \in Passwords,
             ChangeBegin(t, s, old, new)
      PROVE  CodesInv'
  <2>. DEFINE k == [op |-> "change", email |-> s.email, keep |-> s.token, pw |-> new]
  <2>1. task' = [task EXCEPT ![t] = k] /\ UNCHANGED <<disk, minted, redeemed>>
    BY <1>8 DEF ChangeBegin, aux
  <2>2. k.op # "reset"
    OBVIOUS
  <2>. HIDE DEF k
  <2>. QED
    BY <1>5, <2>1, <2>2
<1>9. ASSUME NEW t \in Tasks, NEW e \in Emails, RequestBegin(t, e) PROVE CodesInv'
  <2>. DEFINE k == [op |-> "request", email |-> e, now |-> clock]
  <2>1. /\ task' = [task EXCEPT ![t] = k] \/ task' = task
        /\ UNCHANGED <<disk, minted, redeemed>>
    BY <1>9 DEF RequestBegin, aux
  <2>2. k.op # "reset"
    OBVIOUS
  <2>. HIDE DEF k
  <2>. QED
    BY <1>5, <2>1, <2>2
<1>10. CASE Restart
  BY <1>1, <1>10, CodesSame DEF Restart, aux
<1>11. CASE Tick \/ UNCHANGED vars
  BY <1>11, CodesSame DEF Tick, vars, inner, aux
<1>. QED
  BY <1>2, <1>3, <1>4, <1>6, <1>7, <1>8, <1>9, <1>10, <1>11, PasswordKeepsCodes,
     ResetBeginKeeps, ResetCommitKeeps DEF Next

\* reset_password, "single-use: old code is dead": for any number of handlers that
\* race with one code, a code that was accepted once is no account's credential
\* again, not even after a restart.
THEOREM RedeemedStaysDead ==
    ASSUME WritesSucceed
    PROVE  Spec => []RedeemedCodeDead
<1>1. Init => CodesInv
  <2>. SUFFICES ASSUME Init PROVE CodesInv
    OBVIOUS
  <2>1. \A e \in Emails : Kept(e) = {}
    <3>1. disk.byEmail = byEmail /\ \A e \in Emails : byEmail[e] \in {LegacyAccount, NoAccount}
      BY DEF Init, Snapshot
    <3>. QED
      BY <3>1 DEF LegacyAccount, NoAccount, NoToken, NoCode, Kept
  <2>2. \A t \in Tasks : task[t].op = "idle"
    BY DEF Init, Idle
  <2>3. DOMAIN redeemed = {}
    BY DEF Init
  <2>. QED
    BY <2>1, <2>2, <2>3 DEF CodesInv, CodesFresh, VerifiedOwn, RedeemedGone
<1>2. FileInv /\ CodesInv => RedeemedCodeDead
  <2>. SUFFICES ASSUME FileInv, CodesInv, NEW i \in DOMAIN redeemed, NEW e \in Emails
                PROVE  byEmail[e].recovery # redeemed[i] /\ byEmail[e].reset.code # redeemed[i]
    BY DEF RedeemedCodeDead
  <2>1. redeemed[i] \in Codes
    BY DEF FileInv, TypeOK
  <2>2. redeemed[i] # NoCode /\ redeemed[i] \notin Kept(e)
    BY <2>1 DEF Codes, NoCode, CodesInv, RedeemedGone
  <2>. QED
    BY <2>2, MemoryKept
<1>3. FileInv /\ [Next]_vars => FileInv'
  BY FileStep
<1>4. FileInv /\ CodesInv /\ [Next]_vars => CodesInv'
  BY CodesStep
<1>. QED
  BY <1>1, <1>2, <1>3, <1>4, FileStart, PTL DEF Spec

-----------------------------------------------------------------------------
(* Passwords and sessions across the unlocked hashing *)

\* What a login stores, or a legacy file holds, is the password of that file.
OnlyLegacyRehashed ==
    /\ \A e \in Emails : byEmail[e].pw.kind = "pbkdf2" =>
          e \in LegacyEmails /\ byEmail[e].pw.of = LegacyPassword
    /\ \A t \in Tasks : task[t].op = "login" /\ task[t].rehash =>
          task[t].email \in LegacyEmails /\ task[t].pw = LegacyPassword

PasswordInv == PasswordIsLastSet /\ OnlyLegacyRehashed

\* A handler that leaves every password alone.
LEMMA PasswordUntouched ==
    ASSUME PasswordInv, UNCHANGED lastSet,
           \A e \in Emails : /\ byEmail'[e].exists = byEmail[e].exists
                             /\ byEmail'[e].pw = byEmail[e].pw,
           \A t \in Tasks : task'[t] = task[t] \/ task'[t].op # "login"
    PROVE  PasswordInv'
<1>1. PasswordIsLastSet'
  BY DEF PasswordInv, PasswordIsLastSet, Verifies
<1>2. OnlyLegacyRehashed'
  BY DEF PasswordInv, OnlyLegacyRehashed
<1>. QED
  BY <1>1, <1>2 DEF PasswordInv

\* A handler that stores p, the password its owner has just chosen.
LEMMA PasswordChosen ==
    ASSUME PasswordInv, TypeOK, NEW e \in Emails, NEW p \in Passwords, NEW acct,
           byEmail' = [byEmail EXCEPT ![e] = acct], acct.pw = Argon2(p),
           lastSet' = [lastSet EXCEPT ![e] = p],
           \A t \in Tasks : task'[t] = task[t] \/ task'[t].op # "login"
    PROVE  PasswordInv'
<1>1. byEmail \in [Emails -> Account] /\ lastSet \in [Emails -> Passwords]
  BY DEF TypeOK
<1>2. /\ byEmail'[e] = acct /\ lastSet'[e] = p
      /\ \A f \in Emails \ {e} : byEmail'[f] = byEmail[f] /\ lastSet'[f] = lastSet[f]
  BY <1>1
<1>3. acct.pw.of = p /\ acct.pw.kind = "argon2"
  BY DEF Argon2
<1>4. PasswordIsLastSet'
  BY <1>2, <1>3 DEF PasswordInv, PasswordIsLastSet, Verifies
<1>5. OnlyLegacyRehashed'
  BY <1>2, <1>3 DEF PasswordInv, OnlyLegacyRehashed
<1>. QED
  BY <1>4, <1>5 DEF PasswordInv

\* login, first lock.
LEMMA LoginBeginPassword ==
    ASSUME PasswordInv, TypeOK, NEW t \in Tasks, NEW e \in Emails, NEW p \in Passwords,
           LoginBegin(t, e, p)
    PROVE  PasswordInv'
<1>. DEFINE ok == byEmail[e].exists /\ Verifies(byEmail[e].pw, p)
            k == [op |-> "login", email |-> e, now |-> clock, ok |-> ok,
                  rehash |-> ok /\ byEmail[e].pw.kind = "pbkdf2", pw |-> p, era |-> resets[e]]
<1>1. task' = [task EXCEPT ![t] = k] /\ UNCHANGED <<byEmail, lastSet>>
  BY DEF LoginBegin, inner, aux
<1>2. k.email = e /\ k.pw = p /\ (k.rehash <=> ok /\ byEmail[e].pw.kind = "pbkdf2")
  OBVIOUS
<1>3. task \in [Tasks -> Task]
  BY DEF TypeOK
<1>4. ok => byEmail[e].pw.of = p
  BY DEF Verifies
<1>. HIDE DEF k, ok
<1>5. k.rehash => k.email \in LegacyEmails /\ k.pw = LegacyPassword
  BY <1>2, <1>4 DEF PasswordInv, OnlyLegacyRehashed
<1>6. OnlyLegacyRehashed'
  BY <1>1, <1>3, <1>5 DEF PasswordInv, OnlyLegacyRehashed
<1>. QED
  BY <1>1, <1>6 DEF PasswordInv, PasswordIsLastSet

\* login, second lock: what it stores is what it verified, the password of the
\* legacy file.
LEMMA LoginCommitPassword ==
    ASSUME PasswordInv, TypeOK, NEW t \in Tasks, LoginCommit(t)
    PROVE  PasswordInv'
<1>. DEFINE e == task[t].email
<1>1. /\ e \in Emails /\ task[t].pw \in Passwords /\ byEmail \in [Emails -> Account]
      /\ task \in [Tasks -> Task] /\ Idle.op = "idle"
  BY TaskKind DEF LoginCommit, TypeOK, LoginTask, Idle
<1>2. /\ task' = [task EXCEPT ![t] = Idle] /\ UNCHANGED lastSet
      /\ byEmail' = IF task[t].rehash
                    THEN [byEmail EXCEPT ![e] = WithPassword(byEmail[e], task[t].pw)]
                    ELSE byEmail
  BY DEF LoginCommit, aux
<1>3. \A u \in Tasks : task'[u] = task[u] \/ task'[u].op # "login"
  BY <1>1, <1>2
<1>4. CASE ~task[t].rehash
  BY <1>2, <1>3, <1>4, PasswordUntouched
<1>5. CASE task[t].rehash
  <2>1. e \in LegacyEmails /\ task[t].pw = LegacyPassword
    BY <1>5 DEF LoginCommit, PasswordInv, OnlyLegacyRehashed
  <2>2. /\ WithPassword(byEmail[e], task[t].pw).exists = byEmail[e].exists
        /\ WithPassword(byEmail[e], task[t].pw).pw = Argon2(LegacyPassword)
    BY <1>1, <2>1 DEF WithPassword, Account
  <2>3. \A f \in Emails :
            \/ f = e /\ byEmail'[f].pw = Argon2(LegacyPassword)
            \/ f # e /\ byEmail'[f] = byEmail[f]
    BY <1>1, <1>2, <1>5, <2>2
  <2>4. Argon2(LegacyPassword).kind = "argon2"
    BY DEF Argon2
  <2>5. PasswordIsLastSet'
    BY <1>2, <2>1, <2>3 DEF PasswordInv, PasswordIsLastSet, Verifies
  <2>6. OnlyLegacyRehashed'
    BY <1>3, <2>3, <2>4 DEF PasswordInv, OnlyLegacyRehashed
  <2>. QED
    BY <2>5, <2>6 DEF PasswordInv
<1>. QED
  BY <1>4, <1>5

\* change_password and reset_password, second lock.
LEMMA NewPasswordChosen ==
    ASSUME PasswordInv, TypeOK, NEW t \in Tasks, ChangeCommit(t) \/ ResetCommit(t)
    PROVE  PasswordInv'
<1>. DEFINE e == task[t].email
            p == task[t].pw
            acct == IF task[t].op = "change" THEN WithPassword(byEmail[e], p)
                                             ELSE AfterReset(byEmail[e], p, minted')
<1>1. /\ e \in Emails /\ p \in Passwords /\ byEmail \in [Emails -> Account]
      /\ task \in [Tasks -> Task] /\ Idle.op = "idle"
  BY TaskKind DEF ChangeCommit, ResetCommit, TypeOK, ChangeTask, ResetTask, Idle
<1>2. /\ byEmail' = [byEmail EXCEPT ![e] = acct] /\ lastSet' = [lastSet EXCEPT ![e] = p]
      /\ task' = [task EXCEPT ![t] = Idle]
  BY DEF ChangeCommit, ResetCommit
<1>3. acct.pw = Argon2(p)
  BY <1>1 DEF WithPassword, AfterReset, Account
<1>4. \A u \in Tasks : task'[u] = task[u] \/ task'[u].op # "login"
  BY <1>1, <1>2
<1>. HIDE DEF e, p, acct
<1>. QED
  BY <1>1, <1>2, <1>3, <1>4, PasswordChosen

\* Every step keeps the stored password the one chosen last.
LEMMA PasswordStep == FileInv /\ PasswordInv /\ [Next]_vars => PasswordInv'
<1>. SUFFICES ASSUME FileInv, PasswordInv, [Next]_vars PROVE PasswordInv'
  OBVIOUS
<1>1. /\ TypeOK /\ task \in [Tasks -> Task] /\ byEmail \in [Emails -> Account]
      /\ Idle.op = "idle"
  BY DEF FileInv, TypeOK, Idle
<1>2. ASSUME NEW e \in Emails, NEW p \in Passwords, CreateAccount(e, p) PROVE PasswordInv'
  <2>. DEFINE acct == [exists |-> TRUE, pw |-> Argon2(p), recovery |-> minted', reset |-> NoToken]
  <2>1. acct.pw = Argon2(p)
    OBVIOUS
  <2>2. /\ byEmail' = [byEmail EXCEPT ![e] = acct] /\ lastSet' = [lastSet EXCEPT ![e] = p]
        /\ UNCHANGED task
    BY <1>2 DEF CreateAccount
  <2>. HIDE DEF acct
  <2>. QED
    BY <1>1, <2>1, <2>2, PasswordChosen
<1>3. ASSUME NEW t \in Tasks, RequestCommit(t) PROVE PasswordInv'
  <2>. DEFINE e == task[t].email
              tok == [code |-> minted', expires |-> Expiry(task[t].now)]
  <2>1. e \in Emails
    BY <1>1, <1>3, TaskKind DEF RequestCommit, RequestTask
  <2>2. /\ byEmail' = [byEmail EXCEPT ![e] = WithReset(byEmail[e], tok)]
        /\ task' = [task EXCEPT ![t] = Idle] /\ UNCHANGED lastSet
    BY <1>3 DEF RequestCommit, aux
  <2>. HIDE DEF e, tok
  <2>3. /\ WithReset(byEmail[e], tok).exists = byEmail[e].exists
        /\ WithReset(byEmail[e], tok).pw = byEmail[e].pw
    BY <1>1, <2>1 DEF WithReset, Account
  <2>. QED
    BY <1>1, <2>1, <2>2, <2>3, PasswordUntouched
<1>4. ASSUME UNCHANGED <<byEmail, lastSet>>, NEW t \in Tasks, NEW k,
             task' = [task EXCEPT ![t] = k] \/ task' = task, k.op # "login"
      PROVE  PasswordInv'
  BY <1>1, <1>4, PasswordUntouched
<1>5. ASSUME NEW t \in Tasks, LoginFail(t) \/ ResetFail(t) PROVE PasswordInv'
  BY <1>1, <1>4, <1>5 DEF LoginFail, ResetFail, aux
<1>6. ASSUME NEW t \in Tasks, NEW s \in sessions, NEW old \in Passwords, NEW new \in Passwords,
             ChangeBegin(t, s, old, new)
      PROVE  PasswordInv'
  <2>. DEFINE k == [op |-> "change", email |-> s.email, keep |-> s.token, pw |-> new]
  <2>1. task' = [task EXCEPT ![t] = k] /\ UNCHANGED <<byEmail, lastSet>>
    BY <1>6 DEF ChangeBegin, inner, aux
  <2>2. k.op # "login"
    OBVIOUS
  <2>. HIDE DEF k
  <2>. QED
    BY <1>4, <2>1, <2>2
<1>7. ASSUME NEW t \in Tasks, NEW e \in Emails, NEW c \in Presentable, NEW new \in Passwords,
             ResetBegin(t, e, c, new)
      PROVE  PasswordInv'
  <2>. DEFINE ok == byEmail[e].exists /\ (\/ RecoveryMatches(byEmail[e], c)
                                         \/ TokenMatches(byEmail[e], c, clock))
              k == [op |-> "reset", email |-> e, now |-> clock, ok |-> ok, code |-> c, pw |-> new]
  <2>1. task' = [task EXCEPT ![t] = k] /\ UNCHANGED <<byEmail, lastSet>>
    BY <1>7 DEF ResetBegin, inner, aux
  <2>2. k.op # "login"
    OBVIOUS
  <2>. HIDE DEF k, ok
  <2>. QED
    BY <1>4, <2>1, <2>2
<1>8. ASSUME NEW t \in Tasks, NEW e \in Emails, RequestBegin(t, e) PROVE PasswordInv'
  <2>. DEFINE k == [op |-> "request", email |-> e, now |-> clock]
  <2>1. /\ task' = [task EXCEPT ![t] = k] \/ task' = task
        /\ UNCHANGED <<byEmail, lastSet>>
    BY <1>8 DEF RequestBegin, aux
  <2>2. k.op # "login"
    OBVIOUS
  <2>. HIDE DEF k
  <2>. QED
    BY <1>4, <2>1, <2>2
<1>9. CASE Restart
  <2>1. \A e \in Emails : byEmail'[e].exists = byEmail[e].exists /\ byEmail'[e].pw = byEmail[e].pw
    <3>1. byEmail' = LoadedAccounts
      BY <1>9 DEF Restart
    <3>. QED
      BY <3>1 DEF LoadedAccounts, FileInv, TypeOK, DiskTracks, Account
  <2>2. UNCHANGED lastSet /\ \A t \in Tasks : task'[t].op # "login"
    BY <1>9 DEF Restart, aux, Idle
  <2>. QED
    BY <1>1, <2>1, <2>2, PasswordUntouched
<1>10. CASE Tick \/ UNCHANGED vars \/ \E e \in Emails : StaffClearLockout(e)
  BY <1>1, <1>10, PasswordUntouched DEF Tick, StaffClearLockout, vars, inner, aux
<1>. QED
  BY <1>1, <1>2, <1>3, <1>5, <1>6, <1>7, <1>8, <1>9, <1>10, LoginBeginPassword,
     LoginCommitPassword, NewPasswordChosen DEF Next

\* login re-hashes a legacy password ("transparently"): however many handlers
\* overlap, the stored hash verifies the password its owner chose last, or is that of
\* the legacy file, written back by a login that had verified it.
THEOREM PasswordStays ==
    ASSUME WritesSucceed
    PROVE  Spec => []PasswordIsLastSet
<1>1. Init => PasswordInv
  <2>. SUFFICES ASSUME Init PROVE PasswordInv
    OBVIOUS
  <2>1. \A e \in Emails : \/ byEmail[e] = LegacyAccount /\ e \in LegacyEmails
                          \/ byEmail[e] = NoAccount
    BY DEF Init
  <2>2. \A e \in Emails : lastSet[e] = LegacyPassword
    BY DEF Init
  <2>3. /\ LegacyAccount.pw.of = LegacyPassword /\ ~NoAccount.exists
        /\ NoAccount.pw.kind = "argon2"
    BY DEF LegacyAccount, NoAccount, Argon2, Pbkdf2
  <2>4. \A t \in Tasks : task[t].op = "idle"
    BY DEF Init, Idle
  <2>. QED
    BY <2>1, <2>2, <2>3, <2>4 DEF PasswordInv, PasswordIsLastSet, OnlyLegacyRehashed, Verifies
<1>2. FileInv /\ [Next]_vars => FileInv'
  BY FileStep
<1>3. FileInv /\ PasswordInv /\ [Next]_vars => PasswordInv'
  BY PasswordStep
<1>4. PasswordInv => PasswordIsLastSet
  BY DEF PasswordInv
<1>. QED
  BY <1>1, <1>2, <1>3, <1>4, FileStart, PTL DEF Spec

-----------------------------------------------------------------------------
(* Resets and sessions *)

\* Every session a restart would load is younger than its account's recovery code,
\* and nobody has, or is about to get, a session of an account that is not there.
Young ==
    /\ \A e \in Emails : disk.byEmail[e].recovery <= minted
    /\ \A s \in disk.sessions : /\ disk.byEmail[s.email].exists
                                /\ disk.byEmail[s.email].recovery < s.token
                                /\ s.token <= minted
    /\ \A t \in Tasks : task[t].op = "login" /\ task[t].ok => byEmail[task[t].email].exists

\* The same of what is in memory.
LEMMA YoungInMemory ==
    ASSUME FileInv, Young
    PROVE  /\ \A e \in Emails : byEmail[e].recovery \in Nat /\ byEmail[e].recovery <= minted
           /\ \A s \in sessions : /\ s.email \in Emails /\ s.token \in Nat /\ byEmail[s.email].exists
                                  /\ byEmail[s.email].recovery < s.token /\ s.token <= minted
           /\ minted \in Nat
<1>1. /\ byEmail \in [Emails -> Account] /\ minted \in Nat
      /\ \A s \in sessions : s.email \in Emails /\ s.token \in Nat
  BY DEF FileInv, TypeOK, Session, Codes
<1>2. \A e \in Emails : byEmail[e].recovery \in Nat
  BY <1>1 DEF Account
<1>. QED
  BY <1>1, <1>2 DEF FileInv, DiskTracks, Young

\* A handler that saves.
LEMMA YoungSaved ==
    ASSUME WritesSucceed, Persist, FileInv, Young,
           \A e \in Emails : /\ byEmail'[e].recovery <= minted'
                             /\ byEmail[e].exists => byEmail'[e].exists,
           \A s \in sessions' : /\ byEmail'[s.email].exists
                                /\ byEmail'[s.email].recovery < s.token /\ s.token <= minted',
           \A t \in Tasks : task'[t] = task[t] \/ task'[t].op # "login"
    PROVE  Young'
<1>1. disk'.byEmail = byEmail' /\ disk'.sessions = sessions'
  BY Saves
<1>2. \A t \in Tasks : task[t].op = "login" => task[t].email \in Emails
  BY TaskKind DEF FileInv, TypeOK, LoginTask
<1>. QED
  BY <1>1, <1>2 DEF Young

\* A handler that leaves the file alone.
LEMMA YoungStays ==
    ASSUME FileInv, Young, UNCHANGED <<disk, minted>>,
           \A e \in Emails : byEmail'[e].exists = byEmail[e].exists,
           \A t \in Tasks : \/ task'[t] = task[t] \/ task'[t].op # "login"
                            \/ task'[t].email \in Emails /\ (task'[t].ok => byEmail[task'[t].email].exists)
    PROVE  Young'
<1>1. \A t \in Tasks : task[t].op = "login" => task[t].email \in Emails
  BY TaskKind DEF FileInv, TypeOK, LoginTask
<1>. QED
  BY <1>1 DEF Young

\* Every step leaves only sessions younger than the recovery code.
LEMMA YoungStep ==
    ASSUME WritesSucceed
    PROVE  FileInv /\ Young /\ [Next]_vars => Young'
<1>. SUFFICES ASSUME FileInv, Young, [Next]_vars PROVE Young'
  OBVIOUS
<1>1. /\ TypeOK /\ task \in [Tasks -> Task] /\ byEmail \in [Emails -> Account]
      /\ Idle.op = "idle"
  BY DEF FileInv, TypeOK, Idle
<1>2. /\ \A e \in Emails : byEmail[e].recovery \in Nat /\ byEmail[e].recovery <= minted
      /\ \A s \in sessions : /\ s.email \in Emails /\ s.token \in Nat /\ byEmail[s.email].exists
                             /\ byEmail[s.email].recovery < s.token /\ s.token <= minted
      /\ minted \in Nat
  BY YoungInMemory
<1>3. ASSUME NEW e \in Emails, NEW p \in Passwords, CreateAccount(e, p) PROVE Young'
  <2>. DEFINE acct == [exists |-> TRUE, pw |-> Argon2(p), recovery |-> minted', reset |-> NoToken]
  <2>1. /\ ~byEmail[e].exists /\ minted' = minted + 1 /\ byEmail' = [byEmail EXCEPT ![e] = acct]
        /\ UNCHANGED <<sessions, task>> /\ Persist
    BY <1>3 DEF CreateAccount
  <2>2. acct.exists /\ acct.recovery = minted'
    OBVIOUS
  <2>. HIDE DEF acct
  <2>3. byEmail'[e] = acct /\ \A f \in Emails \ {e} : byEmail'[f] = byEmail[f]
    BY <1>1, <2>1
  <2>4. \A s \in sessions : s.email # e
    BY <1>2, <2>1
  <2>5. \A f \in Emails : byEmail'[f].recovery <= minted' /\ (byEmail[f].exists => byEmail'[f].exists)
    BY <1>2, <2>1, <2>2, <2>3
  <2>6. \A s \in sessions' : /\ byEmail'[s.email].exists
                             /\ byEmail'[s.email].recovery < s.token /\ s.token <= minted'
    BY <1>2, <2>1, <2>3, <2>4
  <2>. QED
    BY <2>1, <2>5, <2>6, YoungSaved
<1>4. ASSUME NEW t \in Tasks, ResetCommit(t) PROVE Young'
  <2>. DEFINE e == task[t].email
              acct == AfterReset(byEmail[e], task[t].pw, minted')
  <2>1. /\ minted' = minted + 1 /\ byEmail' = [byEmail EXCEPT ![e] = acct]
        /\ sessions' = {s \in sessions : s.email # e} /\ task' = [task EXCEPT ![t] = Idle] /\ Persist
    BY <1>4 DEF ResetCommit, SessionsAfterReset
  <2>2. acct.exists = byEmail[e].exists /\ acct.recovery = minted' /\ e \in Emails
    BY <1>1, <1>4, TaskKind DEF AfterReset, ResetCommit, ResetTask
  <2>. HIDE DEF acct, e
  <2>3. byEmail'[e] = acct /\ \A f \in Emails \ {e} : byEmail'[f] = byEmail[f]
    BY <1>1, <2>1, <2>2
  <2>4. \A f \in Emails : byEmail'[f].recovery <= minted' /\ (byEmail[f].exists => byEmail'[f].exists)
    BY <1>2, <2>1, <2>2, <2>3
  <2>5. \A s \in sessions' : /\ byEmail'[s.email].exists
                             /\ byEmail'[s.email].recovery < s.token /\ s.token <= minted'
    BY <1>2, <2>1, <2>3
  <2>6. \A u \in Tasks : task'[u] = task[u] \/ task'[u].op # "login"
    BY <1>1, <2>1
  <2>. QED
    BY <2>1, <2>4, <2>5, <2>6, YoungSaved
<1>5. ASSUME NEW t \in Tasks, LoginCommit(t) \/ ChangeCommit(t) \/ RequestCommit(t) PROVE Young'
  <2>. DEFINE e == task[t].email
  <2>1. e \in Emails /\ (LoginCommit(t) => byEmail[e].exists)
    BY <1>1, <1>5, TaskKind DEF LoginCommit, ChangeCommit, RequestCommit, LoginTask, ChangeTask,
       RequestTask, Young
  <2>2. minted' \in Nat /\ minted <= minted' /\ (LoginCommit(t) => minted' = minted + 1)
    BY <1>2, <1>5 DEF LoginCommit, ChangeCommit, RequestCommit
  <2>3. \A f \in Emails : /\ byEmail'[f].exists = byEmail[f].exists
                          /\ byEmail'[f].recovery = byEmail[f].recovery
    <3>1. \A q : WithPassword(byEmail[e], q).exists = byEmail[e].exists
                 /\ WithPassword(byEmail[e], q).recovery = byEmail[e].recovery
      BY <1>1, <2>1 DEF WithPassword, Account
    <3>2. \A q : WithReset(byEmail[e], q).exists = byEmail[e].exists
                 /\ WithReset(byEmail[e], q).recovery = byEmail[e].recovery
      BY <1>1, <2>1 DEF WithReset, Account
    <3>. QED
      BY <1>1, <1>5, <2>1, <3>1, <3>2 DEF LoginCommit, ChangeCommit, RequestCommit
  <2>4. ASSUME NEW s \in sessions'
        PROVE  /\ s.email \in Emails /\ s.token \in Nat /\ byEmail[s.email].exists
               /\ byEmail[s.email].recovery < s.token /\ s.token <= minted'
    <3>1. CASE s \in sessions
      BY <1>2, <2>2, <3>1
    <3>2. CASE s \notin sessions
      <4>1. LoginCommit(t) /\ s = [token |-> minted', email |-> e, issued |-> task[t].now, era |-> task[t].era]
        BY <1>5, <2>4, <3>2 DEF LoginCommit, ChangeCommit, RequestCommit
      <4>2. s.email = e /\ s.token = minted'
        BY <4>1
      <4>. QED
        BY <1>2, <2>1, <2>2, <4>1, <4>2
    <3>. QED
      BY <3>1, <3>2
  <2>5. Persist /\ \A u \in Tasks : task'[u] = task[u] \/ task'[u].op # "login"
    BY <1>1, <1>5 DEF LoginCommit, ChangeCommit, RequestCommit
  <2>6. \A f \in Emails : byEmail'[f].recovery <= minted'
    BY <1>2, <2>2, <2>3
  <2>. QED
    BY <2>3, <2>4, <2>5, <2>6, YoungSaved
<1>6. ASSUME NEW e \in Emails, StaffClearLockout(e) PROVE Young'
  BY <1>2, <1>6, YoungSaved DEF StaffClearLockout
<1>7. ASSUME UNCHANGED <<byEmail, disk, minted>>, NEW t \in Tasks, NEW k,
             task' = [task EXCEPT ![t] = k] \/ task' = task,
             k.op # "login" \/ (k.email \in Emails /\ (k.ok => byEmail[k.email].exists))
      PROVE  Young'
  BY <1>1, <1>7, YoungStays
<1>8. ASSUME NEW t \in Tasks, NEW e \in Emails, NEW p \in Passwords, LoginBegin(t, e, p)
      PROVE  Young'
  <2>. DEFINE ok == byEmail[e].exists /\ Verifies(byEmail[e].pw, p)
              k == [op |-> "login", email |-> e, now |-> clock, ok |-> ok,
                    rehash |-> ok /\ byEmail[e].pw.kind = "pbkdf2", pw |-> p, era |-> resets[e]]
  <2>1. task' = [task EXCEPT ![t] = k] /\ UNCHANGED <<byEmail, disk, minted>>
    BY <1>8 DEF LoginBegin, inner
  <2>2. k.email = e /\ (k.ok => byEmail[e].exists)
    OBVIOUS
  <2>. HIDE DEF k
  <2>. QED
    BY <1>7, <2>1, <2>2
<1>9. ASSUME NEW t \in Tasks, LoginFail(t) \/ ResetFail(t) PROVE Young'
  BY <1>1, <1>7, <1>9 DEF LoginFail, ResetFail
<1>10. ASSUME NEW t \in Tasks, NEW s \in sessions, NEW old \in Passwords, NEW new \in Passwords,
              ChangeBegin(t, s, old, new)
       PROVE  Young'
  <2>. DEFINE k == [op |-> "change", email |-> s.email, keep |-> s.token, pw |-> new]
  <2>1. task' = [task EXCEPT ![t] = k] /\ UNCHANGED <<byEmail, disk, minted>>
    BY <1>10 DEF ChangeBegin, inner
  <2>2. k.op # "login"
    OBVIOUS
  <2>. HIDE DEF k
  <2>. QED
    BY <1>7, <2>1, <2>2
<1>11. ASSUME NEW t \in Tasks, NEW e \in Emails, NEW c \in Presentable, NEW new \in Passwords,
              ResetBegin(t, e, c, new)
       PROVE  Young'
  <2>. DEFINE ok == byEmail[e].exists /\ (\/ RecoveryMatches(byEmail[e], c)
                                         \/ TokenMatches(byEmail[e], c, clock))
              k == [op |-> "reset", email |-> e, now |-> clock, ok |-> ok, code |-> c, pw |-> new]
  <2>1. task' = [task EXCEPT ![t] = k] /\ UNCHANGED <<byEmail, disk, minted>>
    BY <1>11 DEF ResetBegin, inner
  <2>2. k.op # "login"
    OBVIOUS
  <2>. HIDE DEF k, ok
  <2>. QED
    BY <1>7, <2>1, <2>2
<1>12. ASSUME NEW t \in Tasks, NEW e \in Emails, RequestBegin(t, e) PROVE Young'
  <2>. DEFINE k == [op |-> "request", email |-> e, now |-> clock]
  <2>1. /\ task' = [task EXCEPT ![t] = k] \/ task' = task
        /\ UNCHANGED <<byEmail, disk, minted>>
    BY <1>12 DEF RequestBegin
  <2>2. k.op # "login"
    OBVIOUS
  <2>. HIDE DEF k
  <2>. QED
    BY <1>7, <2>1, <2>2
<1>13. CASE Restart
  <2>1. \A e \in Emails : byEmail'[e].exists = byEmail[e].exists
    <3>1. byEmail' = LoadedAccounts
      BY <1>13 DEF Restart
    <3>. QED
      BY <3>1 DEF LoadedAccounts, FileInv, TypeOK, DiskTracks, Account
  <2>2. UNCHANGED <<disk, minted>> /\ \A t \in Tasks : task'[t].op # "login"
    BY <1>13 DEF Restart, Idle
  <2>. QED
    BY <2>1, <2>2, YoungStays
<1>14. CASE Tick \/ UNCHANGED vars
  BY <1>14, YoungStays DEF Tick, vars, inner
<1>. QED
  BY <1>3, <1>4, <1>5, <1>6, <1>8, <1>9, <1>10, <1>11, <1>12, <1>13, <1>14 DEF Next

\* reset_password, "Drop every session for this account": however many handlers
\* overlap, and through restarts, no session minted before an account's last reset
\* is a session after it.
THEOREM ResetsEndSessions ==
    ASSUME WritesSucceed
    PROVE  Spec => []ResetEndsSessions
<1>1. Init => Young
  <2>. SUFFICES ASSUME Init PROVE Young
    OBVIOUS
  <2>1. /\ disk.byEmail = byEmail /\ disk.sessions = {} /\ minted = 0
        /\ \A e \in Emails : byEmail[e] \in {LegacyAccount, NoAccount}
        /\ \A t \in Tasks : task[t].op = "idle"
    BY DEF Init, Snapshot, Idle
  <2>2. LegacyAccount.recovery = 0 /\ NoAccount.recovery = 0
    BY DEF LegacyAccount, NoAccount, NoCode
  <2>. QED
    BY <2>1, <2>2 DEF Young
<1>2. FileInv /\ [Next]_vars => FileInv'
  BY FileStep
<1>3. FileInv /\ Young /\ [Next]_vars => Young'
  BY YoungStep
<1>4. FileInv /\ Young => ResetEndsSessions
  BY YoungInMemory DEF ResetEndsSessions
<1>. QED
  BY <1>1, <1>2, <1>3, <1>4, FileStart, PTL DEF Spec
=============================================================================
