------------------------- MODULE AccountCredentials -------------------------
(***************************************************************************)
(* The credential half of AccountStore (bulwark-server/src/accounts.rs):   *)
(* guardian accounts, their password, recovery code and emailed reset      *)
(* token, the sessions minted from them, the three per-email throttles,    *)
(* and accounts.json.                                                      *)
(*                                                                         *)
(* The store is one mutex, but login, change_password, reset_password and  *)
(* request_password_reset release it around the slow Argon2id work: each   *)
(* is a critical section that reads a snapshot (...Begin), the hashing     *)
(* with no lock held, and a second critical section that acts on the       *)
(* snapshot (...Commit, ...Fail).  Any number of handler tasks interleave  *)
(* between the two.  Hash verification is a function of the snapshot and   *)
(* the request, so its verdict is computed at Begin and carried along.     *)
(*                                                                         *)
(* An account is identified with its email key (account ids are random and *)
(* accounts are never deleted).  Recovery codes, reset tokens and session  *)
(* tokens are fresh numbers: random 128-256 bit values never repeat.       *)
(***************************************************************************)
EXTENDS Throttle, FiniteSets, Sequences

CONSTANTS
    Emails,           \* normalised email keys
    Passwords,        \* passwords of at least eight characters
    LegacyEmails,     \* accounts that a pre-Argon2id accounts.json may hold
    LegacyPassword,   \* their password
    Tasks,            \* concurrent request handlers
    SessionTtl,       \* session_ttl_ms
    ResetTtl,         \* reset_token_ttl_ms
    PersistOutcomes,  \* {TRUE}, or {TRUE, FALSE} where a write may fail and
                      \* the server carries on (development mode)
    MaxTime,          \* bound on the clock
    MaxMint           \* bound on minted codes and tokens

ASSUME CredentialsAssumption ==
    /\ LegacyEmails \subseteq Emails
    /\ LegacyPassword \in Passwords
    /\ SessionTtl \in Nat \ {0}
    /\ ResetTtl \in Nat \ {0}
    /\ PersistOutcomes \subseteq BOOLEAN
    /\ MaxTime \in Nat
    /\ MaxMint \in Nat

VARIABLES
    clock,         \* wall clock (now_ms)
    minted,        \* number of random values handed out so far
    byEmail,       \* Inner.by_email, total over Emails
    sessions,      \* Inner.sessions
    loginFails,    \* Inner.login_fails
    resetFails,    \* Inner.reset_fails
    requestFails,  \* Inner.request_fails
    disk,          \* the document accounts.json
    task,          \* what each handler has snapshotted and not yet committed
    lastSet,       \* auxiliary: password last chosen by the account's owner
    resets,        \* auxiliary: number of committed resets per account
    redeemed       \* auxiliary: reset credentials accepted, in commit order

inner == <<byEmail, sessions, loginFails, resetFails, requestFails>>
aux == <<lastSet, resets, redeemed>>
vars == <<clock, minted, inner, disk, task, aux>>

-----------------------------------------------------------------------------
(* Values *)

NoCode == 0
Codes == Nat \ {0}
PwHash == [kind: {"argon2", "pbkdf2"}, of: Passwords]
ResetToken == [code: Nat, expires: Nat]
NoToken == [code |-> NoCode, expires |-> 0]
Account == [exists: BOOLEAN, pw: PwHash, recovery: Nat, reset: ResetToken]

\* A session also records (auxiliary field "era") how many resets of the
\* account had been committed when its login read the password.
Session == [token: Codes, email: Emails, issued: Nat, era: Nat]

Argon2(p) == [kind |-> "argon2", of |-> p]
Pbkdf2(p) == [kind |-> "pbkdf2", of |-> p]
Verifies(hash, p) == hash.of = p

NoAccount == [exists |-> FALSE, pw |-> Argon2(LegacyPassword),
              recovery |-> NoCode, reset |-> NoToken]
LegacyAccount == [exists |-> TRUE, pw |-> Pbkdf2(LegacyPassword),
                  recovery |-> NoCode, reset |-> NoToken]

Idle == [op |-> "idle"]
LoginTask == [op: {"login"}, email: Emails, now: Nat, ok: BOOLEAN,
              rehash: BOOLEAN, pw: Passwords, era: Nat]
ChangeTask == [op: {"change"}, email: Emails, keep: Codes, pw: Passwords]
ResetTask == [op: {"reset"}, email: Emails, now: Nat, ok: BOOLEAN,
              code: Codes, pw: Passwords]
RequestTask == [op: {"request"}, email: Emails, now: Nat]
Task == {Idle} \union LoginTask \union ChangeTask
               \union ResetTask \union RequestTask

-----------------------------------------------------------------------------
(* accounts.json *)

Snapshot == [byEmail |-> byEmail, sessions |-> sessions]

\* Mutant: a handler that forgets to save.
PersistSkipped == UNCHANGED disk

\* persist_locked: write the state this step leaves behind; a failed write
\* is logged and the memory stays authoritative.
Persist == \E written \in PersistOutcomes :
               disk' = IF written THEN Snapshot' ELSE disk

\* from_snapshot: expired sessions and expired reset tokens are not loaded.
LiveReset(t) == IF t.expires > clock THEN t ELSE NoToken
LoadedAccounts == [e \in Emails |->
                     [disk.byEmail[e] EXCEPT !.reset = LiveReset(@)]]
LoadedSessions == {s \in disk.sessions : SessionLive(s.issued, clock, SessionTtl)}

-----------------------------------------------------------------------------
(* Initial state: a server started on an accounts.json that holds legacy   *)
(* accounts, or on none.                                                   *)

Init ==
    /\ clock = 0
    /\ minted = 0
    /\ \E held \in SUBSET LegacyEmails :
          byEmail = [e \in Emails |-> IF e \in held THEN LegacyAccount ELSE NoAccount]
    /\ sessions = {}
    /\ loginFails = [e \in Emails |-> NoEntry]
    /\ resetFails = [e \in Emails |-> NoEntry]
    /\ requestFails = [e \in Emails |-> NoEntry]
    /\ disk = Snapshot
    /\ task = [t \in Tasks |-> Idle]
    /\ lastSet = [e \in Emails |-> LegacyPassword]
    /\ resets = [e \in Emails |-> 0]
    /\ redeemed = <<>>

-----------------------------------------------------------------------------
(* create_account: everything slow happens before the only lock, and the   *)
(* lock holds a test for a taken email, so one step is the whole handler.  *)
(* A taken email changes nothing (and mints nothing the caller sees).      *)

CreateAccount(e, p) ==
    /\ minted < MaxMint
    /\ ~byEmail[e].exists
    /\ minted' = minted + 1
    /\ byEmail' = [byEmail EXCEPT ![e] = [exists |-> TRUE, pw |-> Argon2(p),
                                          recovery |-> minted', reset |-> NoToken]]
    /\ lastSet' = [lastSet EXCEPT ![e] = p]
    /\ UNCHANGED <<clock, sessions, loginFails, resetFails, requestFails,
                   task, resets, redeemed>>
    /\ Persist

-----------------------------------------------------------------------------
(* login *)

\* First lock: refuse a paused email, else read the stored hash.  An unknown
\* email goes on as a wrong password does.
LoginBegin(t, e, p) ==
    /\ task[t] = Idle
    /\ ~ThrottleLocked(loginFails[e], clock)
    /\ LET acct == byEmail[e]
           ok == acct.exists /\ Verifies(acct.pw, p)
       IN  task' = [task EXCEPT ![t] =
                      [op |-> "login", email |-> e, now |-> clock, ok |-> ok,
                       rehash |-> ok /\ acct.pw.kind = "pbkdf2",
                       pw |-> p, era |-> resets[e]]]
    /\ UNCHANGED <<clock, minted, inner, disk, aux>>

\* Second lock after a failed verification: count it.
LoginFail(t) ==
    LET k == task[t] IN
    /\ k.op = "login"
    /\ ~k.ok
    /\ loginFails' = [loginFails EXCEPT ![k.email] = RecordFailure(@, k.now)]
    /\ task' = [task EXCEPT ![t] = Idle]
    /\ UNCHANGED <<clock, minted, byEmail, sessions, resetFails, requestFails,
                   disk, aux>>

\* Mutant: the new hash is computed and not stored.
WithPasswordForgotten(acct, p) == acct

WithPassword(acct, p) == [acct EXCEPT !.pw = Argon2(p)]

\* Second lock after a successful one: clear the counter, store the upgraded
\* hash of the password that was verified, mint the session, save.
LoginCommit(t) ==
    LET k == task[t] IN
    /\ k.op = "login"
    /\ k.ok
    /\ minted < MaxMint
    /\ minted' = minted + 1
    /\ loginFails' = [loginFails EXCEPT ![k.email] = NoEntry]
    /\ byEmail' = IF k.rehash THEN [byEmail EXCEPT ![k.email] = WithPassword(@, k.pw)]
                              ELSE byEmail
    /\ sessions' = sessions \union {[token |-> minted', email |-> k.email,
                                     issued |-> k.now, era |-> k.era]}
    /\ task' = [task EXCEPT ![t] = Idle]
    /\ UNCHANGED <<clock, resetFails, requestFails, aux>>
    /\ Persist

-----------------------------------------------------------------------------
(* change_password *)

\* First lock and the check of the old password; a wrong one, or a dead
\* session, returns with nothing changed.
ChangeBegin(t, s, old, new) ==
    /\ task[t] = Idle
    /\ SessionLive(s.issued, clock, SessionTtl)
    /\ Verifies(byEmail[s.email].pw, old)
    /\ task' = [task EXCEPT ![t] = [op |-> "change", email |-> s.email,
                                    keep |-> s.token, pw |-> new]]
    /\ UNCHANGED <<clock, minted, inner, disk, aux>>

\* Second lock: set the new hash, drop every other session of the account.
ChangeCommit(t) ==
    LET k == task[t] IN
    /\ k.op = "change"
    /\ byEmail' = [byEmail EXCEPT ![k.email] = WithPassword(@, k.pw)]
    /\ sessions' = {s \in sessions : s.email # k.email \/ s.token = k.keep}
    /\ task' = [task EXCEPT ![t] = Idle]
    /\ lastSet' = [lastSet EXCEPT ![k.email] = k.pw]
    /\ UNCHANGED <<clock, minted, loginFails, resetFails, requestFails,
                   resets, redeemed>>
    /\ Persist

-----------------------------------------------------------------------------
(* reset_password *)

\* The recovery code is tried first, then an unexpired emailed token.
RecoveryMatches(acct, c) == acct.recovery # NoCode /\ acct.recovery = c
TokenMatches(acct, c, now) == acct.reset.expires > now /\ acct.reset.code = c

\* First lock: refuse a paused email, else read both stored credentials.
ResetBegin(t, e, c, new) ==
    /\ task[t] = Idle
    /\ ~ThrottleLocked(resetFails[e], clock)
    /\ LET acct == byEmail[e]
           ok == acct.exists /\ (RecoveryMatches(acct, c) \/ TokenMatches(acct, c, clock))
       IN  task' = [task EXCEPT ![t] =
                      [op |-> "reset", email |-> e, now |-> clock, ok |-> ok,
                       code |-> c, pw |-> new]]
    /\ UNCHANGED <<clock, minted, inner, disk, aux>>

ResetFail(t) ==
    LET k == task[t] IN
    /\ k.op = "reset"
    /\ ~k.ok
    /\ resetFails' = [resetFails EXCEPT ![k.email] = RecordFailure(@, k.now)]
    /\ task' = [task EXCEPT ![t] = Idle]
    /\ UNCHANGED <<clock, minted, byEmail, sessions, loginFails, requestFails,
                   disk, aux>>

\* Mutant: the spent emailed token stays.
AfterResetTokenKept(acct, p, code) ==
    [acct EXCEPT !.pw = Argon2(p), !.recovery = code]

AfterReset(acct, p, code) ==
    [exists |-> acct.exists, pw |-> Argon2(p), recovery |-> code, reset |-> NoToken]

\* Mutant: the sessions of the account are left alone.
SessionsAfterResetAllKept(e) == sessions

SessionsAfterReset(e) == {s \in sessions : s.email # e}

\* Second lock: new password, fresh recovery code, no outstanding token, no
\* session of the account left.
ResetCommit(t) ==
    LET k == task[t] IN
    /\ k.op = "reset"
    /\ k.ok
    /\ minted < MaxMint
    /\ minted' = minted + 1
    /\ resetFails' = [resetFails EXCEPT ![k.email] = NoEntry]
    /\ byEmail' = [byEmail EXCEPT ![k.email] = AfterReset(@, k.pw, minted')]
    /\ sessions' = SessionsAfterReset(k.email)
    /\ task' = [task EXCEPT ![t] = Idle]
    /\ lastSet' = [lastSet EXCEPT ![k.email] = k.pw]
    /\ resets' = [resets EXCEPT ![k.email] = @ + 1]
    /\ redeemed' = Append(redeemed, k.code)
    /\ UNCHANGED <<clock, loginFails, requestFails>>
    /\ Persist

-----------------------------------------------------------------------------
(* request_password_reset *)

\* First lock: a paused email is dropped; any other request is counted, known
\* account or not, and only a known one goes on to mint a token.
RequestBegin(t, e) ==
    /\ task[t] = Idle
    /\ ~ThrottleLocked(requestFails[e], clock)
    /\ requestFails' = [requestFails EXCEPT ![e] = RecordFailure(@, clock)]
    /\ task' = IF byEmail[e].exists
               THEN [task EXCEPT ![t] = [op |-> "request", email |-> e, now |-> clock]]
               ELSE task
    /\ UNCHANGED <<clock, minted, byEmail, sessions, loginFails, resetFails,
                   disk, aux>>

Expiry(now) == now + ResetTtl

WithReset(acct, tok) == [acct EXCEPT !.reset = tok]

\* Second lock: the new token replaces any outstanding one.
RequestCommit(t) ==
    LET k == task[t] IN
    /\ k.op = "request"
    /\ minted < MaxMint
    /\ minted' = minted + 1
    /\ byEmail' = [byEmail EXCEPT ![k.email] =
                     WithReset(@, [code |-> minted', expires |-> Expiry(k.now)])]
    /\ task' = [task EXCEPT ![t] = Idle]
    /\ UNCHANGED <<clock, sessions, loginFails, resetFails, requestFails, aux>>
    /\ Persist

-----------------------------------------------------------------------------
(* staff_clear_lockout *)

StaffClearLockout(e) ==
    /\ loginFails' = [loginFails EXCEPT ![e] = NoEntry]
    /\ resetFails' = [resetFails EXCEPT ![e] = NoEntry]
    /\ requestFails' = [requestFails EXCEPT ![e] = NoEntry]
    /\ UNCHANGED <<clock, minted, byEmail, sessions, task, aux>>
    /\ Persist

-----------------------------------------------------------------------------
(* The process dies (killed, redeployed, or aborted by a failed production *)
(* write, which happens with the lock held and before any answer) and      *)
(* starts again on accounts.json.                                          *)

Restart ==
    /\ byEmail' = LoadedAccounts
    /\ sessions' = LoadedSessions
    /\ loginFails' = [e \in Emails |-> NoEntry]
    /\ resetFails' = [e \in Emails |-> NoEntry]
    /\ requestFails' = [e \in Emails |-> NoEntry]
    /\ task' = [t \in Tasks |-> Idle]
    /\ UNCHANGED <<clock, minted, disk, aux>>

Tick ==
    /\ clock < MaxTime
    /\ clock' = clock + 1
    /\ UNCHANGED <<minted, inner, disk, task, aux>>

\* Codes a client may present: any handed out so far, or a wrong one.
Presentable == 1..minted \union {MaxMint + 1}

Next ==
    \/ \E e \in Emails, p \in Passwords : CreateAccount(e, p)
    \/ \E e \in Emails : StaffClearLockout(e)
    \/ \E t \in Tasks :
          \/ \E e \in Emails, p \in Passwords : LoginBegin(t, e, p)
          \/ LoginFail(t)
          \/ LoginCommit(t)
          \/ \E s \in sessions, old, new \in Passwords : ChangeBegin(t, s, old, new)
          \/ ChangeCommit(t)
          \/ \E e \in Emails, c \in Presentable, new \in Passwords :
                ResetBegin(t, e, c, new)
          \/ ResetFail(t)
          \/ ResetCommit(t)
          \/ \E e \in Emails : RequestBegin(t, e)
          \/ RequestCommit(t)
    \/ Restart
    \/ Tick

Spec == Init /\ [][Next]_vars

-----------------------------------------------------------------------------
(* Properties *)

\* Every variable has the shape the code's structs give it.
TypeOK ==
    /\ clock \in Nat
    /\ minted \in Nat
    /\ byEmail \in [Emails -> Account]
    /\ sessions \in SUBSET Session
    /\ loginFails \in [Emails -> Counter]
    /\ resetFails \in [Emails -> Counter]
    /\ requestFails \in [Emails -> Counter]
    /\ disk \in [byEmail: [Emails -> Account], sessions: SUBSET Session]
    /\ task \in [Tasks -> Task]
    /\ lastSet \in [Emails -> Passwords]
    /\ resets \in [Emails -> Nat]
    /\ redeemed \in Seq(Codes)

\* A reset credential that reset_password has accepted once is never again a
\* stored credential of any account, not even after a restart: a later reset
\* that presents it is refused ("single-use: old code is dead").
RedeemedCodeDead ==
    \A i \in DOMAIN redeemed, e \in Emails :
        /\ byEmail[e].recovery # redeemed[i]
        /\ byEmail[e].reset.code # redeemed[i]

\* request_password_reset checks and counts in one critical section: a window
\* admits exactly the limit however many tasks race.
RequestsPaced == \A e \in Emails : requestFails[e].fails <= MaxFails

\* What the server has acknowledged survives a restart: a process started on
\* accounts.json now would know the same accounts, and every session and
\* every reset token that is still live.
RestartLosesNothing ==
    /\ LoadedAccounts = [e \in Emails |-> [byEmail[e] EXCEPT !.reset = LiveReset(@)]]
    /\ LoadedSessions = {s \in sessions : SessionLive(s.issued, clock, SessionTtl)}

\* However handlers overlap, the stored hash verifies the password the owner
\* chose last (by create_account, change_password or reset_password).  The one
\* exception is an account from a pre-Argon2id file: a login that verified its old
\* password before the owner chose a new one may write that one back.
PasswordIsLastSet ==
    \A e \in Emails : byEmail[e].exists =>
        \/ Verifies(byEmail[e].pw, lastSet[e])
        \/ e \in LegacyEmails /\ byEmail[e].pw = Argon2(LegacyPassword)

\* reset_password drops the sessions there are: every session of an account, a
\* restart's included, was minted after the recovery code that the account's last
\* reset handed out, however many handlers overlap with it.
ResetEndsSessions == \A s \in sessions : byEmail[s.email].recovery < s.token

\* "Drop every session for this account ... force a fresh login everywhere":
\* once a reset is committed, every session of the account was authenticated
\* against a password read after it.
ResetForcesFreshLogin == \A s \in sessions : s.era >= resets[s.email]

=============================================================================
