--------------------------- MODULE StaffAccounts ---------------------------
(***************************************************************************)
(* Staff accounts of the operators' console                                *)
(* (crates/bulwark-server/src/staff.rs): creation with the one-time        *)
(* bootstrap, sign-in with password and TOTP code, sessions, the role gate *)
(* of the RPCs and the audit chain, with their two files.  A sign-in reads *)
(* the record under the lock, verifies outside it and takes the lock again;*)
(* every audit entry is appended after the store's lock is released, and   *)
(* the caller is answered after that.  A write of staff_audit.json may     *)
(* fail: a production server then aborts (persist.rs), another goes on     *)
(* with the entry in memory only.  staff.json always holds the present     *)
(* accounts and sessions (its writes are taken to succeed: after one that  *)
(* fails outside production a restart would roll the store back, and       *)
(* nothing below is claimed for it).  The TOTP code of time step c is c;   *)
(* one wrong code stands for every wrong credential, which the code does   *)
(* not tell apart.  Bounds: MaxStep time steps, MaxStaffSessions sessions, *)
(* MaxAudit entries and MaxRestarts restarts.                              *)
(***************************************************************************)
EXTENDS Throttle, AuditChain, FiniteSets

CONSTANTS
    Emails,             \* staff e-mail addresses
    StaffRpcs,          \* callers of the service: each is in one call at a time
    NewRoles,           \* roles an admin may ask for
    StaffActions,       \* the kinds of RPC called, of DOMAIN RolesOf
    StaffTtl,           \* staff_session_ttl_ms, in TOTP steps
    AuditWrites,        \* outcomes of a write of staff_audit.json
    MaxStep, MaxStaffSessions, MaxAudit, MaxRestarts

ASSUME StaffAccountsAssumption ==
    /\ NewRoles \subseteq {"support", "safety_officer", "operator", "admin"}
    /\ StaffTtl \in Nat /\ MaxStep \in Nat
    /\ AuditWrites \subseteq {"ok", "failed", "late"}
    /\ MaxStaffSessions \in Nat /\ MaxAudit \in Nat
    /\ MaxRestarts \in Nat

VARIABLES
    step,       \* the clock, in TOTP steps
    staff,      \* Inner.by_email: e-mail -> role and last counter, or NoStaff
    sessions,   \* Inner.sessions, in order of issue: e-mail and time of issue
    fails,      \* Inner.login_fails
    chain,      \* AuditInner.entries
    auditFile,  \* staff_audit.json
    production, \* production_mode: a failed write is fatal
    rpc,        \* caller -> the call it is in
    accepted,   \* sign-ins so far: e-mail and counter, in order
    answered,   \* the audit entries of the calls that were answered
    written,    \* every entry that has been in the file
    bootstraps, \* accounts created with the bootstrap code
    restarts

auditVars == <<chain, auditFile, written>>
staffVars == <<step, staff, sessions, fails, auditVars, production, rpc,
               accepted, answered, bootstraps, restarts>>

NoStaff == [role |-> "none", counter |-> 0]
Exists(e) == staff[e] # NoStaff
IdleRpc == [stage |-> "idle"]

\* The codes of the steps; WrongCode is a wrong code or a wrong password.
Codes == 1..MaxStep
WrongCode == 0

StaffInit ==
    /\ step = 1
    /\ staff = [e \in Emails |-> NoStaff]
    /\ sessions = <<>> /\ chain = <<>> /\ auditFile = <<>> /\ accepted = <<>>
    /\ production \in BOOLEAN
    /\ fails = [e \in Emails |-> NoEntry]
    /\ rpc = [c \in StaffRpcs |-> IdleRpc]
    /\ answered = {} /\ written = {} /\ bootstraps = 0 /\ restarts = 0

StaffTick ==
    /\ step < MaxStep
    /\ step' = step + 1
    /\ UNCHANGED <<staff, sessions, fails, auditVars, production, rpc,
                   accepted, answered, bootstraps, restarts>>

----------------------------------------------------------------------------
\* identity_for_token.
Holder(s) == sessions[s].email
LiveSession(s) == SessionLive(sessions[s].issued, step, StaffTtl) /\ Exists(Holder(s))

\* An entry will be appended: while there is room for it within the bound.
WillAudit(c, body) ==
    /\ Len(chain) + Cardinality({x \in StaffRpcs \ {c} : rpc[x].stage = "audit"}) < MaxAudit
    /\ rpc' = [rpc EXCEPT ![c] = [stage |-> "audit", body |-> body]]

\* Mutant: only the new entry is added to the file.
StoredAppended(file, new) == Append(file, Last(new))

\* store: the file becomes the whole chain as it is in memory.
Stored(file, new) == new

\* Mutant: a failed write is not fatal.
FatalNever(outcome) == FALSE

\* JsonFile::store: a write that fails, before the rename or after it, aborts a
\* production server.
Fatal(outcome) == production /\ outcome # "ok"

Reboot(file) ==
    /\ restarts < MaxRestarts
    /\ restarts' = restarts + 1
    /\ chain' = file
    /\ sessions' = SelectSeq(sessions, LAMBDA x : SessionLive(x.issued, step, StaffTtl))
    /\ fails' = [e \in Emails |-> NoEntry]
    /\ rpc' = [c \in StaffRpcs |-> IdleRpc]

\* audit_append, under the chain's lock: the entry is appended in memory and the
\* file written; unless the server aborts, the call goes on either way.
AuditAppend(c, outcome) ==
    LET new == Appended(chain, rpc[c].body)
        file == IF outcome = "failed" THEN auditFile ELSE Stored(auditFile, new)
    IN /\ rpc[c].stage = "audit"
       /\ auditFile' = file
       /\ written' = written \cup ToSet(file)
       /\ IF Fatal(outcome)
          THEN Reboot(file)
          ELSE /\ chain' = new
               /\ rpc' = [rpc EXCEPT ![c] = [stage |-> "answer", entry |-> Last(new)]]
               /\ UNCHANGED <<sessions, fails, restarts>>
       /\ UNCHANGED <<step, staff, production, accepted, answered, bootstraps>>

Answer(c) ==
    /\ rpc[c].stage = "answer"
    /\ answered' = answered \cup {rpc[c].entry}
    /\ rpc' = [rpc EXCEPT ![c] = IdleRpc]
    /\ UNCHANGED <<step, staff, sessions, fails, auditVars, production, accepted,
                   bootstraps, restarts>>

----------------------------------------------------------------------------
\* create_staff.  Hashing the password comes first and reads nothing.
\* Mutant: the store need not be empty.
MayBootstrapAlways == TRUE
MayBootstrap == \A e \in Emails : ~Exists(e)

Create(c, actor, e, role) ==
    /\ rpc[c].stage = "idle"
    /\ ~Exists(e)
    /\ staff' = [staff EXCEPT ![e] = [role |-> role, counter |-> 0]]
    /\ WillAudit(c, <<"staff.create", actor, e>>)
    /\ UNCHANGED <<step, sessions, fails, auditVars, production, accepted,
                   answered, restarts>>

\* The right bootstrap code, on a node that has one.
CreateByBootstrap(c, e) ==
    /\ MayBootstrap
    /\ Create(c, "bootstrap", e, "admin")
    /\ bootstraps' = bootstraps + 1

CreateByAdmin(c, s, e, role) ==
    /\ LiveSession(s) /\ staff[Holder(s)].role = "admin"
    /\ Create(c, Holder(s), e, role)
    /\ UNCHANGED bootstraps

----------------------------------------------------------------------------
\* login: the throttle and the record are read under the lock.
LoginReads(c, e, code) ==
    /\ rpc[c].stage = "idle"
    /\ ~ThrottleLocked(fails[e], step)
    /\ rpc' = [rpc EXCEPT ![c] =
                  [stage |-> "verify", email |-> e, now |-> step, rec |-> staff[e],
                   code |-> code, before |-> Len(accepted)]]
    /\ UNCHANGED <<step, staff, sessions, fails, auditVars, production,
                   accepted, answered, bootstraps, restarts>>

\* verify_totp: one step of skew, strictly newer than the counter read.
\* Mutant: the counter itself is accepted too.
CodeAcceptedAgain(code, now, last) == code # WrongCode /\ code \in now - 1..now + 1 /\ code >= last
CodeAccepted(code, now, last) == code # WrongCode /\ code \in now - 1..now + 1 /\ code > last

Verified(k) == k.rec # NoStaff /\ CodeAccepted(k.code, k.now, k.rec.counter)

LoginRefuses(c) ==
    LET k == rpc[c]
    IN /\ k.stage = "verify" /\ ~Verified(k)
       /\ fails' = [fails EXCEPT ![k.email] = RecordFailure(@, k.now)]
       /\ rpc' = [rpc EXCEPT ![c] = IdleRpc]
       /\ UNCHANGED <<step, staff, sessions, auditVars, production,
                      accepted, answered, bootstraps, restarts>>

\* The accepted counter is only ever raised.
Remembered(old, code) == IF code > old THEN code ELSE old

LoginAccepts(c) ==
    LET k == rpc[c]
    IN /\ k.stage = "verify" /\ Verified(k)
       /\ Len(sessions) < MaxStaffSessions
       /\ fails' = [fails EXCEPT ![k.email] = NoEntry]
       /\ staff' = [staff EXCEPT ![k.email] =
                       [role |-> @.role, counter |-> Remembered(@.counter, k.code)]]
       /\ sessions' = Append(sessions, [email |-> k.email, issued |-> k.now])
       /\ accepted' = Append(accepted, [email |-> k.email, code |-> k.code,
                                        before |-> k.before])
       /\ WillAudit(c, <<"staff.login", k.email, Len(accepted) + 1>>)
       /\ UNCHANGED <<step, auditVars, production, answered, bootstraps, restarts>>

----------------------------------------------------------------------------
\* The other RPCs: authorize, do, audit.  Support of guardians acts on the
\* account store, the safety queue on the case store; each has its module.  A query
\* of the chain is audited before it reads it.
RolesOf ==
    [fleet_read  |-> {"support", "safety_officer", "operator", "admin"},
     guardian    |-> {"support", "admin"},
     safety_case |-> {"safety_officer", "admin"},
     audit_query |-> {"admin"}]

StaffRpc(c, s, action) ==
    /\ rpc[c].stage = "idle"
    /\ LiveSession(s) /\ staff[Holder(s)].role \in RolesOf[action]
    /\ WillAudit(c, <<action, Holder(s)>>)
    /\ UNCHANGED <<step, staff, sessions, fails, auditVars, production,
                   accepted, answered, bootstraps, restarts>>

----------------------------------------------------------------------------
\* A crash at any moment, and the load of the two files: failures are forgotten, old
\* sessions are dropped, calls are gone.
StaffRestarts ==
    /\ Reboot(auditFile)
    /\ UNCHANGED <<step, staff, auditFile, written, production, accepted, answered, bootstraps>>

StaffNext ==
    \/ StaffTick
    \/ \E c \in StaffRpcs :
          \/ \E o \in AuditWrites : AuditAppend(c, o)
          \/ Answer(c)
          \/ \E e \in Emails :
                \/ CreateByBootstrap(c, e)
                \/ \E s \in DOMAIN sessions, role \in NewRoles : CreateByAdmin(c, s, e, role)
                \/ \E code \in Codes \cup {WrongCode} : LoginReads(c, e, code)
          \/ LoginRefuses(c) \/ LoginAccepts(c)
          \/ \E s \in DOMAIN sessions, action \in StaffActions :
                StaffRpc(c, s, action)
    \/ StaffRestarts

----------------------------------------------------------------------------
(* What the console promises. *)

\* The bootstrap code makes at most one account, whatever calls race for it and
\* however often the server restarts
\* ("the moment one staff account exists the bootstrap path is dead").
OneBootstrap == bootstraps <= 1

\* Once a sign-in with a code was accepted, a sign-in that starts later cannot
\* use this code or an older one, across restarts and out-of-order sign-ins.
AcceptedCodeDead ==
    \A i, j \in DOMAIN accepted :
        (accepted[i].email = accepted[j].email /\ i <= accepted[j].before)
            => accepted[i].code < accepted[j].code

\* On a production server every call that was answered is in the chain for good,
\* although its entry is written after its effect, writes fail before or after the
\* rename and the server may crash at any moment ("a failed durable write
\* terminates the process before callers can acknowledge a mutation that would be
\* lost after restart").
AnsweredIsAudited == production => answered \subseteq ToSet(chain)

\* The chain verifies and keeps every entry that ever reached the file, as it was
\* written: also on a server that goes on after failed writes and is then rolled
\* back to an older file, so that numbers are given out again.
AuditChainHolds == Verifies(chain) /\ written \subseteq ToSet(chain)

\* The file header: "Replay within the skew window is refused"; login: "the same
\* code can never be replayed".  Of two sign-ins, one does not use the code of
\* the other.
CodeNeverReplayed ==
    \A i, j \in DOMAIN accepted :
        (i # j /\ accepted[i].email = accepted[j].email) => accepted[i].code # accepted[j].code
=============================================================================
