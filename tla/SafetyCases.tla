---------------------------- MODULE SafetyCases ----------------------------
(***************************************************************************)
(* The safety-report queue (crates/bulwark-server/src/safety_cases.rs) and *)
(* the staff RPCs that drive it (staff.rs): a case is opened and moved     *)
(* along the NCMEC workflow under the store's lock, and audited after the  *)
(* lock is gone, in whatever order the calls get there; the chain carries  *)
(* only this module's entries here and loses none (StaffAccounts says when *)
(* that is so).  The file of the cases may fail to be written, which is    *)
(* logged and ignored outside production.  The officers are authorised     *)
(* (StaffAccounts).  Bounds: MaxWriteFaults failed writes, MaxCaseRestarts *)
(* restarts.                                                               *)
(***************************************************************************)
EXTENDS Naturals, Sequences

CONSTANTS
    Cases,          \* case ids
    Officers,       \* staff members, each in one call at a time
    MaxWriteFaults, MaxCaseRestarts

ASSUME SafetyCasesAssumption == MaxWriteFaults \in Nat /\ MaxCaseRestarts \in Nat

VARIABLES
    cases,          \* Inner.by_id: case -> state and whether it has a reference
    caseFile,       \* safety_cases.json
    pending,        \* officer -> the audit entry it still has to append
    trail,          \* the audit chain's entries <<case, state>>, as appended
    torn,           \* cases that a crash moved back or left without an entry
    writeFaults, caseRestarts

caseVars == <<cases, caseFile, pending, trail, torn,
              writeFaults, caseRestarts>>

CaseStates == {"opened", "under_review", "reported_ncmec", "law_enforcement",
               "closed", "rejected"}
NoCase == [state |-> "none", reference |-> FALSE]
NoEntryDue == <<>>

CasesInit ==
    /\ cases = [k \in Cases |-> NoCase]
    /\ caseFile = cases
    /\ pending = [o \in Officers |-> NoEntryDue]
    /\ trail = <<>> /\ torn = {}
    /\ writeFaults = 0 /\ caseRestarts = 0

IsValidTransition(from, to) ==
    <<from, to>> \in {<<"opened", "under_review">>, <<"opened", "rejected">>,
                      <<"under_review", "reported_ncmec">>, <<"under_review", "rejected">>,
                      <<"reported_ncmec", "law_enforcement">>, <<"reported_ncmec", "closed">>,
                      <<"law_enforcement", "closed">>}

\* persist_locked: the whole map is written, or the write fails.
PersistCases(new) ==
    \/ caseFile' = new /\ UNCHANGED writeFaults
    \/ writeFaults < MaxWriteFaults /\ writeFaults' = writeFaults + 1 /\ UNCHANGED caseFile

Move(o, k, rec) ==
    /\ pending[o] = NoEntryDue
    /\ cases' = [cases EXCEPT ![k] = rec]
    /\ PersistCases(cases')
    /\ pending' = [pending EXCEPT ![o] = <<k, rec.state>>]
    /\ UNCHANGED <<trail, torn, caseRestarts>>

OpenCase(o, k) ==
    /\ cases[k] = NoCase
    /\ Move(o, k, [state |-> "opened", reference |-> FALSE])

\* transition: the reference is required for a report and ignored otherwise.
Transition(o, k, to, reference) ==
    /\ cases[k] # NoCase
    /\ IsValidTransition(cases[k].state, to)
    /\ to = "reported_ncmec" => reference
    /\ Move(o, k, [state |-> to,
                   reference |-> IF to = "reported_ncmec" THEN reference
                                 ELSE cases[k].reference])

\* Mutant: the state is read again, after the lock is gone.
EntryOfNow(entry) == <<entry[1], cases[entry[1]].state>>

\* The entry tells the state the call itself moved the case to.
EntryOf(entry) == entry

AuditMove(o) ==
    /\ pending[o] # NoEntryDue
    /\ trail' = Append(trail, EntryOf(pending[o]))
    /\ pending' = [pending EXCEPT ![o] = NoEntryDue]
    /\ UNCHANGED <<cases, caseFile, torn, writeFaults, caseRestarts>>

\* A crash, and the load of the file.
Due(k) == \E o \in Officers : pending[o] # NoEntryDue /\ pending[o][1] = k

CasesRestart ==
    /\ caseRestarts < MaxCaseRestarts
    /\ caseRestarts' = caseRestarts + 1
    /\ cases' = caseFile
    /\ pending' = [o \in Officers |-> NoEntryDue]
    /\ torn' = torn \cup {k \in Cases : Due(k) \/ caseFile[k] # cases[k]}
    /\ UNCHANGED <<caseFile, trail, writeFaults>>

CasesNext ==
    \/ \E o \in Officers, k \in Cases :
          \/ OpenCase(o, k)
          \/ \E to \in CaseStates, ref \in BOOLEAN : Transition(o, k, to, ref)
    \/ \E o \in Officers : AuditMove(o)
    \/ CasesRestart

----------------------------------------------------------------------------
(* What the queue promises. *)

\* How far along the workflow a state is.
Rank == [none |-> 0, opened |-> 1, under_review |-> 2, reported_ncmec |-> 3,
         law_enforcement |-> 4, closed |-> 5, rejected |-> 5]

Audited(k) == {trail[i][2] : i \in {j \in DOMAIN trail : trail[j][1] = k}}

\* The chain tells the history of a case although entries are appended after the
\* lock, in another order than the moves when officers overlap: once every call on
\* it has appended its entry, the state it is in is the furthest one of its entries,
\* and every other one has an entry for the state it came from.  (A crash between
\* move and entry, and a failed write followed by a restart, tear the two apart.)
TrailTellsState ==
    \A k \in Cases \ torn :
        cases[k] # NoCase /\ ~Due(k) =>
            /\ cases[k].state \in Audited(k)
            /\ \A s \in Audited(k) :
                  /\ s # cases[k].state => Rank[s] < Rank[cases[k].state]
                  /\ s # "opened" => \E from \in Audited(k) : IsValidTransition(from, s)
=============================================================================
