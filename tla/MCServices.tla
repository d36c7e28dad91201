----------------------------- MODULE MCServices -----------------------------
(***************************************************************************)
(* Services of the server that share no state, each explored alone: `part` *)
(* says which one a behaviour is about.  The enrolment of children and     *)
(* devices, staff accounts with an audit chain that is always written,     *)
(* the audit chain of one member of staff with failing writes, the safety  *)
(* cases, and the alert channels.                                          *)
(***************************************************************************)
EXTENDS Enrollment, StaffAccounts, SafetyCases, AlertSink, TLC

CONSTANTS alice, bob, phone, tablet, rpc1, rpc2, case1, jo, kim, alert1, alert2, loop1, loop2

VARIABLE part

\* A retry of a batch in another order.
TwoBatches == {<<alert1, alert2>>, <<alert2, alert1>>}

\* One member of staff, who signs in once, at once and without a mistake.
OneSession ==
    /\ step = 1 /\ Len(sessions) <= 1 /\ \A e \in Emails : fails[e] = NoEntry
    /\ \A e, f \in Emails : Exists(e) /\ Exists(f) => e = f

ServicesInit ==
    /\ part \in {"enrolment", "staff", "audit", "cases", "alerts"}
    /\ Init /\ StaffInit /\ CasesInit /\ AlertInit
    /\ part # "audit" => production

ServicesNext ==
    /\ UNCHANGED part
    /\ \/ part = "enrolment" /\ Next /\ UNCHANGED <<staffVars, caseVars, alertVars>>
       \/ /\ \/ part = "staff" /\ StaffNext /\ auditFile' = chain'
             \/ part = "audit" /\ StaffNext /\ OneSession'
          /\ UNCHANGED <<vars, caseVars, alertVars>>
       \/ part = "cases" /\ CasesNext /\ UNCHANGED <<vars, staffVars, alertVars>>
       \/ part = "alerts" /\ AlertNext /\ UNCHANGED <<vars, staffVars, caseVars>>

ServicesSpec ==
    ServicesInit /\ [][ServicesNext]_<<part, vars, staffVars, caseVars, alertVars>>

\* Accounts, devices, callers and raisers are interchangeable.
Symmetry ==
    UNION {Permutations(S) : S \in {Accounts, Devices, StaffRpcs, Raisers}}
=============================================================================
