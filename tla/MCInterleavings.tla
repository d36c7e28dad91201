-------------------------- MODULE MCInterleavings --------------------------
(***************************************************************************)
(* Handlers and threads that overlap, in worlds that are each explored     *)
(* alone: account requests; decisions on alerts whose ids come back with   *)
(* other content, and decisions while writes fail or are late; the VPN     *)
(* service of a child's device switching its mode with two service         *)
(* objects, with its app open, and while the guardian changes the goal.    *)
(***************************************************************************)
EXTENDS MCReviewRelay, AccountCredentials, ChildVpn, TLC

CONSTANTS oldpass, newpass, h1, h2

VARIABLE world

AllIds == FlowIds \union DistinctIds

\* Handlers are interchangeable.
TaskSymmetry == Permutations(Tasks)

InterleavingsInit ==
    /\ world \in {"accounts", "reuse", "writes", "objects", "app", "goals"}
    /\ RelayInit /\ Init /\ ChildInit
    /\ goal = [version |-> 1, on |-> TRUE,
               mode |-> IF world = "objects" THEN "device" ELSE "server"]

InterleavingsNext ==
    /\ UNCHANGED world
    /\ \/ /\ world = "accounts" /\ Next
          /\ UNCHANGED <<relayVars, childVars>>
       \/ /\ \/ world = "reuse" /\ Steps(FlowIds, {"ok"})
             \/ world = "writes" /\ Steps(DistinctIds, WriteOutcomes)
          /\ UNCHANGED <<vars, childVars>>
       \/ /\ ChildNext
          /\ \/ world = "objects" /\ AppAsleep' /\ UNCHANGED goal
             \/ world = "app" /\ created' <= 1 /\ UNCHANGED goal
             \/ world = "goals" /\ created' <= 1 /\ AppAsleep'
          /\ UNCHANGED <<vars, relayVars>>

InterleavingsSpec == InterleavingsInit /\ [][InterleavingsNext]_<<world, vars, relayVars, childVars>>
=============================================================================
