-------------------------- MODULE ProtectionWatch --------------------------
(***************************************************************************)
(* Heartbeats of supervised devices and the sweep that notices silence:    *)
(* the reporter (crates/bulwark-client/src/tamper.rs), the service         *)
(* (crates/bulwark-server/src/tamper.rs) and the sweeper task (service.rs).*)
(* A beat may be lost.  The table of devices lives in memory.  Time is the *)
(* age of the last beat in sweep periods, which stops counting at the      *)
(* grace.  The sweeper publishes after it has released the table's lock,   *)
(* so a beat may arrive between the two.  Tamper events only ride on beats *)
(* and leave the table alone: they are not followed here.                  *)
(***************************************************************************)
EXTENDS Naturals, FiniteSets

CONSTANTS
    WatchedDevices,     \* devices with a valid device credential
    Grace               \* grace_ms in sweep periods (three)

ASSUME ProtectionWatchAssumption == Grace \in Nat \ {0}

VARIABLES
    known,      \* devices in TamperService.liveness
    age,        \* device -> periods since last_seen_ms, at most Grace
    alerted,    \* device -> overdue_alerted
    sweeping,   \* device -> the alert the sweeper has taken but not published:
                \* of the silence that lasts, or of one that a beat has ended
    running,    \* device -> the protection app runs
    beating,    \* devices with a beat on its way
    told        \* device -> alerts published of the present silence, at most 2

watchVars == <<known, age, alerted, sweeping, running, beating, told>>

NothingTaken == [d \in WatchedDevices |-> "none"]

WatchInit ==
    /\ known = {} /\ beating = {}
    /\ sweeping = NothingTaken
    /\ age = [d \in WatchedDevices |-> 0]
    /\ told = [d \in WatchedDevices |-> 0]
    /\ running = [d \in WatchedDevices |-> TRUE]
    /\ alerted = [d \in WatchedDevices |-> FALSE]

----------------------------------------------------------------------------
\* The device: run_heartbeats sends a beat per interval while the app runs; a
\* failed beat makes the loop reconnect and build the next one.
SendHeartbeat(d) ==
    /\ running[d] /\ d \notin beating
    /\ beating' = beating \cup {d}
    /\ UNCHANGED <<known, age, alerted, sweeping, running, told>>

BeatLost(d) ==
    /\ d \in beating
    /\ beating' = beating \ {d}
    /\ UNCHANGED <<known, age, alerted, sweeping, running, told>>

AppStops(d) ==
    /\ running[d]
    /\ running' = [running EXCEPT ![d] = FALSE]
    /\ UNCHANGED <<known, age, alerted, sweeping, beating, told>>

AppReturns(d) ==
    /\ ~running[d]
    /\ running' = [running EXCEPT ![d] = TRUE]
    /\ UNCHANGED <<known, age, alerted, sweeping, beating, told>>

----------------------------------------------------------------------------
\* The server.
\* ingest: a fresh record replaces the old one whole.
AlertedAfterBeatKept(d) == alerted
AlertedAfterBeat(d) == [alerted EXCEPT ![d] = FALSE]

HeartbeatArrives(d) ==
    /\ d \in beating
    /\ beating' = beating \ {d}
    /\ known' = known \cup {d}
    /\ age' = [age EXCEPT ![d] = 0]
    /\ alerted' = AlertedAfterBeat(d)
    /\ told' = [told EXCEPT ![d] = 0]
    /\ sweeping' = [sweeping EXCEPT ![d] = IF @ = "none" THEN @ ELSE "ended"]
    /\ UNCHANGED running

OverdueAgain(d) == d \in known /\ age[d] >= Grace
Overdue(d) == d \in known /\ age[d] >= Grace /\ ~alerted[d]

\* overdue: under the lock, every overdue device is marked and taken.
SweepTakes ==
    LET due == {d \in WatchedDevices : Overdue(d)}
    IN /\ sweeping = NothingTaken /\ due # {}
       /\ alerted' = [d \in WatchedDevices |-> alerted[d] \/ d \in due]
       /\ sweeping' = [d \in WatchedDevices |-> IF d \in due THEN "lasts" ELSE "none"]
       /\ UNCHANGED <<known, age, running, beating, told>>

\* sweep: the alerts go to the hub one by one.
SweepPublishes(d) ==
    /\ sweeping[d] # "none"
    /\ sweeping' = [sweeping EXCEPT ![d] = "none"]
    /\ told' = [told EXCEPT ![d] = IF sweeping[d] = "lasts" /\ @ < 2 THEN @ + 1 ELSE @]
    /\ UNCHANGED <<known, age, alerted, running, beating>>

WatchTick ==
    /\ \E d \in known : age[d] < Grace
    /\ age' = [d \in WatchedDevices |->
                  IF d \in known /\ age[d] < Grace THEN age[d] + 1 ELSE age[d]]
    /\ UNCHANGED <<known, alerted, sweeping, running, beating, told>>

\* A restart forgets the table and the alerts that were taken but not published.
WatchRestarts ==
    /\ known' = {} /\ sweeping' = NothingTaken
    /\ age' = [d \in WatchedDevices |-> 0]
    /\ alerted' = [d \in WatchedDevices |-> FALSE]
    /\ UNCHANGED <<running, beating, told>>

WatchNext ==
    \/ \E d \in WatchedDevices :
          \/ SendHeartbeat(d) \/ BeatLost(d) \/ AppStops(d) \/ AppReturns(d)
          \/ HeartbeatArrives(d) \/ SweepPublishes(d)
    \/ SweepTakes \/ WatchTick \/ WatchRestarts

----------------------------------------------------------------------------
(* What the watch promises. *)

\* One silence, one alert: the guardian is not told twice of a silence, even
\* when the device's beat slips between the sweep's decision and its alert, or
\* the server restarts in the middle.
OneAlertPerSilence ==
    \A d \in WatchedDevices :
        told[d] + (IF sweeping[d] = "lasts" THEN 1 ELSE 0) <= 1

\* A device the server has heard from that falls silent is reported, however
\* often it fell silent before; unless it comes back or the server restarts.
SilenceReported ==
    \A d \in WatchedDevices :
        (d \in known /\ ~running[d]) ~> (told[d] > 0 \/ running[d] \/ d \notin known)
=============================================================================
