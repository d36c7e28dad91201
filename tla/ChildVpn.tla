------------------------------ MODULE ChildVpn ------------------------------
(***************************************************************************)
(* The VPN service of the child's Android device (BulwarkVpnService.kt),   *)
(* the reconciliation of the guardian's configuration with it              *)
(* (ChildConfigSync.kt) and the native data path behind it (startVpn,      *)
(* startServerVpn, stopVpn and the lease renewal of bulwark-android).      *)
(* The main thread handles one command at a time; a thread per start       *)
(* builds the tunnel; alert pollers watch the data path; config pollers    *)
(* and the foreground app reconcile.  A service object that was destroyed  *)
(* keeps its threads, and the companion object's fields, the native "down" *)
(* flag and the preferences are shared by all of them.  Android holds on   *)
(* to a VPN service whose tunnel is open: asked to stop, it is destroyed   *)
(* only once the tunnel is closed.  Bounds: Starts                         *)
(* service objects, MaxGoal configurations, MaxInbox commands waiting      *)
(* when a request adds one, MaxWatchers alert pollers of an object.        *)
(***************************************************************************)
EXTENDS Naturals, Sequences, FiniteSets

CONSTANTS
    Starts, MaxGoal, MaxInbox, MaxWatchers,
    Pollers         \* names for config pollers

ASSUME ChildVpnAssumption ==
    /\ Starts \in Nat \ {0} /\ MaxGoal \in Nat \ {0} /\ MaxInbox \in Nat \ {0}
    /\ MaxWatchers \in Nat \ {0}
    /\ "app" \notin Pollers

Modes == {"device", "server"}
Objects == 1..Starts
Syncs == Pollers \cup {"app"}

VARIABLES
    goal,       \* the guardian's configuration on the server: version, mode, on
    shown,      \* the companion object: running, ready, activeFilterLocation
    service,    \* the fields and threads of each service object, and the mode of its
                \* native data path: "none", a mode, or "dead"
    current,    \* the object Android has started, 0 when there is none
    created,    \* how many there have been
    commands,   \* what waits for the main thread: start, reconfigure, stop; at the
                \* head, an onDestroy that is under way
    syncing,    \* the threads in fetchAndReconcile and what they hold
    prefs,      \* the preferences: desired mode, applied version and mode
    dataDown    \* the native data_path_down flag

childVars == <<goal, shown, service, current, created, commands, syncing, prefs, dataDown>>

NewObject == [tun |-> FALSE, handle |-> FALSE, path |-> "none",
              polling |-> FALSE, configPolling |-> FALSE,
              establishing |-> FALSE, reconfiguring |-> FALSE,
              thread |-> "off", mode |-> "none", watchers |-> 0, stoppers |-> 0,
              asked |-> FALSE]       \* to stop, since it was last started
NotShown == [running |-> FALSE, ready |-> FALSE, active |-> "none"]
NoSync   == [stage |-> "off", of |-> 0, want |-> [version |-> 0, mode |-> "none", on |-> FALSE]]

ChildInit ==
    /\ goal \in [version: {1}, mode: Modes, on: BOOLEAN]
    /\ shown = NotShown
    /\ service = [o \in Objects |-> NewObject]
    /\ current = 0 /\ created = 0
    /\ commands = <<>>
    /\ syncing = [t \in Syncs |-> NoSync]
    /\ prefs = [desired |-> "device", version |-> 0, mode |-> "device"]
    /\ dataDown = FALSE

\* startForegroundService, stopService and stopSelf leave a command for the main thread.
Post(c) == commands' = Append(commands, c)
Room == Len(commands) < MaxInbox

\* An onDestroy under way, which found a native handle to stop or found none.
Leaving == {"destroy", "destroyIdle"}

\* stopSelf names the object: it means nothing for one that is gone, and twice is once.
StopSelf(o) ==
    IF current = o /\ \A i \in DOMAIN commands : commands[i] \notin {"stop"} \cup Leaving
    THEN Post("stop") ELSE UNCHANGED commands

\* The guardian saves another configuration.
GuardianSets(mode, on) ==
    /\ goal.version < MaxGoal
    /\ goal' = [version |-> goal.version + 1, mode |-> mode, on |-> on]
    /\ UNCHANGED <<shown, service, current, created, commands, syncing, prefs, dataDown>>

----------------------------------------------------------------------------
\* The main thread.

\* onStartCommand with launchEstablish: a start while a tunnel is up changes nothing,
\* and neither does one while another is being built.
OnStartCommand ==
    LET o == IF current = 0 THEN created + 1 ELSE current
        replace == Head(commands) = "reconfigure"
        launch == (replace \/ ~service[o].tun) /\ ~service[o].establishing
    IN /\ commands # <<>> /\ Head(commands) \in {"start", "reconfigure"}
       /\ o <= Starts
       /\ commands' = Tail(commands)
       /\ current' = o /\ created' = IF current = 0 THEN o ELSE created
       /\ shown' = [shown EXCEPT !.running = TRUE, !.ready = shown.ready /\ ~launch]
       /\ service' = [service EXCEPT ![o] =
                         IF launch
                         THEN [@ EXCEPT !.establishing = TRUE, !.reconfiguring = replace,
                                        !.thread = IF replace THEN "teardown" ELSE "choose",
                                        !.asked = FALSE]
                         ELSE [@ EXCEPT !.asked = FALSE]]
       /\ UNCHANGED <<goal, syncing, prefs, dataDown>>

\* stopDataPath, first half: the flags, then stopVpn, which takes up to two seconds.
Stopping(s, clearConfigPoller) ==
    [s EXCEPT !.polling = FALSE,
              !.configPolling = s.configPolling /\ ~clearConfigPoller,
              !.path = IF s.handle THEN "none" ELSE s.path]

\* Second half: a handle is forgotten if there was one to stop, even one set since
\* then, and the tunnel is closed.
Stopped(s, had) == [s EXCEPT !.handle = s.handle /\ ~had, !.tun = FALSE]

\* A stop while the tunnel is open: Android notes it and keeps the service bound.
StopNoted ==
    /\ commands # <<>> /\ Head(commands) = "stop" /\ current # 0
    /\ service[current].tun
    /\ commands' = Tail(commands)
    /\ service' = [service EXCEPT ![current].asked = TRUE]
    /\ UNCHANGED <<goal, shown, current, created, syncing, prefs, dataDown>>

\* onDestroy, for a stop without a tunnel or once the tunnel of a service that was
\* asked to stop is closed.  The threads of the object are not told.
OnDestroyBegins ==
    /\ current # 0 /\ ~service[current].tun
    /\ LET going == <<IF service[current].handle THEN "destroy" ELSE "destroyIdle">>
       IN \/ /\ commands # <<>> /\ Head(commands) = "stop"
             /\ commands' = going \o Tail(commands)
          \/ /\ commands = <<>> /\ service[current].asked
             /\ commands' = going
    /\ shown' = [shown EXCEPT !.running = FALSE, !.ready = FALSE]
    /\ service' = [service EXCEPT ![current] =
                     Stopping([@ EXCEPT !.reconfiguring = FALSE, !.establishing = FALSE], TRUE)]
    /\ UNCHANGED <<goal, current, created, syncing, prefs, dataDown>>

OnDestroyEnds ==
    /\ commands # <<>> /\ Head(commands) \in Leaving
    /\ commands' = Tail(commands)
    /\ current' = 0
    /\ shown' = [shown EXCEPT !.active = "none"]
    /\ service' = [service EXCEPT ![current] = Stopped(@, Head(commands) = "destroy")]
    /\ UNCHANGED <<goal, created, syncing, prefs, dataDown>>

\* A stop for a service that is gone.
StopIgnored ==
    /\ commands # <<>> /\ Head(commands) = "stop" /\ current = 0
    /\ commands' = Tail(commands)
    /\ UNCHANGED <<goal, shown, service, current, created, syncing, prefs, dataDown>>

\* The process is killed.  The preferences survive, and START_STICKY brings the
\* service back.
ProcessDies ==
    /\ current # 0 /\ created < Starts
    /\ shown' = NotShown
    /\ service' = [o \in Objects |-> NewObject]
    /\ current' = 0
    /\ commands' = <<"start">>
    /\ syncing' = [t \in Syncs |-> NoSync]
    /\ dataDown' = FALSE
    /\ UNCHANGED <<goal, created, prefs>>

----------------------------------------------------------------------------
\* The thread that builds the tunnel.

Thread(o, stage) == service[o].thread = stage
Goes(o, stage) == service' = [service EXCEPT ![o].thread = stage]

\* A reconfiguration first takes the old data path down.
TeardownBegins(o) ==
    /\ Thread(o, "teardown")
    /\ service' = [service EXCEPT ![o] = [Stopping(@, FALSE) EXCEPT !.thread = "close"]]
    /\ shown' = [shown EXCEPT !.ready = FALSE]
    /\ UNCHANGED <<goal, current, created, commands, syncing, prefs, dataDown>>

\* Only this thread sets the object's handle, so none has come since the check.
TeardownEnds(o) ==
    /\ Thread(o, "close")
    /\ service' = [service EXCEPT ![o] = [Stopped(@, TRUE) EXCEPT !.thread = "choose"]]
    /\ shown' = [shown EXCEPT !.active = "none"]
    /\ UNCHANGED <<goal, current, created, commands, syncing, prefs, dataDown>>

\* establish: the mode that is wanted now is shown as the active one.
Chooses(o) ==
    /\ Thread(o, "choose")
    /\ shown' = [shown EXCEPT !.active = prefs.desired]
    /\ service' = [service EXCEPT ![o] = [@ EXCEPT !.mode = prefs.desired, !.thread = "prepare"]]
    /\ UNCHANGED <<goal, current, created, commands, syncing, prefs, dataDown>>

\* failStart begins: stopDataPath with the config poller.
Fails(o) ==
    /\ service' = [service EXCEPT ![o] = [Stopping(@, TRUE) EXCEPT !.thread = "fail"]]
    /\ shown' = [shown EXCEPT !.ready = FALSE]

Prepares(o, ok) ==
    /\ IF ok THEN Goes(o, "tunnel") /\ UNCHANGED shown ELSE Fails(o)
    /\ UNCHANGED <<goal, current, created, commands, syncing, prefs, dataDown>>

\* Is the inspection CA trusted by the system?
PrepareLocalMode(o, ok) ==
    Thread(o, "prepare") /\ service[o].mode = "device" /\ Prepares(o, ok)

\* Is the device paired, does the region grant an active filter with a lease, and
\* is its CA trusted?
PrepareRemoteMode(o, ok) ==
    Thread(o, "prepare") /\ service[o].mode = "server" /\ Prepares(o, ok)

\* Builder.establish.
Tunnels(o, ok) ==
    /\ Thread(o, "tunnel")
    /\ IF ok THEN /\ service' = [service EXCEPT ![o] = [@ EXCEPT !.tun = TRUE, !.thread = "start"]]
                  /\ UNCHANGED shown
             ELSE Fails(o)
    /\ UNCHANGED <<goal, current, created, commands, syncing, prefs, dataDown>>

\* A native start that is refused returns no handle; one that is not clears the
\* flag and spawns the data path.
NativeStart(o, mode, outcome) ==
    /\ Thread(o, "start") /\ service[o].mode = mode
    /\ service' = [service EXCEPT ![o] =
                     [@ EXCEPT !.handle = outcome # "refused", !.thread = "check",
                               !.path = IF outcome = "refused" THEN service[o].path ELSE outcome]]
    /\ dataDown' = IF outcome = "refused" THEN dataDown ELSE outcome = "dead"
    /\ UNCHANGED <<goal, shown, current, created, commands, syncing, prefs>>

\* The interceptor may not build: then there is a handle and the path is down.
StartVpn(o, outcome) == NativeStart(o, "device", outcome)

\* The grant must be there, be this device's and not have expired meanwhile.
StartServerVpn(o, outcome) == NativeStart(o, "server", outcome)

\* Mutant: a start that the native side refused passes.
UnusableIfDown(o) == dataDown
Unusable(o) == ~service[o].handle \/ dataDown

Checks(o) ==
    /\ Thread(o, "check")
    /\ IF Unusable(o)
       THEN Fails(o)
       ELSE Goes(o, "finish") /\ shown' = [shown EXCEPT !.ready = TRUE]
    /\ UNCHANGED <<goal, current, created, commands, syncing, prefs, dataDown>>

\* The thread's finally block.
\* Mutant: the reconfiguration is never marked as over.
FinallyStillSwitching(s) == [s EXCEPT !.establishing = FALSE, !.thread = "off", !.mode = "none"]
Finally(s) == [s EXCEPT !.reconfiguring = FALSE, !.establishing = FALSE,
                       !.thread = "off", !.mode = "none"]

FreePollers == {t \in Pollers : syncing[t].stage = "off"}

\* startAlertPoller and startConfigPoller, each unless its flag says it runs.
Finishes(o) ==
    LET s == service[o]
        free == CHOOSE t \in FreePollers : TRUE
    IN /\ Thread(o, "finish")
       /\ ~s.configPolling => FreePollers # {}
       /\ ~s.polling => s.watchers + s.stoppers < MaxWatchers
       /\ service' = [service EXCEPT ![o] =
                        [Finally(@) EXCEPT !.polling = TRUE, !.configPolling = TRUE,
                                           !.watchers = s.watchers + (IF s.polling THEN 0 ELSE 1)]]
       /\ syncing' = IF s.configPolling THEN syncing
                     ELSE [syncing EXCEPT ![free] = [NoSync EXCEPT !.stage = "idle", !.of = o]]
       /\ UNCHANGED <<goal, shown, current, created, commands, prefs, dataDown>>

\* failStart ends: the service is no longer shown as running and stops itself.
FailEnds(o) ==
    /\ Thread(o, "fail")
    /\ service' = [service EXCEPT ![o] = Finally(Stopped(@, TRUE))]
    /\ shown' = [shown EXCEPT !.running = FALSE, !.active = "none"]
    /\ StopSelf(o)
    /\ UNCHANGED <<goal, current, created, syncing, prefs, dataDown>>

\* A data path that ends with an error raises the flag.
Dies(o, mode) ==
    /\ service[o].path = mode
    /\ service' = [service EXCEPT ![o].path = "dead"]
    /\ dataDown' = TRUE
    /\ UNCHANGED <<goal, shown, current, created, commands, syncing, prefs>>

LocalPathDies(o) == Dies(o, "device")

\* The tunnel's file, the WireGuard transport or its return path fails.
RemotePathDies(o) == Dies(o, "server")

\* A renewal is refused, finds another identity, or the lease runs out while
\* renewals fail.
LeaseEnds(o) == Dies(o, "server")

----------------------------------------------------------------------------
\* The alert pollers of an object.

\* Its loop ends once the flag is down; a flag that was raised again in time keeps
\* the old poller beside the new one.
WatcherEnds(o) ==
    /\ service[o].watchers > 0 /\ ~service[o].polling
    /\ service' = [service EXCEPT ![o].watchers = service[o].watchers - 1]
    /\ UNCHANGED <<goal, shown, current, created, commands, syncing, prefs, dataDown>>

WatcherSees(o) ==
    /\ service[o].watchers > 0 /\ service[o].polling
    /\ ~service[o].reconfiguring /\ dataDown
    /\ service' = [service EXCEPT ![o] = [@ EXCEPT !.watchers = service[o].watchers - 1,
                                                     !.stoppers = service[o].stoppers + 1]]
    /\ UNCHANGED <<goal, shown, current, created, commands, syncing, prefs, dataDown>>

WatcherStops(o) ==
    /\ service[o].stoppers > 0
    /\ service' = [service EXCEPT ![o].stoppers = service[o].stoppers - 1]
    /\ shown' = [shown EXCEPT !.ready = FALSE]
    /\ StopSelf(o)
    /\ UNCHANGED <<goal, current, created, syncing, prefs, dataDown>>

----------------------------------------------------------------------------
\* fetchAndReconcile, on a config poller or on the app's thread.

\* The app comes to the foreground, and may ask for the service itself.
AppAsleep == syncing["app"].stage = "off"

AppResumes ==
    /\ AppAsleep
    /\ syncing' = [syncing EXCEPT !["app"].stage = "idle"]
    /\ UNCHANGED <<goal, shown, service, current, created, commands, prefs, dataDown>>

AppStartsService ==
    /\ Room
    /\ Post("start")
    /\ UNCHANGED <<goal, shown, service, current, created, syncing, prefs, dataDown>>

PollerEnds(t) ==
    /\ t # "app" /\ syncing[t].stage = "idle" /\ ~service[syncing[t].of].configPolling
    /\ syncing' = [syncing EXCEPT ![t] = NoSync]
    /\ UNCHANGED <<goal, shown, service, current, created, commands, prefs, dataDown>>

\* The poller goes back to sleep, the app's thread ends.
AfterSync(t) == IF t = "app" THEN NoSync
                ELSE [NoSync EXCEPT !.stage = "idle", !.of = syncing[t].of]

\* The server's answer.  It is held while syncDevicePolicy makes another call.
Fetches(t) ==
    /\ syncing[t].stage = "idle"
    /\ t # "app" => service[syncing[t].of].configPolling
    /\ syncing' = [syncing EXCEPT ![t] = [@ EXCEPT !.stage = "answered", !.want = goal]]
    /\ UNCHANGED <<goal, shown, service, current, created, commands, prefs, dataDown>>

\* Then it becomes what this device wants to be, whatever another thread has written.
Desires(t) ==
    /\ syncing[t].stage = "answered"
    /\ syncing' = [syncing EXCEPT ![t].stage = "fetched"]
    /\ prefs' = [prefs EXCEPT !.desired = syncing[t].want.mode]
    /\ UNCHANGED <<goal, shown, service, current, created, commands, dataDown>>

\* The fetch fails, or the answer cannot be used.
FetchFails(t) ==
    /\ syncing[t].stage = "idle"
    /\ t # "app" => service[syncing[t].of].configPolling
    /\ syncing' = [syncing EXCEPT ![t] = AfterSync(t)]
    /\ UNCHANGED <<goal, shown, service, current, created, commands, prefs, dataDown>>

\* What the answer asks of the service, as it is shown now.
Reconciles(t, consent) ==
    LET w == syncing[t].want
        end == syncing' = [syncing EXCEPT ![t] = AfterSync(t)]
    IN /\ syncing[t].stage = "fetched" /\ Room
       /\ \/ /\ w.on /\ ~consent
             /\ end /\ UNCHANGED commands
          \/ /\ w.on /\ consent /\ shown.running /\ shown.active # w.mode
             /\ end /\ Post("reconfigure")
          \/ /\ w.on /\ consent /\ ~shown.running
             /\ end /\ Post("start")
          \/ /\ w.on /\ consent /\ shown.running /\ shown.active = w.mode
             /\ syncing' = [syncing EXCEPT ![t].stage = "running"]
             /\ UNCHANGED commands
          \/ /\ ~w.on /\ shown.running
             /\ end /\ Post("stop")
          \/ /\ ~w.on /\ ~shown.running
             /\ syncing' = [syncing EXCEPT ![t].stage = "apply"]
             /\ UNCHANGED commands
       /\ UNCHANGED <<goal, shown, service, current, created, prefs, dataDown>>

SeesReady(t) ==
    /\ syncing[t].stage = "running"
    /\ syncing' = [syncing EXCEPT ![t] = IF shown.ready THEN [@ EXCEPT !.stage = "apply"]
                                         ELSE AfterSync(t)]
    /\ UNCHANGED <<goal, shown, service, current, created, commands, prefs, dataDown>>

\* The configuration is recorded as applied, unless the mode has changed again.
Applies(t) ==
    LET w == syncing[t].want
    IN /\ syncing[t].stage = "apply"
       /\ syncing' = [syncing EXCEPT ![t] = AfterSync(t)]
       /\ prefs' = IF w.on /\ shown.active # w.mode THEN prefs
                   ELSE [prefs EXCEPT !.version = w.version, !.mode = w.mode]
       /\ UNCHANGED <<goal, shown, service, current, created, commands, dataDown>>

ChildNext ==
    \/ \E m \in Modes, on \in BOOLEAN : GuardianSets(m, on)
    \/ OnStartCommand \/ StopNoted \/ OnDestroyBegins \/ OnDestroyEnds \/ StopIgnored
    \/ ProcessDies
    \/ \E o \in Objects :
          \/ TeardownBegins(o) \/ TeardownEnds(o) \/ Chooses(o)
          \/ \E ok \in BOOLEAN : PrepareLocalMode(o, ok) \/ PrepareRemoteMode(o, ok) \/ Tunnels(o, ok)
          \/ \E outcome \in {"device", "dead", "refused"} : StartVpn(o, outcome)
          \/ \E outcome \in {"server", "refused"} : StartServerVpn(o, outcome)
          \/ Checks(o) \/ Finishes(o) \/ FailEnds(o)
          \/ LocalPathDies(o) \/ RemotePathDies(o) \/ LeaseEnds(o)
          \/ WatcherEnds(o) \/ WatcherSees(o) \/ WatcherStops(o)
    \/ AppResumes \/ AppStartsService
    \/ \E t \in Syncs :
          \/ PollerEnds(t) \/ Fetches(t) \/ FetchFails(t) \/ Desires(t)
          \/ \E consent \in BOOLEAN : Reconciles(t, consent)
          \/ SeesReady(t) \/ Applies(t)

----------------------------------------------------------------------------
(* What the child's device promises. *)

\* No object but the current one has a thread at work or a data path.
OthersQuiet == \A o \in Objects \ {current} : service[o].thread = "off" /\ ~service[o].handle

\* What is shown as running and ready is a tunnel with a data path behind it, of the
\* mode that is shown or one whose death the alert poller has yet to notice, through
\* starts, mode switches, failures and restarts that overlap, as long as no destroyed
\* service object left a thread at work.  (The mode that is shown is claimed for a
\* first object only: one left behind by a destroyed object may have cleared it.)
ReadyIsReal ==
    (shown.running /\ shown.ready /\ current # 0 /\ OthersQuiet)
        => /\ service[current].tun /\ service[current].handle
           /\ service[current].path # "none"
           /\ created = 1 => service[current].path \in {shown.active, "dead"}

\* A data path that died is not shown as ready for ever: the alert poller notices the
\* flag, also when it was raised during a switch or beside a start that overlaps.
\* (Whether the tunnel is then released is another matter: stopSelf does not close it.)
DeadPathNoticed ==
    \A o \in Objects :
        (/\ current = o /\ shown.ready /\ OthersQuiet
         /\ service[o].path = "dead" /\ service[o].thread = "off")
            ~> (~shown.ready \/ service[o].path # "dead" \/ ~OthersQuiet)

\* fetchAndReconcile: a reconfiguration "leaves the independent config poller alive
\* so a mode transition cannot strand the device unprotected".
SwitchKeepsPoller ==
    [][\A o \in Objects :
          (/\ service[o].reconfiguring /\ service[o].configPolling
           /\ service'[o].reconfiguring /\ current' = o)
              => service'[o].configPolling]_childVars
=============================================================================
