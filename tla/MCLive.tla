------------------------------- MODULE MCLive -------------------------------
(***************************************************************************)
(* Components that share no state, each explored alone under the fairness  *)
(* of its own schedule: `part` says which one a behaviour is about.        *)
(***************************************************************************)
EXTENDS WorkQueue, ProtectionWatch, RemoteVpn, ChildControl, Netstack, ChildVpn

CONSTANTS job, ann, phone, tablet, x

VARIABLE part

\* One child whose guardian replaces its device.
SwapDevice == {<<ann, phone>>, <<ann, tablet>>}

LiveInit ==
    /\ part \in {"queue", "watch", "vpn", "control", "net", "child"}
    /\ QueueInit /\ WatchInit /\ VpnInit /\ ControlInit /\ NetInit /\ ChildInit
    /\ part # "net" => filter = "inspect"
    /\ goal = [version |-> 1, mode |-> "server", on |-> TRUE]

LiveNext ==
    /\ UNCHANGED part
    /\ \/ /\ part = "queue" /\ QueueNext
          /\ UNCHANGED <<watchVars, vpnVars, controlVars, netVars, childVars>>
       \/ /\ part = "watch" /\ WatchNext
          /\ UNCHANGED <<queueVars, vpnVars, controlVars, netVars, childVars>>
       \/ /\ part = "vpn" /\ VpnNext
          /\ UNCHANGED <<queueVars, watchVars, controlVars, netVars, childVars>>
       \/ /\ part = "control" /\ ControlNext
          /\ UNCHANGED <<queueVars, watchVars, vpnVars, netVars, childVars>>
       \/ /\ part = "net" /\ NetNext
          /\ UNCHANGED <<queueVars, watchVars, vpnVars, controlVars, childVars>>
       \/ /\ part = "child" /\ ChildNext /\ AppAsleep'
          /\ UNCHANGED <<queueVars, watchVars, vpnVars, controlVars, netVars>>

\* Leases run out as time passes, and workers keep polling (their loop is the other
\* side of this interface); nobody has to acknowledge anything.
QueueFairness ==
    /\ \A id \in WorkIds : WF_queueVars(part = "queue" /\ LeaseRunsOut(id))
    /\ WF_queueVars(part = "queue" /\ \E w \in Workers : Dequeue(w, 1))

\* The sweeper is an endless loop over an interval timer; time passes.
WatchFairness ==
    /\ WF_watchVars(part = "watch" /\ WatchTick)
    /\ WF_watchVars(part = "watch" /\ SweepTakes)
    /\ \A d \in WatchedDevices : WF_watchVars(part = "watch" /\ SweepPublishes(d))

\* The lease reconciler is a timer unit.
VpnFairness ==
    /\ WF_vpnVars(part = "vpn" /\ ReconcileReads)
    /\ WF_vpnVars(part = "vpn" /\ ReconcileApplies)

\* The device polls on a timer and the task of an open stream runs; a guardian, a
\* lost answer, a dropped stream or a restart is never due.  The network
\* delivers an answer again and again, so Apply happens infinitely often if
\* it stays possible again and again.
ControlFairness ==
    \A d \in Devices :
        /\ WF_controlVars(/\ part = "control"
                           /\ \E k \in ReportSlack, o \in WriteOutcomes : PollReport(d, k, o))
        /\ SF_controlVars(part = "control" /\ PollAnswer(d))
        /\ SF_controlVars(part = "control" /\ Apply(d))
        /\ WF_controlVars(part = "control" /\ (StreamSubscribe(d) \/ StreamLooks(d)))

\* The pump never rests, tasks run to the end, the device's own TCP acknowledges
\* what it gets (its packets wait in the TUN until the pump polls again), and a
\* server that sees the end of the stream, or a broken one, closes.
ServerDone(f) == remote[f].eof \/ remote[f].broken \/ ~bridge[f].present

NetFairness ==
    /\ WF_netVars(part = "net" /\ Wake)
    /\ WF_netVars(part = "net" /\ (ReapFlows \/ \E f \in Conns : PumpMoves(f) \/ PumpCloses(f)))
    /\ \A f \in Conns :
          /\ SF_netVars(part = "net" /\ (ClientAcks(f) \/ ClientAcksFin(f)))
          /\ WF_netVars(part = "net" /\ (PeekMore(f) \/ PeekVerdict(f)))
          /\ WF_netVars(part = "net" /\ \E ok \in BOOLEAN : Dial(f, ok))
          /\ WF_netVars(part = "net" /\ (UpShuts(f) \/ \E ok \in BOOLEAN : UpWrites(f, ok)))
          /\ WF_netVars(part = "net" /\ ServerDone(f) /\ DownEnds(f))

\* The threads of the service run; nothing is asked of Android's main thread.
ChildFairness ==
    \A o \in Objects :
          /\ WF_childVars(/\ part = "child"
                          /\ \/ TeardownBegins(o) \/ TeardownEnds(o) \/ Chooses(o)
                             \/ \E ok \in BOOLEAN : \/ PrepareLocalMode(o, ok)
                                                   \/ PrepareRemoteMode(o, ok) \/ Tunnels(o, ok)
                             \/ \E outcome \in {"device", "dead", "refused"} : StartVpn(o, outcome)
                             \/ \E outcome \in {"server", "refused"} : StartServerVpn(o, outcome)
                             \/ Checks(o) \/ Finishes(o) \/ FailEnds(o))
          /\ WF_childVars(part = "child" /\ (WatcherEnds(o) \/ WatcherSees(o) \/ WatcherStops(o)))

LiveSpec ==
    /\ LiveInit
    /\ [][LiveNext]_<<part, queueVars, watchVars, vpnVars, controlVars, netVars, childVars>>
    /\ QueueFairness /\ WatchFairness /\ VpnFairness /\ ControlFairness /\ NetFairness
    /\ ChildFairness
=============================================================================
