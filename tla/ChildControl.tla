---------------------------- MODULE ChildControl ----------------------------
(***************************************************************************)
(* Desired configuration of a child and what its device reports back       *)
(* (bulwark-server/src/child_control.rs, child_config.json), with the      *)
(* device that polls it (ChildConfigSync.kt: apply only what is not older  *)
(* than what is applied, report the applied version with every poll).      *)
(*                                                                         *)
(* set_config, record_applied_report and get_by_device each hold the       *)
(* store's mutex; get_child_config is the last two in a row with the lock  *)
(* released between them, and stream_child_config a report and a           *)
(* subscription.  Answers to a poll may be lost.  A write of               *)
(* child_config.json happens before the change is visible and may fail in  *)
(* two ways: before the rename (the file is the old one) or after it (the  *)
(* file is the new one and the caller is told it failed).                  *)
(***************************************************************************)
EXTENDS Naturals, FiniteSets

CONSTANTS
    Children,
    Devices,
    Settings,       \* the contents of a configuration
    Requests,       \* the <<child, device id>> pairs guardians send, each
                    \* within the scope of the guardian who sends it
    WriteOutcomes,  \* subset of {"ok", "failed", "late"}
    ReportSlack,    \* by how much a report may exceed what is applied ({0}:
                    \* devices report the truth)
    NoDevice,       \* the empty device id
    NoChild,
    MaxVersion      \* bound on set_config calls per child

ASSUME ChildControlAssumption ==
    /\ Requests \subseteq Children \X (Devices \union {NoDevice})
    /\ WriteOutcomes \subseteq {"ok", "failed", "late"}
    /\ ReportSlack \subseteq Nat
    /\ NoDevice \notin Devices
    /\ NoChild \notin Children
    /\ MaxVersion \in Nat

VARIABLES
    config,         \* Inner.by_child: the value in each child's watch channel
    deviceToChild,  \* Inner.device_to_child
    applied,        \* Inner.applied_by_device (versions)
    configFile,     \* child_config.json
    stream,         \* one StreamChildConfig per device
    dev,            \* the device: what it has applied, and its poll
    published       \* auxiliary: every configuration that became visible

server == <<config, deviceToChild, applied, configFile>>
controlVars == <<server, stream, dev, published>>

Config == [version: Nat, device: Devices \union {NoDevice}, setting: Settings]
NoConfig == [version |-> 0, device |-> NoDevice,
             setting |-> CHOOSE s \in Settings : TRUE]

\* A device applies the configuration of a child at a version; its poll is
\* idle, has been reported, or carries the server's answer.
Device == [child: Children \union {NoChild}, version: Nat,
           poll: {"idle", "reported", "answered"},
           answer: [child: Children \union {NoChild}, version: Nat]]
NoAnswer == [child |-> NoChild, version |-> 0]
Polled(c, v) == [child |-> c, version |-> v, poll |-> "idle", answer |-> NoAnswer]
PollNow(device, stage, answer) ==
    [child |-> device.child, version |-> device.version, poll |-> stage, answer |-> answer]

\* A StreamChildConfig call: its report is recorded, it is subscribed and has
\* not looked at the channel yet (`first`), or it waits for a change.  `last` is
\* the version it emitted last, at first the one the device said it had; `seen`
\* the one its receiver has marked as seen.  (set_config sends to the channel
\* once for every version, so versions number the channel's values.)
Stream == [stage: {"closed", "reported", "first", "waiting"},
           child: Children \union {NoChild}, last: Nat, seen: Nat]
Closed == [stage |-> "closed", child |-> NoChild, last |-> 0, seen |-> 0]

ControlInit ==
    /\ config = [c \in Children |-> NoConfig]
    /\ deviceToChild = [d \in Devices |-> NoChild]
    /\ applied = [d \in Devices |-> 0]
    /\ configFile = [config |-> config, applied |-> applied]
    /\ stream = [d \in Devices |-> Closed]
    /\ dev = [d \in Devices |-> Polled(NoChild, 0)]
    /\ published = {}

-----------------------------------------------------------------------------
(* set_config *)

\* Mutant: the change is visible although the write failed.
VisibleAlways(outcome) == TRUE

\* The caller sees an error, and nobody sees the change, unless the write
\* succeeded.
Visible(outcome) == outcome = "ok"

Written(next, outcome) == configFile' = IF outcome = "failed" THEN configFile ELSE next

\* The child keeps one device: the one just sent.  An empty device id leaves
\* the index alone.
Routed(c, d) ==
    IF d = NoDevice THEN deviceToChild
    ELSE [x \in Devices |-> IF x = d THEN c
                            ELSE IF deviceToChild[x] = c THEN NoChild
                            ELSE deviceToChild[x]]

NextVersion(c) == config[c].version + 1

SetConfig(c, d, s, outcome) ==
    LET new == [version |-> NextVersion(c), device |-> d, setting |-> s]
        next == [config EXCEPT ![c] = new]
    IN  /\ config[c].version < MaxVersion
        /\ Written([config |-> next, applied |-> applied], outcome)
        /\ IF Visible(outcome)
           THEN /\ config' = next
                /\ deviceToChild' = Routed(c, d)
                /\ published' = published \union {[child |-> c, config |-> new]}
           ELSE UNCHANGED <<config, deviceToChild, published>>
        /\ UNCHANGED <<applied, stream, dev>>

-----------------------------------------------------------------------------
(* get_child_config *)

\* Mutant: a report is taken as it comes.
CappedNever(d, v) == v

\* A report is cut down to the version the device could have.
Capped(d, v) ==
    LET desired == config[deviceToChild[d]].version
    IN  IF v <= desired THEN v ELSE desired

\* Mutant: a report one ahead of the recorded one is taken for the same.
ImprovesLater(d, v) == v > applied[d] + 1

Improves(d, v) == v > applied[d]

\* record_applied_report: only a routed device, only upwards, and only if the
\* write succeeds.
RecordApplied(d, have, outcome) ==
    LET v == Capped(d, have)
        next == [applied EXCEPT ![d] = v]
    IN  IF deviceToChild[d] # NoChild /\ Improves(d, v)
        THEN /\ Written([config |-> config, applied |-> next], outcome)
             /\ applied' = IF Visible(outcome) THEN next ELSE applied
        ELSE UNCHANGED <<applied, configFile>>

\* First half of get_child_config, for a device with a valid credential.
PollReport(d, slack, outcome) ==
    /\ dev[d].poll = "idle"
    /\ RecordApplied(d, dev[d].version + slack, outcome)
    /\ dev' = [dev EXCEPT ![d] = PollNow(@, "reported", NoAnswer)]
    /\ UNCHANGED <<config, deviceToChild, stream, published>>

\* Second half: get_by_device answers with the child's current configuration.
PollAnswer(d) ==
    /\ dev[d].poll = "reported"
    /\ deviceToChild[d] # NoChild
    /\ config[deviceToChild[d]].version # 0
    /\ dev' = [dev EXCEPT ![d] =
                  PollNow(@, "answered", [child |-> deviceToChild[d],
                                          version |-> config[deviceToChild[d]].version])]
    /\ UNCHANGED <<server, stream, published>>

\* The poll ends with nothing applied: no configuration yet, the answer is
\* lost, or the VPN is not (yet) ready in the requested mode.
PollFails(d) ==
    /\ dev[d].poll # "idle"
    /\ dev' = [dev EXCEPT ![d] = Polled(@.child, @.version)]
    /\ UNCHANGED <<server, stream, published>>

\* fetchAndReconcile: an answer older than what is applied is refused.
Apply(d) ==
    /\ dev[d].poll = "answered"
    /\ LET a == dev[d].answer
       IN  dev' = [dev EXCEPT ![d] = IF a.version < dev[d].version
                                     THEN Polled(dev[d].child, dev[d].version)
                                     ELSE Polled(a.child, a.version)]
    /\ UNCHANGED <<server, stream, published>>

-----------------------------------------------------------------------------
(* stream_child_config *)

\* record_applied_report, with the version the call carries.
StreamReport(d, outcome) ==
    /\ stream[d] = Closed
    /\ RecordApplied(d, dev[d].version, outcome)
    /\ stream' = [stream EXCEPT ![d] = [stage |-> "reported", child |-> NoChild,
                                        last |-> dev[d].version, seen |-> 0]]
    /\ UNCHANGED <<config, deviceToChild, dev, published>>

\* Mutant: the stream starts by waiting for a change.
SubscribedWaiting(c, have) ==
    [stage |-> "waiting", child |-> c, last |-> have, seen |-> config[c].version]

\* A new receiver has seen what the channel holds, and the stream looks at it
\* once before it waits.
Subscribed(c, have) ==
    [stage |-> "first", child |-> c, last |-> have, seen |-> config[c].version]

\* subscribe_by_device: the channel of the child the device is routed to now.
StreamSubscribe(d) ==
    /\ stream[d].stage = "reported"
    /\ stream' = [stream EXCEPT ![d] = IF deviceToChild[d] = NoChild THEN Closed
                                       ELSE Subscribed(deviceToChild[d], stream[d].last)]
    /\ UNCHANGED <<server, dev, published>>

\* borrow_and_update: the current value is marked as seen, and emitted when it is
\* newer than the last one emitted.
Looked(r) ==
    LET v == config[r.child].version
    IN  [stage |-> "waiting", child |-> r.child, last |-> IF v > r.last THEN v ELSE r.last,
         seen |-> v]

\* The first look needs no change; later ones are woken by one.
StreamLooks(d) ==
    /\ \/ stream[d].stage = "first"
       \/ stream[d].stage = "waiting" /\ config[stream[d].child].version # stream[d].seen
    /\ stream' = [stream EXCEPT ![d] = Looked(stream[d])]
    /\ UNCHANGED <<server, dev, published>>

StreamDrop(d) ==
    /\ stream[d] # Closed
    /\ stream' = [stream EXCEPT ![d] = Closed]
    /\ UNCHANGED <<server, dev, published>>

-----------------------------------------------------------------------------
(* with_state_dir: the index is derived from the rows, in the order of the *)
(* child ids: of two rows that name one device the later one wins.  Which  *)
(* is later is chance, ids being random.                                   *)

Claimants(conf, d) == {c \in Children : conf[c].version > 0 /\ conf[c].device = d}

ControlRestart ==
    /\ config' = configFile.config
    /\ applied' = configFile.applied
    /\ \E pick \in [Devices -> Children \union {NoChild}] :
          /\ \A d \in Devices :
                IF Claimants(configFile.config, d) = {} THEN pick[d] = NoChild
                ELSE pick[d] \in Claimants(configFile.config, d)
          /\ deviceToChild' = pick
    /\ stream' = [d \in Devices |-> Closed]
    /\ published' = published \union
         {[child |-> c, config |-> configFile.config[c]] :
            c \in {x \in Children : configFile.config[x].version > 0}}
    /\ UNCHANGED <<configFile, dev>>

ControlNext ==
    \/ \E r \in Requests, s \in Settings, o \in WriteOutcomes : SetConfig(r[1], r[2], s, o)
    \/ \E d \in Devices :
          \/ \E k \in ReportSlack, o \in WriteOutcomes : PollReport(d, k, o)
          \/ \E o \in WriteOutcomes : StreamReport(d, o)
          \/ StreamSubscribe(d)
          \/ PollAnswer(d)
          \/ PollFails(d)
          \/ Apply(d)
          \/ StreamLooks(d)
          \/ StreamDrop(d)
    \/ ControlRestart

ControlSpec == ControlInit /\ [][ControlNext]_controlVars

-----------------------------------------------------------------------------
(* Properties *)

\* A version number names one configuration for ever: no two contents are
\* ever visible under the same number, whatever writes fail and whenever the
\* server restarts, so "applied v3" is unambiguous.
VersionNamesOneConfig ==
    \A p, q \in published :
        p.child = q.child /\ p.config.version = q.config.version => p = q

\* The child was visibly given the device, now or before.
Named(c, d) == \E p \in published : p.child = c /\ p.config.device = d

\* "applied_report_cannot_exceed_desired_version": what a device is said to have
\* applied, some child it was given to has reached: whatever the device reports,
\* however it moves between children, whatever writes fail and restarts bring
\* back.  (For a device given to one child this is that child's desired version.)
AppliedWasDesired ==
    \A d \in Devices : applied[d] > 0 =>
        \E c \in Children : Named(c, d) /\ applied[d] <= config[c].version

\* A device ends up with the configuration of the child it is routed to, and
\* the server knows it.
DeviceConverges ==
    \A d \in Devices : []<>(\/ deviceToChild[d] = NoChild
                            \/ /\ dev[d].child = deviceToChild[d]
                               /\ dev[d].version = config[deviceToChild[d]].version
                               /\ applied[d] = dev[d].version)

\* An open stream is never left behind: it emits the child's current version or
\* is closed, so no change falls between the report, the subscription, the first
\* look and the wait.
StreamCatchesUp ==
    \A d \in Devices : []<>(\/ stream[d].stage \in {"closed", "reported"}
                            \/ stream[d].last >= config[stream[d].child].version)
=============================================================================
