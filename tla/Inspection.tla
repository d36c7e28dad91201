----------------------------- MODULE Inspection -----------------------------
(***************************************************************************)
(* The inspection path of the desktop client: the TLS-inspecting proxy     *)
(* holds a response at its decision gate (bulwark-net/src/proxy.rs,        *)
(* interceptor.rs), hands a copy through a bounded channel to the one      *)
(* pipeline loop (bulwark-client/src/lib.rs), which classifies it          *)
(* (bulwark-flow), buffers video, obtains a verdict (locally or through    *)
(* the offload router of bulwark-infer), lets the policy decide and        *)
(* resolves the gate; meanwhile the gate may time out.  A body is reduced  *)
(* to whether it was complete, empty, over the cap or unreadable.  Bound:  *)
(* MaxFlows responses.                                                     *)
(***************************************************************************)
EXTENDS DelayBuffer, ContentPolicy

CONSTANTS
    MaxFlows,
    ChannelCapacity,    \* NetConfig.flow_channel_capacity
    Judgements          \* verdicts an analyzer may return

ASSUME InspectionAssumption ==
    /\ MaxFlows \in Nat /\ ChannelCapacity \in Nat
    /\ Judgements \subseteq Verdict

VARIABLES
    armed,      \* DecisionGate.armed
    gate,       \* DecisionGate.pending: flows somebody waits for
    flows,      \* the responses handled so far, by flow id
    channel,    \* the flow channel
    work,       \* what the pipeline loop is doing
    judged,     \* flow -> what the pipeline decided
    router,     \* the offload router: "absent", or there with no policy ("none")
    runner      \* which loop drives the pipeline

inspectOnly == <<armed, gate, flows, channel, work, judged, router, runner>>

MediaKinds == {"image", "audio", "video"}
GatedKinds == MediaKinds \cup {"html", "frame"}    \* frame: a WebSocket text frame
Kinds      == GatedKinds \cup {"text", "other"}
Bodies     == {"complete", "empty", "oversize", "unreadable"}

Flow == [kind: Kinds, body: Bodies, gated: BOOLEAN,
         sent: {"nothing", "forwarded", "rewritten", "blocked"},  \* into its oneshot
         outcome: {"waiting", "late", "forwarded", "rewritten", "blocked"}]

NoWork  == [stage |-> "idle", flow |-> 0, segment |-> 0,
            verdict |-> [category |-> "safe", score |-> 0], covered |-> FALSE,
            rewritten |-> FALSE]

InspectInit ==
    /\ armed = FALSE
    /\ gate = {} /\ flows = <<>> /\ channel = <<>>
    /\ work = NoWork
    /\ judged = <<>>
    /\ router \in {"absent", "none"}
    /\ runner \in {"pipeline", "bins"}
    /\ BufferInit

\* spawn_proxy: the proxy already listens when its gate is armed.
ArmGate ==
    /\ ~armed
    /\ armed' = TRUE
    /\ UNCHANGED <<gate, flows, channel, work, judged, router, runner, bufferVars>>

----------------------------------------------------------------------------
\* The proxy's side.
Emitted == Len(channel) < ChannelCapacity

\* emit: try_send, never waits.
Emit(f) == channel' = IF Emitted THEN Append(channel, f) ELSE channel

Handle(kind, body, gated, outcome) ==
    /\ Len(flows) < MaxFlows
    /\ flows' = Append(flows, [kind |-> kind, body |-> body, gated |-> gated,
                               sent |-> "nothing", outcome |-> outcome])
    /\ UNCHANGED <<armed, work, judged, router, runner, bufferVars>>

NextFlow == Len(flows) + 1

\* What a gate falls back to: media and frames are blocked, a page goes through.
FallbackOpen(kind) == "forwarded"
Fallback(kind) == IF kind = "html" THEN "forwarded" ELSE "blocked"

\* gate_buffered, and handle_message for a frame: register, emit, wait.
HoldAtGate(kind) ==
    /\ armed
    /\ Emitted
    /\ Handle(kind, "complete", TRUE, "waiting")
    /\ gate' = gate \cup {NextFlow}
    /\ Emit(NextFlow)

\* The channel is full: the gate is cancelled at once.
ChannelFull(kind) ==
    /\ armed
    /\ ~Emitted
    /\ Handle(kind, "complete", TRUE, Fallback(kind))
    /\ UNCHANGED <<gate, channel>>

\* Before the gate is armed nothing is held back.
Ungated(kind) ==
    /\ ~armed
    /\ Handle(kind, "complete", FALSE, "forwarded")
    /\ Emit(NextFlow)
    /\ UNCHANGED gate

\* Bodies that never reach the gate: nothing to inspect, over the cap, or
\* undecodable.  Over-sized media are reported to the pipeline and blocked.
HandleIncomplete(kind, body) ==
    /\ kind \in GatedKinds /\ body # "complete"
    /\ Handle(kind, body, FALSE, IF body = "empty" THEN "forwarded" ELSE "blocked")
    /\ IF kind \in MediaKinds /\ body = "oversize" THEN Emit(NextFlow) ELSE UNCHANGED channel
    /\ UNCHANGED gate

\* Requests, plain text and everything else: copied to the pipeline and streamed
\* on; text that cannot be decoded is refused.
HandleUngated(kind, body) ==
    /\ kind \in {"text", "other"}
    /\ kind = "other" => body = "complete"
    /\ Handle(kind, body, FALSE, IF body = "unreadable" THEN "blocked" ELSE "forwarded")
    /\ IF body = "unreadable" THEN UNCHANGED channel ELSE Emit(NextFlow)
    /\ UNCHANGED gate

\* What the proxy does with a decision it was given: no frame is rewritten.
Carried(kind, decision) ==
    IF kind = "frame" /\ decision = "rewritten" THEN "blocked" ELSE decision

\* The waiting task looks into its oneshot and finds the decision.
Wakes(f) ==
    /\ flows[f].outcome = "waiting" /\ flows[f].sent # "nothing"
    /\ flows' = [flows EXCEPT ![f].outcome = Carried(flows[f].kind, flows[f].sent)]
    /\ UNCHANGED <<armed, gate, channel, work, judged, router, runner, bufferVars>>

\* The decision window closes on an oneshot seen empty.  From here on a decision is
\* lost, though the flow stays registered until the task has cancelled it.
DecisionTimeoutBlind(f) ==
    /\ flows[f].outcome = "waiting"
    /\ flows' = [flows EXCEPT ![f].outcome = "late"]
    /\ UNCHANGED <<armed, gate, channel, work, judged, router, runner, bufferVars>>

DecisionTimeout(f) ==
    /\ flows[f].outcome = "waiting" /\ flows[f].sent = "nothing"
    /\ flows' = [flows EXCEPT ![f].outcome = "late"]
    /\ UNCHANGED <<armed, gate, channel, work, judged, router, runner, bufferVars>>

Cancel(f) ==
    /\ flows[f].outcome = "late"
    /\ gate' = gate \ {f}
    /\ flows' = [flows EXCEPT ![f].outcome = Fallback(flows[f].kind)]
    /\ UNCHANGED <<armed, channel, work, judged, router, runner, bufferVars>>

\* DecisionGate.resolve: the sender is taken out and used under the lock; nothing
\* happens when it is gone.  Nobody reads what the send returned.
Resolve(f, decision) ==
    /\ gate' = gate \ {f}
    /\ flows' = IF f \in gate THEN [flows EXCEPT ![f].sent = decision] ELSE flows

----------------------------------------------------------------------------
\* The pipeline's side: one flow at a time.
TakeFlow ==
    /\ work.stage = "idle"
    /\ channel # <<>>
    /\ work' = [NoWork EXCEPT !.stage = "taken", !.flow = Head(channel)]
    /\ channel' = Tail(channel)
    /\ UNCHANGED <<armed, gate, flows, judged, router, runner, bufferVars>>

Taken(kinds) == work.stage = "taken" /\ flows[work.flow].kind \in kinds

\* build_units finds nothing to analyse: a manifest, an opaque or empty body.
ClassifyNothing ==
    /\ Taken(Kinds)
    /\ work' = NoWork
    /\ UNCHANGED <<armed, gate, flows, channel, judged, router, runner, bufferVars>>

ClassifyUnit ==
    /\ Taken({"image", "audio", "html", "frame", "text"})
    /\ work' = [work EXCEPT !.stage = "unit"]
    /\ UNCHANGED <<armed, gate, flows, channel, judged, router, runner, bufferVars>>

ClassifyVideo(size) ==
    /\ Taken({"video"})
    /\ Admit(size)
    /\ work' = [work EXCEPT !.stage = "unit", !.segment = tickets + 1]
    /\ UNCHANGED <<armed, gate, flows, channel, judged, router, runner>>

\* The buffer is full: Pipeline::run drops the flow, the two command line tools
\* log "failing open" and leave the gate to its timeout.
ClassifyRefused(size) ==
    /\ Taken({"video"})
    /\ FullFor(size)
    /\ IF runner = "pipeline" THEN Resolve(work.flow, "blocked") ELSE UNCHANGED <<gate, flows>>
    /\ work' = NoWork
    /\ UNCHANGED <<armed, channel, judged, router, runner, bufferVars>>

\* coverage_gap; and the verdict of the NullAnalyzer, which is a SAFE one.
Gap(v) == v.category = "unspecified"
NullVerdict == [category |-> "safe", score |-> 0]
GapVerdict  == [category |-> "unspecified", score |-> 0]

\* Who looks at the unit: analyze, analyze_offload.  Nothing but tests ever calls
\* negotiate or refresh, so a router has no policy and routes to its local analyzer,
\* the NullAnalyzer of build_offload_router.
LooksAt(kind) ==
    IF kind # "audio" THEN "analyzer"
    ELSE IF router = "absent" THEN "nobody" ELSE "null"

\* A missing or failing analyzer and an incomplete answer are coverage gaps;
\* whatever is not UNSPECIFIED is taken as it is.
Analyze(v, rewritten) ==
    /\ work.stage = "unit"
    /\ LET who == LooksAt(flows[work.flow].kind)
       IN \/ /\ who = "analyzer"
             /\ work' = [work EXCEPT !.stage = "verdict", !.verdict = v,
                                     !.covered = ~Gap(v), !.rewritten = rewritten /\ ~Gap(v)]
          \/ /\ who # "analyzer" /\ ~rewritten
             /\ work' = [work EXCEPT !.stage = "verdict",
                            !.verdict = IF who = "null" THEN NullVerdict ELSE GapVerdict]
    /\ UNCHANGED <<armed, gate, flows, channel, judged, router, runner, bufferVars>>

\* action_to_decision.
OutcomeOfSoft(action, rewritten) ==
    IF action = "block" THEN "blocked"
    ELSE IF action \in {"blur", "mute"} /\ rewritten THEN "rewritten" ELSE "forwarded"

OutcomeOf(action, rewritten) ==
    IF action = "block" THEN "blocked"
    ELSE IF action \in {"blur", "mute"} THEN IF rewritten THEN "rewritten" ELSE "blocked"
    ELSE "forwarded"

\* decide, Interceptor::apply, and the release of a buffered segment.
Decide ==
    LET action == Evaluate(work.verdict, "teen", DefaultConfig).action
        out == OutcomeOf(action, work.rewritten)
    IN /\ work.stage = "verdict"
       /\ Resolve(work.flow, out)
       /\ judged' = [f \in DOMAIN judged \cup {work.flow} |->
                        IF f = work.flow
                        THEN [action |-> action, covered |-> work.covered,
                              inTime |-> f \in gate /\ flows[f].outcome = "waiting",
                              outcome |-> out]
                        ELSE judged[f]]
       /\ IF work.segment # 0 THEN ApplyDecision(work.segment, action, work.rewritten)
                              ELSE UNCHANGED bufferVars
       /\ work' = [work EXCEPT !.stage = "telling"]
       /\ UNCHANGED <<armed, channel, router, runner>>

\* The alert sink and the local store have answered, or failed.
Told ==
    /\ work.stage = "telling"
    /\ work' = NoWork
    /\ UNCHANGED <<armed, gate, flows, channel, judged, router, runner, bufferVars>>

InspectNext ==
    \/ ArmGate
    \/ \E k \in GatedKinds : HoldAtGate(k) \/ ChannelFull(k) \/ Ungated(k)
    \/ \E k \in Kinds, b \in Bodies : HandleIncomplete(k, b) \/ HandleUngated(k, b)
    \/ \E f \in DOMAIN flows : Wakes(f) \/ DecisionTimeout(f) \/ Cancel(f)
    \/ TakeFlow \/ ClassifyNothing \/ ClassifyUnit
    \/ \E size \in SegmentSizes : ClassifyVideo(size) \/ ClassifyRefused(size)
    \/ \E v \in Judgements, rewritten \in BOOLEAN : Analyze(v, rewritten)
    \/ Decide \/ Told

----------------------------------------------------------------------------
(* What the path promises. *)

\* Protected content fails closed: an image, a video segment or a WebSocket frame
\* held at the gate is let through only because an analyzer covered it and the
\* policy let it pass, whichever of verdict, timeout, full channel and full
\* buffer comes first (proxy.rs: "classifier backpressure, or decision timeout
\* fails closed").
HeldContentJudged ==
    \A f \in DOMAIN flows :
        /\ flows[f].gated /\ flows[f].kind \in {"image", "video", "frame"}
        /\ flows[f].outcome = "forwarded"
        => f \in DOMAIN judged /\ judged[f].covered /\ judged[f].action \in {"allow", "log", "warn"}

\* A decision sent before the waiting task gave up is the one that is carried out,
\* however close the time-out is, and one sent later changes nothing: the flow gets
\* the fallback, also when the pipeline still found it registered.
TimelyDecisionStands ==
    \A f \in DOMAIN judged : flows[f].gated =>
        IF judged[f].inTime
        THEN flows[f].outcome \in {"waiting", Carried(flows[f].kind, judged[f].outcome)}
        ELSE flows[f].outcome \in {"late", Fallback(flows[f].kind)}

\* What lib.rs says of a coverage gap: content nobody analysed is "conservatively
\* blocked", so media held at the gate never pass without a covering verdict.
UncoveredNeverShown ==
    \A f \in DOMAIN flows :
        /\ flows[f].gated /\ flows[f].kind \in MediaKinds
        /\ flows[f].outcome = "forwarded"
        => f \in DOMAIN judged /\ judged[f].covered
=============================================================================
