--------------------------- MODULE ContentPolicy ---------------------------
(***************************************************************************)
(* The policy engine (crates/bulwark-policy: lib.rs, config.rs): what is   *)
(* done with a verdict, as a function of category, score, age profile and  *)
(* configuration.  Scores and thresholds are hundredths; severities and    *)
(* the wording of reasons are left out.                                    *)
(***************************************************************************)
EXTENDS Integers

Profiles   == {"young_child", "pre_teen", "teen"}
Categories == {"unspecified", "safe", "adult_image", "adult_audio", "adult_text",
               "grooming", "csam_suspected", "violence", "self_harm", "hate"}
Actions    == {"allow", "log", "warn", "blur", "mute", "block"}
AlertKinds == {"none", "intervention", "grooming_suspected"}
Scores     == 0..100

Verdict == [category: Categories, score: Scores]
Band    == [log: Scores, flag: Scores, block: Scores,
            textFlagBlocks: BOOLEAN, preferBlur: BOOLEAN]
PolicyConfig == [bands: [Profiles -> Band], groomingAlertNotBlock: BOOLEAN,
                 csamReport: BOOLEAN, failClosed: BOOLEAN]

\* AgeBandThresholds::for_profile.
DefaultBand(p) ==
    IF p = "young_child"
    THEN [log |-> 25, flag |-> 40, block |-> 60, textFlagBlocks |-> TRUE, preferBlur |-> TRUE]
    ELSE IF p = "pre_teen"
    THEN [log |-> 30, flag |-> 45, block |-> 65, textFlagBlocks |-> TRUE, preferBlur |-> TRUE]
    ELSE [log |-> 30, flag |-> 50, block |-> 70, textFlagBlocks |-> FALSE, preferBlur |-> TRUE]

DefaultConfig == [bands |-> [p \in Profiles |-> DefaultBand(p)],
                  groomingAlertNotBlock |-> TRUE, csamReport |-> TRUE, failClosed |-> TRUE]

\* Thresholds::validate.
Valid(cfg) == \A p \in Profiles : /\ cfg.bands[p].log <= cfg.bands[p].flag
                                  /\ cfg.bands[p].flag <= cfg.bands[p].block

Decision(action, alert, report) == [action |-> action, alert |-> alert, report |-> report]

DecideGrooming(score, band, cfg) ==
    IF score >= band.block /\ ~cfg.groomingAlertNotBlock
    THEN Decision("block", "intervention", FALSE)
    ELSE IF score >= band.flag
         THEN Decision("log", "grooming_suspected", FALSE)
         ELSE Decision("log", "none", FALSE)

EnforceAction(category, band) ==
    IF category = "adult_image" THEN IF band.preferBlur THEN "blur" ELSE "block"
    ELSE IF category = "adult_audio" THEN "mute" ELSE "block"

FlagAction(category, band) ==
    IF category = "adult_image" THEN IF band.preferBlur THEN "blur" ELSE "block"
    ELSE IF category = "adult_audio" THEN "mute"
    ELSE IF category = "adult_text" /\ band.textFlagBlocks THEN "block" ELSE "warn"

Evaluate(v, profile, cfg) ==
    LET band == cfg.bands[profile]
    IN IF v.category = "csam_suspected"
       THEN Decision("block", "intervention", cfg.csamReport)
       ELSE IF v.category = "unspecified"
       THEN IF cfg.failClosed THEN Decision("block", "intervention", FALSE)
                              ELSE Decision("allow", "none", FALSE)
       ELSE IF v.category = "safe" \/ v.score < band.log
       THEN Decision("allow", "none", FALSE)
       ELSE IF v.category = "grooming"
       THEN DecideGrooming(v.score, band, cfg)
       ELSE IF v.score >= band.block
       THEN Decision(EnforceAction(v.category, band), "intervention", FALSE)
       ELSE IF v.score >= band.flag
       THEN Decision(FlagAction(v.category, band), "intervention", FALSE)
       ELSE Decision("log", "none", FALSE)

\* is_intervention and alert_for: an action that a caller overrode still alerts.
IsIntervention(action) == action \in {"block", "blur", "mute", "warn"}

AlertFor(v, action, profile, cfg) ==
    LET own == Evaluate(v, profile, cfg).alert
    IN IF own # "none" THEN own
       ELSE IF IsIntervention(action) THEN "intervention" ELSE "none"

----------------------------------------------------------------------------
(* What the engine promises. *)

\* How much of the content still reaches the child.
Strictness(action) ==
    IF action = "allow" THEN 0
    ELSE IF action = "log" THEN 1
    ELSE IF action = "warn" THEN 2
    ELSE IF action \in {"blur", "mute"} THEN 3 ELSE 4

ScoreNeverSoftensUnder(cfg) ==
    \A c \in Categories, p \in Profiles, s \in Scores, t \in Scores :
        s <= t =>
            Strictness(Evaluate([category |-> c, score |-> s], p, cfg).action)
              <= Strictness(Evaluate([category |-> c, score |-> t], p, cfg).action)

\* A surer verdict is never handled more softly: through the log, flag and
\* block edges of each band, for every category, evaluate only gets stricter.
ScoreNeverSoftens == ScoreNeverSoftensUnder(DefaultConfig)

\* "Younger bands censor more aggressively" (config.rs): for one and the same
\* verdict the shipped bands are never softer on a younger child.
YoungerNeverSofter ==
    \A c \in Categories, s \in Scores :
        LET strict(p) == Strictness(Evaluate([category |-> c, score |-> s],
                                             p, DefaultConfig).action)
        IN strict("teen") <= strict("pre_teen") /\ strict("pre_teen") <= strict("young_child")
=============================================================================
