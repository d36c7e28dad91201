------------------------- MODULE Inspection_proofs -------------------------
(***************************************************************************)
(* What holds of the inspection path of a device: the policy engine for    *)
(* every score and every valid configuration, the registry of hosts that   *)
(* reject our certificates for any number of connections, the decision     *)
(* gate for any number of flows, and the store of its events for any       *)
(* number of them and any retention.                                       *)
(***************************************************************************)
EXTENDS Inspection, Pinning, EvidenceStore, FiniteSetTheorems, WellFoundedInduction, TLAPS

-----------------------------------------------------------------------------
(* The policy engine *)

\* The action of evaluate in the ladder of one category: the first conjunct is
\* the constant categories, the second grooming, the third all others.
LEMMA LadderOfCategory ==
    ASSUME NEW c \in Categories, NEW s \in Scores, NEW p \in Profiles,
           NEW cfg \in PolicyConfig
    PROVE  LET band == cfg.bands[p]
               act == Evaluate([category |-> c, score |-> s], p, cfg).action
           IN /\ c \in {"csam_suspected", "unspecified", "safe"} =>
                    act = IF c = "csam_suspected" \/ (c = "unspecified" /\ cfg.failClosed)
                          THEN "block" ELSE "allow"
              /\ c = "grooming" =>
                    act = IF s < band.log THEN "allow"
                          ELSE IF s >= band.block /\ ~cfg.groomingAlertNotBlock
                               THEN "block" ELSE "log"
              /\ c \notin {"csam_suspected", "unspecified", "safe", "grooming"} =>
                    act = IF s < band.log THEN "allow"
                          ELSE IF s >= band.block THEN EnforceAction(c, band)
                          ELSE IF s >= band.flag THEN FlagAction(c, band) ELSE "log"
<1> DEFINE v == [category |-> c, score |-> s]
<1>1. v.category = c /\ v.score = s
    OBVIOUS
<1>2. \A a, k, r : Decision(a, k, r).action = a
    BY DEF Decision
<1> HIDE DEF v
<1>3. CASE c \in {"csam_suspected", "unspecified", "safe"}
    BY <1>1, <1>2, <1>3 DEF Evaluate, v
<1>4. CASE c = "grooming"
  <2>1. DecideGrooming(s, cfg.bands[p], cfg).action =
          IF s >= cfg.bands[p].block /\ ~cfg.groomingAlertNotBlock THEN "block" ELSE "log"
    BY <1>2 DEF DecideGrooming
  <2>2. Evaluate(v, p, cfg) = IF s < cfg.bands[p].log THEN Decision("allow", "none", FALSE)
                              ELSE DecideGrooming(s, cfg.bands[p], cfg)
    BY <1>1, <1>4, Zenon DEF Evaluate
  <2>3. Evaluate(v, p, cfg).action =
          IF s < cfg.bands[p].log THEN "allow" ELSE DecideGrooming(s, cfg.bands[p], cfg).action
    BY <1>2, <2>2, Zenon
  <2>4. QED
    BY <1>4, <2>1, <2>3, Zenon DEF v
<1>5. CASE c \notin {"csam_suspected", "unspecified", "safe", "grooming"}
  <2> DEFINE ladder(a, e, f, l) ==
          IF s < cfg.bands[p].log THEN a
          ELSE IF s >= cfg.bands[p].block THEN e
          ELSE IF s >= cfg.bands[p].flag THEN f ELSE l
  <2>1. Evaluate(v, p, cfg) =
          ladder(Decision("allow", "none", FALSE),
                 Decision(EnforceAction(c, cfg.bands[p]), "intervention", FALSE),
                 Decision(FlagAction(c, cfg.bands[p]), "intervention", FALSE),
                 Decision("log", "none", FALSE))
    BY <1>1, <1>5, Zenon DEF Evaluate
  <2>2. Evaluate(v, p, cfg).action =
          ladder("allow", EnforceAction(c, cfg.bands[p]), FlagAction(c, cfg.bands[p]), "log")
    BY <1>2, <2>1, Zenon
  <2>3. QED
    BY <1>5, <2>2, Zenon DEF v
<1>6. QED
    BY <1>3, <1>4, <1>5

\* What is enforced is at least as strict as what is merely flagged, and both
\* are at least a warning.
LEMMA EnforcedAtLeastFlagged ==
    ASSUME NEW c \in Categories, NEW band \in Band
    PROVE  /\ Strictness(FlagAction(c, band)) \in 2..4
           /\ Strictness(EnforceAction(c, band)) \in 2..4
           /\ Strictness(FlagAction(c, band)) <= Strictness(EnforceAction(c, band))
BY DEF FlagAction, EnforceAction, Strictness, Band

\* Raising the score of a verdict never softens what evaluate does with it,
\* whatever (ordered) thresholds a deployment configures.
THEOREM ScoreNeverSoftensEver ==
    ASSUME NEW cfg \in PolicyConfig, Valid(cfg)
    PROVE  ScoreNeverSoftensUnder(cfg)
<1> SUFFICES ASSUME NEW c \in Categories, NEW p \in Profiles,
                    NEW s \in Scores, NEW t \in Scores, s <= t
             PROVE  Strictness(Evaluate([category |-> c, score |-> s], p, cfg).action)
                      <= Strictness(Evaluate([category |-> c, score |-> t], p, cfg).action)
    BY DEF ScoreNeverSoftensUnder
<1> DEFINE band == cfg.bands[p]
           low  == Evaluate([category |-> c, score |-> s], p, cfg).action
           high == Evaluate([category |-> c, score |-> t], p, cfg).action
<1>1. /\ band \in Band
      /\ band.log <= band.flag /\ band.flag <= band.block
    BY DEF PolicyConfig, Valid
<1>2. /\ band.log \in Int /\ band.flag \in Int /\ band.block \in Int
      /\ s \in Int /\ t \in Int
    BY <1>1 DEF Band, Scores
<1>3. /\ Strictness("allow") = 0 /\ Strictness("log") = 1 /\ Strictness("block") = 4
    BY DEF Strictness
<1>4. CASE c \in {"csam_suspected", "unspecified", "safe"}
  <2>1. low = high
    BY <1>4, LadderOfCategory
  <2>2. low \in {"block", "allow"}
    BY <1>4, LadderOfCategory
  <2>3. QED
    BY <2>1, <2>2, <1>3
<1>5. CASE c = "grooming"
  <2>1. /\ low = IF s < band.log THEN "allow"
                 ELSE IF s >= band.block /\ ~cfg.groomingAlertNotBlock THEN "block" ELSE "log"
        /\ high = IF t < band.log THEN "allow"
                  ELSE IF t >= band.block /\ ~cfg.groomingAlertNotBlock THEN "block" ELSE "log"
    BY <1>5, LadderOfCategory
  <2> HIDE DEF low, high, band
  <2>2. QED
    BY <2>1, <1>1, <1>2, <1>3 DEF low, high
<1>6. CASE c \notin {"csam_suspected", "unspecified", "safe", "grooming"}
  <2> DEFINE enf == EnforceAction(c, band)
             flg == FlagAction(c, band)
  <2>1. /\ low = IF s < band.log THEN "allow" ELSE IF s >= band.block THEN enf
                 ELSE IF s >= band.flag THEN flg ELSE "log"
        /\ high = IF t < band.log THEN "allow" ELSE IF t >= band.block THEN enf
                  ELSE IF t >= band.flag THEN flg ELSE "log"
    BY <1>6, LadderOfCategory
  <2>2. /\ Strictness(enf) \in 2..4 /\ Strictness(flg) \in 2..4
        /\ Strictness(flg) <= Strictness(enf)
    BY <1>1, EnforcedAtLeastFlagged
  <2> HIDE DEF low, high, band, enf, flg
  <2>3. QED
    BY <2>1, <2>2, <1>1, <1>2, <1>3 DEF low, high
<1>7. QED
    BY <1>4, <1>5, <1>6

\* The shipped configuration is a valid one.
LEMMA DefaultConfigValid == DefaultConfig \in PolicyConfig /\ Valid(DefaultConfig)
<1>1. \A p \in Profiles : /\ DefaultBand(p) \in Band
                          /\ DefaultBand(p).log <= DefaultBand(p).flag
                          /\ DefaultBand(p).flag <= DefaultBand(p).block
    BY DEF DefaultBand, Band, Scores, Profiles
<1>2. QED
    BY <1>1 DEF DefaultConfig, PolicyConfig, Valid

\* With the shipped bands a surer verdict is never handled more softly.
THEOREM ScoreNeverSoftensShipped == ScoreNeverSoftens
BY DefaultConfigValid, ScoreNeverSoftensEver DEF ScoreNeverSoftens

\* With the shipped bands evaluate is never softer on a younger child.
THEOREM YoungerNeverSofterProved == YoungerNeverSofter
<1> SUFFICES ASSUME NEW c \in Categories, NEW s \in Scores
             PROVE  LET act(p) == Evaluate([category |-> c, score |-> s], p, DefaultConfig).action
                    IN /\ Strictness(act("teen")) <= Strictness(act("pre_teen"))
                       /\ Strictness(act("pre_teen")) <= Strictness(act("young_child"))
    BY DEF YoungerNeverSofter
<1> DEFINE act(p) == Evaluate([category |-> c, score |-> s], p, DefaultConfig).action
           band(p) == DefaultConfig.bands[p]
<1>1. /\ band("teen") = DefaultBand("teen")
      /\ band("pre_teen") = DefaultBand("pre_teen")
      /\ band("young_child") = DefaultBand("young_child")
      /\ {"teen", "pre_teen", "young_child"} \subseteq Profiles
    BY DEF DefaultConfig, Profiles
<1>2. s \in Int
    BY DEF Scores
<1>3. /\ Strictness("allow") = 0 /\ Strictness("log") = 1 /\ Strictness("block") = 4
    BY DEF Strictness
<1>4. CASE c \in {"csam_suspected", "unspecified", "safe"}
  <2>1. act("teen") = act("pre_teen") /\ act("pre_teen") = act("young_child")
    BY <1>1, <1>4, LadderOfCategory, DefaultConfigValid
  <2>2. act("teen") \in {"block", "allow"}
    BY <1>1, <1>4, LadderOfCategory, DefaultConfigValid
  <2>3. QED
    BY <2>1, <2>2, <1>3
<1>5. CASE c = "grooming"
  <2>1. \A p \in Profiles : act(p) = IF s < DefaultBand(p).log THEN "allow" ELSE "log"
    BY <1>5, LadderOfCategory, DefaultConfigValid DEF DefaultConfig
  <2>2. QED
    BY <2>1, <1>1, <1>2, <1>3 DEF DefaultBand
<1>6. CASE c \notin {"csam_suspected", "unspecified", "safe", "grooming"}
  <2>1. \A p \in Profiles :
           act(p) = IF s < DefaultBand(p).log THEN "allow"
                    ELSE IF s >= DefaultBand(p).block THEN EnforceAction(c, DefaultBand(p))
                    ELSE IF s >= DefaultBand(p).flag THEN FlagAction(c, DefaultBand(p))
                    ELSE "log"
    BY <1>6, LadderOfCategory, DefaultConfigValid DEF DefaultConfig
  <2>2. QED
    BY <2>1, <1>1, <1>2 DEF DefaultBand, EnforceAction, FlagAction, Strictness
<1>7. QED
    BY <1>4, <1>5, <1>6

-----------------------------------------------------------------------------
(* Pinning: strikes are attempts *)

NoHost == CHOOSE h \in Hosts : TRUE
Conn == [stage: Stage, host: Hosts \cup {NoHost}]
Trying == {"capability", "strike"}

\* The attempts on a host that have not yet cost it a strike.
Attempts(h) == {c \in Connections : conn[c].host = h /\ conn[c].stage \in Trying}

PinShape ==
    /\ capability \in [Hosts -> Capability]
    /\ strikes \in [Hosts -> Nat] /\ connects \in [Hosts -> Nat]
    /\ conn \in [Connections -> Conn]
    /\ \A c \in Connections : conn[c].stage # "closed" => conn[c].host \in Hosts

\* Every strike, given or still to come, is a connection of its own.
StrikesAreConnects ==
    \A h \in Hosts : /\ IsFiniteSet(Attempts(h))
                     /\ strikes[h] + Cardinality(Attempts(h)) <= connects[h]

\* The map and the tasks past the threshold agree with the number of connections.
PinnedIsEarned ==
    /\ \A h \in Hosts : capability[h] = "pinned" => connects[h] >= StrikeThreshold
    /\ \A c \in Connections : conn[c].stage \in {"clear", "pin", "tunnel"} =>
                                  connects[conn[c].host] >= StrikeThreshold

PinInv == PinShape /\ StrikesAreConnects /\ PinnedIsEarned

\* Moving a task on changes its stage and not its host.
LEMMA GoMoves ==
    ASSUME PinShape, NEW c \in Connections, NEW s \in Stage, Go(c, s)
    PROVE  conn' = [conn EXCEPT ![c] = [host |-> conn[c].host, stage |-> s]]
<1>1. conn' = [conn EXCEPT ![c] = [conn[c] EXCEPT !.stage = s]]
  BY Zenon DEF Go
<1>2. [conn[c] EXCEPT !.stage = s] = [host |-> conn[c].host, stage |-> s]
  BY DEF PinShape, Conn
<1>. QED
  BY <1>1, <1>2

\* What a task's move does to the attempts.
LEMMA AttemptsMove ==
    ASSUME PinShape, NEW c \in Connections, NEW h \in Hosts, NEW s \in Stage,
           conn' = [conn EXCEPT ![c] = [host |-> h, stage |-> s]]
    PROVE  /\ conn' \in [Connections -> Conn]
           /\ conn'[c].host = h /\ conn'[c].stage = s
           /\ \A d \in Connections \ {c} : conn'[d] = conn[d]
           /\ s \notin Trying => \A g \in Hosts : Attempts(g)' = Attempts(g) \ {c}
           /\ s \in Trying /\ c \in Attempts(h) => \A g \in Hosts : Attempts(g)' = Attempts(g)
           /\ s \in Trying /\ conn[c].stage = "closed" =>
                 /\ Attempts(h)' = Attempts(h) \cup {c} /\ c \notin Attempts(h)
                 /\ \A g \in Hosts \ {h} : Attempts(g)' = Attempts(g)
<1>. DEFINE r == [host |-> h, stage |-> s]
<1>1. r.host = h /\ r.stage = s /\ r \in Conn
  BY DEF Conn
<1>. HIDE DEF r
<1>2. conn \in [Connections -> Conn] /\ conn' = [conn EXCEPT ![c] = r]
  BY DEF PinShape, r
<1>3. /\ conn'[c] = r /\ conn' \in [Connections -> Conn]
      /\ \A d \in Connections \ {c} : conn'[d] = conn[d]
  BY <1>1, <1>2
<1>. QED
  BY <1>1, <1>3 DEF Attempts, Trying

\* A task that is through with its attempt.
LEMMA AttemptEnds ==
    ASSUME PinInv, NEW c \in Connections, NEW h \in Hosts, NEW s \in Stage \ Trying,
           conn' = [conn EXCEPT ![c] = [host |-> h, stage |-> s]],
           capability' \in [Hosts -> Capability], UNCHANGED connects,
           \A g \in Hosts : capability'[g] = "pinned" => connects[g] >= StrikeThreshold,
           s \in {"clear", "pin", "tunnel"} => connects[h] >= StrikeThreshold,
           strikes' \in [Hosts -> Nat],
           \A g \in Hosts : \/ strikes'[g] <= strikes[g]
                            \/ c \in Attempts(g) /\ strikes'[g] = strikes[g] + 1
    PROVE  PinInv'
<1>1. s \in Stage /\ s \notin Trying /\ PinShape
  BY DEF PinInv
<1>2. /\ conn' \in [Connections -> Conn] /\ conn'[c].host = h /\ conn'[c].stage = s
      /\ \A d \in Connections \ {c} : conn'[d] = conn[d]
      /\ \A g \in Hosts : Attempts(g)' = Attempts(g) \ {c}
  BY <1>1, AttemptsMove
<1>3. PinShape'
  BY <1>1, <1>2 DEF PinShape
<1>4. ASSUME NEW g \in Hosts
      PROVE  /\ IsFiniteSet(Attempts(g)')
             /\ strikes'[g] + Cardinality(Attempts(g)') <= connects'[g]
  <2>1. IsFiniteSet(Attempts(g)) /\ strikes[g] + Cardinality(Attempts(g)) <= connects[g]
    BY DEF PinInv, StrikesAreConnects
  <2>2. /\ IsFiniteSet(Attempts(g)')
        /\ Cardinality(Attempts(g)') = IF c \in Attempts(g) THEN Cardinality(Attempts(g)) - 1
                                       ELSE Cardinality(Attempts(g))
    BY <1>2, <2>1, FS_RemoveElement
  <2>3. /\ Cardinality(Attempts(g)) \in Nat /\ strikes[g] \in Nat /\ strikes'[g] \in Nat
        /\ connects[g] \in Nat
    BY <1>1, <2>1, FS_CardinalityType DEF PinShape
  <2>. QED
    BY <2>1, <2>2, <2>3
<1>5. StrikesAreConnects'
  BY <1>4 DEF StrikesAreConnects
<1>6. PinnedIsEarned'
  BY <1>2 DEF PinInv, PinnedIsEarned
<1>. QED
  BY <1>3, <1>5, <1>6 DEF PinInv

\* decide_intercept on a new connection.
LEMMA ConnectKeeps ==
    ASSUME PinInv, NEW c \in Connections, NEW h \in Hosts, Connect(c, h)
    PROVE  PinInv'
<1>. DEFINE s == IF capability[h] = "pinned" THEN Refuse ELSE "capability"
<1>1. /\ PinShape /\ s \in Stage /\ conn[c].stage = "closed"
      /\ conn' = [conn EXCEPT ![c] = [host |-> h, stage |-> s]]
      /\ connects' = [connects EXCEPT ![h] = @ + 1] /\ UNCHANGED <<capability, strikes>>
  BY DEF PinInv, Connect, Refuse, Stage
<1>2. /\ s \in Trying => s = "capability"
      /\ s \notin Trying => capability[h] = "pinned"
      /\ s \notin {"clear", "pin"}
      /\ s = "tunnel" => capability[h] = "pinned"
  BY DEF Refuse, Trying
<1>. HIDE DEF s
<1>3. /\ conn' \in [Connections -> Conn] /\ conn'[c].host = h /\ conn'[c].stage = s
      /\ \A d \in Connections \ {c} : conn'[d] = conn[d]
  BY <1>1, AttemptsMove
<1>4. /\ connects' \in [Hosts -> Nat] /\ connects'[h] = connects[h] + 1
      /\ \A g \in Hosts : connects'[g] >= connects[g] /\ connects[g] \in Nat
      /\ \A g \in Hosts : strikes[g] \in Nat
  BY <1>1 DEF PinShape
<1>5. PinShape'
  BY <1>1, <1>3, <1>4 DEF PinShape
<1>6. ASSUME NEW g \in Hosts
      PROVE  /\ IsFiniteSet(Attempts(g)')
             /\ strikes[g] + Cardinality(Attempts(g)') <= connects'[g]
  <2>1. IsFiniteSet(Attempts(g)) /\ strikes[g] + Cardinality(Attempts(g)) <= connects[g]
    BY DEF PinInv, StrikesAreConnects
  <2>2. Cardinality(Attempts(g)) \in Nat
    BY <2>1, FS_CardinalityType
  <2>3. \/ Attempts(g)' = Attempts(g) \ {c} /\ c \notin Attempts(g)
        \/ Attempts(g)' = Attempts(g) \cup {c} /\ c \notin Attempts(g) /\ g = h
        \/ Attempts(g)' = Attempts(g)
    BY <1>1, AttemptsMove DEF Attempts, Trying
  <2>4. \/ IsFiniteSet(Attempts(g)') /\ Cardinality(Attempts(g)') = Cardinality(Attempts(g))
        \/ /\ IsFiniteSet(Attempts(g)') /\ g = h
           /\ Cardinality(Attempts(g)') = Cardinality(Attempts(g)) + 1
    BY <2>1, <2>3, FS_RemoveElement, FS_AddElement
  <2>. QED
    BY <1>4, <2>1, <2>2, <2>4
<1>7. StrikesAreConnects'
  BY <1>1, <1>6 DEF StrikesAreConnects
<1>8. PinnedIsEarned'
  <2>1. \A g \in Hosts : capability[g] = "pinned" => connects'[g] >= StrikeThreshold
    BY <1>4, PinningAssumption DEF PinInv, PinnedIsEarned
  <2>2. ASSUME NEW d \in Connections, conn'[d].stage \in {"clear", "pin", "tunnel"}
        PROVE  connects'[conn'[d].host] >= StrikeThreshold
    <3>1. CASE d = c
      BY <1>2, <1>3, <2>1, <2>2, <3>1
    <3>2. CASE d # c
      <4>1. conn'[d] = conn[d] /\ conn[d].host \in Hosts
        BY <1>1, <1>3, <2>2, <3>2 DEF PinShape
      <4>. QED
        BY <1>4, <2>2, <4>1, PinningAssumption DEF PinInv, PinnedIsEarned
    <3>. QED
      BY <3>1, <3>2
  <2>. QED
    BY <1>1, <2>1, <2>2 DEF PinnedIsEarned
<1>. QED
  BY <1>5, <1>7, <1>8 DEF PinInv

\* record_intercept_attempt reads the map under its lock.
LEMMA ReadCapabilityKeeps ==
    ASSUME PinInv, NEW c \in Connections, ReadCapability(c)
    PROVE  PinInv'
<1>. DEFINE h == conn[c].host
            s == IF capability[h] = "unknown" THEN "strike" ELSE "intercept"
<1>1. PinShape /\ h \in Hosts /\ s \in Stage /\ c \in Attempts(h)
  BY DEF PinInv, PinShape, ReadCapability, Stage, Attempts, Trying
<1>2. UNCHANGED <<capability, strikes, connects>> /\ Go(c, s)
  BY DEF ReadCapability
<1>3. conn' = [conn EXCEPT ![c] = [host |-> h, stage |-> s]]
  BY <1>1, <1>2, GoMoves
<1>4. strikes \in [Hosts -> Nat] /\ capability \in [Hosts -> Capability]
  BY <1>1 DEF PinShape
<1>5. \A g \in Hosts : capability[g] = "pinned" => connects[g] >= StrikeThreshold
  BY DEF PinInv, PinnedIsEarned
<1>6. CASE s = "intercept"
  <2>1. s \in Stage \ Trying /\ s \notin {"clear", "pin", "tunnel"}
    BY <1>1, <1>6 DEF Trying
  <2>2. \A g \in Hosts : strikes[g] <= strikes[g]
    BY <1>4
  <2>. HIDE DEF h, s
  <2>. QED
    BY <1>1, <1>2, <1>3, <1>4, <1>5, <2>1, <2>2, AttemptEnds
<1>7. CASE s = "strike"
  <2>1. /\ conn' \in [Connections -> Conn] /\ conn'[c].host = h /\ conn'[c].stage = s
        /\ \A d \in Connections \ {c} : conn'[d] = conn[d]
        /\ \A g \in Hosts : Attempts(g)' = Attempts(g)
    BY <1>1, <1>3, <1>7, AttemptsMove DEF Trying
  <2>. HIDE DEF h, s
  <2>2. PinShape'
    BY <1>1, <1>2, <2>1 DEF PinShape
  <2>3. StrikesAreConnects'
    BY <1>2, <2>1 DEF PinInv, StrikesAreConnects
  <2>4. PinnedIsEarned'
    BY <1>2, <1>7, <2>1 DEF PinInv, PinnedIsEarned
  <2>. QED
    BY <2>2, <2>3, <2>4 DEF PinInv
<1>. QED
  BY <1>6, <1>7

\* Every step of the proxy's tasks.
LEMMA PinStep == PinInv /\ [PinNext]_pinVars => PinInv'
<1>. SUFFICES ASSUME PinInv, [PinNext]_pinVars PROVE PinInv'
  OBVIOUS
<1>1. /\ PinShape /\ strikes \in [Hosts -> Nat] /\ capability \in [Hosts -> Capability]
      /\ connects \in [Hosts -> Nat] /\ \A g \in Hosts : strikes[g] <= strikes[g]
  BY DEF PinInv, PinShape
<1>2. \A g \in Hosts : capability[g] = "pinned" => connects[g] >= StrikeThreshold
  BY DEF PinInv, PinnedIsEarned
<1>3. ASSUME NEW c \in Connections, Strike(c) PROVE PinInv'
  <2>. DEFINE h == conn[c].host
              s == IF Crosses(strikes[h] + 1) THEN "clear" ELSE "intercept"
  <2>1. /\ h \in Hosts /\ s \in Stage \ Trying /\ c \in Attempts(h) /\ Go(c, s)
        /\ strikes' = [strikes EXCEPT ![h] = @ + 1] /\ UNCHANGED <<capability, connects>>
    BY <1>1, <1>3 DEF PinShape, Strike, Stage, Attempts, Trying
  <2>2. conn' = [conn EXCEPT ![c] = [host |-> h, stage |-> s]]
    BY <1>1, <2>1, GoMoves
  <2>3. /\ strikes' \in [Hosts -> Nat]
        /\ \A g \in Hosts : \/ strikes'[g] <= strikes[g]
                            \/ c \in Attempts(g) /\ strikes'[g] = strikes[g] + 1
    BY <1>1, <2>1
  <2>4. s \in {"clear", "pin", "tunnel"} => connects[h] >= StrikeThreshold
    <3>1. /\ IsFiniteSet(Attempts(h)) /\ strikes[h] + Cardinality(Attempts(h)) <= connects[h]
      BY <2>1 DEF PinInv, StrikesAreConnects
    <3>2. Cardinality(Attempts(h)) \in Nat /\ Cardinality(Attempts(h)) # 0
      BY <2>1, <3>1, FS_CardinalityType, FS_EmptySet
    <3>3. strikes[h] \in Nat /\ connects[h] \in Nat
      BY <1>1, <2>1
    <3>. HIDE DEF h
    <3>. QED
      BY <3>1, <3>2, <3>3, PinningAssumption DEF Crosses
  <2>. HIDE DEF h, s
  <2>. QED
    BY <1>1, <1>2, <2>1, <2>2, <2>3, <2>4, AttemptEnds
<1>4. ASSUME NEW c \in Connections, ClearStrikes(c) \/ ForgiveStrikes(c) PROVE PinInv'
  <2>. DEFINE h == conn[c].host
              s == IF conn[c].stage = "clear" THEN "pin" ELSE "inspect"
  <2>1. /\ h \in Hosts /\ s \in Stage \ Trying /\ Go(c, s)
        /\ s \in {"clear", "pin", "tunnel"} => conn[c].stage = "clear"
        /\ strikes' = [strikes EXCEPT ![h] = 0] /\ UNCHANGED <<capability, connects>>
    BY <1>1, <1>4 DEF PinShape, ClearStrikes, ForgiveStrikes, Stage, Trying
  <2>2. conn' = [conn EXCEPT ![c] = [host |-> h, stage |-> s]]
    BY <1>1, <2>1, GoMoves
  <2>3. strikes' \in [Hosts -> Nat] /\ \A g \in Hosts : strikes'[g] <= strikes[g]
    BY <1>1, <2>1
  <2>4. s \in {"clear", "pin", "tunnel"} => connects[h] >= StrikeThreshold
    BY <2>1 DEF PinInv, PinnedIsEarned
  <2>. HIDE DEF h, s
  <2>. QED
    BY <1>1, <1>2, <2>1, <2>2, <2>3, <2>4, AttemptEnds
<1>5. ASSUME NEW c \in Connections, RecordPinned(c) \/ RecordMitmable(c) PROVE PinInv'
  <2>. DEFINE h == conn[c].host
              s == IF conn[c].stage = "pin" THEN Refuse ELSE "forgive"
              m == IF conn[c].stage = "pin" THEN "pinned" ELSE "mitmable"
  <2>1. /\ h \in Hosts /\ s \in Stage \ Trying /\ Go(c, s) /\ m \in Capability
        /\ capability' = [capability EXCEPT ![h] = m] /\ UNCHANGED <<strikes, connects>>
        /\ m = "pinned" => conn[c].stage = "pin"
        /\ s \in {"clear", "pin", "tunnel"} => conn[c].stage = "pin"
    BY <1>1, <1>5 DEF PinShape, RecordPinned, RecordMitmable, Stage, Trying, Refuse, Capability
  <2>2. conn' = [conn EXCEPT ![c] = [host |-> h, stage |-> s]]
    BY <1>1, <2>1, GoMoves
  <2>3. conn[c].stage = "pin" => connects[h] >= StrikeThreshold
    BY DEF PinInv, PinnedIsEarned
  <2>. HIDE DEF h, s, m
  <2>4. /\ capability' \in [Hosts -> Capability]
        /\ \A g \in Hosts : capability'[g] = "pinned" => connects[g] >= StrikeThreshold
    BY <1>1, <1>2, <2>1, <2>3
  <2>. QED
    BY <1>1, <2>1, <2>2, <2>3, <2>4, AttemptEnds
<1>6. ASSUME NEW c \in Connections, NEW s \in Stage, NEW h \in Hosts,
             conn' = [conn EXCEPT ![c] = [host |-> h, stage |-> s]],
             s \in {"closed", "decrypted"}, UNCHANGED <<capability, strikes, connects>>
      PROVE  PinInv'
  BY <1>1, <1>2, <1>6, AttemptEnds DEF Trying
<1>7. ASSUME NEW c \in Connections, NEW h \in Hosts, PlainRequest(c, h) PROVE PinInv'
  BY <1>6, <1>7 DEF PlainRequest, Stage
<1>8. ASSUME NEW c \in Connections, Decrypt(c) \/ NextRequest(c) \/ Reject(c) \/ Close(c)
      PROVE  PinInv'
  <2>1. /\ conn[c].host \in Hosts /\ UNCHANGED <<capability, strikes, connects>>
        /\ Go(c, "decrypted") \/ Go(c, "closed")
    BY <1>1, <1>8 DEF Decrypt, NextRequest, Reject, Close, PinShape
  <2>. QED
    BY <1>1, <1>6, <2>1, GoMoves DEF Stage
<1>9. CASE UNCHANGED pinVars
  BY <1>9 DEF pinVars, PinInv, PinShape, StrikesAreConnects, PinnedIsEarned, Attempts
<1>. QED
  BY <1>3, <1>4, <1>5, <1>7, <1>8, <1>9, ConnectKeeps, ReadCapabilityKeeps DEF PinNext

\* pinning.rs, "a single transient handshake failure": however many connections race
\* through the two locks of the registry, no host is passed through unread before it
\* was tried as often as the threshold says.
THEOREM TunnelsEarned == PinInit /\ [][PinNext]_pinVars => []TunnelNeedsStrikes
<1>1. PinInit => PinInv
  <2>. SUFFICES ASSUME PinInit PROVE PinInv
    OBVIOUS
  <2>1. \A c \in Connections : conn[c].stage = "closed" /\ conn[c] \in Conn
    BY DEF PinInit, Conn, Stage, NoHost
  <2>2. PinShape
    BY <2>1 DEF PinInit, PinShape, Capability
  <2>3. \A h \in Hosts : Attempts(h) = {}
    BY <2>1 DEF Attempts, Trying
  <2>4. StrikesAreConnects
    BY <2>3, FS_EmptySet DEF PinInit, StrikesAreConnects
  <2>. QED
    BY <2>1, <2>2, <2>4 DEF PinInit, PinInv, PinnedIsEarned
<1>2. PinInv => TunnelNeedsStrikes
  BY DEF PinInv, PinnedIsEarned, TunnelNeedsStrikes
<1>. QED
  BY <1>1, <1>2, PinStep, PTL

-----------------------------------------------------------------------------
(* The decision gate *)

Decisions == {"forwarded", "rewritten", "blocked"}
Outcomes == {"waiting", "late"} \cup Decisions
Work == [stage: {"idle", "taken", "unit", "verdict", "telling"}, flow: Nat, segment: Nat,
         verdict: Verdict, covered: BOOLEAN, rewritten: BOOLEAN]

\* The flows the pipeline has yet to decide about.
Deciding == {"taken", "unit", "verdict"}
Queued == {channel[i] : i \in DOMAIN channel}
Ahead == Queued \cup (IF work.stage \in Deciding THEN {work.flow} ELSE {})

InspectShape ==
    /\ flows \in Seq(Flow) /\ channel \in Seq(Nat) /\ work \in Work /\ tickets \in Nat
    /\ gate \subseteq DOMAIN flows /\ Queued \subseteq DOMAIN flows
    /\ DOMAIN judged \subseteq DOMAIN flows
    /\ work.stage # "idle" => work.flow \in DOMAIN flows

\* A flow passes through the pipeline once.
OnceThrough ==
    /\ \A i, j \in DOMAIN channel : i # j => channel[i] # channel[j]
    /\ work.stage \in Deciding => work.flow \notin Queued
    /\ Ahead \cap DOMAIN judged = {}

\* Whatever is called covered by its verdict was; the analyzer that answers SAFE
\* without looking is asked about audio only.
CoverageKnown ==
    work.stage = "verdict" =>
        work.covered \/ Gap(work.verdict) \/ flows[work.flow].kind = "audio"

\* While its sender is registered a flow waits, undecided; one that was cancelled
\* before the pipeline's decision left the fallback behind.
GateKnown ==
    /\ gate \cap DOMAIN judged = {}
    /\ \A f \in gate : flows[f].outcome \in {"waiting", "late"} /\ flows[f].sent = "nothing"
    /\ \A f \in Ahead \ gate : flows[f].gated => flows[f].outcome = Fallback(flows[f].kind)

\* What lies in an oneshot is what the pipeline decided, and a decision in time lies
\* there until the waiting task looks.
SentKnown ==
    \A f \in DOMAIN flows :
        /\ flows[f].sent = "forwarded" =>
              /\ f \in DOMAIN judged /\ judged[f].action \in {"allow", "log", "warn"}
              /\ judged[f].covered \/ flows[f].kind \notin {"image", "video", "frame"}
        /\ f \in DOMAIN judged =>
              /\ judged[f].outcome \in Decisions
              /\ judged[f].inTime /\ flows[f].outcome = "waiting"
                    => flows[f].sent = judged[f].outcome

\* Only what is held waits.
OnlyHeldWait == \A f \in DOMAIN flows : flows[f].outcome \in {"waiting", "late"} => flows[f].gated

GateInv == /\ InspectShape /\ OnceThrough /\ CoverageKnown /\ GateKnown /\ SentKnown
           /\ OnlyHeldWait /\ HeldContentJudged /\ TimelyDecisionStands

\* evaluate answers an unspecified verdict with a block, and every other with one of
\* the six actions.
LEMMA EvaluateActs ==
    ASSUME NEW v \in Verdict
    PROVE  LET action == Evaluate(v, "teen", DefaultConfig).action
           IN action \in Actions /\ (Gap(v) => action = "block")
<1>1. PICK c \in Categories, s \in Scores : v = [category |-> c, score |-> s]
  BY DEF Verdict
<1>2. "teen" \in Profiles /\ DefaultConfig \in PolicyConfig /\ DefaultConfig.failClosed
  BY DefaultConfigValid DEF Profiles, DefaultConfig
<1>3. \A band : EnforceAction(c, band) \in Actions /\ FlagAction(c, band) \in Actions
  BY DEF EnforceAction, FlagAction, Actions
<1>4. v.category = c
  BY <1>1
<1>5. CASE c \in {"csam_suspected", "unspecified", "safe"}
  BY <1>1, <1>2, <1>4, <1>5, LadderOfCategory DEF Actions, Gap
<1>6. CASE c = "grooming"
  BY <1>1, <1>2, <1>4, <1>6, LadderOfCategory DEF Actions, Gap
<1>7. CASE c \notin {"csam_suspected", "unspecified", "safe", "grooming"}
  <2>. DEFINE band == DefaultConfig.bands["teen"]
  <2>1. Evaluate(v, "teen", DefaultConfig).action =
          IF s < band.log THEN "allow" ELSE IF s >= band.block THEN EnforceAction(c, band)
          ELSE IF s >= band.flag THEN FlagAction(c, band) ELSE "log"
    BY <1>1, <1>2, <1>7, LadderOfCategory
  <2>. QED
    BY <1>3, <1>4, <1>7, <2>1, Zenon DEF Actions, Gap
<1>. QED
  BY <1>5, <1>6, <1>7

\* action_to_decision passes nothing that was to be blocked, blurred or muted.
LEMMA OutcomePasses ==
    ASSUME NEW action \in Actions, NEW rewritten \in BOOLEAN
    PROVE  /\ OutcomeOf(action, rewritten) \in {"forwarded", "rewritten", "blocked"}
           /\ OutcomeOf(action, rewritten) = "forwarded" => action \in {"allow", "log", "warn"}
  BY DEF OutcomeOf, Actions

\* The answer to a flow changes its outcome and nothing else.
LEMMA OutcomeSet ==
    ASSUME flows \in Seq(Flow), NEW f \in DOMAIN flows, NEW x \in Outcomes,
           flows' = [flows EXCEPT ![f].outcome = x]
    PROVE  /\ flows' \in Seq(Flow) /\ DOMAIN flows' = DOMAIN flows
           /\ flows'[f].outcome = x /\ flows'[f].kind = flows[f].kind
           /\ flows'[f].gated = flows[f].gated /\ flows'[f].sent = flows[f].sent
           /\ \A g \in DOMAIN flows \ {f} : flows'[g] = flows[g]
<1>. DEFINE r == [flows[f] EXCEPT !.outcome = x]
<1>1. flows[f] \in Flow
  OBVIOUS
<1>2. /\ r \in Flow /\ r.outcome = x /\ r.kind = flows[f].kind /\ r.gated = flows[f].gated
      /\ r.sent = flows[f].sent
  BY <1>1 DEF Flow, Outcomes, Decisions
<1>3. flows' = [flows EXCEPT ![f] = r]
  BY Zenon
<1>. HIDE DEF r
<1>. QED
  BY <1>2, <1>3

\* Resolve, whether the sender is still there or not.
LEMMA Resolved ==
    ASSUME flows \in Seq(Flow), NEW f \in DOMAIN flows, NEW x \in Decisions, Resolve(f, x)
    PROVE  /\ flows' \in Seq(Flow) /\ DOMAIN flows' = DOMAIN flows /\ gate' = gate \ {f}
           /\ flows'[f].kind = flows[f].kind /\ flows'[f].gated = flows[f].gated
           /\ flows'[f].outcome = flows[f].outcome
           /\ flows'[f].sent = IF f \in gate THEN x ELSE flows[f].sent
           /\ \A g \in DOMAIN flows \ {f} : flows'[g] = flows[g]
<1>1. CASE f \in gate
  <2>1. flows' = [flows EXCEPT ![f].sent = x] /\ gate' = gate \ {f}
    BY <1>1, Zenon DEF Resolve
  <2>. DEFINE r == [flows[f] EXCEPT !.sent = x]
  <2>2. flows[f] \in Flow
    OBVIOUS
  <2>3. /\ r \in Flow /\ r.sent = x /\ r.kind = flows[f].kind /\ r.gated = flows[f].gated
        /\ r.outcome = flows[f].outcome
    BY <2>2 DEF Flow, Decisions
  <2>4. flows' = [flows EXCEPT ![f] = r]
    BY <2>1, Zenon
  <2>. HIDE DEF r
  <2>. QED
    BY <1>1, <2>1, <2>3, <2>4
<1>2. CASE f \notin gate
  BY <1>2 DEF Resolve
<1>. QED
  BY <1>1, <1>2

\* The proxy handles a response: held, answered with the fallback, or let through
\* without a gate.
LEMMA HandleKeeps ==
    ASSUME GateInv, NEW kind \in Kinds, NEW body \in Bodies, NEW gated \in BOOLEAN,
           NEW outcome \in Outcomes, Handle(kind, body, gated, outcome),
           channel' \in {channel, Append(channel, NextFlow)},
           \/ gate' = gate \cup {NextFlow} /\ outcome = "waiting" /\ gated
           \/ gate' = gate /\ (gated => outcome = Fallback(kind)) /\ outcome \in Decisions
    PROVE  GateInv'
<1>. DEFINE r == [kind |-> kind, body |-> body, gated |-> gated, sent |-> "nothing",
                  outcome |-> outcome]
            n == Len(flows) + 1
<1>1. /\ r \in Flow /\ r.kind = kind /\ r.gated = gated /\ r.outcome = outcome
      /\ r.sent = "nothing"
  BY DEF Flow, Outcomes, Decisions
<1>2. /\ flows' = Append(flows, r) /\ UNCHANGED <<work, judged, tickets>>
      /\ channel' \in {channel, Append(channel, n)}
      /\ \/ gate' = gate \cup {n} /\ outcome = "waiting" /\ gated
         \/ gate' = gate /\ (gated => outcome = Fallback(kind)) /\ outcome \in Decisions
  BY DEF Handle, NextFlow, bufferVars
<1>. HIDE DEF r
<1>3. /\ flows \in Seq(Flow) /\ channel \in Seq(Nat) /\ work \in Work /\ tickets \in Nat
      /\ gate \subseteq DOMAIN flows /\ Queued \subseteq DOMAIN flows
      /\ DOMAIN judged \subseteq DOMAIN flows
      /\ work.stage # "idle" => work.flow \in DOMAIN flows
  BY DEF GateInv, InspectShape
<1>4. /\ flows' \in Seq(Flow) /\ n \in Nat /\ DOMAIN flows' = DOMAIN flows \cup {n}
      /\ n \notin DOMAIN flows /\ flows'[n] = r
      /\ \A f \in DOMAIN flows : flows'[f] = flows[f]
  BY <1>1, <1>2, <1>3
<1>. HIDE DEF n
<1>5. /\ channel' \in Seq(Nat) /\ Queued' \subseteq Queued \cup {n}
      /\ \A i, j \in DOMAIN channel' : i # j => channel'[i] # channel'[j]
  <2>1. CASE channel' = channel
    BY <1>3, <2>1 DEF Queued, GateInv, OnceThrough
  <2>2. CASE channel' = Append(channel, n)
    <3>1. /\ channel' \in Seq(Nat) /\ Len(channel) \in Nat
          /\ DOMAIN channel' = 1..Len(channel) + 1 /\ DOMAIN channel = 1..Len(channel)
          /\ channel'[Len(channel) + 1] = n
          /\ \A i \in DOMAIN channel : channel'[i] = channel[i]
      BY <1>3, <1>4, <2>2
    <3>2. \A i \in DOMAIN channel : channel[i] \in Queued /\ channel[i] # n
      BY <1>3, <1>4 DEF Queued
    <3>3. \A i, j \in DOMAIN channel : i # j => channel[i] # channel[j]
      BY DEF GateInv, OnceThrough
    <3>4. \A i \in DOMAIN channel' : i \in DOMAIN channel \/ i = Len(channel) + 1
      BY <3>1
    <3>5. Queued' \subseteq Queued \cup {n}
      BY <3>1, <3>4 DEF Queued
    <3>6. \A i, j \in DOMAIN channel' : i # j => channel'[i] # channel'[j]
      BY <3>1, <3>2, <3>3, <3>4
    <3>. QED
      BY <3>1, <3>5, <3>6
  <2>. QED
    BY <1>2, <2>1, <2>2
<1>6. InspectShape'
  BY <1>2, <1>3, <1>4, <1>5 DEF InspectShape
<1>7. Ahead' \subseteq Ahead \cup {n} /\ Ahead \subseteq DOMAIN flows
  BY <1>2, <1>3, <1>5 DEF Ahead, Deciding
<1>8. OnceThrough'
  <2>1. work.stage \in Deciding => work.flow \notin Queued' 
    BY <1>3, <1>4, <1>5 DEF GateInv, OnceThrough, Deciding
  <2>2. Ahead' \cap DOMAIN judged = {}
    BY <1>3, <1>4, <1>7 DEF GateInv, OnceThrough
  <2>. QED
    BY <1>2, <1>5, <2>1, <2>2 DEF OnceThrough
<1>9. CoverageKnown'
  BY <1>2, <1>3, <1>4 DEF GateInv, CoverageKnown
<1>10. GateKnown'
  <2>1. gate' \cap DOMAIN judged' = {}
    BY <1>2, <1>3, <1>4 DEF GateInv, GateKnown
  <2>2. \A f \in gate' : flows'[f].outcome \in {"waiting", "late"} /\ flows'[f].sent = "nothing"
    BY <1>1, <1>2, <1>3, <1>4 DEF GateInv, GateKnown
  <2>3. ASSUME NEW f \in Ahead' \ gate', flows'[f].gated
        PROVE  flows'[f].outcome = Fallback(flows'[f].kind)
    <3>1. CASE f = n
      BY <1>1, <1>2, <1>4, <2>3, <3>1
    <3>2. CASE f # n
      BY <1>2, <1>4, <1>7, <2>3, <3>2 DEF GateInv, GateKnown
    <3>. QED
      BY <3>1, <3>2
  <2>. QED
    BY <2>1, <2>2, <2>3 DEF GateKnown
<1>11. HeldContentJudged'
  <2>. SUFFICES ASSUME NEW f \in DOMAIN flows', flows'[f].gated,
                       flows'[f].kind \in {"image", "video", "frame"},
                       flows'[f].outcome = "forwarded"
                PROVE  /\ f \in DOMAIN judged /\ judged[f].covered
                       /\ judged[f].action \in {"allow", "log", "warn"}
    BY <1>2 DEF HeldContentJudged
  <2>1. f # n
    BY <1>1, <1>2, <1>4 DEF Fallback
  <2>. QED
    BY <1>4, <2>1 DEF GateInv, HeldContentJudged
<1>12. TimelyDecisionStands'
  BY <1>2, <1>3, <1>4 DEF GateInv, TimelyDecisionStands
<1>13. SentKnown'
  <2>1. \A f \in DOMAIN flows : flows'[f] = flows[f]
    BY <1>4
  <2>2. flows'[n].sent = "nothing" /\ n \notin DOMAIN judged
    BY <1>1, <1>3, <1>4
  <2>. QED
    BY <1>2, <1>4, <2>1, <2>2 DEF GateInv, SentKnown
<1>14. OnlyHeldWait'
  BY <1>1, <1>2, <1>4 DEF GateInv, OnlyHeldWait, Decisions
<1>. QED
  BY <1>6, <1>8, <1>9, <1>10, <1>11, <1>12, <1>13, <1>14 DEF GateInv

\* The waiting task finds its decision, gives up, or withdraws its sender.
LEMMA WaiterKeeps ==
    ASSUME GateInv, NEW f \in DOMAIN flows, Wakes(f) \/ DecisionTimeout(f) \/ Cancel(f)
    PROVE  GateInv'
<1>1. /\ InspectShape /\ flows \in Seq(Flow) /\ flows[f] \in Flow
      /\ UNCHANGED <<channel, work, judged, tickets>>
  BY DEF GateInv, InspectShape, Wakes, DecisionTimeout, Cancel, bufferVars
<1>2. \/ /\ Wakes(f) /\ flows[f].outcome = "waiting" /\ flows[f].sent # "nothing" /\ gate' = gate
         /\ flows' = [flows EXCEPT ![f].outcome = Carried(flows[f].kind, flows[f].sent)]
      \/ /\ DecisionTimeout(f) /\ flows[f].outcome = "waiting" /\ flows[f].sent = "nothing"
         /\ gate' = gate /\ flows' = [flows EXCEPT ![f].outcome = "late"]
      \/ /\ Cancel(f) /\ flows[f].outcome = "late" /\ gate' = gate \ {f}
         /\ flows' = [flows EXCEPT ![f].outcome = Fallback(flows[f].kind)]
  BY Zenon DEF Wakes, DecisionTimeout, Cancel
<1>3. PICK y \in Outcomes :
        /\ flows' = [flows EXCEPT ![f].outcome = y]
        /\ \/ /\ flows[f].outcome = "waiting" /\ flows[f].sent # "nothing" /\ gate' = gate
              /\ y = Carried(flows[f].kind, flows[f].sent) /\ y \in Decisions
           \/ /\ flows[f].outcome = "waiting" /\ flows[f].sent = "nothing"
              /\ gate' = gate /\ y = "late"
           \/ /\ flows[f].outcome = "late" /\ gate' = gate \ {f}
              /\ y = Fallback(flows[f].kind) /\ y \in Decisions
  <2>1. flows[f].sent # "nothing" => Carried(flows[f].kind, flows[f].sent) \in Decisions
    BY <1>1 DEF Flow, Carried, Decisions
  <2>2. Fallback(flows[f].kind) \in Decisions /\ Decisions \subseteq Outcomes /\ "late" \in Outcomes
    BY DEF Fallback, Decisions, Outcomes
  <2>. QED
    BY <1>2, <2>1, <2>2, Zenon
<1>4. /\ flows' \in Seq(Flow) /\ DOMAIN flows' = DOMAIN flows
      /\ flows'[f].outcome = y /\ flows'[f].kind = flows[f].kind
      /\ flows'[f].gated = flows[f].gated /\ flows'[f].sent = flows[f].sent
      /\ \A g \in DOMAIN flows \ {f} : flows'[g] = flows[g]
  BY <1>1, <1>3, OutcomeSet
<1>5. /\ Queued' = Queued /\ Ahead' = Ahead /\ Ahead \subseteq DOMAIN flows
      /\ gate' \subseteq gate /\ gate \subseteq DOMAIN flows /\ DOMAIN judged \subseteq DOMAIN flows
  BY <1>1, <1>3 DEF Queued, Ahead, InspectShape, Deciding
<1>6. flows[f].gated
  BY <1>3 DEF GateInv, OnlyHeldWait
<1>7. Fallback(flows[f].kind) \in Decisions
  BY DEF Fallback, Decisions
<1>8. InspectShape'
  BY <1>1, <1>3, <1>4, <1>5 DEF InspectShape
<1>9. OnceThrough' /\ CoverageKnown'
  BY <1>1, <1>4, <1>5 DEF GateInv, OnceThrough, CoverageKnown, InspectShape
<1>10. GateKnown'
  <2>1. f \in Ahead => f \in gate
    BY <1>3, <1>6, <1>7 DEF GateInv, GateKnown, Decisions
  <2>2. ASSUME NEW g \in gate' PROVE flows'[g].outcome \in {"waiting", "late"} /\ flows'[g].sent = "nothing"
    <3>1. flows[g].outcome \in {"waiting", "late"} /\ flows[g].sent = "nothing" /\ g \in DOMAIN flows
      BY <1>5, <2>2 DEF GateInv, GateKnown
    <3>. QED
      BY <1>3, <1>4, <2>2, <3>1
  <2>3. ASSUME NEW g \in Ahead' \ gate', flows'[g].gated
        PROVE  flows'[g].outcome = Fallback(flows'[g].kind)
    <3>1. CASE g = f
      BY <1>3, <1>4, <1>5, <2>1, <2>3, <3>1
    <3>2. CASE g # f
      BY <1>3, <1>4, <1>5, <2>3, <3>2 DEF GateInv, GateKnown
    <3>. QED
      BY <3>1, <3>2
  <2>. QED
    BY <1>1, <1>5, <2>2, <2>3 DEF GateInv, GateKnown
<1>11. SentKnown'
  <2>1. y # "waiting"
    BY <1>3 DEF Decisions
  <2>. QED
    BY <1>1, <1>4, <2>1 DEF GateInv, SentKnown
<1>12. OnlyHeldWait'
  BY <1>4, <1>6 DEF GateInv, OnlyHeldWait
<1>13. HeldContentJudged'
  <2>1. /\ flows[f].kind \in {"image", "video", "frame"} /\ y = "forwarded"
        => flows[f].sent = "forwarded"
    BY <1>3 DEF Fallback, Carried
  <2>. QED
    BY <1>1, <1>4, <2>1 DEF GateInv, HeldContentJudged, SentKnown
<1>14. TimelyDecisionStands'
  <2>. SUFFICES ASSUME NEW g \in DOMAIN judged, flows'[g].gated
                PROVE  IF judged[g].inTime
                       THEN flows'[g].outcome \in {"waiting", Carried(flows'[g].kind, judged[g].outcome)}
                       ELSE flows'[g].outcome \in {"late", Fallback(flows'[g].kind)}
    BY <1>1 DEF TimelyDecisionStands
  <2>1. CASE g # f
    BY <1>4, <1>5, <2>1 DEF GateInv, TimelyDecisionStands
  <2>2. CASE g = f
    <3>1. judged[f].inTime =>
            flows[f].outcome \in {"waiting", Carried(flows[f].kind, judged[f].outcome)}
      BY <1>6, <2>2 DEF GateInv, TimelyDecisionStands
    <3>2. ~judged[f].inTime => flows[f].outcome \in {"late", Fallback(flows[f].kind)}
      BY <1>6, <2>2 DEF GateInv, TimelyDecisionStands
    <3>3. /\ judged[f].outcome \in Decisions
          /\ judged[f].inTime /\ flows[f].outcome = "waiting" => flows[f].sent = judged[f].outcome
      BY <2>2 DEF GateInv, SentKnown
    <3>4. Carried(flows[f].kind, judged[f].outcome) \in Decisions
      BY <3>3 DEF Carried, Decisions
    <3>5. CASE judged[f].inTime
      <4>1. flows[f].outcome = "waiting" /\ flows[f].sent = judged[f].outcome
        BY <1>3, <3>1, <3>3, <3>4, <3>5 DEF Decisions
      <4>2. y = Carried(flows[f].kind, judged[f].outcome)
        BY <1>3, <3>3, <4>1 DEF Decisions
      <4>. QED
        BY <1>4, <2>2, <3>5, <4>2
    <3>6. CASE ~judged[f].inTime
      <4>1. flows[f].outcome = "late"
        BY <1>3, <1>7, <3>2, <3>6 DEF Decisions
      <4>. QED
        BY <1>3, <1>4, <2>2, <3>6, <4>1
    <3>. QED
      BY <3>5, <3>6
  <2>. QED
    BY <2>1, <2>2
<1>. QED
  BY <1>8, <1>9, <1>10, <1>11, <1>12, <1>13, <1>14 DEF GateInv

\* The pipeline goes on with its flow, or drops it.
LEMMA WorkKeeps ==
    ASSUME GateInv, UNCHANGED <<gate, flows, channel, judged>>, tickets' \in Nat, work' \in Work,
           \/ work'.stage = "idle"
           \/ /\ work'.flow = work.flow /\ work.stage \in Deciding /\ work'.stage \in Deciding,
           CoverageKnown'
    PROVE  GateInv'
<1>1. Queued' = Queued /\ Ahead' \subseteq Ahead
  BY DEF Queued, Ahead, Deciding
<1>2. InspectShape'
  BY <1>1 DEF GateInv, InspectShape, Deciding
<1>3. OnceThrough'
  BY <1>1 DEF GateInv, OnceThrough, Deciding
<1>4. GateKnown'
  BY <1>1 DEF GateInv, GateKnown
<1>5. HeldContentJudged' /\ TimelyDecisionStands' /\ SentKnown' /\ OnlyHeldWait'
  BY DEF GateInv, HeldContentJudged, TimelyDecisionStands, SentKnown, OnlyHeldWait
<1>. QED
  BY <1>2, <1>3, <1>4, <1>5 DEF GateInv

\* The pipeline takes the next flow from the channel.
LEMMA TakeKeeps ==
    ASSUME GateInv, TakeFlow
    PROVE  GateInv'
<1>1. /\ InspectShape /\ channel \in Seq(Nat) /\ channel # <<>> /\ channel' = Tail(channel)
      /\ work.stage = "idle" /\ UNCHANGED <<gate, flows, judged, tickets>>
  BY DEF GateInv, InspectShape, TakeFlow, bufferVars
<1>2. work' \in Work /\ work'.stage = "taken" /\ work'.flow = channel[1] /\ channel[1] \in Nat
  <2>1. Head(channel) = channel[1] /\ channel[1] \in Nat
    BY <1>1
  <2>2. [category |-> "safe", score |-> 0] \in Verdict
    BY DEF Verdict, Categories, Scores
  <2>3. work' = [NoWork EXCEPT !.stage = "taken", !.flow = channel[1]]
    BY <2>1 DEF TakeFlow
  <2>. QED
    BY <2>1, <2>2, <2>3 DEF NoWork, Work
<1>3. /\ channel' \in Seq(Nat) /\ 1 \in DOMAIN channel
      /\ \A i \in DOMAIN channel' : /\ i + 1 \in DOMAIN channel /\ channel'[i] = channel[i + 1]
                                    /\ i + 1 # 1 /\ i \in Nat
  BY <1>1
<1>4. /\ \A i, j \in DOMAIN channel' : i # j => channel'[i] # channel'[j]
      /\ channel[1] \notin Queued' /\ Queued' \subseteq Queued /\ channel[1] \in Queued
  <2>1. \A i, j \in DOMAIN channel : i # j => channel[i] # channel[j]
    BY DEF GateInv, OnceThrough
  <2>2. ASSUME NEW i \in DOMAIN channel', NEW j \in DOMAIN channel', i # j
        PROVE  channel'[i] # channel'[j]
    <3>1. i + 1 # j + 1
      BY <1>3, <2>2
    <3>. QED
      BY <1>3, <2>1, <3>1
  <2>3. channel[1] \notin Queued'
    BY <1>3, <2>1 DEF Queued
  <2>. QED
    BY <1>3, <2>2, <2>3 DEF Queued
<1>5. Ahead' \subseteq Ahead
  BY <1>2, <1>4 DEF Ahead
<1>6. InspectShape'
  BY <1>1, <1>2, <1>3, <1>4 DEF InspectShape
<1>7. OnceThrough'
  BY <1>1, <1>2, <1>4, <1>5 DEF GateInv, OnceThrough
<1>8. GateKnown'
  BY <1>1, <1>5 DEF GateInv, GateKnown
<1>9. /\ CoverageKnown' /\ HeldContentJudged' /\ TimelyDecisionStands' /\ SentKnown'
      /\ OnlyHeldWait'
  BY <1>1, <1>2 DEF GateInv, CoverageKnown, HeldContentJudged, TimelyDecisionStands, SentKnown,
                    OnlyHeldWait
<1>. QED
  BY <1>6, <1>7, <1>8, <1>9 DEF GateInv

\* The idle pipeline.
LEMMA NoWorkType == NoWork \in Work /\ NoWork.stage = "idle"
  BY DEF NoWork, Work, Verdict, Categories, Scores

\* A segment the full buffer refuses, in Pipeline::run.
LEMMA RefusedKeeps ==
    ASSUME GateInv, Taken({"video"}), Resolve(work.flow, "blocked"), work' = NoWork,
           UNCHANGED <<channel, judged, tickets>>
    PROVE  GateInv'
<1>1. PICK f \in DOMAIN flows : f = work.flow
  BY DEF Taken, GateInv, InspectShape
<1>2. /\ InspectShape /\ flows \in Seq(Flow) /\ "blocked" \in Decisions /\ Resolve(f, "blocked")
      /\ work.stage \in Deciding
  BY <1>1 DEF GateInv, InspectShape, Decisions, Taken, Deciding
<1>3. /\ flows' \in Seq(Flow) /\ DOMAIN flows' = DOMAIN flows /\ gate' = gate \ {f}
      /\ flows'[f].kind = flows[f].kind /\ flows'[f].gated = flows[f].gated
      /\ flows'[f].outcome = flows[f].outcome
      /\ flows'[f].sent = IF f \in gate THEN "blocked" ELSE flows[f].sent
      /\ \A g \in DOMAIN flows \ {f} : flows'[g] = flows[g]
  BY <1>2, Resolved
<1>4. f \notin DOMAIN judged /\ Queued' = Queued /\ f \notin Queued /\ Ahead' = Queued
  BY <1>1, <1>2, NoWorkType DEF GateInv, OnceThrough, Queued, Ahead, Deciding
<1>5. Queued \subseteq Ahead /\ Queued \subseteq DOMAIN flows
  BY <1>2 DEF Ahead, InspectShape
<1>6. InspectShape'
  BY <1>2, <1>3, <1>4, NoWorkType DEF InspectShape
<1>7. OnceThrough'
  BY <1>4, <1>5, NoWorkType DEF GateInv, OnceThrough, Deciding
<1>8. CoverageKnown'
  BY NoWorkType DEF CoverageKnown
<1>9. GateKnown'
  BY <1>2, <1>3, <1>4, <1>5 DEF GateInv, GateKnown, InspectShape
<1>10. HeldContentJudged' /\ OnlyHeldWait'
  BY <1>3 DEF GateInv, HeldContentJudged, OnlyHeldWait
<1>11. TimelyDecisionStands'
  BY <1>2, <1>3, <1>4 DEF GateInv, InspectShape, TimelyDecisionStands
<1>12. SentKnown'
  BY <1>3, <1>4 DEF GateInv, SentKnown
<1>. QED
  BY <1>6, <1>7, <1>8, <1>9, <1>10, <1>11, <1>12 DEF GateInv

\* decide: the policy's answer is carried out if the gate is still open.
LEMMA DecideKeeps ==
    ASSUME GateInv, Decide
    PROVE  GateInv'
<1>. DEFINE action == Evaluate(work.verdict, "teen", DefaultConfig).action
            out == OutcomeOf(action, work.rewritten)
            timely == work.flow \in gate /\ flows[work.flow].outcome = "waiting"
            r == [action |-> action, covered |-> work.covered, inTime |-> timely, outcome |-> out]
<1>1. PICK f \in DOMAIN flows : f = work.flow
  BY DEF Decide, GateInv, InspectShape
<1>2. /\ InspectShape /\ flows \in Seq(Flow) /\ work \in Work /\ work.stage = "verdict"
      /\ work.stage \in Deciding
  BY DEF GateInv, InspectShape, Decide, Deciding
<1>3. action \in Actions /\ (Gap(work.verdict) => action = "block")
  BY <1>2, EvaluateActs DEF Work
<1>4. /\ out \in Decisions
      /\ out = "forwarded" => action \in {"allow", "log", "warn"}
      /\ action = "block" => out = "blocked"
  BY <1>1, <1>2, <1>3, OutcomePasses DEF Work, Decisions, OutcomeOf
<1>5. /\ r.action = action /\ r.covered = work.covered /\ r.outcome = out
      /\ r.inTime <=> (f \in gate /\ flows[f].outcome = "waiting")
  BY <1>1
<1>6. /\ Resolve(f, out) /\ UNCHANGED <<channel, tickets>>
      /\ work' = [work EXCEPT !.stage = "telling"]
  BY <1>1 DEF Decide, ApplyDecision, bufferVars
<1>7. /\ DOMAIN judged' = DOMAIN judged \cup {f} /\ judged'[f] = r
      /\ \A g \in DOMAIN judged \ {f} : judged'[g] = judged[g]
  <2>1. judged' = [g \in DOMAIN judged \cup {work.flow} |->
                        IF g = work.flow
                        THEN [action |-> action, covered |-> work.covered,
                              inTime |-> g \in gate /\ flows[g].outcome = "waiting",
                              outcome |-> out]
                        ELSE judged[g]]
    BY DEF Decide
  <2>. HIDE DEF action, out
  <2>. QED
    BY <1>1, <2>1
<1>. HIDE DEF action, out, timely, r
<1>8. /\ flows' \in Seq(Flow) /\ DOMAIN flows' = DOMAIN flows /\ gate' = gate \ {f}
      /\ flows'[f].kind = flows[f].kind /\ flows'[f].gated = flows[f].gated
      /\ flows'[f].outcome = flows[f].outcome
      /\ flows'[f].sent = IF f \in gate THEN out ELSE flows[f].sent
      /\ \A g \in DOMAIN flows \ {f} : flows'[g] = flows[g]
  BY <1>2, <1>4, <1>6, Resolved
<1>9. work' \in Work /\ work'.stage = "telling" /\ work'.flow = f
  BY <1>1, <1>2, <1>6 DEF Work
<1>10. f \notin DOMAIN judged /\ Queued' = Queued /\ f \notin Queued /\ Ahead' = Queued /\ f \in Ahead
  BY <1>1, <1>2, <1>6, <1>9 DEF GateInv, OnceThrough, Queued, Ahead, Deciding
<1>11. Queued \subseteq Ahead /\ Queued \subseteq DOMAIN flows
  BY <1>2 DEF Ahead, InspectShape
<1>12. InspectShape'
  BY <1>2, <1>6, <1>7, <1>8, <1>9, <1>10 DEF InspectShape
<1>13. OnceThrough'
  BY <1>6, <1>7, <1>9, <1>10, <1>11 DEF GateInv, OnceThrough, Deciding
<1>14. CoverageKnown'
  BY <1>9 DEF CoverageKnown
<1>15. GateKnown'
  BY <1>2, <1>7, <1>8, <1>10, <1>11 DEF GateInv, GateKnown, InspectShape
<1>16. HeldContentJudged'
  <2>. SUFFICES ASSUME NEW g \in DOMAIN flows, flows'[g].gated,
                       flows'[g].kind \in {"image", "video", "frame"},
                       flows'[g].outcome = "forwarded"
                PROVE  /\ g \in DOMAIN judged' /\ judged'[g].covered
                       /\ judged'[g].action \in {"allow", "log", "warn"}
    BY <1>8 DEF HeldContentJudged
  <2>1. CASE g # f
    BY <1>7, <1>8, <2>1 DEF GateInv, HeldContentJudged
  <2>2. CASE g = f
    BY <1>8, <1>10, <2>2 DEF GateInv, HeldContentJudged
  <2>. QED
    BY <2>1, <2>2
<1>17. TimelyDecisionStands'
  <2>. SUFFICES ASSUME NEW g \in DOMAIN judged', flows'[g].gated
                PROVE  IF judged'[g].inTime
                       THEN flows'[g].outcome \in {"waiting", Carried(flows'[g].kind, judged'[g].outcome)}
                       ELSE flows'[g].outcome \in {"late", Fallback(flows'[g].kind)}
    BY DEF TimelyDecisionStands
  <2>1. CASE g # f
    BY <1>2, <1>7, <1>8, <2>1 DEF GateInv, InspectShape, TimelyDecisionStands
  <2>2. CASE g = f /\ f \in gate
    <3>1. flows[f].outcome \in {"waiting", "late"}
      BY <2>2 DEF GateInv, GateKnown
    <3>. QED
      BY <1>5, <1>7, <1>8, <2>2, <3>1
  <2>3. CASE g = f /\ f \notin gate
    BY <1>5, <1>7, <1>8, <1>10, <2>3 DEF GateInv, GateKnown
  <2>. QED
    BY <2>1, <2>2, <2>3
<1>18. SentKnown'
  <2>. SUFFICES ASSUME NEW g \in DOMAIN flows
                PROVE  /\ flows'[g].sent = "forwarded" =>
                            /\ g \in DOMAIN judged' /\ judged'[g].action \in {"allow", "log", "warn"}
                            /\ judged'[g].covered \/ flows'[g].kind \notin {"image", "video", "frame"}
                       /\ g \in DOMAIN judged' =>
                            /\ judged'[g].outcome \in Decisions
                            /\ judged'[g].inTime /\ flows'[g].outcome = "waiting"
                                  => flows'[g].sent = judged'[g].outcome
    BY <1>8 DEF SentKnown
  <2>1. CASE g # f
    BY <1>7, <1>8, <2>1 DEF GateInv, SentKnown
  <2>2. CASE g = f
    <3>1. flows[f].sent # "forwarded"
      BY <1>10 DEF GateInv, SentKnown
    <3>2. flows'[f].sent = "forwarded" => f \in gate /\ out = "forwarded"
      BY <1>8, <3>1
    <3>3. out = "forwarded" => work.covered \/ flows[f].kind \notin {"image", "video", "frame"}
      BY <1>1, <1>2, <1>3, <1>4 DEF GateInv, CoverageKnown
    <3>. QED
      BY <1>4, <1>5, <1>7, <1>8, <2>2, <3>2, <3>3
  <2>. QED
    BY <2>1, <2>2
<1>19. OnlyHeldWait'
  BY <1>8 DEF GateInv, OnlyHeldWait
<1>. QED
  BY <1>12, <1>13, <1>14, <1>15, <1>16, <1>17, <1>18, <1>19 DEF GateInv

\* The classification and the analysis of the flow in hand.
LEMMA AnalysisKeeps ==
    ASSUME GateInv,
           \/ ClassifyNothing \/ ClassifyUnit \/ Told
           \/ \E size \in SegmentSizes : ClassifyVideo(size) \/ ClassifyRefused(size)
           \/ \E v \in Judgements, rewritten \in BOOLEAN : Analyze(v, rewritten)
    PROVE  GateInv'
<1>1. work \in Work /\ tickets \in Nat /\ work.verdict \in Verdict
  BY DEF GateInv, InspectShape, Work
<1>2. CASE ClassifyNothing \/ Told
  <2>1. work' = NoWork /\ UNCHANGED <<gate, flows, channel, judged, tickets>>
    BY <1>2 DEF ClassifyNothing, Told, bufferVars
  <2>2. CoverageKnown'
    BY <2>1, NoWorkType DEF CoverageKnown
  <2>. QED
    BY <1>1, <2>1, <2>2, NoWorkType, WorkKeeps
<1>3. CASE ClassifyUnit
  <2>1. /\ work' = [work EXCEPT !.stage = "unit"] /\ work.stage = "taken"
        /\ UNCHANGED <<gate, flows, channel, judged, tickets>>
    BY <1>3 DEF ClassifyUnit, Taken, bufferVars
  <2>2. work' \in Work /\ work'.stage = "unit" /\ work'.flow = work.flow
    BY <1>1, <2>1 DEF Work
  <2>3. CoverageKnown'
    BY <2>2 DEF CoverageKnown
  <2>. QED
    BY <1>1, <2>1, <2>2, <2>3, WorkKeeps DEF Deciding
<1>4. ASSUME NEW size \in SegmentSizes, ClassifyVideo(size) PROVE GateInv'
  <2>1. /\ work' = [work EXCEPT !.stage = "unit", !.segment = tickets + 1]
        /\ work.stage = "taken" /\ tickets' = tickets + 1
        /\ UNCHANGED <<gate, flows, channel, judged>>
    BY <1>4 DEF ClassifyVideo, Taken, Admit
  <2>. DEFINE n == tickets + 1
  <2>2. n \in Nat /\ tickets' = n /\ work' = [work EXCEPT !.stage = "unit", !.segment = n]
    BY <1>1, <2>1
  <2>. HIDE DEF n
  <2>3. work' \in Work /\ work'.stage = "unit" /\ work'.flow = work.flow
    BY <1>1, <2>2 DEF Work
  <2>4. CoverageKnown'
    BY <2>3 DEF CoverageKnown
  <2>. QED
    BY <2>1, <2>2, <2>3, <2>4, WorkKeeps DEF Deciding
<1>5. ASSUME NEW size \in SegmentSizes, ClassifyRefused(size) PROVE GateInv'
  <2>1. work' = NoWork /\ UNCHANGED <<channel, judged, tickets>> /\ Taken({"video"})
    BY <1>5 DEF ClassifyRefused, bufferVars
  <2>2. CoverageKnown'
    BY <2>1, NoWorkType DEF CoverageKnown
  <2>3. CASE runner = "pipeline"
    BY <1>5, <2>1, <2>3, RefusedKeeps DEF ClassifyRefused
  <2>4. CASE runner # "pipeline"
    <3>1. UNCHANGED <<gate, flows>>
      BY <1>5, <2>4 DEF ClassifyRefused
    <3>. QED
      BY <1>1, <2>1, <2>2, <3>1, NoWorkType, WorkKeeps
  <2>. QED
    BY <2>3, <2>4
<1>6. ASSUME NEW v \in Judgements, NEW rewritten \in BOOLEAN, Analyze(v, rewritten)
      PROVE  GateInv'
  <2>. DEFINE kind == flows[work.flow].kind
              who == LooksAt(kind)
              given == IF who = "null" THEN NullVerdict ELSE GapVerdict
  <2>1. /\ work.stage = "unit" /\ UNCHANGED <<gate, flows, channel, judged, tickets>>
        /\ \/ /\ who = "analyzer"
              /\ work' = [work EXCEPT !.stage = "verdict", !.verdict = v,
                                      !.covered = ~Gap(v), !.rewritten = rewritten /\ ~Gap(v)]
           \/ /\ who # "analyzer"
              /\ work' = [work EXCEPT !.stage = "verdict", !.verdict = given]
    BY <1>6 DEF Analyze, bufferVars
  <2>2. v \in Verdict /\ NullVerdict \in Verdict /\ GapVerdict \in Verdict /\ Gap(GapVerdict)
    BY InspectionAssumption DEF NullVerdict, GapVerdict, Verdict, Categories, Scores, Gap
  <2>3. who = "null" => kind = "audio"
    BY DEF LooksAt
  <2>4. given \in Verdict /\ (Gap(given) \/ kind = "audio")
    BY <2>2, <2>3
  <2>. HIDE DEF given, who, kind
  <2>5. /\ work' \in Work /\ work'.stage = "verdict" /\ work'.flow = work.flow
        /\ work'.covered \/ Gap(work'.verdict) \/ kind = "audio"
    <3>1. CASE who = "analyzer"
      <4>. DEFINE gap == Gap(v)
      <4>1. gap \in BOOLEAN
        BY DEF Gap
      <4>. HIDE DEF gap
      <4>2. work' = [work EXCEPT !.stage = "verdict", !.verdict = v,
                                 !.covered = ~gap, !.rewritten = rewritten /\ ~gap]
        BY <2>1, <3>1 DEF gap
      <4>3. /\ work' \in Work /\ work'.stage = "verdict" /\ work'.flow = work.flow
            /\ work'.covered = ~gap /\ work'.verdict = v
        BY <1>1, <2>2, <4>1, <4>2 DEF Work
      <4>. QED
        BY <4>3 DEF gap
    <3>2. CASE who # "analyzer"
      <4>1. /\ work' \in Work /\ work'.stage = "verdict" /\ work'.flow = work.flow
            /\ work'.verdict = given
        BY <1>1, <2>1, <2>4, <3>2 DEF Work
      <4>. QED
        BY <2>4, <4>1
    <3>. QED
      BY <3>1, <3>2
  <2>6. CoverageKnown'
    BY <2>1, <2>5 DEF CoverageKnown, kind
  <2>. QED
    BY <1>1, <2>1, <2>5, <2>6, WorkKeeps DEF Deciding
<1>. QED
  BY <1>2, <1>3, <1>4, <1>5, <1>6

inspectVars == <<inspectOnly, bufferVars>>

\* Every step of the proxy, the gate and the pipeline.
LEMMA InspectStep == GateInv /\ [InspectNext]_inspectVars => GateInv'
<1>. SUFFICES ASSUME GateInv, [InspectNext]_inspectVars PROVE GateInv'
  OBVIOUS
<1>1. ASSUME NEW k \in GatedKinds, HoldAtGate(k) \/ ChannelFull(k) \/ Ungated(k)
      PROVE  GateInv'
  <2>1. k \in Kinds /\ "complete" \in Bodies /\ TRUE \in BOOLEAN /\ FALSE \in BOOLEAN
        /\ "waiting" \in Outcomes /\ "forwarded" \in Outcomes /\ Fallback(k) \in Outcomes
        /\ Fallback(k) \in Decisions /\ "forwarded" \in Decisions
    BY DEF Kinds, Bodies, Outcomes, Decisions, Fallback
  <2>2. CASE HoldAtGate(k)
    BY <2>1, <2>2, HandleKeeps DEF HoldAtGate, Emit
  <2>3. CASE ChannelFull(k)
    BY <2>1, <2>3, HandleKeeps DEF ChannelFull
  <2>4. CASE Ungated(k)
    BY <2>1, <2>4, HandleKeeps DEF Ungated, Emit
  <2>. QED
    BY <1>1, <2>2, <2>3, <2>4
<1>2. ASSUME NEW k \in Kinds, NEW b \in Bodies, HandleIncomplete(k, b) \/ HandleUngated(k, b)
      PROVE  GateInv'
  <2>1. /\ "blocked" \in Outcomes /\ "forwarded" \in Outcomes /\ FALSE \in BOOLEAN
        /\ "blocked" \in Decisions /\ "forwarded" \in Decisions
    BY DEF Outcomes, Decisions
  <2>2. /\ Handle(k, b, FALSE, "forwarded") \/ Handle(k, b, FALSE, "blocked")
        /\ channel' \in {channel, Append(channel, NextFlow)} /\ UNCHANGED gate
    BY <1>2 DEF HandleIncomplete, HandleUngated, Emit
  <2>. QED
    BY <2>1, <2>2, HandleKeeps
<1>3. CASE ArmGate \/ UNCHANGED inspectVars
  <2>1. UNCHANGED <<flows, gate, channel, work, judged, tickets>>
    BY <1>3 DEF ArmGate, inspectVars, inspectOnly, bufferVars
  <2>. QED
    BY <2>1 DEF GateInv, InspectShape, OnceThrough, CoverageKnown, GateKnown, Queued, Ahead,
                HeldContentJudged, TimelyDecisionStands, SentKnown, OnlyHeldWait
<1>. QED
  BY <1>1, <1>2, <1>3, WaiterKeeps, TakeKeeps, DecideKeeps, AnalysisKeeps DEF InspectNext

\* The proxy starts with nothing held.
LEMMA InspectStart == InspectInit => GateInv
<1>. SUFFICES ASSUME InspectInit PROVE GateInv
  OBVIOUS
<1>1. /\ flows = <<>> /\ channel = <<>> /\ gate = {} /\ work = NoWork /\ judged = <<>>
      /\ tickets = 0
  BY DEF InspectInit, BufferInit
<1>2. DOMAIN judged = {} /\ DOMAIN flows = {} /\ DOMAIN channel = {}
  BY <1>1
<1>3. Queued = {} /\ Ahead = {}
  BY <1>1, <1>2, NoWorkType DEF Queued, Ahead, Deciding
<1>4. InspectShape
  BY <1>1, <1>2, <1>3, NoWorkType DEF InspectShape
<1>5. OnceThrough /\ CoverageKnown /\ GateKnown
  BY <1>1, <1>2, <1>3, NoWorkType DEF OnceThrough, CoverageKnown, GateKnown, Deciding
<1>. QED
  BY <1>2, <1>4, <1>5 DEF GateInv, HeldContentJudged, TimelyDecisionStands, SentKnown,
                          OnlyHeldWait

\* proxy.rs, "classifier backpressure, or decision timeout fails closed": for any
\* number of responses, any channel capacity and any analyzer, an image, a video
\* segment or a frame that was held is let through only on a covering verdict that
\* the policy let pass.
THEOREM HeldIsJudged == InspectInit /\ [][InspectNext]_inspectVars => []HeldContentJudged
<1>1. GateInv => HeldContentJudged
  BY DEF GateInv
<1>. QED
  BY <1>1, InspectStart, InspectStep, PTL

\* DecisionGate.resolve and the time-out of gate_buffered: a decision sent before the
\* waiting task gave up is carried out, and one that comes later changes nothing.
THEOREM DecisionsStand == InspectInit /\ [][InspectNext]_inspectVars => []TimelyDecisionStands
<1>1. GateInv => TimelyDecisionStands
  BY DEF GateInv
<1>. QED
  BY <1>1, InspectStart, InspectStep, PTL

-----------------------------------------------------------------------------
(* The store of events *)

Links == Seq([ts: Nat, event: Nat])
StoreRow == [id: Nat, ts: Nat, event: Nat, hash: Links]
StoreTxn == [stage: {"idle", "read", "insert"}, seen: SUBSET Nat, head: Int, hash: Links,
             holds: BOOLEAN, ts: Nat, evidence: BOOLEAN]

StoreTypes ==
    /\ log \subseteq StoreRow /\ file.log \subseteq StoreRow
    /\ txn \in [PoolConns -> StoreTxn]
    /\ storeTime \in Nat /\ recorded \in Nat

\* Ids are unique, and there are no more of them than events were handed in.
RowsKnown(rows) ==
    /\ \A row \in rows : row.id < recorded
    /\ \A row, other \in rows : row.id = other.id => row = other

\* Until something is purged the ids have no gap: a row is the first, or is linked to
\* the one with the id before its own.
Linked(rows) ==
    /\ \A row \in rows :
          \/ row.id = 0 /\ row.hash = ChainLink(Genesis, row)
          \/ \E other \in rows : other.id + 1 = row.id /\ row.hash = ChainLink(other.hash, row)
    /\ rows # {} => \E row \in rows : row.id = 0

\* A transaction that is about to insert holds the id and the hash of a row, or those
\* of an empty log.
TxnsKnown ==
    \A c \in PoolConns : txn[c].stage = "insert" =>
        /\ -1 <= txn[c].head /\ txn[c].head < recorded
        /\ ~pruned => \/ txn[c].head = -1 /\ txn[c].hash = Genesis
                      \/ \E row \in log : row.id = txn[c].head /\ row.hash = txn[c].hash

OnlyPostgres == backend # "postgres" => \A c \in PoolConns : txn[c].stage = "idle"

StoreInv ==
    /\ StoreTypes
    /\ RowsKnown(log) /\ RowsKnown(file.log)
    /\ ~pruned => Linked(log) /\ Linked(file.log)
    /\ TxnsKnown /\ OnlyPostgres
    /\ EvidenceOfItsEvent

\* Rows with bounded ids have a newest one.
LEMMA NewestRow ==
    ASSUME NEW rows, rows \subseteq StoreRow, NEW n \in Nat, \A row \in rows : row.id < n, rows # {}
    PROVE  Newest(rows) \in rows /\ \A row \in rows : row.id <= Newest(rows).id
<1>. DEFINE left == {n - row.id : row \in rows}
<1>1. left \subseteq Nat /\ left # {}
  BY DEF StoreRow
<1>2. PICK a \in left : \A b \in left : ~(<<b, a>> \in OpToRel(<, Nat))
  BY <1>1, NatLessThanWellFounded, WFMin, Zenon
<1>3. \A b \in left : b < a => <<b, a>> \in OpToRel(<, Nat)
  BY <1>1 DEF OpToRel
<1>4. \A b \in left : ~(b < a)
  BY <1>2, <1>3, Zenon
<1>5. PICK top \in rows : a = n - top.id
  BY <1>2
<1>6. \A row \in rows : row.id <= top.id
  <2>. SUFFICES ASSUME NEW row \in rows PROVE row.id <= top.id
    OBVIOUS
  <2>1. ~(n - row.id < n - top.id)
    BY <1>4, <1>5
  <2>2. row.id \in Nat /\ top.id \in Nat
    BY DEF StoreRow
  <2>. QED
    BY <2>1, <2>2
<1>. QED
  BY <1>5, <1>6 DEF Newest

\* The row of the event that is being recorded.
LEMMA RowFields ==
    ASSUME recorded \in Nat, NEW id \in Nat, NEW prev \in Links, NEW ts \in Nat
    PROVE  /\ NextRow(id, prev, ts) \in StoreRow /\ NextRow(id, prev, ts).id = id
           /\ NextRow(id, prev, ts).event = recorded + 1
           /\ NextRow(id, prev, ts).hash = ChainLink(prev, NextRow(id, prev, ts))
<1>. DEFINE e == [ts |-> ts, event |-> recorded + 1]
            h == Append(prev, e)
            row == [id |-> id, ts |-> ts, event |-> recorded + 1, hash |-> h]
<1>1. e \in [ts: Nat, event: Nat]
  OBVIOUS
<1>2. h \in Links
  BY <1>1 DEF Links
<1>3. Canonical(e) = e /\ Canonical(row) = e
  BY DEF Canonical
<1>4. NextRow(id, prev, ts) = row
  BY <1>3, Zenon DEF NextRow, ChainLink
<1>. HIDE DEF h
<1>5. row \in StoreRow
  BY <1>2 DEF StoreRow
<1>6. row.hash = h /\ row.id = id /\ row.event = recorded + 1
  OBVIOUS
<1>. HIDE DEF row
<1>. QED
  BY <1>3, <1>4, <1>5, <1>6, Zenon DEF ChainLink, h

\* One more event takes no id away.
LEMMA MoreRecorded ==
    ASSUME NEW rows, rows \subseteq StoreRow, recorded \in Nat, RowsKnown(rows),
           recorded' = recorded + 1
    PROVE  /\ \A row \in rows : row.id < recorded'
           /\ \A row, other \in rows : row.id = other.id => row = other
<1>1. \A row \in rows : row.id \in Nat /\ row.id < recorded
  BY DEF RowsKnown, StoreRow
<1>. QED
  BY <1>1 DEF RowsKnown

\* A row with a free id is stored; if nothing was purged it is linked to the newest.
LEMMA StoresKeeps ==
    ASSUME StoreInv, NEW row \in StoreRow, NEW ev \in BOOLEAN, Stores(row, ev),
           row.id \notin Ids, row.id <= recorded, row.event = recorded + 1,
           ~pruned => \/ log = {} /\ row.id = 0 /\ row.hash = ChainLink(Genesis, row)
                      \/ \E q \in log : q.id + 1 = row.id /\ row.hash = ChainLink(q.hash, row),
           UNCHANGED <<backend, pruned>>
    PROVE  /\ log' \subseteq StoreRow /\ recorded' \in Nat
           /\ RowsKnown(log)' /\ (~pruned => Linked(log)') /\ EvidenceOfItsEvent'
<1>1. /\ log' = log \union {row} /\ recorded' = recorded + 1
      /\ proofs' \subseteq proofs \union {[row |-> row.id, event |-> row.event]}
      /\ log \subseteq StoreRow /\ recorded \in Nat /\ row.id \in Nat
  BY DEF Stores, StoreInv, StoreTypes, StoreRow
<1>2. RowsKnown(log)'
  <2>1. /\ \A q \in log : q.id < recorded'
        /\ \A q, p \in log : q.id = p.id => q = p
    BY <1>1, MoreRecorded DEF StoreInv
  <2>2. \A q \in log : q.id # row.id
    BY DEF Ids
  <2>3. row.id < recorded'
    BY <1>1
  <2>. QED
    BY <1>1, <2>1, <2>2, <2>3 DEF RowsKnown
<1>3. ASSUME ~pruned PROVE Linked(log)'
  <2>1. Linked(log)
    BY <1>3 DEF StoreInv
  <2>2. ASSUME NEW q \in log'
        PROVE  \/ q.id = 0 /\ q.hash = ChainLink(Genesis, q)
               \/ \E p \in log' : p.id + 1 = q.id /\ q.hash = ChainLink(p.hash, q)
    <3>1. CASE q \in log
      BY <1>1, <2>1, <3>1, Zenon DEF Linked
    <3>2. CASE q = row
      BY <1>1, <1>3, <3>2, Zenon
    <3>. QED
      BY <1>1, <3>1, <3>2
  <2>3. \E q \in log' : q.id = 0
    BY <1>1, <1>3, <2>1 DEF Linked
  <2>. QED
    BY <2>2, <2>3, Zenon DEF Linked
<1>4. EvidenceOfItsEvent'
  <2>. SUFFICES ASSUME backend # "portable", NEW p \in proofs'
                PROVE  \E q \in log' : q.id = p.row /\ q.event = p.event
    BY DEF EvidenceOfItsEvent
  <2>1. CASE p \in proofs
    BY <1>1, <2>1 DEF StoreInv, EvidenceOfItsEvent
  <2>2. CASE p = [row |-> row.id, event |-> row.event]
    BY <1>1, <2>2
  <2>. QED
    BY <1>1, <2>1, <2>2
<1>. QED
  BY <1>1, <1>2, <1>3, <1>4

\* SQLite and the portable backend record after the newest row there is.
LEMMA FollowingRow ==
    ASSUME StoreInv, NEW ts \in Nat
    PROVE  LET row == Following(ts)
           IN /\ row \in StoreRow /\ row.id \notin Ids /\ row.id <= recorded
              /\ row.event = recorded + 1
              /\ \/ log = {} /\ row.id = 0 /\ row.hash = ChainLink(Genesis, row)
                 \/ \E q \in log : q.id + 1 = row.id /\ row.hash = ChainLink(q.hash, row)
<1>1. log \subseteq StoreRow /\ recorded \in Nat /\ \A row \in log : row.id < recorded
  BY DEF StoreInv, StoreTypes, RowsKnown
<1>2. CASE log = {}
  <2>1. Genesis \in Links
    BY DEF Genesis, Links
  <2>2. Following(ts) = NextRow(0, Genesis, ts)
    BY <1>2 DEF Following
  <2>3. 0 \notin Ids /\ 0 <= recorded
    BY <1>1, <1>2 DEF Ids
  <2>. QED
    BY <1>1, <1>2, <2>1, <2>2, <2>3, RowFields
<1>3. CASE log # {}
  <2>. DEFINE top == Newest(log)
              n == top.id + 1
  <2>1. top \in log /\ \A row \in log : row.id <= top.id
    BY <1>1, <1>3, NewestRow
  <2>. HIDE DEF top
  <2>2. top.id \in Nat /\ top.hash \in Links /\ top.id < recorded
    BY <1>1, <2>1 DEF StoreRow
  <2>3. Following(ts) = NextRow(n, top.hash, ts)
    BY <1>3 DEF Following, top
  <2>4. n \in Nat /\ n <= recorded
    BY <1>1, <2>2
  <2>5. n \notin Ids
    <3>. SUFFICES ASSUME NEW row \in log, row.id = n PROVE FALSE
      BY DEF Ids
    <3>1. row.id \in Nat /\ row.id <= top.id
      BY <1>1, <2>1 DEF StoreRow
    <3>. QED
      BY <2>2, <3>1
  <2>6. top.id + 1 = n
    OBVIOUS
  <2>. HIDE DEF n
  <2>. QED
    BY <1>1, <2>1, <2>2, <2>3, <2>4, <2>5, <2>6, RowFields
<1>. QED
  BY <1>2, <1>3

\* The file holds what is in memory, what it held, or nothing.
LEMMA PersistsOne ==
    ASSUME NEW outcome \in {"ok", "failed", "torn"}, Persists(outcome)
    PROVE  file'.log = log' \/ file'.log = file.log \/ file'.log = {}
<1>1. CASE outcome = "ok"
  BY <1>1 DEF Persists
<1>2. CASE outcome = "failed"
  BY <1>2 DEF Persists
<1>3. CASE outcome = "torn"
  BY <1>3 DEF Persists
<1>. QED
  BY <1>1, <1>2, <1>3

\* What the file holds after that is as well linked as the memory.
LEMMA FileKeeps ==
    ASSUME StoreInv, recorded' = recorded \/ recorded' = recorded + 1,
           file'.log = log' \/ file'.log = file.log \/ file'.log = {},
           log' \subseteq StoreRow, RowsKnown(log)', ~pruned' => Linked(log)', pruned => pruned'
    PROVE  /\ file'.log \subseteq StoreRow /\ RowsKnown(file.log)'
           /\ ~pruned' => Linked(file.log)'
<1>1. CASE file'.log = log'
  BY <1>1, Zenon DEF RowsKnown, Linked
<1>2. CASE file'.log = file.log
  <2>1. /\ file.log \subseteq StoreRow /\ RowsKnown(file.log) /\ recorded \in Nat
        /\ ~pruned => Linked(file.log)
    BY DEF StoreInv, StoreTypes
  <2>2. /\ \A row \in file.log : row.id < recorded'
        /\ \A row, other \in file.log : row.id = other.id => row = other
    <3>1. CASE recorded' = recorded
      BY <2>1, <3>1 DEF RowsKnown
    <3>2. CASE recorded' = recorded + 1
      BY <2>1, <3>2, MoreRecorded
    <3>. QED
      BY <3>1, <3>2
  <2>3. RowsKnown(file.log)'
    BY <1>2, <2>2, Zenon DEF RowsKnown
  <2>4. ASSUME ~pruned' PROVE Linked(file.log)'
    BY <1>2, <2>1, <2>4, Zenon DEF Linked
  <2>. QED
    BY <1>2, <2>1, <2>3, <2>4, Zenon
<1>3. CASE file'.log = {}
  BY <1>3 DEF RowsKnown, Linked
<1>. QED
  BY <1>1, <1>2, <1>3

\* A transaction in progress still knows its row when rows and events are added.
LEMMA TxnsKeep ==
    ASSUME StoreInv, recorded' = recorded \/ recorded' = recorded + 1, pruned => pruned',
           ~pruned' => log \subseteq log',
           \A c \in PoolConns : txn'[c] = txn[c] \/ txn'[c].stage # "insert"
    PROVE  TxnsKnown'
<1>. SUFFICES ASSUME NEW c \in PoolConns, txn'[c].stage = "insert"
              PROVE  /\ -1 <= txn'[c].head /\ txn'[c].head < recorded'
                     /\ ~pruned' => \/ txn'[c].head = -1 /\ txn'[c].hash = Genesis
                                    \/ \E row \in log' : /\ row.id = txn'[c].head
                                                         /\ row.hash = txn'[c].hash
  BY Zenon DEF TxnsKnown
<1>1. txn'[c] = txn[c]
  OBVIOUS
<1>2. /\ -1 <= txn[c].head /\ txn[c].head < recorded
      /\ ~pruned => \/ txn[c].head = -1 /\ txn[c].hash = Genesis
                    \/ \E row \in log : row.id = txn[c].head /\ row.hash = txn[c].hash
  BY <1>1, Zenon DEF StoreInv, TxnsKnown
<1>3. txn[c].head \in Int /\ recorded \in Nat
  BY DEF StoreInv, StoreTypes, StoreTxn
<1>4. txn[c].head < recorded'
  BY <1>2, <1>3
<1>. QED
  BY <1>1, <1>2, <1>4, Zenon

LEMMA RecordKeeps ==
    ASSUME StoreInv, NEW ts \in 0..storeTime, NEW ev \in BOOLEAN,
           \/ RecordSqlite(ts, ev)
           \/ \E outcome \in {"ok", "failed", "torn"} : RecordPortable(ts, ev, outcome)
    PROVE  StoreInv'
<1>. DEFINE row == Following(ts)
<1>0. ts \in Nat
  BY DEF StoreInv, StoreTypes
<1>1. /\ Stores(row, ev) /\ UNCHANGED <<backend, txn, storeTime, pruned>>
      /\ file'.log = log' \/ file'.log = file.log \/ file'.log = {}
  <2>1. CASE RecordSqlite(ts, ev)
    BY <2>1 DEF RecordSqlite
  <2>2. CASE \E outcome \in {"ok", "failed", "torn"} : RecordPortable(ts, ev, outcome)
    <3>1. PICK outcome \in {"ok", "failed", "torn"} : RecordPortable(ts, ev, outcome)
      BY <2>2
    <3>2. file'.log = log' \/ file'.log = file.log \/ file'.log = {}
      BY <3>1, PersistsOne DEF RecordPortable
    <3>. QED
      BY <3>1, <3>2 DEF RecordPortable
  <2>. QED
    BY <2>1, <2>2
<1>2. /\ row \in StoreRow /\ row.id \notin Ids /\ row.id <= recorded /\ row.event = recorded + 1
      /\ \/ log = {} /\ row.id = 0 /\ row.hash = ChainLink(Genesis, row)
         \/ \E q \in log : q.id + 1 = row.id /\ row.hash = ChainLink(q.hash, row)
  BY <1>0, FollowingRow
<1>. HIDE DEF row
<1>3. /\ log' \subseteq StoreRow /\ recorded' \in Nat
      /\ RowsKnown(log)' /\ (~pruned => Linked(log)') /\ EvidenceOfItsEvent'
  BY <1>1, <1>2, StoresKeeps
<1>4. recorded' = recorded + 1 /\ log \subseteq log'
  BY <1>1 DEF Stores
<1>5. /\ file'.log \subseteq StoreRow /\ RowsKnown(file.log)'
      /\ ~pruned' => Linked(file.log)'
  BY <1>1, <1>3, <1>4, FileKeeps
<1>6. TxnsKnown'
  BY <1>1, <1>4, TxnsKeep
<1>7. StoreTypes'
  BY <1>1, <1>3, <1>5 DEF StoreInv, StoreTypes
<1>8. OnlyPostgres'
  BY <1>1 DEF StoreInv, OnlyPostgres
<1>. QED
  BY <1>1, <1>3, <1>5, <1>6, <1>7, <1>8 DEF StoreInv

LEMMA OpenKeeps ==
    ASSUME StoreInv, OpenPortable PROVE StoreInv'
<1>1. /\ log' = file.log /\ backend = "portable"
      /\ UNCHANGED <<backend, file, txn, storeTime, recorded, pruned>>
  BY DEF OpenPortable
<1>2. StoreTypes'
  BY <1>1 DEF StoreInv, StoreTypes
<1>3. /\ RowsKnown(log)' /\ RowsKnown(file.log)'
      /\ ~pruned' => Linked(log)' /\ Linked(file.log)'
  BY <1>1, Zenon DEF StoreInv, RowsKnown, Linked
<1>4. TxnsKnown' /\ OnlyPostgres'
  BY <1>1 DEF StoreInv, TxnsKnown, OnlyPostgres
<1>5. EvidenceOfItsEvent'
  BY <1>1 DEF EvidenceOfItsEvent
<1>. QED
  BY <1>2, <1>3, <1>4, <1>5 DEF StoreInv

LEMMA GenesisLinks == Genesis \in Links
  BY DEF Genesis, Links

LEMMA NoTxnType == NoTxn \in StoreTxn /\ NoTxn.stage = "idle"
<1>1. PICK g \in Links : g = Genesis
  BY GenesisLinks
<1>. QED
  BY <1>1 DEF NoTxn, StoreTxn

\* A transaction moves on and nothing else does.
LEMMA TxnMoves ==
    ASSUME StoreInv, backend = "postgres", NEW c \in PoolConns, NEW t \in StoreTxn,
           txn' = [txn EXCEPT ![c] = t],
           UNCHANGED <<backend, log, proofs, file, storeTime, recorded, pruned>>,
           t.stage = "insert" =>
              /\ -1 <= t.head /\ t.head < recorded
              /\ \/ t.head = -1 /\ t.hash = Genesis
                 \/ \E row \in log : row.id = t.head /\ row.hash = t.hash
    PROVE  StoreInv'
<1>1. txn' \in [PoolConns -> StoreTxn] /\ txn'[c] = t
      /\ \A d \in PoolConns : d # c => txn'[d] = txn[d]
  BY DEF StoreInv, StoreTypes
<1>2. StoreTypes'
  BY <1>1 DEF StoreInv, StoreTypes
<1>3. /\ RowsKnown(log)' /\ RowsKnown(file.log)'
      /\ ~pruned' => Linked(log)' /\ Linked(file.log)'
  BY Zenon DEF StoreInv, RowsKnown, Linked
<1>4. TxnsKnown'
  <2>. SUFFICES ASSUME NEW d \in PoolConns, txn'[d].stage = "insert"
                PROVE  /\ -1 <= txn'[d].head /\ txn'[d].head < recorded
                       /\ ~pruned => \/ txn'[d].head = -1 /\ txn'[d].hash = Genesis
                                     \/ \E row \in log : /\ row.id = txn'[d].head
                                                         /\ row.hash = txn'[d].hash
    BY Zenon DEF TxnsKnown
  <2>1. CASE d = c
    BY <1>1, <2>1, Zenon
  <2>2. CASE d # c
    BY <1>1, <2>2, Zenon DEF StoreInv, TxnsKnown
  <2>. QED
    BY <2>1, <2>2
<1>5. OnlyPostgres' /\ EvidenceOfItsEvent'
  BY DEF StoreInv, OnlyPostgres, EvidenceOfItsEvent
<1>. QED
  BY <1>2, <1>3, <1>4, <1>5 DEF StoreInv

LEMMA PgReadsKeeps ==
    ASSUME StoreInv, NEW c \in PoolConns, NEW ts \in 0..storeTime, NEW ev \in BOOLEAN,
           PgReads(c, ts, ev)
    PROVE  StoreInv'
<1>. DEFINE seen == {row.event : row \in log}
            t == [NoTxn EXCEPT !.stage = "read", !.ts = ts, !.evidence = ev, !.seen = seen]
<1>1. seen \subseteq Nat /\ ts \in Nat
  BY DEF StoreInv, StoreTypes, StoreRow
<1>2. /\ backend = "postgres" /\ txn' = [txn EXCEPT ![c] = t]
      /\ UNCHANGED <<backend, log, proofs, file, storeTime, recorded, pruned>>
  BY DEF PgReads
<1>. HIDE DEF seen
<1>3. PICK none \in StoreTxn : none = NoTxn
  BY NoTxnType
<1>4. [none EXCEPT !.stage = "read", !.ts = ts, !.evidence = ev, !.seen = seen] \in StoreTxn
  BY <1>1 DEF StoreTxn
<1>5. t \in StoreTxn /\ t.stage = "read"
  <2>1. t = [none EXCEPT !.stage = "read", !.ts = ts, !.evidence = ev, !.seen = seen]
    BY <1>3, Zenon
  <2>2. [none EXCEPT !.stage = "read", !.ts = ts, !.evidence = ev, !.seen = seen].stage = "read"
    BY <1>1 DEF StoreTxn
  <2>. QED
    BY <1>4, <2>1, <2>2, Zenon
<1>. HIDE DEF t
<1>. QED
  BY <1>2, <1>5, TxnMoves

LEMMA PgLocksKeeps ==
    ASSUME StoreInv, NEW c \in PoolConns, PgLocks(c) PROVE StoreInv'
<1>. DEFINE left == {row \in log : row.event \in txn[c].seen}
            top == Newest(left)
            n == IF left = {} THEN -1 ELSE top.id
            h == IF left = {} THEN Genesis ELSE top.hash
            b == left # {}
            old == txn[c]
            t == [old EXCEPT !.stage = "insert", !.holds = b, !.head = n, !.hash = h]
<1>1. /\ txn[c].stage = "read" /\ txn' = [txn EXCEPT ![c] = t]
      /\ UNCHANGED <<backend, log, proofs, file, storeTime, recorded, pruned>>
  BY Zenon DEF PgLocks
<1>2. backend = "postgres"
  BY <1>1 DEF StoreInv, OnlyPostgres
<1>3. /\ log \subseteq StoreRow /\ recorded \in Nat /\ old \in StoreTxn
      /\ \A row \in log : row.id < recorded
  BY DEF StoreInv, StoreTypes, RowsKnown
<1>4. /\ n \in Int /\ h \in Links /\ -1 <= n /\ n < recorded
      /\ \/ n = -1 /\ h = Genesis
         \/ \E row \in log : row.id = n /\ row.hash = h
  <2>1. CASE left = {}
    <3>1. n = -1 /\ h = Genesis
      BY <2>1
    <3>. QED
      BY <1>3, <3>1, GenesisLinks
  <2>2. CASE left # {}
    <3>1. left \subseteq StoreRow /\ \A row \in left : row.id < recorded
      BY <1>3
    <3>2. top \in left
      BY <1>3, <2>2, <3>1, NewestRow
    <3>3. n = top.id /\ h = top.hash
      BY <2>2
    <3>4. top \in log /\ top \in StoreRow
      BY <1>3, <3>2
    <3>. HIDE DEF top, left, n, h
    <3>5. top.id \in Nat /\ top.hash \in Links /\ top.id < recorded
      BY <1>3, <3>4 DEF StoreRow
    <3>6. \E row \in log : row.id = n /\ row.hash = h
      BY <3>3, <3>4, Zenon
    <3>. QED
      BY <3>3, <3>5, <3>6
  <2>. QED
    BY <2>1, <2>2
<1>5. b \in BOOLEAN
  BY Zenon
<1>. HIDE DEF b, n, h, old
<1>6. t \in StoreTxn /\ t.head = n /\ t.hash = h
  BY <1>3, <1>4, <1>5 DEF StoreTxn
<1>. HIDE DEF t
<1>. QED
  BY <1>1, <1>2, <1>4, <1>6, TxnMoves

LEMMA PgInsertsKeeps ==
    ASSUME StoreInv, NEW c \in PoolConns, PgInserts(c) PROVE StoreInv'
<1>. DEFINE n == txn[c].head + 1
            h == txn[c].hash
            ts == txn[c].ts
            ev == txn[c].evidence
            row == NextRow(n, h, ts)
<1>1. /\ txn[c].stage = "insert" /\ txn' = [txn EXCEPT ![c] = NoTxn]
      /\ UNCHANGED <<backend, file, storeTime, pruned>>
      /\ \/ IdTaken(row.id) /\ UNCHANGED <<log, proofs>> /\ recorded' = recorded + 1
         \/ ~IdTaken(row.id) /\ Stores(row, ev)
  BY Zenon DEF PgInserts
<1>2. backend = "postgres"
  BY <1>1 DEF StoreInv, OnlyPostgres
<1>3. /\ log \subseteq StoreRow /\ file.log \subseteq StoreRow /\ recorded \in Nat
      /\ txn \in [PoolConns -> StoreTxn] /\ storeTime \in Nat
  BY DEF StoreInv, StoreTypes
<1>4. txn[c].head \in Int /\ h \in Links /\ ts \in Nat /\ ev \in BOOLEAN
  BY <1>3 DEF StoreTxn
<1>5. /\ -1 <= txn[c].head /\ txn[c].head < recorded
      /\ ~pruned => \/ txn[c].head = -1 /\ h = Genesis
                    \/ \E q \in log : q.id = txn[c].head /\ q.hash = h
  BY <1>1, Zenon DEF StoreInv, TxnsKnown
<1>6. n \in Nat /\ n <= recorded
  BY <1>3, <1>4, <1>5
<1>7. /\ row \in StoreRow /\ row.id = n /\ row.event = recorded + 1
      /\ row.hash = ChainLink(h, row)
  BY <1>3, <1>4, <1>6, RowFields
<1>8. /\ log' \subseteq StoreRow /\ recorded' \in Nat /\ recorded' = recorded + 1
      /\ log \subseteq log'
      /\ RowsKnown(log)' /\ (~pruned => Linked(log)') /\ EvidenceOfItsEvent'
  <2>1. CASE IdTaken(row.id) /\ UNCHANGED <<log, proofs>> /\ recorded' = recorded + 1
    <3>1. RowsKnown(log)'
      BY <1>3, <2>1, MoreRecorded DEF StoreInv, RowsKnown
    <3>2. (~pruned => Linked(log)') /\ EvidenceOfItsEvent'
      BY <1>1, <2>1, Zenon DEF StoreInv, Linked, EvidenceOfItsEvent
    <3>. QED
      BY <1>3, <2>1, <3>1, <3>2
  <2>2. CASE ~IdTaken(row.id) /\ Stores(row, ev)
    <3>1. row.id \notin Ids
      BY <2>2 DEF IdTaken
    <3>2. ASSUME ~pruned
          PROVE  \/ log = {} /\ row.id = 0 /\ row.hash = ChainLink(Genesis, row)
                 \/ \E q \in log : q.id + 1 = row.id /\ row.hash = ChainLink(q.hash, row)
      <4>1. CASE txn[c].head = -1 /\ h = Genesis
        <5>1. n = 0
          BY <4>1
        <5>2. \A q \in log : q.id # 0
          BY <1>7, <3>1, <5>1 DEF Ids
        <5>3. log = {}
          BY <3>2, <5>2 DEF StoreInv, Linked
        <5>. QED
          BY <1>7, <4>1, <5>1, <5>3, Zenon
      <4>2. CASE \E q \in log : q.id = txn[c].head /\ q.hash = h
        <5>1. PICK q \in log : q.id = txn[c].head /\ q.hash = h
          BY <4>2
        <5>2. q.id + 1 = row.id
          BY <1>7, <5>1, Zenon
        <5>. QED
          BY <1>7, <5>1, <5>2, Zenon
      <4>. QED
        BY <1>5, <3>2, <4>1, <4>2
    <3>3. row.id <= recorded
      BY <1>6, <1>7
    <3>. HIDE DEF row, ev, n
    <3>4. /\ log' \subseteq StoreRow /\ recorded' \in Nat
          /\ RowsKnown(log)' /\ (~pruned => Linked(log)') /\ EvidenceOfItsEvent'
      BY <1>1, <1>4, <1>7, <2>2, <3>1, <3>2, <3>3, StoresKeeps
    <3>. QED
      BY <2>2, <3>4 DEF Stores
  <2>. QED
    BY <1>1, <2>1, <2>2
<1>9. NoTxn \in StoreTxn /\ NoTxn.stage = "idle"
  BY NoTxnType
<1>10. /\ txn' \in [PoolConns -> StoreTxn]
       /\ \A d \in PoolConns : txn'[d] = txn[d] \/ txn'[d].stage # "insert"
  BY <1>1, <1>3, <1>9
<1>11. /\ file'.log \subseteq StoreRow /\ RowsKnown(file.log)'
       /\ ~pruned' => Linked(file.log)'
  BY <1>1, <1>8, FileKeeps
<1>12. TxnsKnown'
  BY <1>1, <1>8, <1>10, TxnsKeep
<1>13. StoreTypes' /\ OnlyPostgres'
  BY <1>1, <1>2, <1>3, <1>8, <1>10 DEF StoreTypes, OnlyPostgres
<1>. QED
  BY <1>1, <1>8, <1>11, <1>12, <1>13 DEF StoreInv

\* A purge leaves some of the rows, and with a database only evidence of those.
LEMMA PrunesKeeps ==
    ASSUME StoreInv, NEW cascade \in BOOLEAN, Prunes(cascade), ~cascade => backend = "portable",
           file'.log = log' \/ file'.log = file.log \/ file'.log = {},
           UNCHANGED <<backend, txn, storeTime, recorded>>
    PROVE  StoreInv'
<1>1. log' \subseteq log
  BY DEF Prunes, Surviving
<1>2. /\ pruned => pruned'
      /\ ~pruned' => log' = log
  BY Zenon DEF Prunes
<1>3. /\ log \subseteq StoreRow /\ recorded \in Nat /\ RowsKnown(log)
      /\ ~pruned => Linked(log)
  BY DEF StoreInv, StoreTypes
<1>4. RowsKnown(log)'
  BY <1>1, <1>3, Zenon DEF RowsKnown
<1>5. ASSUME ~pruned' PROVE Linked(log)'
  BY <1>2, <1>3, <1>5, Zenon DEF Linked
<1>6. log' \subseteq StoreRow
  BY <1>1, <1>3
<1>7. /\ file'.log \subseteq StoreRow /\ RowsKnown(file.log)'
      /\ ~pruned' => Linked(file.log)'
  BY <1>2, <1>4, <1>5, <1>6, FileKeeps
<1>8. ~pruned' => log \subseteq log'
  BY <1>2
<1>9. TxnsKnown'
  BY <1>2, <1>8, TxnsKeep
<1>10. StoreTypes' /\ OnlyPostgres'
  BY <1>6, <1>7 DEF StoreInv, StoreTypes, OnlyPostgres
<1>11. EvidenceOfItsEvent'
  <2>. SUFFICES ASSUME backend # "portable", NEW p \in proofs'
                PROVE  \E row \in log' : row.id = p.row /\ row.event = p.event
    BY DEF EvidenceOfItsEvent
  <2>1. p \in Cascade(UnexpiredProofs, Surviving) /\ log' = Surviving
    BY DEF Prunes
  <2>2. p \in proofs
    BY <2>1 DEF Cascade, UnexpiredProofs
  <2>3. PICK row \in log' : row.id = p.row
    BY <2>1 DEF Cascade
  <2>4. PICK own \in log : own.id = p.row /\ own.event = p.event
    BY <2>2 DEF StoreInv, EvidenceOfItsEvent
  <2>5. row = own
    BY <1>1, <1>3, <2>3, <2>4 DEF RowsKnown
  <2>. QED
    BY <2>3, <2>4, <2>5
<1>. QED
  BY <1>4, <1>5, <1>7, <1>9, <1>10, <1>11 DEF StoreInv

LEMMA StoreStart == StoreInit => StoreInv
<1>. SUFFICES ASSUME StoreInit PROVE StoreInv
  OBVIOUS
<1>1. /\ log = {} /\ proofs = {} /\ file.log = {} /\ storeTime = 0 /\ recorded = 0
      /\ txn = [c \in PoolConns |-> NoTxn]
  BY DEF StoreInit
<1>2. \A c \in PoolConns : txn[c] \in StoreTxn /\ txn[c].stage = "idle"
  BY <1>1, NoTxnType
<1>3. StoreTypes
  BY <1>1, <1>2, NoTxnType DEF StoreTypes
<1>4. TxnsKnown /\ OnlyPostgres
  BY <1>2 DEF TxnsKnown, OnlyPostgres
<1>5. RowsKnown(log) /\ RowsKnown(file.log) /\ Linked(log) /\ Linked(file.log)
      /\ EvidenceOfItsEvent
  BY <1>1 DEF RowsKnown, Linked, EvidenceOfItsEvent
<1>. QED
  BY <1>3, <1>4, <1>5 DEF StoreInv

LEMMA StoreStep == StoreInv /\ [StoreNext]_storeVars => StoreInv'
<1>. SUFFICES ASSUME StoreInv, [StoreNext]_storeVars PROVE StoreInv'
  OBVIOUS
<1>1. CASE \E ts \in 0..storeTime, ev \in BOOLEAN :
              \/ RecordSqlite(ts, ev)
              \/ \E outcome \in {"ok", "failed", "torn"} : RecordPortable(ts, ev, outcome)
              \/ \E c \in PoolConns : PgReads(c, ts, ev)
  <2>1. PICK ts \in 0..storeTime, ev \in BOOLEAN :
              \/ RecordSqlite(ts, ev)
              \/ \E outcome \in {"ok", "failed", "torn"} : RecordPortable(ts, ev, outcome)
              \/ \E c \in PoolConns : PgReads(c, ts, ev)
    BY <1>1, Zenon
  <2>. QED
    BY <2>1, RecordKeeps, PgReadsKeeps, Zenon
<1>2. CASE \E c \in PoolConns : PgLocks(c) \/ PgInserts(c)
  BY <1>2, PgLocksKeeps, PgInsertsKeeps, Zenon
<1>3. CASE OpenPortable
  BY <1>3, OpenKeeps
<1>4. CASE PurgeSqlite
  BY <1>4, PrunesKeeps DEF PurgeSqlite
<1>5. CASE PurgePostgres
  BY <1>5, PrunesKeeps DEF PurgePostgres
<1>6. CASE \E outcome \in {"ok", "failed", "torn"} : PurgePortable(outcome)
  <2>1. PICK outcome \in {"ok", "failed", "torn"} : PurgePortable(outcome)
    BY <1>6
  <2>2. file'.log = log' \/ file'.log = file.log \/ file'.log = {}
    BY <2>1, PersistsOne DEF PurgePortable
  <2>. QED
    BY <2>1, <2>2, PrunesKeeps DEF PurgePortable
<1>7. CASE StoreTick \/ UNCHANGED storeVars
  <2>1. storeTime' \in Nat /\ UNCHANGED <<backend, log, proofs, file, txn, recorded, pruned>>
    BY <1>7 DEF StoreTick, storeVars, StoreInv, StoreTypes
  <2>2. StoreTypes' /\ OnlyPostgres'
    BY <2>1 DEF StoreInv, StoreTypes, OnlyPostgres
  <2>3. /\ RowsKnown(log)' /\ RowsKnown(file.log)'
        /\ ~pruned' => Linked(log)' /\ Linked(file.log)'
    BY <2>1, Zenon DEF StoreInv, RowsKnown, Linked
  <2>4. TxnsKnown' /\ EvidenceOfItsEvent'
    BY <2>1, Zenon DEF StoreInv, TxnsKnown, EvidenceOfItsEvent
  <2>. QED
    BY <2>2, <2>3, <2>4 DEF StoreInv
<1>. QED
  BY <1>1, <1>2, <1>3, <1>4, <1>5, <1>6, <1>7, Zenon DEF StoreNext

\* Ids without a gap: what hashchain::verify derives from the beginning is what each row
\* was linked to.
LEMMA LinkedVerifies ==
    ASSUME NEW rows, rows \subseteq StoreRow, recorded \in Nat, RowsKnown(rows), Linked(rows)
    PROVE  ChainVerifies(rows)
<1>. SUFFICES ASSUME NEW row \in rows
              PROVE  LET before == {other \in rows \ {row} : other.id <= row.id}
                     IN row.hash = ChainLink(IF before = {} THEN Genesis
                                             ELSE Newest(before).hash, row)
  BY Zenon DEF ChainVerifies
<1>. DEFINE before == {other \in rows \ {row} : other.id <= row.id}
<1>1. before \subseteq StoreRow /\ \A other \in before : other.id < recorded
  BY DEF RowsKnown
<1>2. \A other \in rows : other.id \in Nat
  BY DEF StoreRow
<1>3. \A other \in before : other.id < row.id
  <2>. SUFFICES ASSUME NEW other \in before PROVE other.id < row.id
    OBVIOUS
  <2>1. other.id # row.id
    BY DEF RowsKnown
  <2>. QED
    BY <1>2, <2>1
<1>4. CASE row.id = 0 /\ row.hash = ChainLink(Genesis, row)
  <2>1. before = {}
    BY <1>2, <1>3, <1>4
  <2>. QED
    BY <1>4, <2>1, Zenon
<1>5. CASE \E other \in rows : other.id + 1 = row.id /\ row.hash = ChainLink(other.hash, row)
  <2>1. PICK q \in rows : q.id + 1 = row.id /\ row.hash = ChainLink(q.hash, row)
    BY <1>5
  <2>2. q \in before
    BY <1>2, <2>1
  <2>3. Newest(before) \in before /\ q.id <= Newest(before).id
    BY <1>1, <2>2, NewestRow
  <2>4. Newest(before) \in rows /\ Newest(before).id < row.id
    BY <1>3, <2>3
  <2>. HIDE DEF before
  <2>5. Newest(before).id = q.id
    BY <1>2, <2>1, <2>3, <2>4
  <2>6. Newest(before) = q
    BY <2>4, <2>5 DEF RowsKnown
  <2>. QED
    BY <2>1, <2>2, <2>6, Zenon DEF before
<1>. QED
  BY <1>4, <1>5, Zenon DEF Linked

\* A log from which the store removed nothing verifies, for every number of connections
\* that record at the same time, every failed or torn save, and after every restart:
\* record and verify_audit_chain of the three backends.
THEOREM UnprunedChainHolds == StoreInit /\ [][StoreNext]_storeVars => []UnprunedLogVerifies
<1>1. StoreInv => UnprunedLogVerifies
  BY LinkedVerifies DEF StoreInv, StoreTypes, UnprunedLogVerifies
<1>. QED
  BY <1>1, StoreStart, StoreStep, PTL

\* With a database, evidence is that of its own event, for every age and row limit of
\* purge_expired: the foreign key cascades, and ids in use are unique.
THEOREM EvidenceKeepsItsEvent == StoreInit /\ [][StoreNext]_storeVars => []EvidenceOfItsEvent
<1>1. StoreInv => EvidenceOfItsEvent
  BY DEF StoreInv
<1>. QED
  BY <1>1, StoreStart, StoreStep, PTL
=============================================================================
