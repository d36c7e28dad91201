------------------------ MODULE DeviceControl_proofs ------------------------
(***************************************************************************)
(* What is kept of the devices, for any number of them and any history: on *)
(* the server the tunnel addresses of RemoteVpn, the configurations of     *)
(* ChildControl and the alerts of ProtectionWatch; on an Android device    *)
(* what ChildVpn shows of its service.                                     *)
(***************************************************************************)
EXTENDS RemoteVpn, ChildControl, ProtectionWatch, ChildVpn, WellFoundedInduction,
        SequenceTheorems, TLAPS

----------------------------------------------------------------------------
(* Tunnel addresses *)

\* A device holds an address of the subnet or none, and no address is held
\* twice or reserved.
Leased == leases \in [VpnDevices -> Addresses \cup {None}]
LeaseInv == Leased /\ LeasesDistinct

----------------------------------------------------------------------------
\* lowest_free_octet finds an address whenever one is free: a set of numbers
\* has a least one.
LEMMA LowestIsFree ==
    ASSUME NEW free, free \subseteq Nat, free # {}
    PROVE  Lowest(free) \in free
<1>1. PICK a \in free : \A b \in free : ~(<<b, a>> \in OpToRel(<, Nat))
  BY NatLessThanWellFounded, WFMin, Zenon
<1>2. \A b \in free : b < a => <<b, a>> \in OpToRel(<, Nat)
  BY DEF OpToRel
<1>3. \A b \in free : ~(b < a)
  BY <1>1, <1>2, Zenon
<1>4. \A b \in free : a <= b
  BY <1>3
<1>. QED
  BY <1>4 DEF Lowest

\* Pruning takes addresses back and gives none.
LEMMA PrunedKeeps ==
    ASSUME LeaseInv
    PROVE  /\ Pruned \in [VpnDevices -> Addresses \cup {None}]
           /\ \A d, e \in VpnDevices : d # e /\ Pruned[d] # None => Pruned[d] # Pruned[e]
           /\ \A d \in VpnDevices : Pruned[d] \notin Reserved
<1>1. None \notin Reserved
  BY RemoteVpnAssumption DEF None
<1>2. \A d \in VpnDevices : leases[d] \in Addresses \cup {None}
  BY DEF LeaseInv, Leased
<1>3. \A d \in VpnDevices : leases[d] \notin Reserved
  BY <1>1 DEF LeaseInv, LeasesDistinct, Used
<1>. QED
  BY <1>1, <1>2, <1>3 DEF LeaseInv, LeasesDistinct, Pruned

\* A grant of register_peer_with_expiry is an address of nobody else.
LEMMA GrantKeeps ==
    ASSUME LeaseInv, NEW d \in VpnDevices, RegisterWgPeer(d)
    PROVE  LeaseInv'
<1>. DEFINE a == Granted(d, Pruned)
<1>1. /\ Pruned \in [VpnDevices -> Addresses \cup {None}]
      /\ \A e, f \in VpnDevices : e # f /\ Pruned[e] # None => Pruned[e] # Pruned[f]
      /\ \A e \in VpnDevices : Pruned[e] \notin Reserved
  BY PrunedKeeps
<1>2. a \in Addresses \ Reserved /\ \A e \in VpnDevices \ {d} : Pruned[e] # a
  <2>1. CASE Pruned[d] # None
    BY <1>1, <2>1 DEF Granted
  <2>2. CASE Pruned[d] = None
    <3>1. FreeForLease(Pruned) # {} /\ FreeForLease(Pruned) \subseteq Nat
      BY <2>2, RemoteVpnAssumption DEF RegisterWgPeer, FreeForLease
    <3>2. a \in FreeForLease(Pruned)
      BY <2>2, <3>1, LowestIsFree DEF Granted
    <3>. QED
      BY <3>2, RemoteVpnAssumption DEF FreeForLease, Used, None
  <2>. QED
    BY <2>1, <2>2
<1>3. leases' = [Pruned EXCEPT ![d] = a]
  BY DEF RegisterWgPeer
<1>4. \A e \in VpnDevices : leases'[e] = IF e = d THEN a ELSE Pruned[e]
  BY <1>1, <1>3
<1>. HIDE DEF a
<1>5. Leased'
  BY <1>1, <1>2, <1>3 DEF Leased
<1>6. LeasesDistinct'
  BY <1>1, <1>2, <1>4 DEF LeasesDistinct, Used
<1>. QED
  BY <1>5, <1>6 DEF LeaseInv

\* No two devices are told the same tunnel address, nor a reserved one, in
\* every behaviour of the lease server and the reconciler.
THEOREM LeasesSafe == VpnSpec => []LeasesDistinct
<1>1. VpnInit => LeaseInv
  BY DEF VpnInit, LeaseInv, Leased, LeasesDistinct, Used
<1>2. LeaseInv /\ [VpnNext]_vpnVars => LeaseInv'
  <2>. SUFFICES ASSUME LeaseInv, [VpnNext]_vpnVars PROVE LeaseInv'
    OBVIOUS
  <2>1. CASE UNCHANGED leases
    BY <2>1 DEF LeaseInv, Leased, LeasesDistinct, Used
  <2>2. ASSUME NEW d \in VpnDevices, RegisterWgPeer(d) PROVE LeaseInv'
    BY <2>2, GrantKeeps
  <2>3. ASSUME NEW d \in VpnDevices, RegisterRefused(d) PROVE LeaseInv'
    <3>1. leases' = Pruned
      BY <2>3 DEF RegisterRefused
    <3>. QED
      BY <3>1, PrunedKeeps DEF LeaseInv, Leased, LeasesDistinct, Used
  <2>4. ASSUME NEW d \in VpnDevices, LeaseRunsOver(d) \/ GuardianDecides(d)
        PROVE  UNCHANGED leases
    BY <2>4 DEF LeaseRunsOver, GuardianDecides
  <2>5. ASSUME ReconcileReads \/ ReconcileApplies PROVE UNCHANGED leases
    BY <2>5 DEF ReconcileReads, ReconcileApplies
  <2>6. CASE UNCHANGED vpnVars
    BY <2>6, <2>1 DEF vpnVars
  <2>. QED
    BY <2>1, <2>2, <2>3, <2>4, <2>5, <2>6 DEF VpnNext
<1>3. LeaseInv => LeasesDistinct
  BY DEF LeaseInv
<1>. QED
  BY <1>1, <1>2, <1>3, PTL DEF VpnSpec

----------------------------------------------------------------------------
(* Silent devices *)

WatchSpec == WatchInit /\ [][WatchNext]_watchVars

\* A silence that was told of, or is about to be, is marked as such until a beat
\* ends it or the table is lost: that is what keeps the sweep from taking it again.
ToldIsMarked ==
    \A d \in WatchedDevices :
        told[d] > 0 \/ sweeping[d] = "lasts" => d \notin known \/ alerted[d]

WatchInv == /\ told \in [WatchedDevices -> Nat]
            /\ alerted \in [WatchedDevices -> BOOLEAN]
            /\ sweeping = [d \in WatchedDevices |-> sweeping[d]]
            /\ ToldIsMarked /\ OneAlertPerSilence

\* Every step of the devices, the sweep and a restart keeps it.
LEMMA WatchStep == WatchInv /\ [WatchNext]_watchVars => WatchInv'
<1>. SUFFICES ASSUME WatchInv, [WatchNext]_watchVars PROVE WatchInv'
  OBVIOUS
<1>. USE DEF WatchInv, ToldIsMarked, OneAlertPerSilence
<1>1. ASSUME UNCHANGED <<known, alerted, sweeping, told>> PROVE WatchInv'
  BY <1>1
<1>2. ASSUME NEW d \in WatchedDevices, HeartbeatArrives(d) PROVE WatchInv'
  <2>1. /\ known' = known \cup {d} /\ alerted' = [alerted EXCEPT ![d] = FALSE]
        /\ told' = [told EXCEPT ![d] = 0]
        /\ sweeping' = [sweeping EXCEPT ![d] = IF sweeping[d] = "none" THEN sweeping[d]
                                               ELSE "ended"]
    BY <1>2 DEF HeartbeatArrives, AlertedAfterBeat
  <2>2. sweeping'[d] # "lasts"
    BY <2>1
  <2>. QED
    BY <2>1, <2>2
<1>3. ASSUME NEW d \in WatchedDevices, SweepPublishes(d) PROVE WatchInv'
  <2>1. /\ UNCHANGED <<known, alerted>> /\ sweeping' = [sweeping EXCEPT ![d] = "none"]
        /\ told' = [told EXCEPT ![d] = IF sweeping[d] = "lasts" /\ told[d] < 2
                                       THEN told[d] + 1 ELSE told[d]]
    BY <1>3 DEF SweepPublishes
  <2>2. \A x \in WatchedDevices \ {d} : told'[x] = told[x] /\ sweeping'[x] = sweeping[x]
    BY <2>1
  <2>3. sweeping'[d] = "none" /\ told'[d] \in Nat /\ told'[d] <= 1
    BY <2>1
  <2>4. told'[d] > 0 => d \notin known \/ alerted[d]
    BY <2>1
  <2>5. /\ told' \in [WatchedDevices -> Nat]
        /\ sweeping' = [x \in WatchedDevices |-> sweeping'[x]]
    BY <2>1
  <2>6. ToldIsMarked'
    BY <2>1, <2>2, <2>3, <2>4
  <2>7. \A x \in WatchedDevices : told'[x] + (IF sweeping'[x] = "lasts" THEN 1 ELSE 0) <= 1
    BY <2>2, <2>3
  <2>. QED
    BY <2>1, <2>5, <2>6, <2>7
<1>4. CASE SweepTakes
  <2>1. /\ UNCHANGED <<known, told>>
        /\ alerted' \in [WatchedDevices -> BOOLEAN]
        /\ sweeping' = [d \in WatchedDevices |-> sweeping'[d]]
    BY <1>4 DEF SweepTakes
  <2>2. \A d \in WatchedDevices : (alerted[d] => alerted'[d]) /\ sweeping[d] = "none"
    BY <1>4 DEF SweepTakes, NothingTaken
  <2>3. \A d \in WatchedDevices : sweeping'[d] = "lasts" =>
            d \in known /\ ~alerted[d] /\ alerted'[d]
    BY <1>4 DEF SweepTakes, Overdue
  <2>4. ToldIsMarked'
    BY <2>1, <2>2, <2>3
  <2>5. \A d \in WatchedDevices : sweeping'[d] = "lasts" => told[d] = 0
    BY <2>3
  <2>6. \A d \in WatchedDevices : told[d] <= 1
    BY <2>2
  <2>7. OneAlertPerSilence'
    BY <2>1, <2>5, <2>6
  <2>. QED
    BY <2>1, <2>4, <2>7
<1>5. CASE WatchRestarts
  BY <1>5 DEF WatchRestarts, NothingTaken
<1>. QED
  BY <1>1, <1>2, <1>3, <1>4, <1>5 DEF WatchNext, WatchTick, SendHeartbeat, BeatLost, AppStops,
     AppReturns, watchVars

\* overdue, sweep, ingest: a guardian is told of a silence once, whenever a beat
\* slips in between or the server restarts.
THEOREM OneAlertForEachSilence == WatchSpec => []OneAlertPerSilence
<1>1. WatchInit => WatchInv
  BY DEF WatchInit, NothingTaken, WatchInv, ToldIsMarked, OneAlertPerSilence
<1>2. WatchInv => OneAlertPerSilence
  BY DEF WatchInv
<1>. QED
  BY <1>1, <1>2, WatchStep, PTL DEF WatchSpec

----------------------------------------------------------------------------
(* Configurations: one content for each version *)

\* Configurations have version numbers, in memory and in the file.
Numbered ==
    /\ config = [c \in Children |-> config[c]]
    /\ \A c \in Children : config[c].version \in Nat
    /\ configFile = [config |-> configFile.config, applied |-> configFile.applied]
    /\ configFile.config = [c \in Children |-> configFile.config[c]]

\* The file may be one late write ahead of what is visible.
FileAtMostAhead ==
    \A c \in Children : \/ configFile.config[c] = config[c]
                         \/ configFile.config[c].version = config[c].version + 1

\* Nothing newer than the current configuration was ever visible, and nothing
\* else with its number.
PublishedBefore ==
    \A p \in published :
        /\ p.child \in Children /\ p = [child |-> p.child, config |-> p.config]
        /\ p.config.version \in Nat /\ p.config.version <= config[p.child].version
        /\ p.config.version = config[p.child].version => p.config = config[p.child]

VersionInv == Numbered /\ FileAtMostAhead /\ PublishedBefore /\ VersionNamesOneConfig

\* What a step makes visible is current, and newer than what was visible before or
\* the same.
LEMMA NewlyVisible ==
    ASSUME VersionInv, Numbered', FileAtMostAhead', NEW who \in SUBSET Children,
           \A c \in Children : \/ config'[c] = config[c]
                               \/ config'[c].version = config[c].version + 1,
           published' = published \cup {[child |-> c, config |-> config'[c]] : c \in who}
    PROVE  VersionInv'
<1>. DEFINE pub(c) == [child |-> c, config |-> config'[c]]
<1>1. \A c \in who : pub(c).child = c /\ pub(c).config = config'[c]
  OBVIOUS
<1>2. \A p \in published' : p \in published \/ (\E c \in who : p = pub(c))
  OBVIOUS
<1>3. \A c \in Children : config[c].version \in Nat /\ config'[c].version \in Nat
  BY DEF VersionInv, Numbered
<1>4. \A p \in published :
          /\ p.child \in Children /\ p.config.version \in Nat
          /\ p = [child |-> p.child, config |-> p.config]
          /\ p.config.version <= config[p.child].version
          /\ p.config.version = config[p.child].version => p.config = config[p.child]
  BY DEF VersionInv, PublishedBefore
<1>5. \A p \in published :
          /\ p.config.version <= config'[p.child].version
          /\ p.config.version = config'[p.child].version => p.config = config'[p.child]
  <2>. SUFFICES ASSUME NEW p \in published
                PROVE  /\ p.config.version <= config'[p.child].version
                       /\ p.config.version = config'[p.child].version => p.config = config'[p.child]
    OBVIOUS
  <2>1. CASE config'[p.child] = config[p.child]
    BY <2>1, <1>4
  <2>2. CASE config'[p.child].version = config[p.child].version + 1
    BY <2>2, <1>3, <1>4
  <2>. QED
    BY <1>4, <2>1, <2>2
<1>. HIDE DEF pub
<1>6. \A c \in who : pub(c) = [child |-> pub(c).child, config |-> pub(c).config]
  BY <1>1 DEF pub
<1>7. PublishedBefore'
  <2>. SUFFICES ASSUME NEW p \in published'
                PROVE  /\ p.child \in Children /\ p = [child |-> p.child, config |-> p.config]
                       /\ p.config.version \in Nat
                       /\ p.config.version <= config'[p.child].version
                       /\ p.config.version = config'[p.child].version => p.config = config'[p.child]
    BY DEF PublishedBefore
  <2>1. CASE p \in published
    BY <2>1, <1>4, <1>5
  <2>2. ASSUME NEW c \in who, p = pub(c)
        PROVE  p.child \in Children /\ p.config = config'[p.child]
               /\ p = [child |-> p.child, config |-> p.config]
    BY <2>2, <1>1, <1>6
  <2>. QED
    BY <1>2, <1>3, <2>1, <2>2
<1>8. VersionNamesOneConfig'
  <2>. SUFFICES ASSUME NEW p \in published', NEW q \in published',
                       p.child = q.child, p.config.version = q.config.version
                PROVE  p = q
    BY DEF VersionNamesOneConfig
  <2>1. CASE p \in published /\ q \in published
    BY <2>1 DEF VersionInv, VersionNamesOneConfig
  <2>2. CASE p \in published /\ \E c \in who : q = pub(c)
    <3>1. q.config = config'[q.child] /\ q = [child |-> q.child, config |-> q.config]
      BY <2>2, <1>1, <1>6
    <3>2. p.config = q.config /\ p = [child |-> p.child, config |-> p.config]
      BY <2>2, <3>1, <1>4, <1>5
    <3>. QED
      BY <3>1, <3>2
  <2>3. CASE q \in published /\ \E c \in who : p = pub(c)
    <3>1. p.config = config'[p.child] /\ p = [child |-> p.child, config |-> p.config]
      BY <2>3, <1>1, <1>6
    <3>2. q.config = p.config /\ q = [child |-> q.child, config |-> q.config]
      BY <2>3, <3>1, <1>4, <1>5
    <3>. QED
      BY <3>1, <3>2
  <2>4. CASE (\E c \in who : p = pub(c)) /\ (\E c \in who : q = pub(c))
    BY <2>4, <1>1
  <2>. QED
    BY <1>2, <2>1, <2>2, <2>3, <2>4
<1>. QED
  BY <1>7, <1>8 DEF VersionInv

\* A step that makes nothing visible and leaves the file no further ahead.
LEMMA NothingVisible ==
    ASSUME VersionInv, UNCHANGED <<config, published>>, Numbered', FileAtMostAhead'
    PROVE  VersionInv'
  BY DEF VersionInv, PublishedBefore, VersionNamesOneConfig

\* set_config: the file is written before the change is visible.
LEMMA SetConfigKeepsVersions ==
    ASSUME VersionInv, NEW c \in Children, NEW d, NEW s, NEW outcome, SetConfig(c, d, s, outcome)
    PROVE  VersionInv'
<1>. DEFINE new == [version |-> config[c].version + 1, device |-> d, setting |-> s]
            next == [config EXCEPT ![c] = new]
<1>1. /\ configFile' = IF outcome = "failed" THEN configFile
                       ELSE [config |-> next, applied |-> applied]
      /\ IF outcome = "ok"
         THEN config' = next /\ published' = published \cup {[child |-> c, config |-> new]}
         ELSE UNCHANGED <<config, published>>
  BY DEF SetConfig, Written, Visible, NextVersion
<1>2. new.version = config[c].version + 1 /\ new.version \in Nat
  BY DEF VersionInv, Numbered
<1>. HIDE DEF new
<1>3. /\ next = [x \in Children |-> next[x]] /\ next[c] = new
      /\ \A x \in Children \ {c} : next[x] = config[x]
  BY DEF VersionInv, Numbered
<1>. HIDE DEF next
<1>4. \/ configFile' = configFile
      \/ configFile' = [config |-> configFile'.config, applied |-> configFile'.applied]
         /\ configFile'.config = next
  BY <1>1
<1>5. CASE outcome = "ok"
  <2>1. config' = next /\ configFile'.config = next
    BY <1>1, <1>5
  <2>2. Numbered'
    BY <1>2, <1>3, <1>4, <2>1 DEF VersionInv, Numbered
  <2>3. FileAtMostAhead'
    BY <2>1 DEF FileAtMostAhead
  <2>4. published' = published \cup {[child |-> x, config |-> config'[x]] : x \in {c}}
    BY <1>1, <1>3, <1>5, <2>1
  <2>. QED
    BY <1>2, <1>3, <2>1, <2>2, <2>3, <2>4, NewlyVisible
<1>6. CASE outcome # "ok"
  <2>1. UNCHANGED <<config, published>>
    BY <1>1, <1>6
  <2>2. Numbered'
    BY <1>3, <1>4, <2>1 DEF VersionInv, Numbered
  <2>3. FileAtMostAhead'
    BY <1>2, <1>3, <1>4, <2>1 DEF VersionInv, FileAtMostAhead
  <2>. QED
    BY <2>1, <2>2, <2>3, NothingVisible
<1>. QED
  BY <1>5, <1>6

\* record_applied_report writes the configurations that are visible.
LEMMA ReportKeepsVersions ==
    ASSUME VersionInv, NEW d, NEW have, NEW outcome, RecordApplied(d, have, outcome),
           UNCHANGED <<config, published>>
    PROVE  VersionInv'
<1>1. \/ configFile' = configFile
      \/ \E a : configFile' = [config |-> config, applied |-> a]
  BY DEF RecordApplied, Written
<1>2. Numbered' /\ FileAtMostAhead'
  BY <1>1 DEF VersionInv, Numbered, FileAtMostAhead
<1>. QED
  BY <1>2, NothingVisible

\* with_state_dir: a restart shows what the file holds.
LEMMA RestartKeepsVersions ==
    ASSUME VersionInv, ControlRestart
    PROVE  VersionInv'
<1>. DEFINE who == {x \in Children : configFile.config[x].version > 0}
<1>1. /\ config' = configFile.config /\ configFile' = configFile
      /\ published' = published \cup {[child |-> c, config |-> config'[c]] : c \in who}
  BY DEF ControlRestart
<1>2. \A c \in Children : \/ config'[c] = config[c]
                          \/ config'[c].version = config[c].version + 1
  BY <1>1 DEF VersionInv, FileAtMostAhead
<1>3. Numbered'
  <2>1. \A c \in Children : config'[c].version \in Nat
    BY <1>2 DEF VersionInv, Numbered
  <2>. QED
    BY <1>1, <2>1 DEF VersionInv, Numbered
<1>4. FileAtMostAhead'
  BY <1>1 DEF FileAtMostAhead
<1>5. who \in SUBSET Children
  OBVIOUS
<1>. HIDE DEF who
<1>. QED
  BY <1>1, <1>2, <1>3, <1>4, <1>5, NewlyVisible

\* Every step keeps versions unambiguous.
LEMMA VersionStep == VersionInv /\ [ControlNext]_controlVars => VersionInv'
<1>. SUFFICES ASSUME VersionInv, [ControlNext]_controlVars PROVE VersionInv'
  OBVIOUS
<1>1. ASSUME NEW r \in Requests, NEW s \in Settings, NEW o \in WriteOutcomes,
             SetConfig(r[1], r[2], s, o)
      PROVE  VersionInv'
  BY <1>1, SetConfigKeepsVersions, ChildControlAssumption
<1>2. ASSUME NEW d \in Devices, NEW k \in ReportSlack, NEW o \in WriteOutcomes, PollReport(d, k, o)
      PROVE  VersionInv'
  BY <1>2, ReportKeepsVersions DEF PollReport
<1>3. ASSUME NEW d \in Devices, NEW o \in WriteOutcomes, StreamReport(d, o) PROVE VersionInv'
  BY <1>3, ReportKeepsVersions DEF StreamReport
<1>4. CASE ControlRestart
  BY <1>4, RestartKeepsVersions
<1>5. ASSUME UNCHANGED <<config, configFile, published>> PROVE VersionInv'
  BY <1>5 DEF VersionInv, Numbered, FileAtMostAhead, PublishedBefore, VersionNamesOneConfig
<1>. QED
  BY <1>1, <1>2, <1>3, <1>4, <1>5 DEF ControlNext, controlVars, server, PollAnswer, PollFails,
     Apply, StreamSubscribe, StreamLooks, StreamDrop

\* set_config, child_config.json: a version number names one configuration for
\* ever, whatever writes fail and whenever the server restarts.
THEOREM VersionsUnambiguous == ControlSpec => []VersionNamesOneConfig
<1>1. ControlInit => VersionInv
  <2>. SUFFICES ASSUME ControlInit PROVE VersionInv
    OBVIOUS
  <2>1. Numbered /\ FileAtMostAhead
    BY DEF ControlInit, NoConfig, Numbered, FileAtMostAhead
  <2>2. published = {}
    BY DEF ControlInit
  <2>. QED
    BY <2>1, <2>2 DEF VersionInv, PublishedBefore, VersionNamesOneConfig
<1>2. VersionInv => VersionNamesOneConfig
  BY DEF VersionInv
<1>. QED
  BY <1>1, <1>2, VersionStep, PTL DEF ControlSpec

----------------------------------------------------------------------------
(* Configurations: no report beyond what is desired *)

\* Configurations and reports as they are in memory or in the file: the report of a
\* device is within the version of a child it was given to.
WithinDesired(conf, app) ==
    /\ conf = [c \in Children |-> conf[c]] /\ app \in [Devices -> Nat]
    /\ \A c \in Children : conf[c].version \in Nat
    /\ \A d \in Devices : app[d] > 0 =>
          \E c \in Children : Named(c, d) /\ app[d] <= conf[c].version

\* The index leads to a child that was given the device.
RoutedAsAsked ==
    /\ deviceToChild = [d \in Devices |-> deviceToChild[d]]
    /\ \A d \in Devices : deviceToChild[d] # NoChild =>
          deviceToChild[d] \in Children /\ Named(deviceToChild[d], d)

DeviceVersions ==
    /\ dev = [d \in Devices |-> dev[d]]
    /\ \A d \in Devices : dev[d].version \in Nat /\ dev[d].answer.version \in Nat

AppliedInv ==
    /\ WithinDesired(config, applied)
    /\ WithinDesired(configFile.config, configFile.applied)
    /\ RoutedAsAsked /\ DeviceVersions

\* Once named, always named.
LEMMA NamedStays ==
    ASSUME published \subseteq published', NEW c, NEW d, Named(c, d)
    PROVE  Named(c, d)'
  BY DEF Named

\* The same rows and reports, or rows of newer versions, later on.
LEMMA WithinStays ==
    ASSUME NEW conf, NEW app, WithinDesired(conf, app), published \subseteq published',
           NEW conf2, NEW app2, app2 = app, conf2 = [c \in Children |-> conf2[c]],
           \A c \in Children : conf2[c].version \in Nat /\ conf[c].version <= conf2[c].version
    PROVE  /\ app2 \in [Devices -> Nat]
           /\ \A c \in Children : conf2[c].version \in Nat
           /\ \A d \in Devices : app2[d] > 0 =>
                 \E c \in Children : Named(c, d)' /\ app2[d] <= conf2[c].version
<1>1. app2 \in [Devices -> Nat]
  BY DEF WithinDesired
<1>2. ASSUME NEW d \in Devices, app2[d] > 0
      PROVE  \E c \in Children : Named(c, d)' /\ app2[d] <= conf2[c].version
  <2>1. PICK c \in Children : Named(c, d) /\ app2[d] <= conf[c].version
    BY <1>2 DEF WithinDesired
  <2>2. Named(c, d)'
    BY <2>1, NamedStays
  <2>3. conf[c].version \in Nat /\ app2[d] \in Nat
    BY <1>1 DEF WithinDesired
  <2>4. app2[d] <= conf2[c].version
    BY <2>1, <2>3
  <2>. QED
    BY <2>2, <2>4
<1>. QED
  BY <1>1, <1>2

\* A report, cut down to the version of the child the device is routed to.
LEMMA NewerReport ==
    ASSUME NEW conf, NEW app, WithinDesired(conf, app),
           NEW c \in Children, NEW d \in Devices, Named(c, d),
           NEW v \in Nat, v <= conf[c].version
    PROVE  WithinDesired(conf, [app EXCEPT ![d] = v])
<1>1. [app EXCEPT ![d] = v] \in [Devices -> Nat]
  BY DEF WithinDesired
<1>. QED
  BY <1>1 DEF WithinDesired

\* record_applied_report.
LEMMA ReportKeepsApplied ==
    ASSUME AppliedInv, NEW d \in Devices, NEW have \in Nat, NEW outcome,
           RecordApplied(d, have, outcome), UNCHANGED <<config, deviceToChild, published>>,
           DeviceVersions'
    PROVE  AppliedInv'
<1>. DEFINE v == Capped(d, have)
            next == [applied EXCEPT ![d] = v]
<1>1. RoutedAsAsked'
  BY DEF AppliedInv, RoutedAsAsked, Named
<1>2. CASE deviceToChild[d] # NoChild
  <2>1. deviceToChild[d] \in Children /\ Named(deviceToChild[d], d)
    BY <1>2 DEF AppliedInv, RoutedAsAsked
  <2>2. config[deviceToChild[d]].version \in Nat
    BY <2>1 DEF AppliedInv, WithinDesired
  <2>3. v \in Nat /\ v <= config[deviceToChild[d]].version
    BY <2>2 DEF Capped
  <2>. HIDE DEF v
  <2>4. WithinDesired(config, next)
    BY <2>1, <2>3, NewerReport DEF AppliedInv
  <2>. HIDE DEF next
  <2>5. /\ configFile' \in {configFile, [config |-> config, applied |-> next]}
        /\ applied' \in {applied, next}
    BY DEF RecordApplied, Written, v, next
  <2>6. WithinDesired(configFile.config, configFile.applied)'
    BY <2>4, <2>5 DEF AppliedInv, WithinDesired, Named
  <2>7. WithinDesired(config, applied)'
    BY <2>4, <2>5 DEF AppliedInv, WithinDesired, Named
  <2>. QED
    BY <1>1, <2>6, <2>7 DEF AppliedInv
<1>3. CASE deviceToChild[d] = NoChild
  <2>1. UNCHANGED <<applied, configFile>>
    BY <1>3 DEF RecordApplied
  <2>. QED
    BY <1>1, <2>1 DEF AppliedInv, WithinDesired, Named
<1>. QED
  BY <1>2, <1>3

\* set_config.
LEMMA SetConfigKeepsApplied ==
    ASSUME AppliedInv, NEW c \in Children, NEW r, NEW s, NEW outcome, SetConfig(c, r, s, outcome)
    PROVE  AppliedInv'
<1>. DEFINE new == [version |-> config[c].version + 1, device |-> r, setting |-> s]
            next == [config EXCEPT ![c] = new]
            now == [child |-> c, config |-> new]
<1>1. /\ configFile' \in {configFile, [config |-> next, applied |-> applied]}
      /\ \/ /\ config' = next /\ deviceToChild' = Routed(c, r)
            /\ published' = published \cup {now}
         \/ UNCHANGED <<config, deviceToChild, published>>
      /\ UNCHANGED <<applied, dev>>
  BY DEF SetConfig, Written, NextVersion
<1>2. now.child = c /\ now.config.device = r
  OBVIOUS
<1>3. config = [x \in Children |-> config[x]] /\ \A x \in Children : config[x].version \in Nat
  BY DEF AppliedInv, WithinDesired
<1>4. new.version = config[c].version + 1
  OBVIOUS
<1>. HIDE DEF new, now
<1>5. /\ next = [x \in Children |-> next[x]] /\ next[c] = new
      /\ \A x \in Children \ {c} : next[x] = config[x]
  BY <1>3
<1>. HIDE DEF next
<1>6. \A x \in Children : next[x].version \in Nat /\ config[x].version <= next[x].version
  <2>. SUFFICES ASSUME NEW x \in Children
                PROVE  next[x].version \in Nat /\ config[x].version <= next[x].version
    OBVIOUS
  <2>1. config[x].version \in Nat
    BY <1>3
  <2>2. CASE x = c
    BY <2>1, <2>2, <1>4, <1>5
  <2>3. CASE x # c
    BY <2>1, <2>3, <1>5
  <2>. QED
    BY <2>2, <2>3
<1>7. published \subseteq published'
  BY <1>1
<1>8. /\ applied \in [Devices -> Nat]
      /\ \A d \in Devices : applied[d] > 0 =>
            \E x \in Children : Named(x, d)' /\ applied[d] <= next[x].version
  BY <1>5, <1>6, <1>7, WithinStays DEF AppliedInv
<1>9. /\ applied \in [Devices -> Nat]
      /\ \A d \in Devices : applied[d] > 0 =>
            \E x \in Children : Named(x, d)' /\ applied[d] <= config[x].version
  <2>1. \A x \in Children : config[x].version \in Nat /\ config[x].version <= config[x].version
    BY <1>3
  <2>. QED
    BY <1>3, <1>7, <2>1, WithinStays DEF AppliedInv
<1>10. WithinDesired(config, applied)'
  BY <1>1, <1>3, <1>5, <1>6, <1>8, <1>9 DEF WithinDesired
<1>11. WithinDesired(configFile.config, configFile.applied)'
  <2>1. CASE configFile' = configFile
    <3>. DEFINE fc == configFile.config
                fa == configFile.applied
    <3>1. WithinDesired(fc, fa)
      BY DEF AppliedInv
    <3>2. fc = [x \in Children |-> fc[x]] /\ \A x \in Children : fc[x].version \in Nat
      BY <3>1 DEF WithinDesired
    <3>. HIDE DEF fc, fa
    <3>3. \A x \in Children : fc[x].version \in Nat /\ fc[x].version <= fc[x].version
      BY <3>2
    <3>4. /\ fa \in [Devices -> Nat]
          /\ \A d \in Devices : fa[d] > 0 =>
                \E x \in Children : Named(x, d)' /\ fa[d] <= fc[x].version
      BY <1>7, <3>1, <3>2, <3>3, WithinStays
    <3>5. configFile'.config = fc /\ configFile'.applied = fa
      BY <2>1 DEF fc, fa
    <3>. QED
      BY <3>2, <3>4, <3>5 DEF WithinDesired
  <2>2. CASE configFile' = [config |-> next, applied |-> applied]
    <3>1. configFile'.config = next /\ configFile'.applied = applied
      BY <2>2
    <3>. QED
      BY <1>5, <1>6, <1>8, <3>1 DEF WithinDesired
  <2>. QED
    BY <1>1, <2>1, <2>2
<1>12. RoutedAsAsked'
  <2>1. ASSUME NEW d \in Devices, deviceToChild[d] # NoChild
        PROVE  deviceToChild[d] \in Children
               /\ \E p \in published' : p.child = deviceToChild[d] /\ p.config.device = d
    BY <1>7, <2>1 DEF AppliedInv, RoutedAsAsked, Named
  <2>2. CASE UNCHANGED deviceToChild
    BY <2>1, <2>2 DEF AppliedInv, RoutedAsAsked, Named
  <2>3. CASE deviceToChild' = Routed(c, r) /\ published' = published \cup {now}
    <3>1. Named(c, r)'
      BY <2>3, <1>2 DEF Named
    <3>2. CASE r = NoDevice
      BY <2>1, <2>3, <3>2 DEF AppliedInv, RoutedAsAsked, Routed, Named
    <3>3. CASE r # NoDevice
      BY <2>1, <2>3, <3>1, <3>3 DEF RoutedAsAsked, Routed, Named
    <3>. QED
      BY <3>2, <3>3
  <2>. QED
    BY <1>1, <2>2, <2>3
<1>13. DeviceVersions'
  BY <1>1 DEF AppliedInv, DeviceVersions
<1>. QED
  BY <1>10, <1>11, <1>12, <1>13 DEF AppliedInv

\* with_state_dir: the index is rebuilt from the rows of the file.
LEMMA RestartKeepsApplied ==
    ASSUME AppliedInv, ControlRestart
    PROVE  AppliedInv'
<1>. DEFINE fc == configFile.config
            fa == configFile.applied
<1>1. /\ config' = fc /\ applied' = fa /\ UNCHANGED <<configFile, dev>>
      /\ published' = published \cup {[child |-> c, config |-> fc[c]] :
                                       c \in {x \in Children : fc[x].version > 0}}
  BY DEF ControlRestart
<1>2. RoutedAsAsked'
  <2>1. PICK pick \in [Devices -> Children \union {NoChild}] :
            /\ \A d \in Devices :
                  IF Claimants(configFile.config, d) = {} THEN pick[d] = NoChild
                  ELSE pick[d] \in Claimants(configFile.config, d)
            /\ deviceToChild' = pick
    BY DEF ControlRestart
  <2>2. ASSUME NEW d \in Devices, pick[d] # NoChild
        PROVE  pick[d] \in Children /\ Named(pick[d], d)'
    <3>1. pick[d] \in Children /\ fc[pick[d]].version > 0 /\ fc[pick[d]].device = d
      BY <2>1, <2>2 DEF Claimants
    <3>2. [child |-> pick[d], config |-> fc[pick[d]]] \in published'
      BY <1>1, <3>1
    <3>. QED
      BY <3>1, <3>2 DEF Named
  <2>. QED
    BY <2>1, <2>2 DEF RoutedAsAsked
<1>3. WithinDesired(fc, fa) /\ published \subseteq published'
  BY <1>1 DEF AppliedInv
<1>4. fc = [x \in Children |-> fc[x]] /\ \A x \in Children : fc[x].version \in Nat
  BY <1>3 DEF WithinDesired
<1>5. configFile'.config = fc /\ configFile'.applied = fa
  BY <1>1
<1>. HIDE DEF fc, fa
<1>6. \A x \in Children : fc[x].version \in Nat /\ fc[x].version <= fc[x].version
  BY <1>4
<1>7. /\ fa \in [Devices -> Nat]
      /\ \A d \in Devices : fa[d] > 0 =>
            \E x \in Children : Named(x, d)' /\ fa[d] <= fc[x].version
  BY <1>3, <1>4, <1>6, WithinStays
<1>8. WithinDesired(config, applied)' /\ WithinDesired(configFile.config, configFile.applied)'
  BY <1>1, <1>4, <1>5, <1>7 DEF WithinDesired
<1>9. DeviceVersions'
  BY <1>1 DEF AppliedInv, DeviceVersions
<1>. QED
  BY <1>2, <1>8, <1>9 DEF AppliedInv

\* The device's own steps: its version is one that the server answered with.
LEMMA DeviceKeepsVersions ==
    ASSUME AppliedInv, NEW d \in Devices,
           \/ dev' = [dev EXCEPT ![d] = PollNow(dev[d], "reported", NoAnswer)]
           \/ PollAnswer(d) \/ PollFails(d) \/ Apply(d)
    PROVE  DeviceVersions'
<1>1. \A x \in Devices : dev[x].version \in Nat /\ dev[x].answer.version \in Nat
  BY DEF AppliedInv, DeviceVersions
<1>2. NoAnswer.version \in Nat
  BY DEF NoAnswer
<1>3. \A x, stage, a : PollNow(x, stage, a).version = x.version /\ PollNow(x, stage, a).answer = a
  BY DEF PollNow
<1>4. \A c, v : v \in Nat => Polled(c, v).version \in Nat /\ Polled(c, v).answer.version \in Nat
  BY <1>2 DEF Polled
<1>5. ASSUME NEW new, dev' = [dev EXCEPT ![d] = new],
             new.version \in Nat, new.answer.version \in Nat
      PROVE  DeviceVersions'
  BY <1>5 DEF AppliedInv, DeviceVersions
<1>6. CASE dev' = [dev EXCEPT ![d] = PollNow(dev[d], "reported", NoAnswer)]
  <2>. DEFINE new == PollNow(dev[d], "reported", NoAnswer)
  <2>1. new.version \in Nat /\ new.answer.version \in Nat
    BY <1>1, <1>2, <1>3
  <2>. QED
    BY <2>1, <1>5, <1>6
<1>7. CASE PollAnswer(d)
  <2>. DEFINE a == [child |-> deviceToChild[d], version |-> config[deviceToChild[d]].version]
  <2>1. dev' = [dev EXCEPT ![d] = PollNow(dev[d], "answered", a)]
    BY <1>7 DEF PollAnswer
  <2>2. a.version \in Nat
    BY <1>7 DEF PollAnswer, AppliedInv, RoutedAsAsked, WithinDesired
  <2>. HIDE DEF a
  <2>. DEFINE new == PollNow(dev[d], "answered", a)
  <2>3. new.version \in Nat /\ new.answer.version \in Nat
    BY <2>2, <1>1, <1>3
  <2>. QED
    BY <2>1, <2>3, <1>5
<1>8. CASE PollFails(d)
  <2>. DEFINE new == Polled(dev[d].child, dev[d].version)
  <2>1. dev' = [dev EXCEPT ![d] = new]
    BY <1>8 DEF PollFails
  <2>2. new.version \in Nat /\ new.answer.version \in Nat
    BY <1>1, <1>4
  <2>. QED
    BY <2>1, <2>2, <1>5
<1>9. CASE Apply(d)
  <2>1. \/ dev' = [dev EXCEPT ![d] = Polled(dev[d].child, dev[d].version)]
        \/ dev' = [dev EXCEPT ![d] = Polled(dev[d].answer.child, dev[d].answer.version)]
    BY <1>9 DEF Apply
  <2>. QED
    BY <2>1, <1>1, <1>4, <1>5
<1>. QED
  BY <1>6, <1>7, <1>8, <1>9

\* Every step keeps reports within what is desired.
LEMMA AppliedStep == AppliedInv /\ [ControlNext]_controlVars => AppliedInv'
<1>. SUFFICES ASSUME AppliedInv, [ControlNext]_controlVars PROVE AppliedInv'
  OBVIOUS
<1>1. ASSUME NEW r \in Requests, NEW s \in Settings, NEW o \in WriteOutcomes,
             SetConfig(r[1], r[2], s, o)
      PROVE  AppliedInv'
  BY <1>1, SetConfigKeepsApplied, ChildControlAssumption
<1>2. ASSUME NEW d \in Devices, NEW k \in ReportSlack, NEW o \in WriteOutcomes, PollReport(d, k, o)
      PROVE  AppliedInv'
  <2>1. dev[d].version + k \in Nat
    BY ChildControlAssumption DEF AppliedInv, DeviceVersions
  <2>2. DeviceVersions'
    BY <1>2, DeviceKeepsVersions DEF PollReport
  <2>. QED
    BY <1>2, <2>1, <2>2, ReportKeepsApplied DEF PollReport
<1>3. ASSUME NEW d \in Devices, NEW o \in WriteOutcomes, StreamReport(d, o) PROVE AppliedInv'
  <2>1. dev[d].version \in Nat /\ DeviceVersions'
    BY <1>3 DEF AppliedInv, DeviceVersions, StreamReport
  <2>. QED
    BY <1>3, <2>1, ReportKeepsApplied DEF StreamReport
<1>4. ASSUME NEW d \in Devices, PollAnswer(d) \/ PollFails(d) \/ Apply(d) PROVE AppliedInv'
  <2>1. DeviceVersions'
    BY <1>4, DeviceKeepsVersions
  <2>2. UNCHANGED <<config, applied, configFile, deviceToChild, published>>
    BY <1>4 DEF PollAnswer, PollFails, Apply, server
  <2>. QED
    BY <2>1, <2>2 DEF AppliedInv, WithinDesired, RoutedAsAsked, Named
<1>5. CASE ControlRestart
  BY <1>5, RestartKeepsApplied
<1>6. ASSUME UNCHANGED <<server, dev, published>> PROVE AppliedInv'
  BY <1>6 DEF AppliedInv, WithinDesired, RoutedAsAsked, Named, DeviceVersions, server
<1>. QED
  BY <1>1, <1>2, <1>3, <1>4, <1>5, <1>6 DEF ControlNext, controlVars, StreamSubscribe,
     StreamLooks, StreamDrop

\* record_applied_report, "applied_report_cannot_exceed_desired_version": what a
\* device is said to have applied, a child it was given to has reached, whatever
\* devices report, to whichever children guardians give them, whatever writes fail
\* and restarts bring back.
THEOREM AppliedNeverExceeds == ControlSpec => []AppliedWasDesired
<1>1. ControlInit => AppliedInv
  <2>. SUFFICES ASSUME ControlInit PROVE AppliedInv
    OBVIOUS
  <2>1. \A c \in Children : config[c].version = 0
    BY DEF ControlInit, NoConfig
  <2>2. WithinDesired(config, applied)
    BY <2>1 DEF ControlInit, WithinDesired
  <2>3. configFile.config = config /\ configFile.applied = applied
    BY DEF ControlInit
  <2>4. \A d \in Devices : dev[d].version = 0 /\ dev[d].answer.version = 0
    BY DEF ControlInit, Polled, NoAnswer
  <2>5. RoutedAsAsked /\ DeviceVersions
    BY <2>4 DEF ControlInit, RoutedAsAsked, DeviceVersions
  <2>. QED
    BY <2>2, <2>3, <2>5 DEF AppliedInv
<1>2. AppliedInv => AppliedWasDesired
  BY DEF AppliedInv, WithinDesired, AppliedWasDesired
<1>3. AppliedInv /\ [ControlNext]_controlVars => AppliedInv'
  BY AppliedStep
<1>. QED
  BY <1>1, <1>2, <1>3, PTL DEF ControlSpec

----------------------------------------------------------------------------
(* The VPN service of the child's device *)

ChildCommand == {"start", "reconfigure", "stop"} \cup Leaving
Stage == {"off", "teardown", "close", "choose", "prepare", "tunnel", "start", "check",
          "finish", "fail"}
ServiceObject ==
    [tun: BOOLEAN, handle: BOOLEAN, path: Modes \cup {"none", "dead"},
     polling: BOOLEAN, configPolling: BOOLEAN, establishing: BOOLEAN, reconfiguring: BOOLEAN,
     thread: Stage, mode: Modes \cup {"none"}, watchers: Nat, stoppers: Nat,
     asked: BOOLEAN]
Companion == [running: BOOLEAN, ready: BOOLEAN, active: Modes \cup {"none"}]
GoalHeld == [version: Nat, mode: Modes \cup {"none"}, on: BOOLEAN]
SyncThread == [stage: {"off", "idle", "answered", "fetched", "running", "apply"}, of: Nat,
               want: GoalHeld]
Preferences == [desired: Modes \cup {"none"}, version: Nat, mode: Modes \cup {"none"}]
GoalSet == [version: Nat, mode: Modes, on: BOOLEAN]

SharedTypes ==
    /\ goal \in GoalSet /\ prefs \in Preferences
    /\ syncing \in [Syncs -> SyncThread]
ObjectTypes ==
    /\ shown \in Companion /\ service \in [Objects -> ServiceObject] /\ dataDown \in BOOLEAN
    /\ created \in Nat /\ created <= Starts /\ current \in Nat /\ current <= created

\* The main thread is in onDestroy.
Going == commands # <<>> /\ Head(commands) \in Leaving

InboxKnown ==
    /\ commands \in Seq(ChildCommand)
    /\ \A i \in 1..Len(commands) : commands[i] \in Leaving => i = 1

GoingHidden == Going => current # 0 /\ ~shown.running

\* Objects yet to be created are as new.
Untouched == \A o \in Objects : o > created => service[o] = NewObject

Serving == current # 0 /\ ~Going

\* The object Android has started: its thread runs under the flag, has a tunnel when it
\* needs one, and leaves no handle without a data path.
Tended(s) ==
    /\ s.thread # "off" => s.establishing
    /\ s.thread \in {"start", "check", "finish"} => s.tun
    /\ s.thread \in {"check", "finish", "off"} /\ s.handle => s.path # "none"

\* Left behind by a destroyed object: nobody will take this handle away.
LeftHandle(s) == s.thread \in {"off", "finish"} /\ s.handle
Backed(s) == LeftHandle(s) /\ s.tun

\* The mode that is shown, while no object but the first has been there.
FirstMode(s, active) ==
    /\ s.thread \in {"prepare", "tunnel", "start", "check", "finish"} => s.mode = active
    /\ s.thread \in {"check", "finish", "off"} /\ s.handle => s.path \in {active, "dead"}

ServedInv == Serving => Tended(service[current])
ReadyInv ==
    Serving /\ shown.ready =>
        \/ Backed(service[current])
        \/ \E o \in Objects : o # current /\ LeftHandle(service[o])
ModeInv == Serving /\ created = 1 => FirstMode(service[current], shown.active)

ChildInv == /\ SharedTypes /\ ObjectTypes /\ InboxKnown /\ GoingHidden
            /\ Untouched /\ ServedInv /\ ReadyInv /\ ModeInv

LEMMA InboxPost ==
    ASSUME InboxKnown, NEW c \in ChildCommand \ Leaving, Post(c)
    PROVE  InboxKnown' /\ (Going' <=> Going)
<1>1. /\ commands' = Append(commands, c) /\ commands \in Seq(ChildCommand)
      /\ \A i \in 1..Len(commands) : commands[i] \in Leaving => i = 1
  BY DEF Post, InboxKnown
<1>2. /\ commands' \in Seq(ChildCommand) /\ Len(commands') = Len(commands) + 1
      /\ \A i \in 1..Len(commands) : commands'[i] = commands[i]
      /\ commands'[Len(commands) + 1] = c /\ Len(commands) \in Nat
  BY <1>1
<1>3. \A i \in 1..Len(commands') : commands'[i] \in Leaving => i = 1
  BY <1>1, <1>2
<1>4. commands' # <<>>
  BY <1>2
<1>5. CASE commands = <<>>
  <2>1. Head(commands') = c
    BY <1>1, <1>5
  <2>. QED
    BY <1>2, <1>3, <1>5, <2>1 DEF Going, InboxKnown
<1>6. CASE commands # <<>>
  <2>1. Head(commands') = Head(commands)
    BY <1>1, <1>6
  <2>. QED
    BY <1>2, <1>3, <1>4, <1>6, <2>1 DEF Going, InboxKnown
<1>. QED
  BY <1>5, <1>6

LEMMA InboxTail ==
    ASSUME InboxKnown, commands # <<>>
    PROVE  LET rest == Tail(commands)
           IN /\ rest \in Seq(ChildCommand)
              /\ \A i \in 1..Len(rest) : rest[i] \notin Leaving
              /\ rest # <<>> => Head(rest) \notin Leaving
<1>. DEFINE rest == Tail(commands)
<1>1. /\ commands \in Seq(ChildCommand)
      /\ \A i \in 1..Len(commands) : commands[i] \in Leaving => i = 1
  BY DEF InboxKnown
<1>2. /\ rest \in Seq(ChildCommand) /\ Len(rest) = Len(commands) - 1
      /\ \A i \in 1..Len(rest) : rest[i] = commands[i + 1]
  BY <1>1
<1>3. Len(commands) \in Nat /\ Len(rest) \in Nat
  BY <1>1, <1>2
<1>4. \A i \in 1..Len(rest) : rest[i] \notin Leaving
  BY <1>1, <1>2, <1>3
<1>5. ASSUME rest # <<>> PROVE Head(rest) \notin Leaving
  BY <1>2, <1>3, <1>4, <1>5
<1>. QED
  BY <1>2, <1>4, <1>5

\* A command is taken, and what waits has no onDestroy in it.
LEMMA InboxTaken ==
    ASSUME InboxKnown, commands # <<>>, commands' = Tail(commands)
    PROVE  InboxKnown' /\ ~Going'
  BY InboxTail DEF InboxKnown, Going

\* An onDestroy begins, in place of the stop at the head or on an empty inbox.
LEMMA InboxDestroys ==
    ASSUME InboxKnown, NEW c \in Leaving,
           \/ commands # <<>> /\ commands' = <<c>> \o Tail(commands)
           \/ commands = <<>> /\ commands' = <<c>>
    PROVE  InboxKnown' /\ Going'
<1>1. c \in ChildCommand /\ <<c>> \in Seq(ChildCommand) /\ Len(<<c>>) = 1
  BY DEF ChildCommand
<1>2. PICK rest \in Seq(ChildCommand) :
        /\ commands' = <<c>> \o rest
        /\ \A i \in 1..Len(rest) : rest[i] \notin Leaving
  <2>1. CASE commands # <<>> /\ commands' = <<c>> \o Tail(commands)
    BY <2>1, InboxTail
  <2>2. CASE commands = <<>> /\ commands' = <<c>>
    <3>1. /\ << >> \in Seq(ChildCommand) /\ <<c>> \o << >> = <<c>>
          /\ \A i \in 1..Len(<< >>) : FALSE
      BY <1>1
    <3>. QED
      BY <2>2, <3>1
  <2>. QED
    BY <2>1, <2>2
<1>3. /\ commands' \in Seq(ChildCommand) /\ Len(commands') = 1 + Len(rest)
      /\ \A i \in 1..Len(commands') : i > 1 => commands'[i] = rest[i - 1]
  BY <1>1, <1>2
<1>4. Len(rest) \in Nat
  BY <1>2
<1>5. InboxKnown'
  BY <1>2, <1>3, <1>4 DEF InboxKnown
<1>6. (<<c>> \o rest)[1] = c /\ <<c>> \o rest # <<>>
  BY <1>1
<1>. QED
  BY <1>2, <1>5, <1>6 DEF Going

\* stopSelf.
LEMMA StopSelfPosts ==
    ASSUME NEW o, StopSelf(o)
    PROVE  UNCHANGED commands \/ \E c \in ChildCommand \ Leaving : Post(c)
  BY DEF StopSelf, ChildCommand, Leaving

LEMMA InboxStays ==
    ASSUME InboxKnown, UNCHANGED commands \/ \E c \in ChildCommand \ Leaving : Post(c)
    PROVE  InboxKnown' /\ (Going' <=> Going)
<1>1. CASE UNCHANGED commands
  BY <1>1 DEF InboxKnown, Going
<1>2. CASE \E c \in ChildCommand \ Leaving : Post(c)
  BY <1>2, InboxPost
<1>. QED
  BY <1>1, <1>2

LEMMA ObjectExists ==
    ASSUME ChildInv, current # 0
    PROVE  current \in Objects
  BY ChildVpnAssumption DEF ChildInv, ObjectTypes, Objects

LEMMA BusyExists ==
    ASSUME ChildInv, NEW o \in Objects,
           \/ service[o].thread # "off" \/ service[o].path # "none"
           \/ service[o].watchers > 0 \/ service[o].stoppers > 0
    PROVE  o <= created
<1>1. service[o] # NewObject
  BY DEF NewObject
<1>2. ~(o > created)
  BY <1>1 DEF ChildInv, Untouched
<1>. QED
  BY <1>2 DEF ChildInv, ObjectTypes, Objects

\* One object changes, and what is shown with it.
LEMMA ObjectMoves ==
    ASSUME ChildInv, NEW o \in Objects, o <= created, NEW s \in ServiceObject,
           service' = [service EXCEPT ![o] = s],
           shown' \in Companion, shown'.running => shown.running, dataDown' \in BOOLEAN,
           syncing' \in [Syncs -> SyncThread],
           UNCHANGED commands \/ \E c \in ChildCommand \ Leaving : Post(c),
           UNCHANGED <<goal, current, created, prefs>>,
           Tended(service[o]) => Tended(s),
           shown'.ready =>
              \/ Tended(service[o]) /\ o = current => Backed(s)
              \/ shown.ready /\ (Backed(service[o]) => Backed(s)),
           shown'.ready =>
              \/ LeftHandle(s)
              \/ shown.ready /\ (LeftHandle(service[o]) => LeftHandle(s)),
           Tended(service[o]) /\ FirstMode(service[o], shown.active) => FirstMode(s, shown'.active)
    PROVE  ChildInv'
<1>1. InboxKnown' /\ (Going' <=> Going)
  BY InboxStays DEF ChildInv
<1>2. /\ service' \in [Objects -> ServiceObject] /\ service'[o] = s
      /\ \A p \in Objects : p # o => service'[p] = service[p]
  BY DEF ChildInv, ObjectTypes
<1>3. Serving' <=> Serving
  BY <1>1, Zenon DEF Serving
<1>4. SharedTypes' /\ ObjectTypes' /\ GoingHidden'
  BY <1>1, <1>2 DEF ChildInv, SharedTypes, ObjectTypes, GoingHidden
<1>5. Untouched'
  <2>. SUFFICES ASSUME NEW p \in Objects, p > created PROVE service'[p] = NewObject
    BY DEF Untouched
  <2>1. p # o
    BY DEF ChildInv, ObjectTypes, Objects
  <2>. QED
    BY <1>2, <2>1 DEF ChildInv, Untouched
<1>6. ASSUME Serving
      PROVE  /\ current \in Objects /\ Tended(service[current])
             /\ created = 1 => FirstMode(service[current], shown.active)
  BY <1>6, ObjectExists DEF ChildInv, ServedInv, ModeInv, Serving
<1>7. ServedInv'
  <2>. SUFFICES ASSUME Serving PROVE Tended(service'[current])
    BY <1>3, Zenon DEF ServedInv
  <2>1. CASE current = o
    BY <1>2, <1>6, <2>1, Zenon
  <2>2. CASE current # o
    BY <1>2, <1>6, <2>2, Zenon
  <2>. QED
    BY <2>1, <2>2
<1>8. ModeInv'
  <2>. SUFFICES ASSUME Serving, created = 1 PROVE FirstMode(service'[current], shown'.active)
    BY <1>3, Zenon DEF ModeInv
  <2>1. current = o
    BY <1>6 DEF ChildInv, ObjectTypes, Objects
  <2>. QED
    BY <1>2, <1>6, <2>1, Zenon
<1>9. ReadyInv'
  <2>. SUFFICES ASSUME Serving, shown'.ready
                PROVE  \/ Backed(service'[current])
                       \/ \E p \in Objects : p # current /\ LeftHandle(service'[p])
    BY <1>3, Zenon DEF ReadyInv
  <2>1. ASSUME shown.ready
        PROVE  \/ Backed(service[current])
               \/ \E p \in Objects : p # current /\ LeftHandle(service[p])
    BY <2>1, Zenon DEF ChildInv, ReadyInv
  <2>2. CASE current = o
    <3>1. CASE Tended(service[o]) /\ o = current => Backed(s)
      BY <1>2, <1>6, <2>2, <3>1, Zenon
    <3>2. CASE shown.ready /\ (Backed(service[o]) => Backed(s))
      BY <1>2, <2>1, <2>2, <3>2, Zenon
    <3>. QED
      BY <3>1, <3>2
  <2>3. CASE current # o
    <3>1. CASE LeftHandle(s)
      BY <1>2, <2>3, <3>1, Zenon
    <3>2. CASE shown.ready /\ (LeftHandle(service[o]) => LeftHandle(s))
      <4>1. CASE Backed(service[current])
        BY <1>2, <1>6, <2>3, <4>1, Zenon
      <4>2. CASE \E p \in Objects : p # current /\ LeftHandle(service[p])
        BY <1>2, <3>2, <4>2, Zenon
      <4>. QED
        BY <2>1, <3>2, <4>1, <4>2
    <3>. QED
      BY <3>1, <3>2
  <2>. QED
    BY <2>2, <2>3
<1>. QED
  BY <1>1, <1>4, <1>5, <1>7, <1>8, <1>9 DEF ChildInv

\* The steps of the start thread, by what they make of the object.
LEMMA StoppingFields ==
    ASSUME NEW s \in ServiceObject, NEW b \in BOOLEAN
    PROVE  /\ Stopping(s, b) \in ServiceObject
           /\ Stopping(s, b).thread = s.thread /\ Stopping(s, b).establishing = s.establishing
           /\ Stopping(s, b).tun = s.tun /\ Stopping(s, b).handle = s.handle
<1>. DEFINE p == IF s.handle THEN "none" ELSE s.path
            q == s.configPolling /\ ~b
<1>1. p \in Modes \cup {"none", "dead"} /\ q \in BOOLEAN
  BY DEF ServiceObject
<1>2. Stopping(s, b) = [s EXCEPT !.polling = FALSE, !.configPolling = q, !.path = p]
  BY Zenon DEF Stopping
<1>. HIDE DEF p, q
<1>. QED
  BY <1>1, <1>2 DEF ServiceObject

LEMMA StoppedFields ==
    ASSUME NEW s \in ServiceObject, NEW had \in BOOLEAN
    PROVE  /\ Stopped(s, had) \in ServiceObject /\ (had => ~Stopped(s, had).handle)
           /\ Stopped(s, had).thread = s.thread
           /\ Stopped(s, had).establishing = s.establishing
<1>. DEFINE h == s.handle /\ ~had
<1>1. h \in BOOLEAN /\ (had => ~h)
  BY DEF ServiceObject
<1>2. Stopped(s, had) = [s EXCEPT !.handle = h, !.tun = FALSE]
  BY Zenon DEF Stopped
<1>. HIDE DEF h
<1>. QED
  BY <1>1, <1>2 DEF ServiceObject

LEMMA StageFields ==
    ASSUME NEW s \in ServiceObject, NEW stage \in Stage
    PROVE  LET t == [s EXCEPT !.thread = stage]
           IN /\ t \in ServiceObject /\ t.thread = stage /\ t.establishing = s.establishing
              /\ t.tun = s.tun /\ t.handle = s.handle /\ t.path = s.path /\ t.mode = s.mode
  BY DEF ServiceObject

LEMMA FinallyFields ==
    ASSUME NEW s \in ServiceObject
    PROVE  /\ Finally(s) \in ServiceObject /\ Finally(s).thread = "off"
           /\ Finally(s).tun = s.tun /\ Finally(s).handle = s.handle /\ Finally(s).path = s.path
  BY DEF Finally, ServiceObject, Stage

\* ready and active can be set alone.
LEMMA ShownFields ==
    ASSUME shown \in Companion, NEW b \in BOOLEAN, NEW m \in Modes \cup {"none"}
    PROVE  /\ [shown EXCEPT !.ready = b] \in Companion /\ [shown EXCEPT !.ready = b].ready = b
           /\ [shown EXCEPT !.ready = b].running = shown.running
           /\ [shown EXCEPT !.ready = b].active = shown.active
           /\ [shown EXCEPT !.active = m] \in Companion /\ [shown EXCEPT !.active = m].active = m
           /\ [shown EXCEPT !.active = m].running = shown.running
           /\ [shown EXCEPT !.active = m].ready = shown.ready
           /\ [shown EXCEPT !.running = b, !.active = m] \in Companion
           /\ [shown EXCEPT !.running = b, !.active = m].running = b
           /\ [shown EXCEPT !.running = b, !.active = m].ready = shown.ready
           /\ [shown EXCEPT !.running = b, !.active = m].active = m
           /\ [shown EXCEPT !.running = b, !.ready = FALSE] \in Companion
           /\ ~[shown EXCEPT !.running = b, !.ready = FALSE].ready
           /\ [shown EXCEPT !.running = b, !.ready = FALSE].running = b
  BY DEF Companion

LEMMA ShownTyped ==
    ASSUME ChildInv
    PROVE  /\ shown \in Companion /\ dataDown \in BOOLEAN /\ syncing \in [Syncs -> SyncThread]
           /\ prefs \in Preferences /\ \A o \in Objects : service[o] \in ServiceObject
           /\ service \in [Objects -> ServiceObject]
  BY DEF ChildInv, ObjectTypes, SharedTypes

LEMMA TeardownKeeps ==
    ASSUME ChildInv, NEW o \in Objects, TeardownBegins(o) \/ TeardownEnds(o)
    PROVE  ChildInv'
<1>. DEFINE old == service[o]
<1>0. old \in ServiceObject /\ shown \in Companion
  BY ShownTyped
<1>1. CASE TeardownBegins(o)
  <2>. DEFINE t == Stopping(old, FALSE)
              s == [t EXCEPT !.thread = "close"]
  <2>1. /\ old.thread = "teardown" /\ service' = [service EXCEPT ![o] = s]
        /\ shown' = [shown EXCEPT !.ready = FALSE]
        /\ UNCHANGED <<goal, current, created, commands, syncing, prefs, dataDown>>
    BY <1>1, Zenon DEF TeardownBegins, Thread
  <2>2. t \in ServiceObject /\ t.establishing = old.establishing
    BY <1>0, StoppingFields
  <2>. HIDE DEF t
  <2>3. s \in ServiceObject /\ s.thread = "close" /\ s.establishing = old.establishing
    BY <2>2, StageFields DEF Stage
  <2>. HIDE DEF s
  <2>4. shown' \in Companion /\ ~shown'.ready /\ shown'.running = shown.running
    BY <1>0, <2>1, ShownFields
  <2>5. o <= created
    BY <2>1, BusyExists
  <2>6. /\ Tended(old) => Tended(s)
        /\ FirstMode(s, shown'.active)
    BY <2>1, <2>3 DEF Tended, FirstMode
  <2>. QED
    BY <2>1, <2>3, <2>4, <2>5, <2>6, ShownTyped, ObjectMoves
<1>2. CASE TeardownEnds(o)
  <2>. DEFINE t == Stopped(old, TRUE)
              s == [t EXCEPT !.thread = "choose"]
  <2>1. /\ old.thread = "close" /\ service' = [service EXCEPT ![o] = s]
        /\ shown' = [shown EXCEPT !.active = "none"]
        /\ UNCHANGED <<goal, current, created, commands, syncing, prefs, dataDown>>
    BY <1>2, Zenon DEF TeardownEnds, Thread
  <2>2. t \in ServiceObject /\ t.establishing = old.establishing
    BY <1>0, StoppedFields
  <2>. HIDE DEF t
  <2>3. s \in ServiceObject /\ s.thread = "choose" /\ s.establishing = old.establishing
    BY <2>2, StageFields DEF Stage
  <2>. HIDE DEF s
  <2>4. shown' \in Companion /\ shown'.ready = shown.ready /\ shown'.running = shown.running
    BY <1>0, <2>1, ShownFields
  <2>5. o <= created
    BY <2>1, BusyExists
  <2>6. /\ Tended(old) => Tended(s)
        /\ FirstMode(s, shown'.active)
        /\ ~Backed(old) /\ ~LeftHandle(old)
    BY <2>1, <2>3 DEF Tended, FirstMode, Backed, LeftHandle
  <2>. QED
    BY <2>1, <2>3, <2>4, <2>5, <2>6, ShownTyped, ObjectMoves
<1>. QED
  BY <1>1, <1>2

\* The thread goes on to its next stage, or through failStart.
LEMMA FailsKeeps ==
    ASSUME ChildInv, NEW o \in Objects, service[o].thread # "off", Fails(o),
           UNCHANGED <<goal, current, created, commands, syncing, prefs, dataDown>>
    PROVE  ChildInv'
<1>. DEFINE old == service[o]
            t == Stopping(old, TRUE)
            s == [t EXCEPT !.thread = "fail"]
<1>0. old \in ServiceObject /\ shown \in Companion
  BY ShownTyped
<1>1. /\ service' = [service EXCEPT ![o] = s] /\ shown' = [shown EXCEPT !.ready = FALSE]
  BY Zenon DEF Fails
<1>2. t \in ServiceObject /\ t.establishing = old.establishing
  BY <1>0, StoppingFields
<1>. HIDE DEF t
<1>3. s \in ServiceObject /\ s.thread = "fail" /\ s.establishing = old.establishing
  BY <1>2, StageFields DEF Stage
<1>. HIDE DEF s
<1>4. shown' \in Companion /\ ~shown'.ready /\ shown'.running = shown.running
  BY <1>0, <1>1, ShownFields
<1>5. o <= created
  BY BusyExists
<1>6. /\ Tended(old) => Tended(s)
      /\ FirstMode(s, shown'.active)
  BY <1>3 DEF Tended, FirstMode
<1>. QED
  BY <1>1, <1>3, <1>4, <1>5, <1>6, ShownTyped, ObjectMoves

LEMMA ChoosesKeeps ==
    ASSUME ChildInv, NEW o \in Objects, Chooses(o) PROVE ChildInv'
<1>. DEFINE old == service[o]
            m == prefs.desired
            s == [old EXCEPT !.mode = m, !.thread = "prepare"]
<1>0. old \in ServiceObject /\ shown \in Companion /\ m \in Modes \cup {"none"}
  BY ShownTyped DEF Preferences
<1>1. /\ old.thread = "choose" /\ service' = [service EXCEPT ![o] = s]
      /\ shown' = [shown EXCEPT !.active = m]
      /\ UNCHANGED <<goal, current, created, commands, syncing, prefs, dataDown>>
  BY Zenon DEF Chooses, Thread
<1>. HIDE DEF m, old
<1>2. s \in ServiceObject /\ s.thread = "prepare" /\ s.mode = m
      /\ s.establishing = old.establishing
  BY <1>0 DEF ServiceObject, Stage
<1>. HIDE DEF s
<1>3. /\ shown' \in Companion /\ shown'.ready = shown.ready /\ shown'.running = shown.running
      /\ shown'.active = m
  BY <1>0, <1>1, ShownFields
<1>4. o <= created
  BY <1>1, BusyExists DEF old
<1>5. /\ Tended(old) => Tended(s)
      /\ FirstMode(s, shown'.active)
      /\ ~Backed(old) /\ ~LeftHandle(old)
  BY <1>1, <1>2, <1>3 DEF Tended, FirstMode, Backed, LeftHandle
<1>. QED
  BY <1>1, <1>2, <1>3, <1>4, <1>5, ShownTyped, ObjectMoves DEF old

LEMMA PreparesKeeps ==
    ASSUME ChildInv, NEW o \in Objects, NEW ok \in BOOLEAN,
           PrepareLocalMode(o, ok) \/ PrepareRemoteMode(o, ok)
    PROVE  ChildInv'
<1>1. service[o].thread = "prepare" /\ Prepares(o, ok)
  BY DEF PrepareLocalMode, PrepareRemoteMode, Thread
<1>2. CASE ok
  <2>. DEFINE old == service[o]
              s == [old EXCEPT !.thread = "tunnel"]
  <2>0. old \in ServiceObject
    BY ShownTyped
  <2>1. /\ service' = [service EXCEPT ![o] = s]
        /\ UNCHANGED <<goal, shown, current, created, commands, syncing, prefs, dataDown>>
    BY <1>1, <1>2, Zenon DEF Prepares, Goes
  <2>2. /\ s \in ServiceObject /\ s.thread = "tunnel" /\ s.establishing = old.establishing
        /\ s.mode = old.mode
    BY <2>0, StageFields DEF Stage
  <2>. HIDE DEF s
  <2>3. o <= created
    BY <1>1, BusyExists
  <2>4. /\ Tended(old) => Tended(s)
        /\ FirstMode(old, shown.active) => FirstMode(s, shown.active)
        /\ ~Backed(old) /\ ~LeftHandle(old)
    BY <1>1, <2>2 DEF Tended, FirstMode, Backed, LeftHandle
  <2>. QED
    BY <2>1, <2>2, <2>3, <2>4, ShownTyped, ObjectMoves
<1>3. CASE ~ok
  BY <1>1, <1>3, FailsKeeps DEF Prepares
<1>. QED
  BY <1>2, <1>3

LEMMA TunnelsKeeps ==
    ASSUME ChildInv, NEW o \in Objects, NEW ok \in BOOLEAN, Tunnels(o, ok)
    PROVE  ChildInv'
<1>1. service[o].thread = "tunnel"
  BY DEF Tunnels, Thread
<1>2. CASE ok
  <2>. DEFINE old == service[o]
              s == [old EXCEPT !.tun = TRUE, !.thread = "start"]
  <2>0. old \in ServiceObject
    BY ShownTyped
  <2>1. /\ service' = [service EXCEPT ![o] = s]
        /\ UNCHANGED <<goal, shown, current, created, commands, syncing, prefs, dataDown>>
    BY <1>2, Zenon DEF Tunnels
  <2>. HIDE DEF old
  <2>2. /\ s \in ServiceObject /\ s.thread = "start" /\ s.establishing = old.establishing
        /\ s.mode = old.mode /\ s.tun
    BY <2>0 DEF Stage, ServiceObject
  <2>. HIDE DEF s
  <2>3. o <= created
    BY <1>1, BusyExists
  <2>4. /\ Tended(old) => Tended(s)
        /\ FirstMode(old, shown.active) => FirstMode(s, shown.active)
        /\ ~Backed(old) /\ ~LeftHandle(old)
    BY <1>1, <2>2 DEF Tended, FirstMode, Backed, LeftHandle, old
  <2>. QED
    BY <2>1, <2>2, <2>3, <2>4, ShownTyped, ObjectMoves DEF old
<1>3. CASE ~ok
  BY <1>1, <1>3, FailsKeeps DEF Tunnels
<1>. QED
  BY <1>2, <1>3

LEMMA NativeStartKeeps ==
    ASSUME ChildInv, NEW o \in Objects, NEW mode \in Modes,
           NEW outcome \in {mode, "dead", "refused"}, NativeStart(o, mode, outcome)
    PROVE  ChildInv'
<1>. DEFINE old == service[o]
            h == outcome # "refused"
            p == IF outcome = "refused" THEN old.path ELSE outcome
            s == [old EXCEPT !.handle = h, !.thread = "check", !.path = p]
<1>0. old \in ServiceObject /\ dataDown \in BOOLEAN
  BY ShownTyped
<1>1. /\ old.thread = "start" /\ old.mode = mode /\ service' = [service EXCEPT ![o] = s]
      /\ UNCHANGED <<goal, shown, current, created, commands, syncing, prefs>>
  BY Zenon DEF NativeStart, Thread
<1>2. dataDown' \in BOOLEAN
  BY <1>0 DEF NativeStart
<1>3. /\ h \in BOOLEAN /\ p \in Modes \cup {"none", "dead"}
      /\ h => p \in {mode, "dead"} /\ p # "none"
  BY <1>0 DEF ServiceObject, Modes
<1>. HIDE DEF old, h, p
<1>4. /\ s \in ServiceObject /\ s.thread = "check" /\ s.establishing = old.establishing
      /\ s.mode = old.mode /\ s.tun = old.tun /\ s.handle = h /\ s.path = p
  BY <1>0, <1>3 DEF Stage, ServiceObject
<1>. HIDE DEF s
<1>5. o <= created
  BY <1>1, BusyExists DEF old
<1>6. /\ Tended(old) => Tended(s)
      /\ FirstMode(old, shown.active) => FirstMode(s, shown.active)
      /\ ~Backed(old) /\ ~LeftHandle(old)
  BY <1>1, <1>3, <1>4 DEF Tended, FirstMode, Backed, LeftHandle
<1>. QED
  BY <1>1, <1>2, <1>4, <1>5, <1>6, ShownTyped, ObjectMoves DEF old

LEMMA ChecksKeeps ==
    ASSUME ChildInv, NEW o \in Objects, Checks(o) PROVE ChildInv'
<1>1. service[o].thread = "check"
  BY DEF Checks, Thread
<1>2. CASE ~Unusable(o)
  <2>. DEFINE old == service[o]
              s == [old EXCEPT !.thread = "finish"]
  <2>0. old \in ServiceObject /\ shown \in Companion
    BY ShownTyped
  <2>1. /\ service' = [service EXCEPT ![o] = s] /\ shown' = [shown EXCEPT !.ready = TRUE]
        /\ UNCHANGED <<goal, current, created, commands, syncing, prefs, dataDown>>
    BY <1>2, Zenon DEF Checks, Goes
  <2>2. /\ s \in ServiceObject /\ s.thread = "finish" /\ s.establishing = old.establishing
        /\ s.mode = old.mode /\ s.tun = old.tun /\ s.handle = old.handle /\ s.path = old.path
    BY <2>0, StageFields DEF Stage
  <2>. HIDE DEF s
  <2>3. /\ shown' \in Companion /\ shown'.running = shown.running
        /\ shown'.active = shown.active
    BY <2>0, <2>1, ShownFields
  <2>4. o <= created
    BY <1>1, BusyExists
  <2>5. old.handle
    BY <1>2 DEF Unusable
  <2>6. /\ Tended(old) => Tended(s) /\ Backed(s)
        /\ FirstMode(old, shown.active) => FirstMode(s, shown.active)
        /\ LeftHandle(s)
    BY <1>1, <2>2, <2>5 DEF Tended, FirstMode, Backed, LeftHandle
  <2>. QED
    BY <2>1, <2>2, <2>3, <2>4, <2>6, ShownTyped, ObjectMoves
<1>3. CASE Unusable(o)
  BY <1>1, <1>3, FailsKeeps DEF Checks
<1>. QED
  BY <1>2, <1>3

LEMMA NoSyncType == NoSync \in SyncThread
  BY DEF NoSync, SyncThread, GoalHeld

LEMMA FinishesKeeps ==
    ASSUME ChildInv, NEW o \in Objects, Finishes(o) PROVE ChildInv'
<1>. DEFINE old == service[o]
            n == old.watchers + (IF old.polling THEN 0 ELSE 1)
            t == Finally(old)
            s == [t EXCEPT !.polling = TRUE, !.configPolling = TRUE, !.watchers = n]
            free == CHOOSE f \in FreePollers : TRUE
            none == NoSync
            idle == [none EXCEPT !.stage = "idle", !.of = o]
<1>0. old \in ServiceObject /\ syncing \in [Syncs -> SyncThread]
  BY ShownTyped
<1>1. /\ old.thread = "finish" /\ service' = [service EXCEPT ![o] = s]
      /\ UNCHANGED <<goal, shown, current, created, commands, prefs, dataDown>>
      /\ syncing' = IF old.configPolling THEN syncing ELSE [syncing EXCEPT ![free] = idle]
  BY Zenon DEF Finishes, Thread
<1>2. syncing' \in [Syncs -> SyncThread]
  <2>1. none \in SyncThread /\ o \in Nat
    BY NoSyncType DEF Objects
  <2>. HIDE DEF none
  <2>2. idle \in SyncThread
    BY <2>1 DEF SyncThread
  <2>. HIDE DEF idle, free, old
  <2>3. [syncing EXCEPT ![free] = idle] \in [Syncs -> SyncThread]
    BY <1>0, <2>2
  <2>. QED
    BY <1>0, <1>1, <2>3
<1>3. n \in Nat
  BY <1>0 DEF ServiceObject
<1>4. /\ t \in ServiceObject /\ t.thread = "off" /\ t.tun = old.tun /\ t.handle = old.handle
      /\ t.path = old.path
  BY <1>0, FinallyFields
<1>. HIDE DEF t, n, old
<1>5. /\ s \in ServiceObject /\ s.thread = "off" /\ s.tun = old.tun /\ s.handle = old.handle
      /\ s.path = old.path
  BY <1>3, <1>4 DEF ServiceObject
<1>. HIDE DEF s
<1>6. o <= created
  BY <1>1, BusyExists DEF old
<1>7. /\ Tended(old) => Tended(s)
      /\ FirstMode(old, shown.active) => FirstMode(s, shown.active)
      /\ Backed(old) => Backed(s)
      /\ LeftHandle(old) => LeftHandle(s)
  BY <1>1, <1>5 DEF Tended, FirstMode, Backed, LeftHandle
<1>. QED
  BY <1>1, <1>2, <1>5, <1>6, <1>7, ShownTyped, ObjectMoves DEF old

LEMMA FailEndsKeeps ==
    ASSUME ChildInv, NEW o \in Objects, FailEnds(o) PROVE ChildInv'
<1>. DEFINE old == service[o]
            t == Stopped(old, TRUE)
            s == Finally(t)
<1>0. old \in ServiceObject /\ shown \in Companion
  BY ShownTyped
<1>1. /\ old.thread = "fail" /\ service' = [service EXCEPT ![o] = s]
      /\ shown' = [shown EXCEPT !.running = FALSE, !.active = "none"]
      /\ StopSelf(o) /\ UNCHANGED <<goal, current, created, syncing, prefs, dataDown>>
  BY Zenon DEF FailEnds, Thread
<1>2. t \in ServiceObject /\ ~t.handle
  BY <1>0, StoppedFields
<1>. HIDE DEF t
<1>3. s \in ServiceObject /\ s.thread = "off" /\ ~s.handle
  BY <1>2, FinallyFields
<1>. HIDE DEF s
<1>4. shown' \in Companion /\ shown'.ready = shown.ready /\ ~shown'.running
  BY <1>0, <1>1, ShownFields
<1>5. o <= created
  BY <1>1, BusyExists
<1>6. UNCHANGED commands \/ \E c \in ChildCommand \ Leaving : Post(c)
  BY <1>1, StopSelfPosts
<1>7. Tended(s) /\ FirstMode(s, shown'.active) /\ ~Backed(old) /\ ~LeftHandle(old)
  BY <1>1, <1>3 DEF Tended, FirstMode, Backed, LeftHandle
<1>. QED
  BY <1>1, <1>3, <1>4, <1>5, <1>6, <1>7, ShownTyped, ObjectMoves

LEMMA DiesKeeps ==
    ASSUME ChildInv, NEW o \in Objects, NEW mode \in Modes, Dies(o, mode) PROVE ChildInv'
<1>. DEFINE old == service[o]
            s == [old EXCEPT !.path = "dead"]
<1>0. old \in ServiceObject
  BY ShownTyped
<1>1. /\ old.path = mode /\ service' = [service EXCEPT ![o] = s] /\ dataDown' \in BOOLEAN
      /\ UNCHANGED <<goal, shown, current, created, commands, syncing, prefs>>
  BY Zenon DEF Dies
<1>2. /\ s \in ServiceObject /\ s.thread = old.thread /\ s.tun = old.tun /\ s.mode = old.mode
      /\ s.handle = old.handle /\ s.path = "dead" /\ s.establishing = old.establishing
  BY <1>0 DEF ServiceObject
<1>. HIDE DEF s
<1>3. o <= created
  BY <1>1, BusyExists DEF Modes
<1>4. /\ Tended(old) => Tended(s)
      /\ FirstMode(old, shown.active) => FirstMode(s, shown.active)
      /\ Backed(old) => Backed(s)
      /\ LeftHandle(old) => LeftHandle(s)
  BY <1>2 DEF Tended, FirstMode, Backed, LeftHandle
<1>. QED
  BY <1>1, <1>2, <1>3, <1>4, ShownTyped, ObjectMoves

\* An alert poller comes to an end.
LEMMA WatchersKeep ==
    ASSUME ChildInv, NEW o \in Objects, WatcherEnds(o) \/ WatcherSees(o) \/ WatcherStops(o)
    PROVE  ChildInv'
<1>. DEFINE old == service[o]
<1>0. old \in ServiceObject /\ shown \in Companion
  BY ShownTyped
<1>1. ASSUME NEW s \in ServiceObject, s.thread = old.thread, s.tun = old.tun, s.mode = old.mode,
             s.handle = old.handle, s.path = old.path, s.establishing = old.establishing
      PROVE  /\ Tended(old) => Tended(s)
             /\ FirstMode(old, shown.active) => FirstMode(s, shown.active)
             /\ Backed(old) => Backed(s)
             /\ LeftHandle(old) => LeftHandle(s)
  BY <1>1 DEF Tended, FirstMode, Backed, LeftHandle
<1>2. CASE WatcherEnds(o)
  <2>. DEFINE n == old.watchers - 1
              s == [old EXCEPT !.watchers = n]
  <2>1. /\ old.watchers > 0 /\ service' = [service EXCEPT ![o] = s]
        /\ UNCHANGED <<goal, shown, current, created, commands, syncing, prefs, dataDown>>
    BY <1>2, Zenon DEF WatcherEnds
  <2>2. n \in Nat
    BY <1>0, <2>1 DEF ServiceObject
  <2>. HIDE DEF n
  <2>3. /\ s \in ServiceObject /\ s.thread = old.thread /\ s.tun = old.tun /\ s.mode = old.mode
        /\ s.handle = old.handle /\ s.path = old.path /\ s.establishing = old.establishing
    BY <1>0, <2>2 DEF ServiceObject
  <2>. HIDE DEF s
  <2>4. o <= created
    BY <2>1, BusyExists
  <2>. QED
    BY <1>1, <2>1, <2>3, <2>4, ShownTyped, ObjectMoves
<1>3. CASE WatcherSees(o)
  <2>. DEFINE n == old.watchers - 1
              m == old.stoppers + 1
              s == [old EXCEPT !.watchers = n, !.stoppers = m]
  <2>1. /\ old.watchers > 0 /\ service' = [service EXCEPT ![o] = s]
        /\ UNCHANGED <<goal, shown, current, created, commands, syncing, prefs, dataDown>>
    BY <1>3, Zenon DEF WatcherSees
  <2>2. n \in Nat /\ m \in Nat
    BY <1>0, <2>1 DEF ServiceObject
  <2>. HIDE DEF n, m
  <2>3. /\ s \in ServiceObject /\ s.thread = old.thread /\ s.tun = old.tun /\ s.mode = old.mode
        /\ s.handle = old.handle /\ s.path = old.path /\ s.establishing = old.establishing
    BY <1>0, <2>2 DEF ServiceObject
  <2>. HIDE DEF s
  <2>4. o <= created
    BY <2>1, BusyExists
  <2>. QED
    BY <1>1, <2>1, <2>3, <2>4, ShownTyped, ObjectMoves
<1>4. CASE WatcherStops(o)
  <2>. DEFINE n == old.stoppers - 1
              s == [old EXCEPT !.stoppers = n]
  <2>1. /\ old.stoppers > 0 /\ service' = [service EXCEPT ![o] = s]
        /\ shown' = [shown EXCEPT !.ready = FALSE] /\ StopSelf(o)
        /\ UNCHANGED <<goal, current, created, syncing, prefs, dataDown>>
    BY <1>4, Zenon DEF WatcherStops
  <2>2. n \in Nat
    BY <1>0, <2>1 DEF ServiceObject
  <2>. HIDE DEF n
  <2>3. /\ s \in ServiceObject /\ s.thread = old.thread /\ s.tun = old.tun /\ s.mode = old.mode
        /\ s.handle = old.handle /\ s.path = old.path /\ s.establishing = old.establishing
    BY <1>0, <2>2 DEF ServiceObject
  <2>. HIDE DEF s
  <2>4. o <= created
    BY <2>1, BusyExists
  <2>5. /\ shown' \in Companion /\ ~shown'.ready /\ shown'.running = shown.running
        /\ shown'.active = shown.active
    BY <1>0, <2>1, ShownFields
  <2>6. UNCHANGED commands \/ \E c \in ChildCommand \ Leaving : Post(c)
    BY <2>1, StopSelfPosts
  <2>. QED
    BY <1>1, <2>1, <2>3, <2>4, <2>5, <2>6, ShownTyped, ObjectMoves
<1>. QED
  BY <1>2, <1>3, <1>4

\* Nothing of the service changes.
LEMMA ServiceRests ==
    ASSUME ChildInv, UNCHANGED <<shown, service, current, created, dataDown>>,
           UNCHANGED commands \/ \E c \in ChildCommand \ Leaving : Post(c),
           SharedTypes'
    PROVE  ChildInv'
<1>1. InboxKnown' /\ (Going' <=> Going)
  BY InboxStays DEF ChildInv
<1>2. Serving' <=> Serving
  BY <1>1, Zenon DEF Serving
<1>3. ObjectTypes' /\ GoingHidden' /\ Untouched'
  BY <1>1 DEF ChildInv, ObjectTypes, GoingHidden, Untouched
<1>4. ServedInv' /\ ReadyInv' /\ ModeInv'
  BY <1>2, Zenon DEF ChildInv, ServedInv, ReadyInv, ModeInv
<1>. QED
  BY <1>1, <1>3, <1>4 DEF ChildInv

LEMMA AfterSyncType ==
    ASSUME ChildInv, NEW t \in Syncs
    PROVE  AfterSync(t) \in SyncThread /\ [syncing EXCEPT ![t] = AfterSync(t)] \in [Syncs -> SyncThread]
<1>. DEFINE of == syncing[t].of
            none == NoSync
            idle == [none EXCEPT !.stage = "idle", !.of = of]
<1>1. syncing \in [Syncs -> SyncThread] /\ of \in Nat
  BY ShownTyped DEF SyncThread
<1>2. none \in SyncThread
  BY NoSyncType
<1>3. AfterSync(t) = IF t = "app" THEN none ELSE idle
  BY Zenon DEF AfterSync
<1>. HIDE DEF of, none
<1>4. idle \in SyncThread
  BY <1>1, <1>2 DEF SyncThread
<1>. HIDE DEF idle
<1>5. AfterSync(t) \in SyncThread
  BY <1>2, <1>3, <1>4
<1>. QED
  BY <1>1, <1>5

\* A thread of fetchAndReconcile is at another stage.
LEMMA SyncStage ==
    ASSUME ChildInv, NEW t \in Syncs, NEW stage \in {"idle", "fetched", "running", "apply"}
    PROVE  [syncing EXCEPT ![t] = [syncing[t] EXCEPT !.stage = stage]] \in [Syncs -> SyncThread]
<1>. DEFINE old == syncing[t]
            s == [old EXCEPT !.stage = stage]
<1>1. syncing \in [Syncs -> SyncThread] /\ old \in SyncThread
  BY ShownTyped
<1>. HIDE DEF old
<1>2. s \in SyncThread
  BY <1>1 DEF SyncThread
<1>. HIDE DEF s
<1>3. [syncing EXCEPT ![t] = s] \in [Syncs -> SyncThread]
  BY <1>1, <1>2
<1>. QED
  BY <1>3 DEF s, old

LEMMA SyncsKeep ==
    ASSUME ChildInv, NEW t \in Syncs,
           \/ PollerEnds(t) \/ Fetches(t) \/ FetchFails(t) \/ Desires(t)
           \/ \E consent \in BOOLEAN : Reconciles(t, consent)
           \/ SeesReady(t) \/ Applies(t)
    PROVE  ChildInv'
<1>0. /\ goal \in GoalSet /\ prefs \in Preferences /\ syncing \in [Syncs -> SyncThread]
      /\ syncing[t] \in SyncThread
  BY DEF ChildInv, SharedTypes
<1>1. [syncing EXCEPT ![t] = AfterSync(t)] \in [Syncs -> SyncThread]
  BY AfterSyncType
<1>2. CASE PollerEnds(t)
  <2>1. syncing' \in [Syncs -> SyncThread]
    BY <1>0, <1>2, NoSyncType DEF PollerEnds
  <2>. QED
    BY <1>0, <1>2, <2>1, ServiceRests DEF PollerEnds, SharedTypes
<1>3. CASE Fetches(t)
  <2>. DEFINE old == syncing[t]
              s == [old EXCEPT !.stage = "answered", !.want = goal]
  <2>1. /\ syncing' = [syncing EXCEPT ![t] = s]
        /\ UNCHANGED <<goal, shown, service, current, created, commands, prefs, dataDown>>
    BY <1>3, Zenon DEF Fetches
  <2>2. goal \in GoalHeld
    BY <1>0 DEF GoalSet, GoalHeld
  <2>. HIDE DEF old
  <2>3. s \in SyncThread
    BY <1>0, <2>2 DEF SyncThread, old
  <2>. HIDE DEF s
  <2>4. syncing' \in [Syncs -> SyncThread]
    BY <1>0, <2>1, <2>3
  <2>. QED
    BY <1>0, <2>1, <2>4, ServiceRests DEF SharedTypes
<1>8. CASE Desires(t)
  <2>. DEFINE m == syncing[t].want.mode
  <2>1. /\ syncing' = [syncing EXCEPT ![t] = [syncing[t] EXCEPT !.stage = "fetched"]]
        /\ prefs' = [prefs EXCEPT !.desired = m]
        /\ UNCHANGED <<goal, shown, service, current, created, commands, dataDown>>
    BY <1>8, Zenon DEF Desires
  <2>2. m \in Modes \cup {"none"}
    BY <1>0 DEF SyncThread, GoalHeld
  <2>. HIDE DEF m
  <2>3. prefs' \in Preferences
    BY <1>0, <2>1, <2>2 DEF Preferences
  <2>4. syncing' \in [Syncs -> SyncThread]
    BY <2>1, SyncStage, Zenon
  <2>. QED
    BY <1>0, <2>1, <2>3, <2>4, ServiceRests DEF SharedTypes
<1>4. CASE FetchFails(t)
  BY <1>0, <1>1, <1>4, ServiceRests DEF FetchFails, SharedTypes
<1>5. CASE \E consent \in BOOLEAN : Reconciles(t, consent)
  <2>1. \/ syncing' = [syncing EXCEPT ![t] = AfterSync(t)]
        \/ \E stage \in {"idle", "fetched", "running", "apply"} :
              syncing' = [syncing EXCEPT ![t] = [syncing[t] EXCEPT !.stage = stage]]
    BY <1>5, Zenon DEF Reconciles
  <2>2. syncing' \in [Syncs -> SyncThread]
    <3>1. CASE syncing' = [syncing EXCEPT ![t] = AfterSync(t)]
      BY <1>1, <3>1
    <3>2. ASSUME NEW stage \in {"idle", "fetched", "running", "apply"},
                 syncing' = [syncing EXCEPT ![t] = [syncing[t] EXCEPT !.stage = stage]]
          PROVE  syncing' \in [Syncs -> SyncThread]
      <4>1. [syncing EXCEPT ![t] = [syncing[t] EXCEPT !.stage = stage]] \in [Syncs -> SyncThread]
        BY SyncStage, Zenon
      <4>. QED
        BY <3>2, <4>1, Zenon
    <3>. QED
      BY <2>1, <3>1, <3>2, Zenon
  <2>3. UNCHANGED commands \/ \E c \in ChildCommand \ Leaving : Post(c)
    BY <1>5 DEF Reconciles, ChildCommand, Leaving
  <2>4. UNCHANGED <<goal, shown, service, current, created, prefs, dataDown>>
    BY <1>5 DEF Reconciles
  <2>. QED
    BY <1>0, <2>2, <2>3, <2>4, ServiceRests DEF SharedTypes
<1>6. CASE SeesReady(t)
  <2>1. \/ syncing' = [syncing EXCEPT ![t] = AfterSync(t)]
        \/ syncing' = [syncing EXCEPT ![t] = [syncing[t] EXCEPT !.stage = "apply"]]
    BY <1>6, Zenon DEF SeesReady
  <2>2. syncing' \in [Syncs -> SyncThread]
    BY <1>1, <2>1, SyncStage, Zenon
  <2>. QED
    BY <1>0, <1>6, <2>2, ServiceRests DEF SeesReady, SharedTypes
<1>7. CASE Applies(t)
  <2>. DEFINE v == syncing[t].want.version
              m == syncing[t].want.mode
  <2>1. v \in Nat /\ m \in Modes \cup {"none"}
    BY <1>0 DEF SyncThread, GoalHeld
  <2>2. prefs' = prefs \/ prefs' = [prefs EXCEPT !.version = v, !.mode = m]
    BY <1>7, Zenon DEF Applies
  <2>. HIDE DEF v, m
  <2>3. prefs' \in Preferences
    BY <1>0, <2>1, <2>2 DEF Preferences
  <2>. QED
    BY <1>0, <1>1, <1>7, <2>3, ServiceRests DEF Applies, SharedTypes
<1>. QED
  BY <1>2, <1>3, <1>4, <1>5, <1>6, <1>7, <1>8

LEMMA OutsideKeeps ==
    ASSUME ChildInv,
           \/ \E m \in Modes, on \in BOOLEAN : GuardianSets(m, on)
           \/ AppResumes \/ AppStartsService
    PROVE  ChildInv'
<1>0. goal \in GoalSet /\ prefs \in Preferences /\ syncing \in [Syncs -> SyncThread]
  BY DEF ChildInv, SharedTypes
<1>1. CASE \E m \in Modes, on \in BOOLEAN : GuardianSets(m, on)
  <2>1. goal' \in GoalSet
    BY <1>0, <1>1 DEF GuardianSets, GoalSet
  <2>. QED
    BY <1>0, <1>1, <2>1, ServiceRests DEF GuardianSets, SharedTypes
<1>2. CASE AppResumes
  <2>1. "app" \in Syncs
    BY DEF Syncs
  <2>2. syncing' = [syncing EXCEPT !["app"] = [syncing["app"] EXCEPT !.stage = "idle"]]
    BY <1>2, Zenon DEF AppResumes
  <2>3. PICK t \in Syncs : t = "app"
    BY <2>1
  <2>4. PICK stage \in {"idle", "fetched", "running", "apply"} : stage = "idle"
    OBVIOUS
  <2>5. [syncing EXCEPT ![t] = [syncing[t] EXCEPT !.stage = stage]] \in [Syncs -> SyncThread]
    BY SyncStage, Zenon
  <2>6. syncing' \in [Syncs -> SyncThread]
    BY <2>2, <2>3, <2>4, <2>5, Zenon
  <2>. QED
    BY <1>0, <1>2, <2>6, ServiceRests DEF AppResumes, SharedTypes
<1>3. CASE AppStartsService
  <2>1. \E c \in ChildCommand \ Leaving : Post(c)
    BY <1>3 DEF AppStartsService, ChildCommand, Leaving
  <2>. QED
    BY <1>0, <1>3, <2>1, ServiceRests DEF AppStartsService, SharedTypes
<1>. QED
  BY <1>1, <1>2, <1>3

LEMMA NewObjectType == NewObject \in ServiceObject
  BY DEF NewObject, ServiceObject, Stage

\* onStartCommand: a new object is launched, and one that is launched is not shown as ready.
LEMMA StartCommandKeeps ==
    ASSUME ChildInv, OnStartCommand PROVE ChildInv'
<1>. DEFINE o == IF current = 0 THEN created + 1 ELSE current
            replace == Head(commands) = "reconfigure"
            old == service[o]
            launch == (replace \/ ~old.tun) /\ ~old.establishing
            stage == IF replace THEN "teardown" ELSE "choose"
            s == [old EXCEPT !.establishing = TRUE, !.reconfiguring = replace, !.thread = stage,
                             !.asked = FALSE]
            k == [old EXCEPT !.asked = FALSE]
            r == shown.ready /\ ~launch
<1>1. /\ commands # <<>> /\ Head(commands) \in {"start", "reconfigure"}
      /\ o <= Starts /\ commands' = Tail(commands)
      /\ current' = o /\ created' = (IF current = 0 THEN o ELSE created)
      /\ shown' = [shown EXCEPT !.running = TRUE, !.ready = r]
      /\ service' = [service EXCEPT ![o] = IF launch THEN s ELSE k]
      /\ UNCHANGED <<goal, syncing, prefs, dataDown>>
  BY Zenon DEF OnStartCommand
<1>2. /\ shown \in Companion /\ service \in [Objects -> ServiceObject] /\ dataDown \in BOOLEAN
      /\ created \in Nat /\ created <= Starts /\ current \in Nat /\ current <= created
      /\ Starts \in Nat
  BY ChildVpnAssumption DEF ChildInv, ObjectTypes
<1>3. /\ o \in Objects /\ o # 0 /\ o \in Nat
      /\ created' \in Nat /\ created' <= Starts /\ o <= created' /\ created <= created'
      /\ current # 0 => created' = created /\ o = current
      /\ current = 0 => created' = o /\ o > created
  BY <1>1, <1>2 DEF Objects
<1>4. old \in ServiceObject
  BY <1>2, <1>3
<1>5. InboxKnown' /\ ~Going'
  BY <1>1, InboxTaken DEF ChildInv
<1>6. ~Going
  BY <1>1 DEF Going, Leaving
<1>7. ASSUME current = 0 PROVE old = NewObject /\ launch
  <2>1. old = NewObject
    BY <1>3, <1>7 DEF ChildInv, Untouched
  <2>2. ~old.tun /\ ~old.establishing
    BY <2>1 DEF NewObject
  <2>. QED
    BY <2>1, <2>2
<1>8. replace \in BOOLEAN /\ stage \in {"teardown", "choose"} /\ r \in BOOLEAN /\ launch \in BOOLEAN
  BY <1>2, <1>4, Zenon DEF Companion
<1>9. launch => ~r /\ ~old.establishing
  BY Zenon
<1>10. ~launch => current # 0 /\ current = o
  BY <1>3, <1>7
<1>11. r => shown.ready /\ ~launch
  BY Zenon
<1>. HIDE DEF o, replace, launch, stage, r, old
<1>12. /\ s \in ServiceObject /\ s.thread = stage /\ s.establishing
  BY <1>4, <1>8 DEF ServiceObject, Stage
<1>17. /\ k \in ServiceObject /\ k.thread = old.thread /\ k.establishing = old.establishing
       /\ k.tun = old.tun /\ k.handle = old.handle /\ k.path = old.path /\ k.mode = old.mode
  BY <1>4 DEF ServiceObject
<1>. HIDE DEF s, k
<1>13. shown' \in Companion /\ shown'.ready = r /\ shown'.active = shown.active
  BY <1>1, <1>2, <1>8 DEF Companion
<1>14. SharedTypes' /\ GoingHidden'
  BY <1>1, <1>5 DEF ChildInv, SharedTypes, GoingHidden
<1>15. CASE launch
  <2>1. /\ service' \in [Objects -> ServiceObject] /\ service'[o] = s
        /\ \A p \in Objects : p # o => service'[p] = service[p]
    BY <1>1, <1>2, <1>3, <1>12, <1>15
  <2>2. ObjectTypes'
    BY <1>1, <1>2, <1>3, <1>13, <2>1 DEF ObjectTypes
  <2>3. Untouched'
    <3>. SUFFICES ASSUME NEW p \in Objects, p > created' PROVE service'[p] = NewObject
      BY DEF Untouched
    <3>1. p # o /\ p > created
      BY <1>2, <1>3 DEF Objects
    <3>. QED
      BY <2>1, <3>1 DEF ChildInv, Untouched
  <2>4. Tended(s) /\ FirstMode(s, shown'.active)
    BY <1>8, <1>12 DEF Tended, FirstMode
  <2>5. ServedInv' /\ ModeInv'
    BY <1>1, <2>1, <2>4, Zenon DEF ServedInv, ModeInv
  <2>6. ReadyInv'
    BY <1>9, <1>13, <1>15, Zenon DEF ReadyInv
  <2>. QED
    BY <1>5, <1>14, <2>2, <2>3, <2>5, <2>6 DEF ChildInv
<1>16. CASE ~launch
  <2>1. /\ current' = current /\ created' = created /\ current # 0 /\ current = o
        /\ service' = [service EXCEPT ![o] = k]
    BY <1>1, <1>3, <1>10, <1>16
  <2>2. /\ service' \in [Objects -> ServiceObject] /\ service'[o] = k
        /\ \A p \in Objects : p # o => service'[p] = service[p]
    BY <1>2, <1>3, <1>17, <2>1
  <2>3. ObjectTypes'
    BY <1>1, <1>2, <1>13, <2>1, <2>2 DEF ObjectTypes
  <2>4. Untouched'
    <3>. SUFFICES ASSUME NEW p \in Objects, p > created PROVE service'[p] = NewObject
      BY <2>1 DEF Untouched
    <3>1. p # o
      BY <1>2, <2>1 DEF Objects
    <3>. QED
      BY <2>2, <3>1 DEF ChildInv, Untouched
  <2>5. Serving
    BY <1>6, <2>1 DEF Serving
  <2>6. /\ Tended(old) => Tended(k)
        /\ FirstMode(old, shown.active) => FirstMode(k, shown.active)
        /\ Backed(old) => Backed(k)
    BY <1>17 DEF Tended, FirstMode, Backed, LeftHandle
  <2>7. Tended(old) /\ (created = 1 => FirstMode(old, shown.active))
    BY <2>1, <2>5, Zenon DEF ChildInv, ServedInv, ModeInv, old
  <2>8. ServedInv' /\ ModeInv'
    BY <1>13, <2>1, <2>2, <2>6, <2>7, Zenon DEF ServedInv, ModeInv
  <2>9. ReadyInv'
    <3>. SUFFICES ASSUME r PROVE \/ Backed(k)
                                \/ \E p \in Objects : p # current /\ LeftHandle(service'[p])
      BY <1>13, <2>1, <2>2, Zenon DEF ReadyInv
    <3>1. \/ Backed(old)
          \/ \E p \in Objects : p # current /\ LeftHandle(service[p])
      BY <1>11, <2>1, <2>5, Zenon DEF ChildInv, ReadyInv, old
    <3>. QED
      BY <2>1, <2>2, <2>6, <3>1, Zenon
  <2>. QED
    BY <1>5, <1>14, <2>3, <2>4, <2>8, <2>9 DEF ChildInv
<1>. QED
  BY <1>15, <1>16

\* onDestroy and a stop for nobody.
LEMMA DestroyKeeps ==
    ASSUME ChildInv, StopNoted \/ OnDestroyBegins \/ OnDestroyEnds \/ StopIgnored
    PROVE  ChildInv'
<1>0. /\ shown \in Companion /\ service \in [Objects -> ServiceObject]
      /\ created \in Nat /\ current \in Nat /\ current <= created
  BY DEF ChildInv, ObjectTypes
<1>1. CASE OnDestroyBegins
  <2>. DEFINE old == service[current]
              e == [old EXCEPT !.reconfiguring = FALSE, !.establishing = FALSE]
              s == Stopping(e, TRUE)
  <2>1. /\ current # 0
        /\ shown' = [shown EXCEPT !.running = FALSE, !.ready = FALSE]
        /\ service' = [service EXCEPT ![current] = s]
        /\ UNCHANGED <<goal, current, created, syncing, prefs, dataDown>>
    BY <1>1, Zenon DEF OnDestroyBegins
  <2>2. current \in Objects /\ old \in ServiceObject
    BY <1>0, <2>1, ObjectExists
  <2>3. e \in ServiceObject
    BY <2>2 DEF ServiceObject
  <2>. HIDE DEF e
  <2>4. s \in ServiceObject
    BY <2>3, StoppingFields
  <2>. HIDE DEF s
  <2>5. /\ service' \in [Objects -> ServiceObject]
        /\ \A p \in Objects : p # current => service'[p] = service[p]
    BY <1>0, <2>1, <2>4
  <2>6. shown' \in Companion /\ ~shown'.running
    BY <1>0, <2>1, ShownFields
  <2>7. PICK c \in Leaving :
          \/ commands # <<>> /\ commands' = <<c>> \o Tail(commands)
          \/ commands = <<>> /\ commands' = <<c>>
    BY <1>1 DEF OnDestroyBegins, Leaving
  <2>8. InboxKnown' /\ Going'
    BY <2>7, InboxDestroys DEF ChildInv
  <2>9. SharedTypes' /\ ObjectTypes' /\ GoingHidden'
    BY <2>1, <2>5, <2>6 DEF ChildInv, SharedTypes, ObjectTypes, GoingHidden
  <2>10. Untouched'
    BY <1>0, <2>1, <2>5 DEF ChildInv, Untouched, Objects
  <2>11. ServedInv' /\ ReadyInv' /\ ModeInv'
    BY <2>8, Zenon DEF ServedInv, ReadyInv, ModeInv, Serving
  <2>. QED
    BY <2>8, <2>9, <2>10, <2>11 DEF ChildInv
<1>2. CASE OnDestroyEnds
  <2>. DEFINE old == service[current]
              had == Head(commands) = "destroy"
              s == Stopped(old, had)
  <2>1. /\ commands # <<>> /\ commands' = Tail(commands) /\ current' = 0 /\ Going
        /\ shown' = [shown EXCEPT !.active = "none"]
        /\ service' = [service EXCEPT ![current] = s]
        /\ UNCHANGED <<goal, created, syncing, prefs, dataDown>>
    BY <1>2, Zenon DEF OnDestroyEnds, Going
  <2>2. current # 0
    BY <2>1 DEF ChildInv, GoingHidden
  <2>3. current \in Objects /\ old \in ServiceObject
    BY <1>0, <2>2, ObjectExists
  <2>4. s \in ServiceObject
    <3>1. had \in BOOLEAN
      OBVIOUS
    <3>. QED
      BY <2>3, <3>1, StoppedFields
  <2>. HIDE DEF s
  <2>5. /\ service' \in [Objects -> ServiceObject]
        /\ \A p \in Objects : p # current => service'[p] = service[p]
    BY <1>0, <2>1, <2>4
  <2>6. shown' \in Companion
    BY <1>0, <2>1, ShownFields
  <2>7. InboxKnown' /\ ~Going'
    BY <2>1, InboxTaken DEF ChildInv
  <2>8. SharedTypes' /\ ObjectTypes' /\ GoingHidden'
    BY <1>0, <2>1, <2>5, <2>6, <2>7 DEF ChildInv, SharedTypes, ObjectTypes, GoingHidden
  <2>9. Untouched'
    BY <1>0, <2>1, <2>5 DEF ChildInv, Untouched, Objects
  <2>10. ServedInv' /\ ReadyInv' /\ ModeInv'
    BY <2>1, Zenon DEF ServedInv, ReadyInv, ModeInv, Serving
  <2>. QED
    BY <2>7, <2>8, <2>9, <2>10 DEF ChildInv
<1>3. CASE StopIgnored
  <2>1. /\ commands # <<>> /\ commands' = Tail(commands) /\ current = 0
        /\ UNCHANGED <<goal, shown, service, current, created, syncing, prefs, dataDown>>
    BY <1>3 DEF StopIgnored
  <2>2. InboxKnown' /\ ~Going'
    BY <2>1, InboxTaken DEF ChildInv
  <2>3. SharedTypes' /\ ObjectTypes' /\ GoingHidden' /\ Untouched'
    BY <2>1, <2>2 DEF ChildInv, SharedTypes, ObjectTypes, GoingHidden, Untouched
  <2>4. ServedInv' /\ ReadyInv' /\ ModeInv'
    BY <2>1, Zenon DEF ServedInv, ReadyInv, ModeInv, Serving
  <2>. QED
    BY <2>2, <2>3, <2>4 DEF ChildInv
<1>4. CASE StopNoted
  <2>. DEFINE old == service[current]
              s == [old EXCEPT !.asked = TRUE]
  <2>1. /\ commands # <<>> /\ commands' = Tail(commands) /\ current # 0
        /\ Head(commands) = "stop" /\ service' = [service EXCEPT ![current] = s]
        /\ UNCHANGED <<goal, shown, current, created, syncing, prefs, dataDown>>
    BY <1>4, Zenon DEF StopNoted
  <2>2. current \in Objects /\ old \in ServiceObject
    BY <1>0, <2>1, ObjectExists
  <2>3. /\ s \in ServiceObject /\ s.thread = old.thread /\ s.establishing = old.establishing
        /\ s.tun = old.tun /\ s.handle = old.handle /\ s.path = old.path /\ s.mode = old.mode
    BY <2>2 DEF ServiceObject
  <2>. HIDE DEF s
  <2>4. /\ service' \in [Objects -> ServiceObject] /\ service'[current] = s
        /\ \A p \in Objects : p # current => service'[p] = service[p]
    BY <1>0, <2>1, <2>2, <2>3
  <2>5. InboxKnown' /\ ~Going' /\ Serving
    <3>1. ~Going
      BY <2>1 DEF Going, Leaving
    <3>. QED
      BY <2>1, <3>1, InboxTaken DEF ChildInv, Serving
  <2>6. SharedTypes' /\ ObjectTypes' /\ GoingHidden'
    BY <2>1, <2>4, <2>5 DEF ChildInv, SharedTypes, ObjectTypes, GoingHidden
  <2>7. Untouched'
    BY <1>0, <2>1, <2>4 DEF ChildInv, Untouched, Objects
  <2>8. /\ Tended(old) => Tended(s)
        /\ FirstMode(old, shown.active) => FirstMode(s, shown.active)
        /\ Backed(old) => Backed(s)
    BY <2>3 DEF Tended, FirstMode, Backed, LeftHandle
  <2>9. ServedInv' /\ ModeInv'
    BY <2>1, <2>4, <2>5, <2>8, Zenon DEF ChildInv, ServedInv, ModeInv
  <2>10. ReadyInv'
    <3>. SUFFICES ASSUME shown.ready
                  PROVE  \/ Backed(s)
                         \/ \E p \in Objects : p # current /\ LeftHandle(service'[p])
      BY <2>1, <2>4, Zenon DEF ReadyInv
    <3>1. \/ Backed(old)
          \/ \E p \in Objects : p # current /\ LeftHandle(service[p])
      BY <2>5, Zenon DEF ChildInv, ReadyInv
    <3>. QED
      BY <2>4, <2>8, <3>1, Zenon
  <2>. QED
    BY <2>5, <2>6, <2>7, <2>9, <2>10 DEF ChildInv
<1>. QED
  BY <1>1, <1>2, <1>3, <1>4

LEMMA FreshService ==
    ASSUME shown = NotShown, service = [o \in Objects |-> NewObject],
           syncing = [t \in Syncs |-> NoSync], dataDown = FALSE
    PROVE  /\ shown \in Companion /\ service \in [Objects -> ServiceObject] /\ Untouched
           /\ syncing \in [Syncs -> SyncThread] /\ dataDown \in BOOLEAN
<1>1. shown \in Companion
  BY DEF NotShown, Companion
<1>2. service \in [Objects -> ServiceObject] /\ Untouched
  BY NewObjectType, Zenon DEF Untouched
<1>3. syncing \in [Syncs -> SyncThread]
  BY NoSyncType, Zenon
<1>. QED
  BY <1>1, <1>2, <1>3

LEMMA ChildStart == ChildInit => ChildInv
<1>. SUFFICES ASSUME ChildInit PROVE ChildInv
  OBVIOUS
<1>1. /\ shown \in Companion /\ service \in [Objects -> ServiceObject] /\ Untouched
      /\ syncing \in [Syncs -> SyncThread] /\ dataDown \in BOOLEAN
  BY FreshService DEF ChildInit
<1>2. /\ current = 0 /\ created = 0 /\ commands = <<>> /\ goal \in GoalSet
      /\ prefs \in Preferences
  BY DEF ChildInit, GoalSet, Preferences, Modes
<1>3. InboxKnown /\ ~Going
  BY <1>2 DEF InboxKnown, Going
<1>4. SharedTypes /\ ObjectTypes /\ GoingHidden
  BY <1>1, <1>2, <1>3, ChildVpnAssumption DEF SharedTypes, ObjectTypes, GoingHidden
<1>5. ServedInv /\ ReadyInv /\ ModeInv
  BY <1>2, Zenon DEF ServedInv, ReadyInv, ModeInv, Serving
<1>. QED
  BY <1>1, <1>3, <1>4, <1>5 DEF ChildInv

LEMMA ProcessDiesKeeps ==
    ASSUME ChildInv, ProcessDies PROVE ChildInv'
<1>1. /\ shown' \in Companion /\ service' \in [Objects -> ServiceObject]
      /\ \A o \in Objects : service'[o] = NewObject
      /\ syncing' \in [Syncs -> SyncThread] /\ dataDown' \in BOOLEAN
  <2>1. shown' = NotShown /\ NotShown \in Companion
    BY DEF ProcessDies, NotShown, Companion
  <2>2. service' = [o \in Objects |-> NewObject] /\ syncing' = [t \in Syncs |-> NoSync]
        /\ dataDown' = FALSE
    BY DEF ProcessDies
  <2>. QED
    BY <2>1, <2>2, NewObjectType, NoSyncType
<1>2. current' = 0 /\ commands' = <<"start">> /\ UNCHANGED <<goal, created, prefs>>
  BY DEF ProcessDies
<1>3. InboxKnown' /\ ~Going'
  <2>1. <<"start">> \in Seq(ChildCommand) /\ Len(<<"start">>) = 1 /\ <<"start">>[1] = "start"
        /\ Head(<<"start">>) = "start"
    BY DEF ChildCommand
  <2>. QED
    BY <1>2, <2>1 DEF InboxKnown, Going, Leaving
<1>4. SharedTypes' /\ ObjectTypes' /\ GoingHidden' /\ Untouched'
  BY <1>1, <1>2, <1>3 DEF ChildInv, SharedTypes, ObjectTypes, GoingHidden, Untouched
<1>5. ServedInv' /\ ReadyInv' /\ ModeInv'
  BY <1>2, Zenon DEF ServedInv, ReadyInv, ModeInv, Serving
<1>. QED
  BY <1>3, <1>4, <1>5 DEF ChildInv

LEMMA ChildStep == ChildInv /\ [ChildNext]_childVars => ChildInv'
<1>. SUFFICES ASSUME ChildInv, [ChildNext]_childVars PROVE ChildInv'
  OBVIOUS
<1>1. CASE UNCHANGED childVars
  <2>1. SharedTypes'
    BY <1>1 DEF ChildInv, SharedTypes, childVars
  <2>. QED
    BY <1>1, <2>1, ServiceRests DEF childVars
<1>2. CASE \/ \E m \in Modes, on \in BOOLEAN : GuardianSets(m, on)
           \/ AppResumes \/ AppStartsService
  BY <1>2, OutsideKeeps
<1>3. CASE \/ OnStartCommand \/ StopNoted \/ OnDestroyBegins \/ OnDestroyEnds \/ StopIgnored
           \/ ProcessDies
  BY <1>3, StartCommandKeeps, DestroyKeeps, ProcessDiesKeeps
<1>4. ASSUME NEW o \in Objects,
             \/ TeardownBegins(o) \/ TeardownEnds(o) \/ Chooses(o)
             \/ \E ok \in BOOLEAN :
                   PrepareLocalMode(o, ok) \/ PrepareRemoteMode(o, ok) \/ Tunnels(o, ok)
             \/ \E outcome \in {"device", "dead", "refused"} : StartVpn(o, outcome)
             \/ \E outcome \in {"server", "refused"} : StartServerVpn(o, outcome)
             \/ Checks(o) \/ Finishes(o) \/ FailEnds(o)
             \/ LocalPathDies(o) \/ RemotePathDies(o) \/ LeaseEnds(o)
             \/ WatcherEnds(o) \/ WatcherSees(o) \/ WatcherStops(o)
      PROVE  ChildInv'
  <2>1. "device" \in Modes /\ "server" \in Modes
    BY DEF Modes
  <2>2. CASE TeardownBegins(o) \/ TeardownEnds(o) \/ Chooses(o)
    BY <2>2, TeardownKeeps, ChoosesKeeps, Zenon
  <2>3. CASE \E ok \in BOOLEAN :
                PrepareLocalMode(o, ok) \/ PrepareRemoteMode(o, ok) \/ Tunnels(o, ok)
    BY <2>3, PreparesKeeps, TunnelsKeeps, Zenon
  <2>4. CASE \E outcome \in {"device", "dead", "refused"} : StartVpn(o, outcome)
    BY <2>1, <2>4, NativeStartKeeps DEF StartVpn
  <2>5. CASE \E outcome \in {"server", "refused"} : StartServerVpn(o, outcome)
    BY <2>1, <2>5, NativeStartKeeps DEF StartServerVpn
  <2>6. CASE Checks(o) \/ Finishes(o) \/ FailEnds(o)
    BY <2>6, ChecksKeeps, FinishesKeeps, FailEndsKeeps, Zenon
  <2>7. CASE LocalPathDies(o) \/ RemotePathDies(o) \/ LeaseEnds(o)
    BY <2>1, <2>7, DiesKeeps DEF LocalPathDies, RemotePathDies, LeaseEnds
  <2>8. CASE WatcherEnds(o) \/ WatcherSees(o) \/ WatcherStops(o)
    BY <2>8, WatchersKeep, Zenon
  <2>. QED
    BY <1>4, <2>2, <2>3, <2>4, <2>5, <2>6, <2>7, <2>8, Zenon
<1>5. ASSUME NEW t \in Syncs,
             \/ PollerEnds(t) \/ Fetches(t) \/ FetchFails(t) \/ Desires(t)
             \/ \E consent \in BOOLEAN : Reconciles(t, consent)
             \/ SeesReady(t) \/ Applies(t)
      PROVE  ChildInv'
  BY <1>5, SyncsKeep, Zenon
<1>. QED
  BY <1>1, <1>2, <1>3, <1>4, <1>5, Zenon DEF ChildNext

\* What the companion object shows as running and ready is a tunnel with a data path
\* behind it, for any number of service objects, pollers and commands, unless a
\* destroyed object (onDestroy does not tell its threads) left a thread or a handle
\* behind: launchEstablish, failStart, stopDataPath and the alert poller.
THEOREM ShownIsReal == ChildInit /\ [][ChildNext]_childVars => []ReadyIsReal
<1>1. ChildInv => ReadyIsReal
  <2>. SUFFICES ASSUME ChildInv, shown.running, shown.ready, current # 0, OthersQuiet
                PROVE  /\ service[current].tun /\ service[current].handle
                       /\ service[current].path # "none"
                       /\ created = 1 => service[current].path \in {shown.active, "dead"}
    BY DEF ReadyIsReal
  <2>1. Serving
    BY DEF ChildInv, GoingHidden, Serving
  <2>2. \A o \in Objects : o # current => ~LeftHandle(service[o])
    BY DEF OthersQuiet, LeftHandle
  <2>3. Backed(service[current]) /\ Tended(service[current])
    BY <2>1, <2>2, Zenon DEF ChildInv, ReadyInv, ServedInv
  <2>4. created = 1 => FirstMode(service[current], shown.active)
    BY <2>1, Zenon DEF ChildInv, ModeInv
  <2>. QED
    BY <2>3, <2>4 DEF Backed, LeftHandle, Tended, FirstMode
<1>. QED
  BY <1>1, ChildStart, ChildStep, PTL
=============================================================================
