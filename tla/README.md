# Bulwark: a TLA+ verification project

Bulwark protects a child's devices: it inspects their traffic, holds back what
it must, raises alerts without content, and lets guardians decide about what was
blocked. This project models the parts of it that keep state over time: the
guardian server (`src/crates/bulwark-server`) with its queue, alert channels and
event store, the inspection path of the desktop client, the VPN bridge, and the
VPN service of the child's Android device.

Every module is translated from the source; `PROJECT.json` maps definitions to
lines. Modules are checked with TLC on small instances; the results of the
`*_proofs` modules hold for all values of the constants.

## 1. Inventory

| Part | State | Operations | Hard behaviour | What makes it correct | Module |
|---|---|---|---|---|---|
| Credentials and sessions (`accounts.rs`) | accounts, hashes, codes, sessions, throttles, `accounts.json` | create, login, change, reset, request reset, staff unlock | the mutex is released around Argon2id, so each call is two critical sections; expiry; restart | a password is the one set last; a code works once; a reset ends the old sessions | `AccountCredentials`, `Throttle` |
| Enrolment (`accounts.rs`, `auth.rs`) | children, device index, pairing codes, token digests | add child, create and redeem a code, assign a guardian, verify a token | the answer with the token may be lost; the index is derived on load | a device belongs to one family for ever; a held token authenticates | `Enrollment`, `DeviceRegistry` |
| Child configuration (`child_control.rs`, `ChildConfigSync.kt`) | desired configuration per child, reported version per device, watch channels, file | set, report, poll, stream | report and read under two locks; a write that fails after its rename; replaced devices | a version names one configuration; what is shown as applied was desired; devices converge | `ChildControl` |
| Review of alerts (`review_security.rs`, `relay.rs`, `allowlist.rs`) | ledger, pending facts, allowlist, journal, three files | raise, decide, retire, replay | two stores with a lock each, a decision in five steps between them; ids that come back; eviction; failed writes | only what the device raised is allowed; the journal rebuilds the allowlist; an alert waits until decided | `Allowlist`, `ReviewRelay` |
| Alert streams (`review_security.rs`, `relay.rs`, `family_safety.rs`, parent `router.rs`) | broadcast channel, streams, screen of the console | open, filter, deliver, reconnect | snapshot and subscription are not atomic; a bounded channel; sessions that end | a console that has caught up shows every waiting alert, to its guardians only | `ReviewStream` |
| Tamper heartbeats (`tamper.rs` of client and server) | last-seen table | beat, sweep | beats are lost; the sweep publishes after its lock; the table is lost on restart | a silence is reported, once | `ProtectionWatch` |
| Staff (`staff.rs`) | accounts, sessions, TOTP counters, audit chain, two files | bootstrap, create, login, RPCs, audit | login reads and writes under two locks; audit after the effect; a write of the chain that fails | one bootstrap; a code is dead once accepted; an answered call is audited; the chain verifies | `StaffAccounts`, `AuditChain` |
| Safety cases (`safety_cases.rs`) | cases, file | open, transition, audit | two officers; failing write; restart | the trail tells the state of every case | `SafetyCases` |
| Alert channels (`bulwark-alert`) | seen ids, burst budget, digest | raise, batch, flush, push | mail sent after the lock; failing transport; retries | mailed once per window; an acknowledgement is true | `AlertSink` |
| Work queue (`bulwark-cluster`) | queue, leases, in-flight count, members | enqueue, dequeue, complete, join, leave, drain | workers that fall silent, redelivery, late acknowledgements | accepted work is handed out until acknowledged | `WorkQueue` |
| Remote VPN leases (`wg_provision.rs`, `wg-lease-reconcile.sh`, `wg-peers.sh`) | leases, live peers | register, expire, reconcile | the reconciler applies what it read earlier; two allocators of addresses | addresses are distinct; a revoked device is cut off | `RemoteVpn` |
| Policy (`bulwark-policy`) | none | evaluate | edges of the bands | never softer on a surer verdict or a younger child | `ContentPolicy` |
| Inspection (`proxy.rs`, `interceptor.rs`, `bulwark-client`, `bulwark-flow`, `bulwark-infer`) | decision gate, channel, pipeline, delay buffer | hold, classify, buffer, analyse, decide, time out | verdict and time-out race; full channel; full buffer; coverage gaps | nothing protected passes unjudged; a timely decision stands | `Inspection`, `DelayBuffer` |
| Pinning registry (`pinning.rs`) | capability and strikes per host | connect, decrypt, reject | two locks, many connections | a host is tunnelled only after its strikes | `Pinning` |
| VPN bridge (`netstack.rs`) | flows, sockets, bounded channels, staging | pump, peek, dial, copy, close, reap | one pump thread against tasks on others; half-closes; back-pressure | both byte streams stay intact; a listed destination is never served; flows are reaped | `Netstack` |
| Android VPN service (`BulwarkVpnService.kt`, `ChildConfigSync.kt`, `bulwark-android`) | service objects, threads, pollers, shared flags, native paths | start, reconfigure, fail, destroy, poll, reconcile | destroyed objects keep their threads; companion fields and the native flag are shared; process death | what is shown as ready is real; a dead path is noticed | `ChildVpn` |
| Event store (`bulwark-store`) | hash-linked log, evidence metadata, file | record, purge, verify, reopen | overlapping Postgres transactions; a file that is not written; ids that start again | an unpruned log verifies; evidence belongs to its event | `EvidenceStore` |

How they meet: a device enrols (`Enrollment`) and polls its configuration
(`ChildControl`) with its token; its service brings up the tunnel that the
configuration asks for (`ChildVpn`, `RemoteVpn`), whose traffic goes through the
bridge (`Netstack`) to the inspecting proxy (`Pinning`, `Inspection`). What is
blocked is raised to the server and enters the ledger and the hub
(`ReviewRelay`); the consoles of the guardians whose scope contains the device
(`DeviceRegistry`) receive it (`ReviewStream`), and mail and push go out
(`AlertSink`); a guardian with a session (`AccountCredentials`) decides, and the
decision changes the allowlist of the device (`Allowlist`). A device that falls
silent is noticed by `ProtectionWatch`. Staff work through `StaffAccounts` and
`SafetyCases`.

`PROJECT.json` lists the hazards, each at its line, with the properties that
would catch it; one without a property says why.

## 2. Modules

**`Throttle`** holds `throttle_locked`, `record_failure` and `session_live`, shared
by guardian accounts, enrolment and staff.

**`AccountCredentials`** has one pair of actions per call that releases the mutex
(`LoginBegin` / `LoginCommit` / `LoginFail`, and so on): `Begin` reads the
snapshot and computes what the hashing will find, `Commit` acts on it in a later
state. Tokens and codes are fresh numbers, and `Persist` writes `accounts.json`
inside the critical section. `Restart` loads the file, dropping what has expired.

**`Enrollment`** has one action per handler (each holds the mutex throughout) and
the variable `held`, the device's own copy of its token: `RedeemPairCode` takes
as a parameter whether the answer arrives. **`DeviceRegistry`** is what enrolment
promises to the others; `ImplementsRegistry` is the refinement, with
`GuardiansForDevice` as the mapping.

**`ChildControl`** has `SetConfig`, `RecordApplied` (within `PollReport` and
`StreamReport`), `PollAnswer`, and the device with its stale-version check. A stream
reports, subscribes (`StreamSubscribe`: its receiver has seen what the channel holds)
and looks (`StreamLooks`): once without waiting, then on every change it has not
seen. Any child may be given any device, also one that another child has. A write has
three outcomes: `ok`, `failed` (before the rename) and `late` (after it; the
caller is told it failed).

**`Allowlist`** is `allowlist.rs` as operators: `Apply` is one decision, and
`LastWord` states, without steps, what a sequence of decisions means.
**`ReviewRelay`** raises in two steps (`Record`, `Publish`) and decides in five
(`Admit`, `Resolve`, `ChooseScope`, `ApplyDecision`, `Retire`). `RelayRestart`
comes anywhere, and `LoadRow` replays the journal before calls are answered.

**`ReviewStream`** has the three steps of opening a stream (snapshot, subscription,
second check of the session), the two filters (`InnerKeeps` with the scope of that
check, `Keeps` with the scope and the session of the delivery), a queue of
`ChannelCap` events that drops its oldest, and the loop of the parent application. A
restart of the server ends the connections and keeps the sessions. What a connection
missed is remembered for the property `CaughtUpShowsAll` only.

**`WorkQueue`** hands work out under leases. `LeaseRunsOut` marks a lease as over,
and the next poll puts its item back at the front; a worker may still acknowledge
then. `Cluster::complete` has no caller outside tests and no RPC, so nothing obliges
a worker to acknowledge: `Complete` may happen and is never due.
**`ProtectionWatch`** counts the age of the last beat in sweep periods and splits
the sweep into `SweepTakes` (marks, under the lock) and `SweepPublishes`.
**`AlertSink`** consults the limiter in one step and ends the mail in another
(`MailEnds`, which may fail), followed by the push fan-out and the composite's
acknowledgement.

**`StaffAccounts`** splits the sign-in into `LoginReads` and `LoginAccepts` /
`LoginRefuses`, and every RPC into its effect, its audit entry (`AuditAppend`) and its
answer (`Answer`). A write of the chain fails before or after its rename; then a
production server aborts and another goes on with the entry in memory. What a query
of the chain returns is left out: the console always asks for the first 100 entries
(`apps/staff/src/screens.rs:294`) and nobody keeps a cursor. **`AuditChain`** is the
chain as a value; a hash is the pair of what it covers. **`SafetyCases`** is the
workflow table with two officers, a file, and the trail in the order in which
entries were appended.

**`RemoteVpn`** has the server's table of leases and the reconciler in two steps,
reading and applying, with the peer tool's own choice of an address.

**`ContentPolicy`** is `evaluate` as operators. **`DelayBuffer`** is the buffer;
**`Inspection`** extends both with the proxy's gate, the bounded channel and the
pipeline loop, in the client's form and in that of the two tools (`runner`). A held
response waits in steps of its own: the pipeline sends its decision (`Resolve`), and
the waiting side wakes with it (`Wakes`) or gives up (`DecisionTimeout`), also when
the decision is already on its way. The offload router never has a policy, because
`negotiate` and `refresh` are called in tests only, and is left out. **`Pinning`**
is the registry under its two locks.

**`Netstack`** models both pumps (`run_netstack`, `run_netstack_host_filter`): a
visit to a flow is `PumpMoves` (bytes) and then `PumpCloses` (state), with the
flow's tasks running between any two steps. Bytes are numbered chunks. When a task
ends because the server closed its half, the other half is dropped, and the server
sees the end of the stream whatever was still queued (`DownEnds`, `DownDrops`); the
replay of the peeked bytes is a write like any other and may fail (`UpWrites`); a
tunnel that stops drops every flow (`PumpStops`). A ClientHello
that the parser never reads, because it is longer than the cap or split over two TLS
records, makes its connection `Opaque`: it passes whole, listed or not, as in the
code. The user-space TCP is external and is modelled by what the pump asks of it.

**`ChildVpn`** has service objects, each with its start thread (`TeardownBegins`,
`TeardownEnds`, `Chooses`, `PrepareLocalMode` / `PrepareRemoteMode`, `Tunnels`,
`StartVpn` / `StartServerVpn`, `Checks`, `Finishes`, and `Fails` / `FailEnds`),
alert pollers and config pollers; the main thread takes commands from an inbox. A
stop while the tunnel is open is only noted (`StopNoted`), because Android keeps an
established VPN service bound; `OnDestroyBegins` waits until the tunnel is closed. A
reconciliation holds the server's answer (`Fetches`) while it makes a second call,
and then writes the desired mode (`Desires`). What the companion object and the
native core share is shared in the model.

**`EvidenceStore`** has one state for its three backends and an action per
operation of each; a Postgres record is `PgReads`, `PgLocks` and `PgInserts`. The log
is the set of its rows, ordered by their ids, as a table is.

`MC*` modules hold the instances. Several of them compose components that share
no state: a variable chosen in the first state (`part`, `world`) says which one a
behaviour is about, so that their state spaces add up instead of multiplying.
Components that do interact are composed by extension: `Inspection` with the
buffer and the policy, `StaffAccounts` with the chain and the throttle,
`ReviewRelay` with the allowlist. `ChildVpn` holds the service, its pollers and the
native paths in one module, since all of them share the companion object's fields.

Definitions marked *Mutant* are plausible bugs in the definition below them; each
property is shown to fail under one of them.

## 3. Runs

| Run | Instance | Shows |
|---|---|---|
| `interleavings` | Worlds: two overlapping account requests and restarts; decisions by two guardians on alerts whose ids come back, from the same device and from another, with a ledger of 1; decisions on two alerts with every write outcome; the Android service with two service objects, with its app open, and with two goals | a spent code stays dead and e-mailed codes are capped (`RedeemedCodeDead`, `RequestsPaced`); no session is older than the last reset and a restart loses nothing (`ResetEndsSessions`, `RestartLosesNothing`); nothing is allowed under an id that the device did not raise, the journal rebuilds the allowlist, an alert waits until decided (`AllowedWasRaisedHere`, `JournalRebuilds`, `PendingUntilDecided`); what is shown as ready is real (`ReadyIsReal`) |
| `stream` | 1 guardian, 2 devices, alerts, an SOS, a notice, channel of 1 | alerts of one's own devices only (`OwnAlertsOnly`), nothing after the session ends (`NothingAfterSessionEnds`), and all that a connection may miss is what was sent between its snapshot and its subscription or what it was too slow for (`CaughtUpShowsAll`) |
| `components` | Parts: one account with a legacy hash and two overlapping requests; two children of whom one is given the other's device, every write outcome, reports that claim too much; two responses through gate, channel and buffer; two hosts and two connections; two flows, one listed and one with a hello that cannot be read; four events in each backend | `PasswordIsLastSet`; `AppliedWasDesired`, `VersionNamesOneConfig`; `HeldContentJudged`, `TimelyDecisionStands`; `TunnelNeedsStrikes`; `StreamsIntact`, `ListedNeverReached`, `EofAfterAll`; `UnprunedLogVerifies`, `EvidenceOfItsEvent` |
| `services` | Parts: two families and two devices; two staff callers, writes of the audit chain that fail in production and outside it, a restart; two cases, two officers, a failing write, a restart; two raisers, retried batches, a failing transport | `RoutingUnambiguous`, `HeldTokenAuthenticates`, `ImplementsRegistry`; `OneBootstrap`, `AcceptedCodeDead`, `AnsweredIsAudited`, `AuditChainHolds`; `TrailTellsState`; `MailedOnce`, `AckTruth` |
| `live` | Parts: queue with two workers, a caller-chosen id used twice and two redeliveries; two watched devices; three VPN devices; one child with two devices; one flow that does not speak TLS; the Android service with one object | what must happen in the end: `WorkHandedOut`, `SilenceReported` (and `OneAlertPerSilence`), `RevokedCutOff`, `DeviceConverges`, `StreamCatchesUp`, `FlowsReaped`, `DeadPathNoticed` |
| `cred_reset_race` | 2 handlers | *violated*: a login that read the old hash mints a session after the reset that should end all sessions |
| `review_shown` | an id that comes back with another host | *violated*: the guardian approves one host and another is allowed |
| `inspect_uncovered` | one response, an analyzer that finds nothing or cannot look | *violated*: gated audio passes although only the stand-in analyzer saw it |
| `staff_replay` | 2 overlapping sign-ins | *violated*: both accept one TOTP code |
| `vpn_drift` | 3 devices, 2 addresses | *violated*: an entitled device never becomes a live peer at its leased address |
| `net_tail` | one flow | *violated*: the last bytes of an answer are lost when the task ends between the pump's two looks |
| `child_strand` | one service object, two goals | *violated*: a failed mode switch stops the service and its config poller |

**Bounds.** A clock that reaches the end of the windows and lifetimes (of 1 or 2)
meets every expiry on both sides of the boundary. Two handlers, sign-ins, officers,
raisers or connections are enough for each race found: every one is between one read
and one commit. `MaxFails` of 1 or 2 makes the limit of a throttle reachable. A
ledger, a channel, a digest or a staging buffer of 1 makes every second element meet
the full case. Two versions let a failed write be repeated. A ClientHello of two
chunks is cut in every way, and the peek cap of two is met exactly; one flow goes on
after it (three chunks up, two down), the listed one sends its hello only. Four
events with a cap of two rows let a log be pruned, emptied and begun again. Two
service objects are the smallest number with a leftover; two goals the smallest with
a switch. `MaxMint`, `MaxTime`, `MaxAudit`, `MaxRestarts`, `MaxChanges` and their
like bound counters only.

**Deadlock** is checked in `stream`, `cred_reset_race` and `review_shown`. The
composed runs end when their bounded counters are used up (a store after its last
event, a case in its last state), so it is not checked there; that nothing gets
stuck is what `live` is for.

**Fairness.** `live` assumes it, and `vpn_drift` the part of it about its timer.
Every assumption is on the component's own scheduler, never on a guardian, a
worker's acknowledgement, the life of a connection or Android's main thread.
`QueueFairness`: time passes and somebody keeps polling; whoever holds work may be
silent for ever. `WatchFairness`: the sweeper is an endless timer loop.
`VpnFairness`: the reconciler is a timer unit. `ControlFairness`: a device polls on
a timer (`WF`), answers are lost but not for ever (`SF`), and the task of an open
stream runs; bringing the VPN up is part of `Apply`, so `DeviceConverges` assumes
that this succeeds again and again. `NetFairness`: the pump never rests, tasks run,
the device's TCP acknowledges what it gets, and a server that sees the end of the
stream closes. `ChildFairness`: start threads and alert pollers run.

No liveness is claimed for alert streams: an alert that is published between the
snapshot and the subscription of a connection, or falls out of a full channel, is not
shown while that connection lasts, and no code bounds its life. `CaughtUpShowsAll`
says that this is all that can be missed.

## 4. Proofs

TLAPS checks eight modules. They state every safety invariant and every action
property of the passing runs, and the refinement, for all values of the constants:
any number of accounts, devices, handlers, flows or events, any capacity, window or
limit, and behaviours of any length. Nothing is assumed but the `ASSUME`s of the
specifications, which TLC evaluates on every instance, and the one hypothesis named
here, which stands in the statements of its theorems:

| Hypothesis | Theorems | Why |
|---|---|---|
| `WritesSucceed` | `NothingLostOnRestart`, `RedeemedStaysDead`, `PasswordStays`, `ResetsEndSessions` | `persist_locked` only logs a failed write, so after one the file is behind the answers; in production the process aborts instead |

**`AccountCredentials_proofs`**: types (`CredentialsTyped`), `RequestCapHolds`, and
what survives. The request throttle tests and counts in one critical section, so
types are enough there. `NothingLostOnRestart` needs that the file equals the memory
but for what has expired (`DiskTracks`). On it stands `RedeemedStaysDead`
(`CodesInv`): a code that was redeemed is in no record of the file, and so in none of
the memory (`RedeemedGone`); a code that a handler has verified belongs to no other
account (`VerifiedOwn`), so its commit, which may be the second with that code,
removes the only copy there could be; and codes are fresh (`CodesFresh`).
`PasswordStays` claims that the stored password is the one chosen last, or that of a
legacy file which an overlapping login wrote back: `OnlyLegacyRehashed` says that no
other login has anything to write. `ResetsEndSessions` compares the number of a session
with that of the recovery code that the last reset handed out: sessions are younger,
in memory and in the file (`Young`). That they were *authenticated* after the reset is
false, which `cred_reset_race` shows.

**`Enrollment_proofs`**: types, `RoutingSafe`, `ScopeSafe`, `HeldTokenSafe`,
`CodesSingleUse` and the refinement `EnrollmentRefines`. No property is inductive
alone: a restart replaces the children by the saved ones, so the invariant says
that they are equal (`Saved`); a new id, code or digest differs from the old ones
because all numbers in use are at most `minted` (`Minted`); a token authenticates
its device only, because digests are distinct (`DigestsDistinct`) and the held one
is recorded (`HeldRecorded`). Every step maps to `Enrol`, `Share` or a stutter.

**`ReviewRelay_proofs`**: `JournalSafe`, `AllowedSafe` and the action property
`NobodyLeavesUndecided`. The central lemma, `ApplyIsLastWord`, says that one
application of `Allowlist::apply` after the rows of a journal is the closed form of
the journal with one more row. It remains to show that rows are about an id that their
device raised (`RowsRaised`), carried through everything a row comes from: the
pending facts in memory and on disk (`FromId`), the decisions in flight
(`TasksRaised`), the rows being loaded and saved; and no decision is in flight while
rows are loaded (`QuietWhileLoading`). Nothing is
assumed about ids: two devices may raise the same one, and the facts found under it
may be another's, which is why the theorem speaks of an id that the device raised. The
ledger plays no part in this, which is why eviction and failed writes cannot hurt.
For the queue the invariant (`QueueInv`) says that what a guardian is about to
retire was decided (`AppliedIsDecided`), and that whatever memory holds and the
saved ledger lacks is missing there for one of the two reasons (`LeftFor`): the file
may be ahead of the memory, and a restart loads it.

**`ReviewStream_proofs`**: `StreamsTyped`, `OwnAlerts`, `CaughtUp` and the action
property `NothingLater`. The two filters of a stream look at different moments, so the
invariant has the snapshot (`ReplayInScope`) beside the screen (`ScreenInScope`), and
that a stream counts as valid only while its session is there (`ValidHasSession`).
For these the capacity of the channel does not matter: what is dropped is shown to
nobody. `CaughtUp` follows an alert of the ledger through every phase of a connection
(`CoverInv`): it is on the screen, in the snapshot, in the queue, about to be
published, or was missed.

**`Services_proofs`**, staff: `BootstrapOnce` and `AcceptedCodesStayDead` from
`StaffInv`: the account that the bootstrap made is still there (`BootstrapSpent`),
as is one that a sign-in has read (`ReadIsThere`); the stored counter is at least
every accepted code, and the counter that a sign-in has read at least every code
accepted before it began (`CounterCovers`). `AnswersAudited` and `ChainSurvives`
from `ChainInv`: chain and file both verify, the file holds every entry that ever
reached it and nothing that memory lacks; on a production server the two are equal,
and an entry about to be answered is in them. A crash rolls the chain back to the
file, so what was answered must be there. Cases: `TrailTellsEveryState` from
`ToldIsHistory`: what is in the trail or still due are the states the case went
through, whichever officer appends first, and the workflow only goes forward
(`Forward`), so the furthest one is the present one. Alerts: `AcksTrue` needs that
every call in flight has a mail of its own (`OwnMail`), since another's success
would otherwise be taken for this one's. `RetriesMailOnce` needs that whatever was
mailed within the window is still in `seen`, from no earlier (`MailsKnown`); a batch
is a recursion over its events, and what it leaves is shown by its least
counterexample (`AdmitRun`, `AdmitAllKeeps`).

**`DeviceControl_proofs`**: `LeasesSafe` (pruning only takes addresses back,
`PrunedKeeps`, and a grant takes the least free one, `LowestIsFree`);
`OneAlertForEachSilence` (a silence that was announced, or is about to be, is
marked, `ToldIsMarked`, so no sweep takes it again); `VersionsUnambiguous`, whose
difficulty is the write that fails after its rename: the file may be one version
ahead of the memory (`FileAtMostAhead`), and nothing newer than the current
configuration was ever visible (`PublishedBefore`); `AppliedNeverExceeds`, for
memory and file at once, where the index leads to a child that was given the device
(`RoutedAsAsked`) although a device may be given to several. `ShownIsReal` is about
the Android service: the thread of the current object runs under its flag, has a
tunnel when it needs one and leaves no handle without a data path (`Tended`); a
ready sign has a tunnel and a data path behind it, or another object left its handle
(`ReadyInv`); and while there was one object only, the mode shown is the one it
built (`ModeInv`).

**`Inspection_proofs`**: the policy engine (`ScoreNeverSoftensEver`,
`ScoreNeverSoftensShipped`, `YoungerNeverSofterProved`) for every score and every
valid configuration. `TunnelsEarned`: every strike, given or still to come, is a
connection of its own (`StrikesAreConnects`, with the finite set of the tasks that
may still strike), whatever happens between the two locks. `HeldIsJudged` and
`DecisionsStand`: a response passes the pipeline once (`OnceThrough`); what its
verdict calls covered was (`CoverageKnown`); behind an open gate it waits undecided,
and a gate that closed first left the fallback (`GateKnown`); a decision that was sent
in time is the one its waiter has or will find (`SentKnown`). The store: rows are
linked (`Linked`) in memory and in the file as long as nothing was pruned, and a
Postgres transaction about to insert holds the id and hash of a row (`TxnsKnown`), so
that the primary key lets one insert after each row; a linked log verifies
(`LinkedVerifies`). `EvidenceKeepsItsEvent` claims the two databases only;
the portable backend has no cascade.

**`Netstack_proofs`**: `StreamsAlwaysIntact`, `ListedStayUnreached`, `EofComesLast`.
One invariant of each flow (`FlowOK`) joins what was sent, peeked, staged, queued and
delivered into one run of consecutive chunks in each direction, and says for every
stage of the flow's task what it still holds. It covers both pumps, any capacity and
any way to cut the ClientHello; no fact about another flow is needed. `EofComesLast`
excepts a server that ended its own half first: the bridge then drops the other half
with whatever is queued.

**Only model-checked.** Liveness needs fairness and `ENABLED`, which are out of the
prover's reach: `WorkHandedOut`, `SilenceReported`, `RevokedCutOff`,
`DeviceConverges`, `StreamCatchesUp`, `FlowsReaped`, `DeadPathNoticed`. `WorkQueue`
has no safety property of its own. The library's induction theorems take an operator
as a parameter, which the installed provers cannot instantiate; where a proof needed
induction over data it goes by a least counterexample (`LeastNumber`,
`LowestIsFree`).

## 5. What the runs found

The violated runs are findings in `PROJECT.json`, each with the line of the promise
and the line that breaks it. More observations, met while modelling:

*Accounts and review.*
- The legacy upgrade of an overlapping login writes the old password back
  (`accounts.rs:655` against `:580`; `PasswordIsLastSet` excepts it). A reset
  code can be redeemed twice by overlapping handlers.
- `relay.rs:649` and `bulwark.proto:358` describe the scope of a denial otherwise
  than `allowlist.rs:217` applies it: a denial for a host leaves the hash allowed.
- The pending map keeps every alert ever raised (`relay.rs:225`).
- Ids of alerts carry no device (`flow.rs:330`) and the server does not bind them to
  one once the ledger has forgotten them: a decision authorised for the alert of one
  device may find the facts that another device raised under the same id, and allow
  that content on the first. `AllowedWasRaisedHere` says no more than that the device
  raised the id, in a category that may be approved.
- An alert that is published between the snapshot and the subscription of a stream is
  not shown on that connection (`review_security.rs:371`, `relay.rs:751`).
- The exception of the inner stream filter for staff notices does not survive the
  outer one (`review_security.rs:392`); consoles get notices by asking.
- Protection alerts of Android devices are named without the device (`lib.rs:204`).
- A guardian who names one device for two children lets the status of one show the
  other's report; an update that leaves the device id empty is forgotten as routing
  at the next restart.

*Alerts, queue, watch, staff.*
- An alert counts as seen before it is sent, so the retry after a failed mail is
  suppressed (`ratelimit.rs:7`, `:69`). A full digest drops alerts and calls them
  coalesced (`:76`), the digest is emptied before it is sent (`sink.rs:98`), and
  `flush_digest` has no caller outside tests. Alerts coalesced by a batch that is
  mailed also stay in the digest. The composite reports its first `Ok`.
- `Cluster::complete` has no caller outside tests and there is no RPC for it, so as it
  stands every lease runs out and all work is delivered again. The in-flight count
  leaks for dead workers (`cluster/lib.rs:296`); a late acknowledgement removes the
  lease of the second delivery (`:158`), or of another item under the same
  caller-chosen id.
- The server forgets its watch table at a restart (`tamper.rs:99`); tamper events
  drained into a beat are lost with it.
- The audit order of two officers may differ from the order of their moves, and a
  crash between a move and its entry, or between any staff call and its entry, leaves
  it unaudited. Outside production an entry whose write failed is lost at the next
  restart (`staff.rs:728`), and its number is given out again.
- The staff console always asks for the entries from number 0, at most 100 of them
  (`apps/staff/src/screens.rs:294`): later ones are never shown.

*Remote VPN.*
- Unlabelled reserved peers are all listed as `-` and one of them is removed at a
  run. Flows are attributed by address (`remote_vpn_linux.rs:419`), so for up to 15 s
  after an expiry a reused address belongs to two devices.

*Inspection and bridge.*
- `record_pinned` may overwrite a host that was proven inspectable meanwhile
  (`pinning.rs:105`), and a clear-text request marks a pinning host as inspectable.
- The proxy listens before the gate is armed (`interceptor.rs:252`); a comment of
  `PolicyConfig` says WARN where uncovered content is blocked; segments put on hold
  are never due (`buffer.rs:266`); BLUR or MUTE without bytes forwards in the buffer
  and drops at the gate; the lifetime of the offload policy is not looked at. Nothing
  but tests calls `negotiate` or `refresh`, so the offload router never has a policy.
- A flow that never becomes established is never reaped (`netstack.rs:500`); a
  protocol in which the server speaks first waits in the peek loop; refusal by name
  is a close, not a reset; staging may exceed its cap by one chunk.
- A server that closes its half first makes the bridge abort the task that writes to
  it (`netstack.rs:633`, `:1039`): it sees the client's FIN, and the chunks still in
  the channel are lost. A hello longer than the cap, or split over two TLS records
  (`sni_dns.rs:269`), is never read and its connection passes.

*Android service.*
- `onDestroy` during a start leaves the thread, tunnel and pollers of the destroyed
  object, and a leftover's failure changes the mode shown for the next one.
- `stopDataPath` on two threads may pass one handle to `stopVpn` twice
  (`lib.rs:840`: "not yet freed"). The native down flag is shared: a new start
  clears an older path's death, and a leaked path's death stops a healthy service.
- A late `stopSelf` of an alert poller lands after a reconfiguration; alert pollers
  accumulate over quick ones; a poll while no mode is active queues a second one,
  which is why no convergence of the service is claimed.
- Two overlapping `fetchAndReconcile` may take the applied version back, and the one
  with the older answer may overwrite the desired mode (`ChildConfigSync.kt:121`).
- `stopSelf` and `stopService` do not close the tunnel, and Android keeps a VPN service
  with an open tunnel bound: after the data path died ("releasing TUN",
  `BulwarkVpnService.kt:227`), or when filtering is switched off, `onDestroy` need not
  come, `running` stays true and the tunnel stays open. `DeadPathNoticed` claims only
  that the service is no longer shown as ready.

*Event store.*
- After any purge `verify_audit_chain`, which starts at the genesis, reports the
  store's own pruning as tampering (`sqlite.rs:380` speaks of a recorded
  checkpoint). The age limit does not remove a contiguous prefix; no purge event is
  appended and `honor_pins` is not read (`retention.rs:14`, `:46`).
- `postgres.rs:93` speaks of a serializable transaction; at the default isolation
  an overlapping record fails on its key, and after a purge in between it can be
  linked to a row that is gone.
- The portable backend has no cascade: evidence of rotated rows stays, and attaches
  to a new row when ids begin again; it keeps in memory what it reported as failed,
  and a torn file cannot be opened. Purging and verifying have no callers outside
  tests.

## 6. Not modelled

The map covers about a ninth of the repository's implementation lines. The rest
has little a state machine could say:
- user interfaces (parent, child and staff applications, Android screens, camera,
  onboarding, research site, labelling) and inline unit tests, which together are
  the larger part of the lines;
- the analyzers (text, vision, audio, video): scoring of content; a verdict is an
  element of a set here;
- formats and the operating system: TLS and certificates, trust stores, packet
  parsing, DNS and QUIC, the WireGuard pump, routing, JNI, the Apple filter, the ROM;
- cryptography, encodings, rendering of mails, push providers' formats, generated
  protocol code, start-up and wiring;
- within modelled parts: push targets and `FetchSegment` of the review service, its
  legacy single-tenant path, the device's copy of the policy, the per-slot filters
  of `remote_vpn_linux.rs`, asynchronous preferences on Android, the upsert tables
  of the event store, the cap and expiry of staff notices, clip retention.

`PROJECT.json` lists each part with its reason.

## 7. Plan

1. Abstract specifications: an exactly-once mailer for `AlertSink` over a reliable
   transport, a bag of work for `WorkQueue`, and two byte streams for a flow of
   `Netstack`, with their refinements; the invariants they need are proved.
2. Clip retention with its authorisation, the notices' cap and expiry, and the
   inspection slots of `remote_vpn_linux.rs`, composed with `RemoteVpn`.
3. When a finding is settled, its violated run becomes a property of a passing one,
   and the exceptions in `PasswordIsLastSet`, `AllowedWasRaisedHere`, `EofAfterAll` and
   `CaughtUpShowsAll` go.
