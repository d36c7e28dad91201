-------------------------- MODULE Enrollment_proofs --------------------------
(***************************************************************************)
(* What holds of enrolment for any number of accounts and devices.  None   *)
(* of the safety properties is inductive on its own: a restart replaces    *)
(* the records by the saved ones, so that the two are equal must be part   *)
(* of the invariant, and a new record, code or token is distinct from the  *)
(* old ones only because every number in use is at most minted.            *)
(***************************************************************************)
EXTENDS Enrollment, TLAPS

\* The saved children are the children in memory.
Saved == disk = children

\* Every number in use was minted.
Minted ==
    /\ \A c \in children : c.id <= minted /\ c.digest <= minted
    /\ \A rec \in pairCodes : rec.code <= minted
    /\ \A k \in usedCodes : k <= minted
    /\ \A d \in Devices : held[d] <= minted

\* A code names one pending pairing.
CodesDistinct == \A r1, r2 \in pairCodes : r1.code = r2.code => r1 = r2

\* A digest names one child.
DigestsDistinct ==
    \A c1, c2 \in children : c1.digest = c2.digest /\ c1.digest # NoDigest => c1 = c2

\* A token a device holds is the one its child's record was given.
HeldRecorded ==
    \A d \in Devices : held[d] # NoDigest =>
        \E c \in children : c.device = d /\ c.digest = held[d]

IInv ==
    /\ TypeOK
    /\ Saved
    /\ Minted
    /\ RoutingUnambiguous
    /\ CodesDistinct
    /\ DigestsDistinct
    /\ HeldRecorded
    /\ UsedCodeGone
    /\ RedeemPaced

-----------------------------------------------------------------------------
(* Facts about the operators *)

\* record_failure turns a counter into a counter.
LEMMA RecordFailureType ==
    ASSUME NEW t \in Counter, NEW now \in Nat
    PROVE  RecordFailure(t, now) \in Counter
  BY DEF RecordFailure, Counter

\* A failure counted while the key is not paused leaves the count within the
\* limit.
LEMMA RecordFailurePaced ==
    ASSUME NEW t \in Counter, NEW now \in Nat, t.fails <= MaxFails,
           ~ThrottleLocked(t, now)
    PROVE  RecordFailure(t, now).fails <= MaxFails
  BY ThrottleAssumption DEF RecordFailure, ThrottleLocked, Counter

\* The empty throttle entry is a counter within the limit.
LEMMA NoEntryPaced == NoEntry \in Counter /\ NoEntry.fails <= MaxFails
  BY ThrottleAssumption DEF NoEntry, Counter

\* The index from_snapshot derives is the one in force, when routing is
\* unambiguous.
LEMMA IndexRebuilt ==
    ASSUME TypeOK, RoutingUnambiguous
    PROVE  IndexOf(children) = deviceToChild
<1>1. ASSUME NEW d \in Devices
      PROVE  IndexOf(children)[d] = deviceToChild[d]
  <2>1. CASE \E c \in children : c.device = d
    <3> DEFINE k == CHOOSE c \in children : c.device = d
    <3>1. k \in children /\ k.device = d
      BY <2>1
    <3>2. deviceToChild[d] = k.id
      BY <3>1 DEF RoutingUnambiguous
    <3>3. IndexOf(children)[d] = k.id
      BY <2>1 DEF IndexOf
    <3> QED
      BY <3>2, <3>3
  <2>2. CASE ~\E c \in children : c.device = d
    <3>1. deviceToChild[d] = NoChild
      BY <2>2 DEF RoutingUnambiguous
    <3>2. IndexOf(children)[d] = NoChild
      BY <2>2 DEF IndexOf
    <3> QED
      BY <3>1, <3>2
  <2> QED
    BY <2>1, <2>2
<1>2. deviceToChild = [d \in Devices |-> deviceToChild[d]]
  BY DEF TypeOK
<1>3. IndexOf(children) = [d \in Devices |-> IndexOf(children)[d]]
  BY DEF IndexOf
<1> QED
  BY <1>1, <1>2, <1>3

\* A new record on a free device, indexed under a new id, keeps routing
\* unambiguous.
LEMMA EnrolRouting ==
    ASSUME TypeOK, Minted, RoutingUnambiguous,
           NEW new \in ChildRec, new.id > minted, deviceToChild[new.device] = NoChild,
           children' = children \union {new},
           deviceToChild' = [deviceToChild EXCEPT ![new.device] = new.id]
    PROVE  RoutingUnambiguous'
<1> USE DEF NoChild, Ids
<1>1. \A c \in children : c.device # new.device /\ c.id <= minted /\ c \in ChildRec
  BY DEF RoutingUnambiguous, Minted, TypeOK, ChildRec
<1>2. ASSUME NEW c \in children' PROVE deviceToChild'[c.device] = c.id
  BY <1>1 DEF RoutingUnambiguous, TypeOK, ChildRec
<1>3. ASSUME NEW x \in Devices, deviceToChild'[x] # NoChild
      PROVE  \E c \in children' : c.device = x
  <2>1. CASE x = new.device
    BY <2>1
  <2>2. CASE x # new.device
    <3>1. deviceToChild[x] # NoChild
      BY <1>3, <2>2 DEF TypeOK
    <3> QED
      BY <3>1 DEF RoutingUnambiguous
  <2> QED
    BY <2>1, <2>2
<1>4. ASSUME NEW c1 \in children', NEW c2 \in children',
             c1.device = c2.device \/ c1.id = c2.id
      PROVE  c1 = c2
  BY <1>1, <1>4 DEF RoutingUnambiguous, ChildRec, TypeOK
<1> QED
  BY <1>2, <1>3, <1>4 DEF RoutingUnambiguous

-----------------------------------------------------------------------------
(* The invariant is inductive *)

\* It holds initially.
LEMMA InitInv == Init => IInv
  BY NoEntryPaced DEF Init, IInv, TypeOK, Saved, Minted, RoutingUnambiguous,
     CodesDistinct, DigestsDistinct, HeldRecorded, UsedCodeGone, RedeemPaced,
     NoDigest, NoChild

\* add_child preserves it: the device was free and the id is new.
LEMMA AddChildInv ==
    ASSUME IInv, NEW a \in Accounts, NEW d \in Devices, AddChild(a, d)
    PROVE  IInv'
<1> DEFINE new == [id |-> minted + 1, family |-> a, device |-> d,
                   guardians |-> {a}, digest |-> NoDigest]
<1> USE DEF NoChild, NoDigest, Ids
<1>1. /\ minted \in Nat
      /\ minted' = minted + 1
      /\ children' = children \union {new}
      /\ deviceToChild' = [deviceToChild EXCEPT ![d] = minted + 1]
      /\ deviceToChild[d] = NoChild
      /\ disk' = children'
      /\ UNCHANGED <<clock, pairCodes, redeemFails, held, usedCodes>>
  BY DEF AddChild, IInv, TypeOK, DeviceFree, Persist
<1>2. new \in ChildRec
  BY <1>1 DEF ChildRec
<1>3. TypeOK'
  <2>1. children' \in SUBSET ChildRec
    <3> HIDE DEF new
    <3> QED
      BY <1>1, <1>2 DEF IInv, TypeOK
  <2>2. deviceToChild' \in [Devices -> Nat]
    BY <1>1 DEF IInv, TypeOK
  <2> QED
    BY <1>1, <2>1, <2>2 DEF IInv, TypeOK
<1>5. RoutingUnambiguous'
  <2>1. /\ new.id > minted
        /\ deviceToChild[new.device] = NoChild
        /\ deviceToChild' = [deviceToChild EXCEPT ![new.device] = new.id]
    BY <1>1
  <2> HIDE DEF new
  <2> QED
    BY <1>1, <1>2, <2>1, EnrolRouting DEF IInv
<1>6. Minted'
  BY <1>1 DEF IInv, Minted, TypeOK, ChildRec, PairCodeRec
<1>7. DigestsDistinct' /\ HeldRecorded'
  BY <1>1 DEF IInv, DigestsDistinct, HeldRecorded
<1>8. Saved' /\ CodesDistinct' /\ UsedCodeGone' /\ RedeemPaced'
  BY <1>1 DEF IInv, Saved, CodesDistinct, UsedCodeGone, RedeemPaced
<1> QED
  BY <1>3, <1>5, <1>6, <1>7, <1>8 DEF IInv

\* create_pair_code preserves it: the code is new.
LEMMA CreatePairCodeInv ==
    ASSUME IInv, NEW a \in Accounts, CreatePairCode(a)
    PROVE  IInv'
<1> DEFINE new == [code |-> minted + 1, account |-> a, issued |-> clock]
<1> USE DEF Ids
<1>1. /\ minted \in Nat
      /\ minted' = minted + 1
      /\ pairCodes' = pairCodes \union {new}
      /\ UNCHANGED <<clock, children, deviceToChild, redeemFails, disk, held, usedCodes>>
  BY DEF CreatePairCode, IInv, TypeOK
<1>2. new \in PairCodeRec
  BY <1>1 DEF PairCodeRec, IInv, TypeOK
<1>3. TypeOK'
  BY <1>1, <1>2 DEF IInv, TypeOK
<1>4. \A rec \in pairCodes : rec.code # minted + 1
  BY <1>1 DEF IInv, Minted, TypeOK, PairCodeRec
<1>5. minted + 1 \notin usedCodes
  BY <1>1 DEF IInv, Minted, TypeOK
<1>6. CodesDistinct' /\ UsedCodeGone'
  BY <1>1, <1>4, <1>5 DEF IInv, CodesDistinct, UsedCodeGone
<1>7. Minted'
  BY <1>1 DEF IInv, Minted, TypeOK, ChildRec, PairCodeRec
<1>8. Saved' /\ RoutingUnambiguous' /\ DigestsDistinct' /\ HeldRecorded' /\ RedeemPaced'
  BY <1>1 DEF IInv, Saved, RoutingUnambiguous, DigestsDistinct, HeldRecorded, RedeemPaced
<1> QED
  BY <1>3, <1>6, <1>7, <1>8 DEF IInv

\* A redemption preserves it: device free, id and token new, code removed.
LEMMA RedeemPairCodeInv ==
    ASSUME IInv, NEW rec \in pairCodes, NEW d \in Devices, RedeemPairCode(rec, d)
    PROVE  IInv'
<1> DEFINE new == [id |-> minted + 1, family |-> rec.account, device |-> d,
                   guardians |-> {rec.account}, digest |-> minted + 2]
<1> USE DEF NoChild, NoDigest, Ids
<1>1. /\ minted \in Nat
      /\ minted' = minted + 2
      /\ children' = children \union {new}
      /\ deviceToChild' = [deviceToChild EXCEPT ![d] = minted + 1]
      /\ deviceToChild[d] = NoChild
      /\ pairCodes' = pairCodes \ {rec}
      /\ redeemFails' = NoEntry
      /\ held' = held \/ held' = [held EXCEPT ![d] = minted + 2]
      /\ usedCodes' = usedCodes \union {rec.code}
      /\ disk' = children'
      /\ UNCHANGED clock
      /\ rec \in PairCodeRec
  BY DEF RedeemPairCode, IInv, TypeOK, DeviceFree, Persist, Consumed
<1>2. new \in ChildRec
  BY <1>1 DEF ChildRec, PairCodeRec
<1>3. TypeOK'
  <2>1. children' \in SUBSET ChildRec
    <3> HIDE DEF new
    <3> QED
      BY <1>1, <1>2 DEF IInv, TypeOK
  <2>2. deviceToChild' \in [Devices -> Nat] /\ held' \in [Devices -> Nat]
    BY <1>1 DEF IInv, TypeOK
  <2>3. usedCodes' \in SUBSET Ids /\ pairCodes' \in SUBSET PairCodeRec
    BY <1>1 DEF IInv, TypeOK, PairCodeRec
  <2> QED
    BY <1>1, <2>1, <2>2, <2>3, NoEntryPaced DEF IInv, TypeOK
<1>4. RoutingUnambiguous'
  <2>1. /\ new.id > minted
        /\ deviceToChild[new.device] = NoChild
        /\ deviceToChild' = [deviceToChild EXCEPT ![new.device] = new.id]
    BY <1>1
  <2> HIDE DEF new
  <2> QED
    BY <1>1, <1>2, <2>1, EnrolRouting DEF IInv
<1>5. Minted'
  <2>1. \A c \in children' : c.id <= minted' /\ c.digest <= minted'
    BY <1>1 DEF IInv, Minted, TypeOK, ChildRec
  <2>2. \A r \in pairCodes' : r.code <= minted'
    BY <1>1 DEF IInv, Minted, TypeOK, PairCodeRec
  <2>3. \A k \in usedCodes' : k <= minted'
    BY <1>1 DEF IInv, Minted, TypeOK, PairCodeRec
  <2>4. \A x \in Devices : held'[x] <= minted'
    BY <1>1 DEF IInv, Minted, TypeOK
  <2> QED
    BY <2>1, <2>2, <2>3, <2>4 DEF Minted
<1>6. DigestsDistinct'
  <2>1. new.digest = minted + 2 /\ \A c \in children : c.digest # minted + 2
    BY <1>1 DEF IInv, Minted, TypeOK, ChildRec
  <2> HIDE DEF new
  <2> QED
    BY <1>1, <2>1 DEF IInv, DigestsDistinct
<1>7. HeldRecorded'
  <2> SUFFICES ASSUME NEW x \in Devices, held'[x] # NoDigest
               PROVE  \E c \in children' : c.device = x /\ c.digest = held'[x]
    BY DEF HeldRecorded
  <2>1. CASE held'[x] = held[x]
    BY <1>1, <2>1 DEF IInv, HeldRecorded
  <2>2. CASE held'[x] # held[x]
    <3>1. new \in children' /\ new.device = x /\ new.digest = held'[x]
      BY <1>1, <2>2 DEF IInv, TypeOK
    <3> HIDE DEF new
    <3> QED
      BY <3>1
  <2> QED
    BY <2>1, <2>2
<1>8. CodesDistinct' /\ UsedCodeGone'
  BY <1>1 DEF IInv, CodesDistinct, UsedCodeGone
<1>9. Saved' /\ RedeemPaced'
  BY <1>1, NoEntryPaced DEF Saved, RedeemPaced
<1> QED
  BY <1>3, <1>4, <1>5, <1>6, <1>7, <1>8, <1>9 DEF IInv

\* A failed redemption preserves it: it is counted only while not paused.
LEMMA RedeemFailedInv ==
    ASSUME IInv, RedeemOpen, redeemFails' = RecordFailure(redeemFails, clock),
           pairCodes' \subseteq pairCodes,
           UNCHANGED <<clock, minted, children, deviceToChild, disk, held, usedCodes>>
    PROVE  IInv'
<1>1. TypeOK' /\ RedeemPaced'
  <2>1. redeemFails \in Counter /\ clock \in Nat /\ redeemFails.fails <= MaxFails
    BY DEF IInv, TypeOK, RedeemPaced
  <2> QED
    BY <2>1, RecordFailureType, RecordFailurePaced
       DEF IInv, TypeOK, RedeemPaced, RedeemOpen
<1>2. Saved' /\ Minted' /\ RoutingUnambiguous'
  BY DEF IInv, Saved, Minted, RoutingUnambiguous
<1>3. CodesDistinct' /\ DigestsDistinct' /\ HeldRecorded' /\ UsedCodeGone'
  BY DEF IInv, CodesDistinct, DigestsDistinct, HeldRecorded, UsedCodeGone
<1> QED
  BY <1>1, <1>2, <1>3 DEF IInv

\* assign_guardian preserves it: only the guardians of one record change.
LEMMA AssignGuardianInv ==
    ASSUME IInv, NEW c \in children, NEW a \in Accounts, NEW g \in Accounts,
           AssignGuardian(c, a, g)
    PROVE  IInv'
<1> DEFINE new == [c EXCEPT !.guardians = @ \union {g}]
<1>1. /\ children' = (children \ {c}) \union {new}
      /\ disk' = children'
      /\ UNCHANGED <<clock, minted, deviceToChild, pairCodes, redeemFails, held, usedCodes>>
      /\ c \in ChildRec
  BY DEF AssignGuardian, IInv, TypeOK, Persist
<1>2. /\ new \in ChildRec
      /\ new.id = c.id /\ new.device = c.device /\ new.digest = c.digest
  BY <1>1 DEF ChildRec
<1> HIDE DEF new
<1>3. TypeOK'
  BY <1>1, <1>2 DEF IInv, TypeOK
<1>4. RoutingUnambiguous'
  <2>1. ASSUME NEW k \in children' PROVE deviceToChild'[k.device] = k.id
    BY <1>1, <1>2 DEF IInv, RoutingUnambiguous
  <2>2. ASSUME NEW x \in Devices, deviceToChild'[x] # NoChild
        PROVE  \E k \in children' : k.device = x
    BY <1>1, <1>2, <2>2 DEF IInv, RoutingUnambiguous
  <2>3. ASSUME NEW k1 \in children', NEW k2 \in children',
               k1.device = k2.device \/ k1.id = k2.id
        PROVE  k1 = k2
    BY <1>1, <1>2, <2>3 DEF IInv, RoutingUnambiguous
  <2> QED
    BY <2>1, <2>2, <2>3 DEF RoutingUnambiguous
<1>5. Minted'
  BY <1>1, <1>2 DEF IInv, Minted
<1>6. DigestsDistinct' /\ HeldRecorded'
  BY <1>1, <1>2 DEF IInv, DigestsDistinct, HeldRecorded
<1>7. Saved' /\ CodesDistinct' /\ UsedCodeGone' /\ RedeemPaced'
  BY <1>1 DEF IInv, Saved, CodesDistinct, UsedCodeGone, RedeemPaced
<1> QED
  BY <1>3, <1>4, <1>5, <1>6, <1>7 DEF IInv

\* A restart preserves it: what was saved is what was in memory, and the
\* index comes back the same.
LEMMA RestartInv ==
    ASSUME IInv, Restart
    PROVE  IInv'
<1>1. /\ children' = children
      /\ deviceToChild' = deviceToChild
      /\ pairCodes' = {}
      /\ redeemFails' = NoEntry
      /\ UNCHANGED <<clock, minted, disk, held, usedCodes>>
  BY IndexRebuilt DEF IInv, Saved, Restart
<1>2. TypeOK' /\ RedeemPaced'
  BY <1>1, NoEntryPaced DEF IInv, TypeOK, RedeemPaced
<1>3. Saved' /\ Minted' /\ RoutingUnambiguous'
  BY <1>1 DEF IInv, Saved, Minted, RoutingUnambiguous
<1>4. CodesDistinct' /\ DigestsDistinct' /\ HeldRecorded' /\ UsedCodeGone'
  BY <1>1 DEF IInv, CodesDistinct, DigestsDistinct, HeldRecorded, UsedCodeGone
<1> QED
  BY <1>2, <1>3, <1>4 DEF IInv

\* Time passing, or nothing happening, preserves it.
LEMMA QuietInv ==
    ASSUME IInv, clock' \in Nat,
           UNCHANGED <<minted, children, deviceToChild, pairCodes, redeemFails,
                       disk, held, usedCodes>>
    PROVE  IInv'
  BY DEF IInv, TypeOK, Saved, Minted, RoutingUnambiguous, CodesDistinct,
     DigestsDistinct, HeldRecorded, UsedCodeGone, RedeemPaced

\* So every step preserves it.
LEMMA NextInv == IInv /\ [Next]_vars => IInv'
<1> SUFFICES ASSUME IInv, [Next]_vars PROVE IInv'
  OBVIOUS
<1>1. ASSUME NEW a \in Accounts, NEW d \in Devices, AddChild(a, d) PROVE IInv'
  BY <1>1, AddChildInv
<1>2. ASSUME NEW a \in Accounts, CreatePairCode(a) PROVE IInv'
  BY <1>2, CreatePairCodeInv
<1>3. ASSUME NEW rec \in pairCodes, NEW d \in Devices, RedeemPairCode(rec, d)
      PROVE  IInv'
  BY <1>3, RedeemPairCodeInv
<1>4. ASSUME NEW rec \in pairCodes, RedeemExpired(rec) PROVE IInv'
  BY <1>4, RedeemFailedInv DEF RedeemExpired
<1>5. CASE RedeemUnknown
  BY <1>5, RedeemFailedInv DEF RedeemUnknown
<1>6. ASSUME NEW c \in children, NEW a \in Accounts, NEW g \in Accounts,
             AssignGuardian(c, a, g)
      PROVE  IInv'
  BY <1>6, AssignGuardianInv
<1>7. CASE Restart
  BY <1>7, RestartInv
<1>8. CASE Tick
  BY <1>8, QuietInv DEF Tick, IInv, TypeOK
<1>9. CASE UNCHANGED vars
  BY <1>9, QuietInv DEF vars, IInv, TypeOK
<1> QED
  BY <1>1, <1>2, <1>3, <1>4, <1>5, <1>6, <1>7, <1>8, <1>9 DEF Next

\* The invariant holds in every reachable state.
LEMMA EnrollmentInv == Spec => []IInv
  BY InitInv, NextInv, PTL DEF Spec

-----------------------------------------------------------------------------
(* What the rest of the server relies on *)

\* Every reachable state is well typed.
THEOREM EnrollmentTyped == Spec => []TypeOK
<1>1. IInv => TypeOK
  BY DEF IInv
<1> QED
  BY <1>1, EnrollmentInv, PTL

\* add_child, redeem_pair_code, assign_guardian and from_snapshot keep the
\* index and the records in agreement: a device is routed to one family.
THEOREM RoutingSafe == Spec => []RoutingUnambiguous
<1>1. IInv => RoutingUnambiguous
  BY DEF IInv
<1> QED
  BY <1>1, EnrollmentInv, PTL

\* In an unambiguous state the child of an enrolled device is its record.
LEMMA ChildOfEnrolled ==
    ASSUME TypeOK, RoutingUnambiguous, NEW c \in children
    PROVE  ChildOf(c.device) = {c}
  BY DEF ChildOf, RoutingUnambiguous, TypeOK, ChildRec

\* A device that is not enrolled has none.
LEMMA ChildOfUnknown ==
    ASSUME TypeOK, RoutingUnambiguous, NEW d \in Devices,
           ~\E c \in children : c.device = d
    PROVE  ChildOf(d) = {}
<1>1. deviceToChild[d] = NoChild
  BY DEF RoutingUnambiguous
<1> QED
  BY <1>1 DEF ChildOf, TypeOK, ChildRec, Ids, NoChild

\* guardians_for_device and guardian_scope agree on who sees a device.
THEOREM ScopeSafe == Spec => []ScopeMatchesRouting
<1>1. ASSUME TypeOK, RoutingUnambiguous, NEW d \in Devices, NEW a \in Accounts
      PROVE  a \in GuardiansForDevice(d) <=> d \in GuardianScope(a)
  <2>1. ASSUME NEW c \in children, c.device = d
        PROVE  a \in GuardiansForDevice(d) <=> d \in GuardianScope(a)
    <3>1. GuardiansForDevice(d) = c.guardians
      BY <1>1, <2>1, ChildOfEnrolled DEF GuardiansForDevice
    <3>2. d \in GuardianScope(a) <=> a \in c.guardians
      BY <1>1, <2>1 DEF GuardianScope, RoutingUnambiguous
    <3> QED
      BY <3>1, <3>2
  <2>2. CASE ~\E c \in children : c.device = d
    <3>1. GuardiansForDevice(d) = {}
      BY <1>1, <2>2, ChildOfUnknown DEF GuardiansForDevice
    <3>2. d \notin GuardianScope(a)
      BY <2>2 DEF GuardianScope
    <3> QED
      BY <3>1, <3>2
  <2> QED
    BY <2>1, <2>2
<1>2. IInv => ScopeMatchesRouting
  BY <1>1 DEF IInv, ScopeMatchesRouting
<1> QED
  BY <1>2, EnrollmentInv, PTL

\* A device that received its token passes the strict check with it, and no
\* other device does.
THEOREM HeldTokenSafe == Spec => []HeldTokenAuthenticates
<1>1. ASSUME IInv, NEW d \in Devices, NEW x \in Devices, held[d] # NoDigest
      PROVE  VerifyStrict(x, held[d]) <=> x = d
  <2>1. PICK c \in children : c.device = d /\ c.digest = held[d]
    BY <1>1 DEF IInv, HeldRecorded
  <2>2. ChildOf(d) = {c} /\ c \in ChildRec
    BY <1>1, <2>1, ChildOfEnrolled DEF IInv, TypeOK
  <2>3. VerifyStrict(d, held[d])
    BY <1>1, <2>1, <2>2
       DEF VerifyStrict, VerifyDeviceToken, LegacyGraceProbe, ChildRec, NoDigest
  <2>4. ASSUME x # d, NEW k \in children, k.device = x, VerifyStrict(x, held[d])
        PROVE  FALSE
    <3>1. ChildOf(x) = {k}
      BY <1>1, <2>4, ChildOfEnrolled DEF IInv
    <3>2. k.digest = held[d]
      BY <2>4, <3>1 DEF VerifyStrict, VerifyDeviceToken
    <3>3. k = c
      BY <1>1, <2>1, <3>2 DEF IInv, DigestsDistinct
    <3> QED
      BY <2>1, <2>4, <3>3
  <2>5. ASSUME ~\E k \in children : k.device = x
        PROVE  ~VerifyStrict(x, held[d])
    <3>1. ChildOf(x) = {}
      BY <1>1, <2>5, ChildOfUnknown DEF IInv
    <3> QED
      BY <3>1 DEF VerifyStrict, VerifyDeviceToken
  <2> QED
    BY <2>3, <2>4, <2>5
<1>2. IInv => HeldTokenAuthenticates
  BY <1>1 DEF HeldTokenAuthenticates
<1> QED
  BY <1>2, EnrollmentInv, PTL

\* A pairing code that has enrolled a device is never accepted again.
THEOREM CodesSingleUse == Spec => []UsedCodeGone
<1>1. IInv => UsedCodeGone
  BY DEF IInv
<1> QED
  BY <1>1, EnrollmentInv, PTL

-----------------------------------------------------------------------------
(* Enrolment implements DeviceRegistry *)

\* Each device is seen by the guardians of its record, or by nobody.
GuardiansExact ==
    /\ GuardiansOf = [d \in Devices |-> GuardiansOf[d]]
    /\ \A c \in children : GuardiansOf[c.device] = c.guardians
    /\ \A d \in Devices : (\A c \in children : c.device # d) => GuardiansOf[d] = {}

\* Unambiguous routing makes it so.
LEMMA GuardiansExactly == IInv => GuardiansExact
<1> SUFFICES ASSUME IInv PROVE GuardiansExact
  OBVIOUS
<1>1. GuardiansOf = [d \in Devices |-> GuardiansOf[d]]
  BY DEF GuardiansOf
<1>2. ASSUME NEW c \in children PROVE GuardiansOf[c.device] = c.guardians
  <2>1. c.device \in Devices
    BY DEF IInv, TypeOK, ChildRec
  <2>2. GuardiansForDevice(c.device) = c.guardians
    BY ChildOfEnrolled DEF GuardiansForDevice, IInv
  <2> QED
    BY <2>1, <2>2 DEF GuardiansOf
<1>3. ASSUME NEW d \in Devices, \A c \in children : c.device # d
      PROVE  GuardiansOf[d] = {}
  <2>1. GuardiansForDevice(d) = {}
    BY <1>3, ChildOfUnknown DEF GuardiansForDevice, IInv
  <2> QED
    BY <2>1 DEF GuardiansOf
<1> QED
  BY <1>1, <1>2, <1>3 DEF GuardiansExact

\* A new record of account a on a free device is the registry's Enrol.
LEMMA EnrolStep ==
    ASSUME IInv, GuardiansExact, GuardiansExact',
           NEW a \in Accounts, NEW new \in ChildRec, new.guardians = {a},
           deviceToChild[new.device] = NoChild, children' = children \union {new}
    PROVE  Registry!Enrol(new.device, a)
<1>1. \A c \in children : c.device # new.device
  BY DEF IInv, RoutingUnambiguous, TypeOK, ChildRec, NoChild, Ids
<1>2. new.device \in Devices
  BY DEF ChildRec
<1>3. GuardiansOf[new.device] = {}
  BY <1>1, <1>2 DEF GuardiansExact
<1>4. ASSUME NEW d \in Devices
      PROVE  GuardiansOf'[d] = IF d = new.device THEN {a} ELSE GuardiansOf[d]
  <2>1. CASE d = new.device
    BY <2>1 DEF GuardiansExact
  <2>2. CASE d # new.device /\ \E c \in children : c.device = d
    BY <2>2 DEF GuardiansExact
  <2>3. CASE d # new.device /\ \A c \in children : c.device # d
    BY <2>3 DEF GuardiansExact
  <2> QED
    BY <2>1, <2>2, <2>3
<1>5. GuardiansOf' = [GuardiansOf EXCEPT ![new.device] = {a}]
  BY <1>4 DEF GuardiansExact
<1> QED
  BY <1>3, <1>5 DEF Registry!Enrol

\* assign_guardian is the registry's Share.
LEMMA ShareStep ==
    ASSUME IInv, GuardiansExact, GuardiansExact',
           NEW c \in children, NEW a \in Accounts, NEW g \in Accounts,
           AssignGuardian(c, a, g)
    PROVE  Registry!Share(c.device, a, g)
<1> DEFINE new == [c EXCEPT !.guardians = @ \union {g}]
<1>1. /\ children' = (children \ {c}) \union {new}
      /\ a \in c.guardians
      /\ c \in ChildRec
  BY DEF AssignGuardian, MayAssign, IInv, TypeOK
<1>2. new.device = c.device /\ new.guardians = c.guardians \union {g}
  BY <1>1 DEF ChildRec
<1> HIDE DEF new
<1>3. GuardiansOf[c.device] = c.guardians /\ c.device \in Devices
  BY <1>1 DEF GuardiansExact, ChildRec
<1>4. ASSUME NEW d \in Devices
      PROVE  GuardiansOf'[d] = IF d = c.device THEN c.guardians \union {g}
                               ELSE GuardiansOf[d]
  <2>1. CASE d = c.device
    BY <1>1, <1>2, <2>1 DEF GuardiansExact
  <2>2. CASE d # c.device /\ \E k \in children : k.device = d
    BY <1>1, <2>2 DEF GuardiansExact
  <2>3. CASE d # c.device /\ \A k \in children : k.device # d
    BY <1>1, <1>2, <2>3 DEF GuardiansExact
  <2> QED
    BY <2>1, <2>2, <2>3
<1>5. GuardiansOf' = [GuardiansOf EXCEPT ![c.device] = @ \union {g}]
  BY <1>3, <1>4 DEF GuardiansExact
<1> QED
  BY <1>1, <1>3, <1>5 DEF Registry!Share

\* A step that leaves the children alone leaves the guardians alone.
LEMMA StutterStep ==
    ASSUME IInv, IInv', GuardiansExact, GuardiansExact', children' = children
    PROVE  GuardiansOf' = GuardiansOf
<1>1. ASSUME NEW d \in Devices PROVE GuardiansOf'[d] = GuardiansOf[d]
  BY DEF GuardiansExact
<1> QED
  BY <1>1 DEF GuardiansExact

\* Every step of enrolment is a step of the registry or invisible to it.
LEMMA RegistryStep ==
    ASSUME IInv, IInv', GuardiansExact, GuardiansExact', [Next]_vars
    PROVE  [Registry!Next]_GuardiansOf
<1>1. ASSUME NEW a \in Accounts, NEW d \in Devices, AddChild(a, d)
      PROVE  Registry!Next
  <2> DEFINE new == [id |-> minted + 1, family |-> a, device |-> d,
                     guardians |-> {a}, digest |-> NoDigest]
  <2>1. /\ new \in ChildRec
        /\ new.guardians = {a}
        /\ new.device = d
        /\ deviceToChild[new.device] = NoChild
        /\ children' = children \union {new}
    BY <1>1 DEF AddChild, DeviceFree, ChildRec, Ids, NoDigest, IInv, TypeOK
  <2> HIDE DEF new
  <2> QED
    BY <2>1, EnrolStep DEF Registry!Next
<1>2. ASSUME NEW rec \in pairCodes, NEW d \in Devices, RedeemPairCode(rec, d)
      PROVE  Registry!Next
  <2> DEFINE new == [id |-> minted + 1, family |-> rec.account, device |-> d,
                     guardians |-> {rec.account}, digest |-> minted + 2]
  <2>1. /\ new \in ChildRec
        /\ rec.account \in Accounts
        /\ new.guardians = {rec.account}
        /\ new.device = d
        /\ deviceToChild[new.device] = NoChild
        /\ children' = children \union {new}
    BY <1>2 DEF RedeemPairCode, DeviceFree, ChildRec, PairCodeRec, Ids, IInv, TypeOK
  <2> HIDE DEF new
  <2> QED
    BY <2>1, EnrolStep DEF Registry!Next
<1>3. ASSUME NEW c \in children, NEW a \in Accounts, NEW g \in Accounts,
             AssignGuardian(c, a, g)
      PROVE  Registry!Next
  <2>1. c.device \in Devices
    BY DEF IInv, TypeOK, ChildRec
  <2> QED
    BY <1>3, <2>1, ShareStep DEF Registry!Next
<1>4. CASE children' = children
  BY <1>4, StutterStep
<1>5. CASE Restart
  BY <1>5, <1>4 DEF Restart, IInv, Saved
<1> QED
  BY <1>1, <1>2, <1>3, <1>4, <1>5
     DEF Next, vars, CreatePairCode, RedeemExpired, RedeemUnknown, Tick

\* Enrolment, with its codes, pacing, lost answers and restarts, implements
\* the append-only registry the rest of the server relies on.
THEOREM EnrollmentRefines == Spec => ImplementsRegistry
<1>1. Init => Registry!Init
  <2> SUFFICES ASSUME Init PROVE GuardiansOf = [d \in Devices |-> {}]
    BY DEF Registry!Init
  <2>1. IInv /\ children = {}
    BY InitInv DEF Init
  <2> QED
    BY <2>1, GuardiansExactly DEF GuardiansExact
<1>2. IInv /\ IInv' /\ GuardiansExact /\ GuardiansExact' /\ [Next]_vars
        => [Registry!Next]_GuardiansOf
  BY RegistryStep
<1> QED
  BY <1>1, <1>2, EnrollmentInv, GuardiansExactly, PTL
     DEF Spec, ImplementsRegistry, Registry!Spec
=============================================================================
