----------------------------- MODULE Enrollment -----------------------------
(***************************************************************************)
(* The enrolment half of AccountStore (bulwark-server/src/accounts.rs):    *)
(* children, the device index that routes every alert, pairing codes and   *)
(* the throttle on redeeming them, guardians, device credentials, and the  *)
(* children of accounts.json.  auth.rs checks the credentials.             *)
(*                                                                         *)
(* Every handler here holds the mutex throughout, so each is one step.     *)
(* What is not atomic is the answer: redeem_pair_code returns the device   *)
(* token exactly once, and the reply may be lost after the state has been  *)
(* saved.  The device's copy of its token is the variable "held".          *)
(*                                                                         *)
(* An account stands for itself and for its family (family ids are minted  *)
(* one per account).  A caller is an account with a live session; calls    *)
(* without one change nothing.  Child ids, pairing codes and device tokens *)
(* are fresh numbers.                                                      *)
(***************************************************************************)
EXTENDS Throttle, FiniteSets

CONSTANTS
    Accounts,      \* registered guardian accounts
    Devices,       \* trimmed, non-empty device ids
    PairCodeTtl,   \* PAIR_CODE_TTL_SECS
    MaxTime,       \* bound on the clock
    MaxMint        \* bound on minted ids, codes and tokens

ASSUME EnrollmentAssumption ==
    /\ PairCodeTtl \in Nat \ {0}
    /\ MaxTime \in Nat
    /\ MaxMint \in Nat

VARIABLES
    clock,
    minted,         \* number of random values handed out so far
    children,       \* Inner.children
    deviceToChild,  \* Inner.device_to_child, 0 where absent
    pairCodes,      \* Inner.pair_codes
    redeemFails,    \* Inner.redeem_fails under its one global key
    disk,           \* the children of accounts.json
    held,           \* the token each device has stored, 0 for none
    usedCodes       \* auxiliary: codes that have enrolled a device

vars == <<clock, minted, children, deviceToChild, pairCodes, redeemFails, disk,
          held, usedCodes>>

NoChild == 0
NoDigest == 0  \* empty device_token_sha256
Ids == Nat \ {0}
ChildRec == [id: Ids, family: Accounts, device: Devices,
             guardians: SUBSET Accounts, digest: Nat]
PairCodeRec == [code: Ids, account: Accounts, issued: Nat]

Init ==
    /\ clock = 0
    /\ minted = 0
    /\ children = {}
    /\ deviceToChild = [d \in Devices |-> NoChild]
    /\ pairCodes = {}
    /\ redeemFails = NoEntry
    /\ disk = {}
    /\ held = [d \in Devices |-> NoDigest]
    /\ usedCodes = {}

-----------------------------------------------------------------------------
(* Handlers *)

\* Mutant: the save is forgotten.
PersistSkipped == UNCHANGED disk

\* persist_locked.  A production write that fails aborts the process before
\* it answers, which is a Restart.
Persist == disk' = children'

\* Mutant: the test for a device that already has a child is dropped.
DeviceFreeUnchecked(d) == TRUE

DeviceFree(d) == deviceToChild[d] = NoChild

\* The caller types in the id of a device that is not there to receive a
\* token: the record keeps an empty digest.
AddChild(a, d) ==
    /\ minted < MaxMint
    /\ DeviceFree(d)
    /\ minted' = minted + 1
    /\ children' = children \union
         {[id |-> minted', family |-> a, device |-> d, guardians |-> {a},
           digest |-> NoDigest]}
    /\ deviceToChild' = [deviceToChild EXCEPT ![d] = minted']
    /\ UNCHANGED <<clock, pairCodes, redeemFails, held, usedCodes>>
    /\ Persist

\* Codes live in memory only.
CreatePairCode(a) ==
    /\ minted < MaxMint
    /\ minted' = minted + 1
    /\ pairCodes' = pairCodes \union
         {[code |-> minted', account |-> a, issued |-> clock]}
    /\ UNCHANGED <<clock, children, deviceToChild, redeemFails, disk, held,
                   usedCodes>>

\* The pause is global and comes before everything else.
RedeemOpen == ~ThrottleLocked(redeemFails, clock)
CodeLive(rec) == SessionLive(rec.issued, clock, PairCodeTtl)

Consumed(rec) == pairCodes \ {rec}

\* A live code enrols the device: child, index and digest are written, the
\* code is consumed, the pacing cleared, the state saved; the answer with the
\* token then reaches the device or is lost.  A device that has a child
\* already is refused with nothing changed, the code still good.
RedeemPairCode(rec, d) ==
    /\ minted + 1 < MaxMint
    /\ RedeemOpen
    /\ CodeLive(rec)
    /\ DeviceFree(d)
    /\ minted' = minted + 2
    /\ children' = children \union
         {[id |-> minted + 1, family |-> rec.account, device |-> d,
           guardians |-> {rec.account}, digest |-> minted + 2]}
    /\ deviceToChild' = [deviceToChild EXCEPT ![d] = minted + 1]
    /\ pairCodes' = Consumed(rec)
    /\ redeemFails' = NoEntry
    /\ held' \in {held, [held EXCEPT ![d] = minted + 2]}
    /\ usedCodes' = usedCodes \union {rec.code}
    /\ UNCHANGED clock
    /\ Persist

\* An expired code is dropped and counted as a guess.
RedeemExpired(rec) ==
    /\ RedeemOpen
    /\ ~CodeLive(rec)
    /\ pairCodes' = pairCodes \ {rec}
    /\ redeemFails' = RecordFailure(redeemFails, clock)
    /\ UNCHANGED <<clock, minted, children, deviceToChild, disk, held, usedCodes>>

\* So is a code that is not in the map.
RedeemUnknown ==
    /\ RedeemOpen
    /\ redeemFails' = RecordFailure(redeemFails, clock)
    /\ UNCHANGED <<clock, minted, children, deviceToChild, pairCodes, disk, held,
                   usedCodes>>

MayAssign(c, a) == a \in c.guardians

\* A guardian of the child adds another registered account.
AssignGuardian(c, a, g) ==
    /\ MayAssign(c, a)
    /\ children' = (children \ {c}) \union {[c EXCEPT !.guardians = @ \union {g}]}
    /\ UNCHANGED <<clock, minted, deviceToChild, pairCodes, redeemFails, held,
                   usedCodes>>
    /\ Persist

\* from_snapshot derives the index from the children; codes and throttle are
\* gone.
IndexOf(recs) ==
    [d \in Devices |-> IF \E c \in recs : c.device = d
                       THEN (CHOOSE c \in recs : c.device = d).id
                       ELSE NoChild]

Restart ==
    /\ children' = disk
    /\ deviceToChild' = IndexOf(disk)
    /\ pairCodes' = {}
    /\ redeemFails' = NoEntry
    /\ UNCHANGED <<clock, minted, disk, held, usedCodes>>

Tick ==
    /\ clock < MaxTime
    /\ clock' = clock + 1
    /\ UNCHANGED <<minted, children, deviceToChild, pairCodes, redeemFails, disk,
                   held, usedCodes>>

Next ==
    \/ \E a \in Accounts, d \in Devices : AddChild(a, d)
    \/ \E a \in Accounts : CreatePairCode(a)
    \/ \E rec \in pairCodes, d \in Devices : RedeemPairCode(rec, d)
    \/ \E rec \in pairCodes : RedeemExpired(rec)
    \/ RedeemUnknown
    \/ \E c \in children, a, g \in Accounts : AssignGuardian(c, a, g)
    \/ Restart
    \/ Tick

Spec == Init /\ [][Next]_vars

-----------------------------------------------------------------------------
(* Queries other services make *)

ChildOf(d) == {c \in children : c.id = deviceToChild[d]}

GuardiansForDevice(d) == UNION {c.guardians : c \in ChildOf(d)}

\* guardian_scope: the devices of the children the account is a guardian of.
GuardianScope(a) == {c.device : c \in {x \in children : a \in x.guardians}}

\* verify_device_token: a record without a digest accepts any token.
VerifyDeviceToken(d, tok) ==
    \E c \in ChildOf(d) : c.digest = NoDigest \/ c.digest = tok

\* verify_device_token_strict: a record that accepts an impossible token has
\* no digest and is refused.
LegacyGraceProbe == -1
VerifyStrict(d, tok) == /\ ~VerifyDeviceToken(d, LegacyGraceProbe)
                        /\ VerifyDeviceToken(d, tok)

-----------------------------------------------------------------------------
(* Properties *)

\* Every variable has the shape the code's structs give it.
TypeOK ==
    /\ clock \in Nat
    /\ minted \in Nat
    /\ children \in SUBSET ChildRec
    /\ deviceToChild \in [Devices -> Nat]
    /\ pairCodes \in SUBSET PairCodeRec
    /\ redeemFails \in Counter
    /\ disk \in SUBSET ChildRec
    /\ held \in [Devices -> Nat]
    /\ usedCodes \in SUBSET Ids

\* "it must also map to exactly ONE child": the index and the records agree
\* in both directions and no two children share a device or an id, so an
\* alert routed by device reaches one family.
RoutingUnambiguous ==
    /\ \A c \in children : deviceToChild[c.device] = c.id
    /\ \A d \in Devices : deviceToChild[d] # NoChild =>
           \E c \in children : c.device = d
    /\ \A c1, c2 \in children : c1.device = c2.device \/ c1.id = c2.id => c1 = c2

\* The two ways a service scopes by guardian agree: the guardians an alert of
\* the device is pushed to are the accounts that have the device in scope.
ScopeMatchesRouting ==
    \A d \in Devices, a \in Accounts :
        a \in GuardiansForDevice(d) <=> d \in GuardianScope(a)

\* A device that received its token passes the strict check with it for ever,
\* and no device passes with another's, restarts included.
HeldTokenAuthenticates ==
    \A d, x \in Devices : held[d] # NoDigest => (VerifyStrict(x, held[d]) <=> x = d)

\* A code enrols at most one device: once used it is not in the map again.
UsedCodeGone == \A rec \in pairCodes : rec.code \notin usedCodes

\* Redeeming checks and counts under one lock, for all callers together.
RedeemPaced == redeemFails.fails <= MaxFails

\* Enrolment implements the registry: a device is claimed once, its guardians
\* only grow and only at a guardian's hand, and a restart changes nothing.
GuardiansOf == [d \in Devices |-> GuardiansForDevice(d)]
Registry == INSTANCE DeviceRegistry WITH guardiansOf <- GuardiansOf
ImplementsRegistry == Registry!Spec
=============================================================================
