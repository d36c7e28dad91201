------------------------------ MODULE Pinning ------------------------------
(***************************************************************************)
(* What the TLS-inspecting proxy learns about hosts that reject its        *)
(* certificates (crates/bulwark-net/src/pinning.rs, and decide_intercept   *)
(* and emit of proxy.rs).  Every connection is a task of its own; the map  *)
(* of capabilities and the strikes have separate locks, so a task's read   *)
(* of one and its write of the other can be separated by other tasks.      *)
(* Bound: MaxConnects connections per host.                                *)
(***************************************************************************)
EXTENDS Naturals, FiniteSets

CONSTANTS
    Hosts,
    PinningHosts,   \* the hosts whose clients reject our certificates
    Connections,    \* tasks that handle a CONNECT
    StrikeThreshold,
    MaxConnects

ASSUME PinningAssumption ==
    /\ PinningHosts \subseteq Hosts
    /\ StrikeThreshold \in Nat /\ MaxConnects \in Nat

VARIABLES
    capability,     \* PinningRegistry.map
    strikes,        \* PinningRegistry.strikes
    failOpen,       \* PinningRegistry.fail_open
    conn,           \* connection -> its host and where it is
    connects,       \* host -> connections opened so far
    rejected        \* host -> interceptions the client refused, all told

pinVars == <<capability, strikes, failOpen, conn, connects, rejected>>

Capability == {"unknown", "mitmable", "pinned"}
Stage == {"closed",         \* no connection
          "capability",     \* is_pinned said no; about to read the map again
          "strike",         \* the host was unknown; about to add a strike
          "clear", "pin",   \* at the threshold: forget the strikes, then pin
          "intercept",      \* we answer the handshake
          "decrypted",      \* it worked; about to note that in the map
          "forgive",        \* noted; about to forget the strikes
          "inspect",        \* requests are being inspected
          "tunnel"}         \* passed through unread

PinInit ==
    /\ capability = [h \in Hosts |-> "unknown"]
    /\ strikes = [h \in Hosts |-> 0]
    /\ failOpen \in BOOLEAN
    /\ conn = [c \in Connections |-> [stage |-> "closed", host |-> CHOOSE h \in Hosts : TRUE]]
    /\ connects = [h \in Hosts |-> 0]
    /\ rejected = [h \in Hosts |-> 0]

Go(c, stage) == conn' = [conn EXCEPT ![c].stage = stage]

\* What happens to a host known as pinned.
Refuse == IF failOpen THEN "tunnel" ELSE "intercept"

----------------------------------------------------------------------------
\* decide_intercept: is_pinned reads the map ...
Connect(c, h) ==
    /\ conn[c].stage = "closed"
    /\ connects[h] < MaxConnects
    /\ connects' = [connects EXCEPT ![h] = @ + 1]
    /\ conn' = [conn EXCEPT ![c] =
                  [host |-> h,
                   stage |-> IF capability[h] = "pinned" THEN Refuse ELSE "capability"]]
    /\ UNCHANGED <<capability, strikes, failOpen, rejected>>

\* ... record_intercept_attempt reads it again ...
ReadCapability(c) ==
    /\ conn[c].stage = "capability"
    /\ Go(c, IF capability[conn[c].host] = "unknown" THEN "strike" ELSE "intercept")
    /\ UNCHANGED <<capability, strikes, failOpen, connects, rejected>>

\* ... and adds a strike under the other lock.
\* Mutant: one strike fewer is enough.
CrossesEarly(n) == n + 1 >= StrikeThreshold
Crosses(n) == n >= StrikeThreshold

Strike(c) ==
    LET h == conn[c].host
    IN /\ conn[c].stage = "strike"
       /\ strikes' = [strikes EXCEPT ![h] = @ + 1]
       /\ Go(c, IF Crosses(strikes[h] + 1) THEN "clear" ELSE "intercept")
       /\ UNCHANGED <<capability, failOpen, connects, rejected>>

ClearStrikes(c) ==
    /\ conn[c].stage = "clear"
    /\ strikes' = [strikes EXCEPT ![conn[c].host] = 0]
    /\ Go(c, "pin")
    /\ UNCHANGED <<capability, failOpen, connects, rejected>>

\* record_pinned overwrites whatever the map says by now.
RecordPinned(c) ==
    /\ conn[c].stage = "pin"
    /\ capability' = [capability EXCEPT ![conn[c].host] = "pinned"]
    /\ Go(c, Refuse)
    /\ UNCHANGED <<strikes, failOpen, connects, rejected>>

\* The client accepts our certificate and sends a request ...
Decrypt(c) ==
    /\ conn[c].stage = "intercept"
    /\ conn[c].host \notin PinningHosts
    /\ Go(c, "decrypted")
    /\ UNCHANGED <<capability, strikes, failOpen, connects, rejected>>

\* ... which emit notes: record_mitmable, one lock after the other.
RecordMitmable(c) ==
    /\ conn[c].stage = "decrypted"
    /\ capability' = [capability EXCEPT ![conn[c].host] = "mitmable"]
    /\ Go(c, "forgive")
    /\ UNCHANGED <<strikes, failOpen, connects, rejected>>

ForgiveStrikes(c) ==
    /\ conn[c].stage = "forgive"
    /\ strikes' = [strikes EXCEPT ![conn[c].host] = 0]
    /\ Go(c, "inspect")
    /\ UNCHANGED <<capability, failOpen, connects, rejected>>

\* A request in clear text needs no handshake; emit notes its host all the same.
PlainRequest(c, h) ==
    /\ conn[c].stage = "closed"
    /\ conn' = [conn EXCEPT ![c] = [host |-> h, stage |-> "decrypted"]]
    /\ UNCHANGED <<capability, strikes, failOpen, connects, rejected>>

\* Another request on the same connection.
NextRequest(c) ==
    /\ conn[c].stage = "inspect"
    /\ Go(c, "decrypted")
    /\ UNCHANGED <<capability, strikes, failOpen, connects, rejected>>

\* The handshake fails: the client pins, or the network let us down.
Reject(c) ==
    /\ conn[c].stage = "intercept"
    /\ rejected' = [rejected EXCEPT ![conn[c].host] = @ + 1]
    /\ Go(c, "closed")
    /\ UNCHANGED <<capability, strikes, failOpen, connects>>

Close(c) ==
    /\ conn[c].stage \in {"inspect", "tunnel"}
    /\ Go(c, "closed")
    /\ UNCHANGED <<capability, strikes, failOpen, connects, rejected>>

PinNext ==
    \E c \in Connections :
        \/ \E h \in Hosts : Connect(c, h) \/ PlainRequest(c, h)
        \/ ReadCapability(c) \/ Strike(c) \/ ClearStrikes(c) \/ RecordPinned(c)
        \/ Decrypt(c) \/ RecordMitmable(c) \/ ForgiveStrikes(c)
        \/ NextRequest(c) \/ Reject(c) \/ Close(c)

----------------------------------------------------------------------------
(* What the registry promises. *)

\* "A single transient handshake failure" never costs inspection: a host is only
\* tunnelled after as many attempts on that host as the threshold says.
TunnelNeedsStrikes ==
    \A c \in Connections :
        conn[c].stage = "tunnel" => connects[conn[c].host] >= StrikeThreshold
=============================================================================
