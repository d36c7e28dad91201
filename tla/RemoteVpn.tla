----------------------------- MODULE RemoteVpn -----------------------------
(***************************************************************************)
(* Remote VPN leases: the server grants a device a tunnel address          *)
(* (crates/bulwark-server/src/wg_provision.rs), and a root service on the  *)
(* box brings the live WireGuard peers in line with the leases             *)
(* (deploy/wireguard/wg-lease-reconcile.sh, wg-peers.sh).  The server and  *)
(* the peer tool each pick the lowest address free in their own table.  A *)
(* lease is running or over; the requests are those of authenticated       *)
(* devices with keys of their own on a region that is ready.  A grant that *)
(* cannot be made durable changes nothing.  Bound: MaxChanges              *)
(* registrations, expiries and guardian decisions.                         *)
(***************************************************************************)
EXTENDS Naturals, FiniteSets, Sequences, SequencesExt

CONSTANTS
    VpnDevices,     \* paired devices
    Addresses,      \* the host numbers of the tunnel subnet, a set of numbers
    Reserved,       \* BULWARK_WG_RESERVED_ADDRS: peers the server does not manage
    MaxChanges

ASSUME RemoteVpnAssumption ==
    Addresses \subseteq Nat \ {0} /\ Reserved \subseteq Addresses /\ MaxChanges \in Nat

VARIABLES
    leases,     \* WgPeerStore.by_device and wg_peers.json: device -> address or None
    over,       \* devices whose lease has run out but is still listed
    allowed,    \* devices whose child_config.json asks for the server's filter
    wanted,     \* what the reconciler has read, or NotRunning
    live,       \* the peers of wg0: device -> address or None
    strangers,  \* addresses of peers of wg0 that carry no device label
    changes

vpnVars == <<leases, over, allowed, wanted, live, strangers, changes>>

None == 0
NotRunning == <<"not running">>

VpnInit ==
    /\ leases = [d \in VpnDevices |-> None]
    /\ live = [d \in VpnDevices |-> None]
    /\ over = {} /\ allowed = VpnDevices
    /\ strangers = Reserved
    /\ wanted = NotRunning /\ changes = 0

Used(table) == {table[d] : d \in VpnDevices} \ {None}
Lowest(free) == CHOOSE a \in free : \A b \in free : a <= b

----------------------------------------------------------------------------
\* The server.
\* prune_expired.
Pruned == [d \in VpnDevices |-> IF d \in over THEN None ELSE leases[d]]

FreeForLease(table) == Addresses \ (Used(table) \cup Reserved)

\* register_peer_with_expiry: a listed device keeps its address.
Granted(d, table) ==
    IF table[d] # None THEN table[d] ELSE Lowest(FreeForLease(table))

\* register_wg_peer: old leases are pruned first; a full subnet refuses.
RegisterWgPeer(d) ==
    /\ changes < MaxChanges
    /\ d \in allowed
    /\ Pruned[d] # None \/ FreeForLease(Pruned) # {}
    /\ leases' = [Pruned EXCEPT ![d] = Granted(d, Pruned)]
    /\ over' = {}
    /\ changes' = changes + 1
    /\ UNCHANGED <<allowed, wanted, live, strangers>>

\* A full subnet refuses the grant; the pruning has happened all the same.
RegisterRefused(d) ==
    /\ changes < MaxChanges
    /\ d \in allowed
    /\ Pruned[d] = None /\ FreeForLease(Pruned) = {}
    /\ leases' = Pruned
    /\ over' = {}
    /\ changes' = changes + 1
    /\ UNCHANGED <<allowed, wanted, live, strangers>>

LeaseRunsOver(d) ==
    /\ changes < MaxChanges
    /\ leases[d] # None /\ d \notin over
    /\ over' = over \cup {d}
    /\ changes' = changes + 1
    /\ UNCHANGED <<leases, allowed, wanted, live, strangers>>

\* The guardian turns the server's filter on or off for the device.
GuardianDecides(d) ==
    /\ changes < MaxChanges
    /\ allowed' = IF d \in allowed THEN allowed \ {d} ELSE allowed \cup {d}
    /\ changes' = changes + 1
    /\ UNCHANGED <<leases, over, wanted, live, strangers>>

----------------------------------------------------------------------------
\* The lease reconciler, every 15 s: one run at a time, under a lock.
Entitled(d) == leases[d] # None /\ d \notin over /\ d \in allowed

\* Mutant: the guardian's decision is not looked at.
WantedLeases == [d \in VpnDevices |-> IF leases[d] # None /\ d \notin over THEN leases[d] ELSE None]
Wanted == [d \in VpnDevices |-> IF Entitled(d) THEN leases[d] ELSE None]

ReconcileReads ==
    /\ wanted = NotRunning
    /\ wanted' = Wanted
    /\ UNCHANGED <<leases, over, allowed, live, strangers, changes>>

\* wg-peers add-peer: a device that is configured keeps its address, another
\* gets the lowest one that no configured peer has.
AddPeer(table, others, d) ==
    IF table[d] # None THEN table
    ELSE [table EXCEPT ![d] = Lowest(Addresses \ (Used(table) \cup others))]

\* One line of the loop: a peer with another address is removed and added
\* again; when it still has another address the script stops here.
ApplyOne(run, d) ==
    IF run.failed THEN run
    ELSE LET drifted == run.table[d] # None /\ run.table[d] # wanted[d]
             table == AddPeer(IF drifted THEN [run.table EXCEPT ![d] = None] ELSE run.table,
                             run.others, d)
         IN [table |-> table, others |-> run.others, failed |-> table[d] # wanted[d]]

\* First every peer that is not wanted is removed, one of the peers without a
\* label among them (they are all listed under one name), then the wanted ones
\* are applied in the order of their addresses.
Reconciled(others) ==
    LET kept  == [d \in VpnDevices |-> IF wanted[d] = None THEN None ELSE live[d]]
        order == SetToSortSeq({d \in VpnDevices : wanted[d] # None},
                              LAMBDA d, e : wanted[d] < wanted[e])
    IN FoldLeft(ApplyOne, [table |-> kept, others |-> others, failed |-> FALSE], order)

ReconcileApplies ==
    /\ wanted # NotRunning
    /\ \E others \in IF strangers = {} THEN {{}} ELSE {strangers \ {a} : a \in strangers} :
          /\ strangers' = others
          /\ live' = Reconciled(others).table
    /\ wanted' = NotRunning
    /\ UNCHANGED <<leases, over, allowed, changes>>

VpnNext ==
    \/ \E d \in VpnDevices : \/ RegisterWgPeer(d) \/ RegisterRefused(d)
                             \/ LeaseRunsOver(d) \/ GuardianDecides(d)
    \/ ReconcileReads \/ ReconcileApplies

\* The reconciler is a timer unit.
VpnSpec ==
    /\ VpnInit /\ [][VpnNext]_vpnVars
    /\ WF_vpnVars(ReconcileReads) /\ WF_vpnVars(ReconcileApplies)

----------------------------------------------------------------------------
(* What the leases promise. *)

\* No two devices are told the same tunnel address, and none is told one that
\* is kept for a peer the server does not manage; at every moment, pruning and
\* renewal included.
LeasesDistinct ==
    /\ \A d, e \in VpnDevices : d # e /\ leases[d] # None => leases[d] # leases[e]
    /\ Used(leases) \cap Reserved = {}

\* A device whose lease has run out, or whose guardian turned the mode off, is
\* cut off from the tunnel, also when the run of the reconciler fails later on
\* over another device ("Guardian revocation ... or lease expiry stops the
\* Remote VPN").
RevokedCutOff ==
    \A d \in VpnDevices : (~Entitled(d)) ~> (live[d] = None \/ Entitled(d))

\* The authentication contract: the reconciler "repairs address drift, and
\* applies only currently leased peers".  Once nothing changes any more, every
\* entitled device is a live peer at the address it was told.
DriftRepaired == <>[](\A d \in VpnDevices : Entitled(d) => live[d] = leases[d])
=============================================================================
