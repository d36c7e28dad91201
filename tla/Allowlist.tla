----------------------------- MODULE Allowlist -----------------------------
(***************************************************************************)
(* The per-device allowlist and what one guardian decision does to it      *)
(* (bulwark-policy/src/allowlist.rs).  An allowlist maps every device to   *)
(* the hosts and the content hashes its guardians have approved; a device  *)
(* without an entry and one with an empty entry answer alike, so both are  *)
(* NothingDecided here.  Hosts are lower-case and trimmed and hashes       *)
(* hexadecimal, as apply and the audit log keep them.                      *)
(***************************************************************************)
EXTENDS Naturals, Sequences

CONSTANTS
    Devices,
    Hosts,
    Hashes,     \* of the content an alert is about
    None        \* an alert without a host, or without a hash

ASSUME AllowlistAssumption == None \notin Hosts \union Hashes

\* "reviewable" stands for every category but the two that are never approved.
Category == {"reviewable", "csam", "incomplete"}
Decision == {"approve", "deny"}
Scope == {"this_host", "this_item", "unspecified"}
Outcome == {"approved", "deny_confirmed", "refused"}

\* What the server keeps of an alert to decide on it.
Facts == [host: Hosts \union {None}, hash: Hashes \union {None}, category: Category]
NoFacts == [host |-> None, hash |-> None, category |-> "incomplete"]

Entry == [hosts: SUBSET Hosts, hashes: SUBSET Hashes]
NothingDecided == [hosts |-> {}, hashes |-> {}]
NoEntries == [d \in Devices |-> NothingDecided]

Allowlistable(c) == c \notin {"csam", "incomplete"}

\* An approval needs something to key on.
Keyed(f, scope) == IF scope = "this_host" THEN f.host # None ELSE f.hash # None

OutcomeOf(f, decision, scope) ==
    CASE decision = "deny" -> "deny_confirmed"
      [] decision = "approve" /\ Allowlistable(f.category) /\ Keyed(f, scope) -> "approved"
      [] OTHER -> "refused"

Approved(entry, f, scope) ==
    IF scope = "this_host"
    THEN [hosts |-> entry.hosts \union {f.host}, hashes |-> entry.hashes]
    ELSE [hosts |-> entry.hosts, hashes |-> entry.hashes \union {f.hash}]

\* A denial takes back what its scope names.
Denied(entry, f, scope) ==
    [hosts |-> IF scope = "this_item" THEN entry.hosts ELSE entry.hosts \ {f.host},
     hashes |-> IF scope = "this_host" THEN entry.hashes ELSE entry.hashes \ {f.hash}]

\* Allowlist::apply for device d, without the audit row.
Apply(entries, d, f, decision, scope) ==
    [entries EXCEPT ![d] =
        CASE OutcomeOf(f, decision, scope) = "approved" -> Approved(@, f, scope)
          [] OutcomeOf(f, decision, scope) = "deny_confirmed" -> Denied(@, f, scope)
          [] OTHER -> @]

-----------------------------------------------------------------------------
(* What a sequence of decisions means, without the steps: content is       *)
(* allowed on a device when some decision approved it and no later one     *)
(* took it back.  A row is a decision [device, facts, decision, scope].    *)

ApprovesHost(r, d, h) ==
    /\ r.device = d /\ r.facts.host = h /\ r.scope = "this_host"
    /\ OutcomeOf(r.facts, r.decision, r.scope) = "approved"
DeniesHost(r, d, h) ==
    r.device = d /\ r.facts.host = h /\ r.scope # "this_item" /\ r.decision = "deny"

ApprovesHash(r, d, x) ==
    /\ r.device = d /\ r.facts.hash = x /\ r.scope # "this_host"
    /\ OutcomeOf(r.facts, r.decision, r.scope) = "approved"
DeniesHash(r, d, x) ==
    r.device = d /\ r.facts.hash = x /\ r.scope # "this_host" /\ r.decision = "deny"

LastWord(rows) ==
    [d \in Devices |->
        [hosts |-> {h \in Hosts : \E i \in DOMAIN rows :
                       /\ ApprovesHost(rows[i], d, h)
                       /\ \A j \in DOMAIN rows : j > i => ~DeniesHost(rows[j], d, h)},
         hashes |-> {x \in Hashes : \E i \in DOMAIN rows :
                       /\ ApprovesHash(rows[i], d, x)
                       /\ \A j \in DOMAIN rows : j > i => ~DeniesHash(rows[j], d, x)}]]
=============================================================================
