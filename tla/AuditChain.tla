----------------------------- MODULE AuditChain -----------------------------
(***************************************************************************)
(* The staff audit chain as a value (crates/bulwark-server/src/staff.rs,   *)
(* the same construction as bulwark-store/src/hashchain.rs): entries with  *)
(* consecutive numbers, each carrying a hash of its body and of the hash   *)
(* before it.  The hash is free of collisions: it is the pair of its       *)
(* arguments.                                                              *)
(***************************************************************************)
EXTENDS Naturals, Sequences, SequencesExt

AuditGenesis == <<>>

AuditLink(prev, seq, body) == <<prev, seq, body>>

LastHash(chain) == IF chain = <<>> THEN AuditGenesis ELSE Last(chain).hash

NextSeq(chain) == IF chain = <<>> THEN 0 ELSE Last(chain).seq + 1

\* audit_append, under the chain's lock.
Appended(chain, body) ==
    Append(chain, [seq |-> NextSeq(chain), body |-> body,
                   hash |-> AuditLink(LastHash(chain), NextSeq(chain), body)])

\* verify_entries.
Verifies(chain) ==
    \A i \in DOMAIN chain :
        chain[i].hash = AuditLink(LastHash(SubSeq(chain, 1, i - 1)), chain[i].seq, chain[i].body)
=============================================================================
