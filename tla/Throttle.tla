------------------------------ MODULE Throttle ------------------------------
(***************************************************************************)
(* The rate limit and the lifetime test that every credential path of the  *)
(* guardian server shares (bulwark-server/src/accounts.rs): a counter of   *)
(* failures in a window per key, and "is a thing issued then live now".    *)
(* Times are natural numbers of an abstract unit; the code's saturating    *)
(* i64 arithmetic never saturates on wall-clock milliseconds.              *)
(***************************************************************************)
EXTENDS Integers

CONSTANTS
    MaxFails,   \* failures that pause a key (BULWARK_LOGIN_MAX_FAILS)
    Window      \* how long a window lasts  (BULWARK_LOGIN_WINDOW_SECS)

\* login_throttle_params discards a parameter that is not positive.
ASSUME ThrottleAssumption == /\ MaxFails \in Nat \ {0}
                             /\ Window \in Nat \ {0}

\* A key without an entry in the map.  Every entry counts at least one
\* failure (or_insert is always followed by record_failure), so a count of
\* zero can stand for absence.
NoEntry == [fails |-> 0, start |-> 0]

Counter == [fails: Nat, start: Nat]

\* Mutant: one failure too many is let through.
ThrottleLockedLate(t, now) == t.fails > MaxFails /\ now - t.start <= Window

\* Is the key paused at this instant?
ThrottleLocked(t, now) == t.fails >= MaxFails /\ now - t.start <= Window

\* Count one failure: a first failure, or one after the window has elapsed,
\* opens a new window at the caller's (possibly old) reading of the clock.
RecordFailure(t, now) ==
    IF t.fails = 0 \/ now - t.start > Window
    THEN [fails |-> 1, start |-> now]
    ELSE [t EXCEPT !.fails = @ + 1]

\* Live from the issue instant on, for strictly less than ttl; a
\* future-dated issue instant is never live.
SessionLive(issued, now, ttl) == now >= issued /\ now - issued < ttl
=============================================================================
