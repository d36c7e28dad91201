--------------------------- MODULE MCReviewStream ---------------------------
(* Instances of ReviewStream small enough for TLC. *)
EXTENDS ReviewStream

CONSTANTS alice, phone, tablet

\* Alice has paired the phone; the tablet is another family's until it is shared.
PhoneOnly == [d \in Devices |-> IF d = phone THEN {alice} ELSE {}]

AlertOn(d) == {[id |-> "alert", device |-> d]}
EachDevice == UNION {AlertOn(d) : d \in Devices}
Sos == {[id |-> "sos", device |-> phone]}
Notice == {[id |-> "notice", device |-> NoDevice]}
=============================================================================
