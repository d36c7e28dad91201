--------------------------- MODULE MCReviewRelay ---------------------------
(* Instances of ReviewRelay small enough for TLC. *)
EXTENDS ReviewRelay

CONSTANTS alice, bob, phone, tablet

\* Alice is a guardian of both devices, Bob of the phone only.
Sharing == [d \in {phone, tablet} |-> IF d = phone THEN {alice, bob} ELSE {alice}]

Alert(id, d, host, hash, category) ==
    [id |-> id, device |-> d, host |-> host, hash |-> hash, category |-> category]

\* Ids per device and flow number (remote_vpn_linux.rs emit_alert): numbering
\* starts again with the device's slot, so an id comes back with other content,
\* from the same device or, flow numbers carrying no device, from another ...
FlowIds == {
    Alert("p1", phone, None, "image", "reviewable"),
    Alert("p1", tablet, "other", None, "reviewable"),
    Alert("t1", tablet, "site", None, "reviewable")}

\* ... or with another host only.
SlotIds == {
    Alert("p1", phone, "site", None, "reviewable"),
    Alert("p1", phone, "other", None, "reviewable")}

\* An image and suspected CSAM, which may only be denied.
DistinctIds == {
    Alert("p1", phone, None, "image", "reviewable"),
    Alert("p2", phone, "site", None, "csam")}

\* The scope the guardians' application always sends.
HostRequests == {[decision |-> d, scope |-> "this_host"] : d \in Decision}
=============================================================================
