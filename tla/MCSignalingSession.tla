------------------------- MODULE MCSignalingSession -------------------------
(* Instances of SignalingSession for TLC. *)
EXTENDS SignalingSession, TLC

CONSTANTS d1, d2, a1, r1, r2

ConnSymmetry == Permutations(Conns)

\* The account may see vehicle d1.
Watching == {<<a1, d1>>}

Req(id, role, r, v3) == [id |-> id, role |-> role, room |-> r, v3 |-> v3]

\* One vehicle whose host session reconnects, with a cockpit watching.
VehicleAndViewer ==
    {Req(d1, "Host", r1, TRUE), Req(a1, "Consumer", r1, TRUE)}

\* Two vehicles, each hosting a room of its own: they compete for tickets.
TwoVehicles ==
    {Req(d1, "Host", r1, TRUE), Req(d2, "Host", r2, TRUE)}

\* The same two vehicles and the cockpit that watches the first.
VehiclesAndViewer ==
    VehicleAndViewer \cup TwoVehicles

\* Every role and identity in one room.
MixedRoom ==
    {Req(d1, "Host", r1, TRUE), Req(d1, "Remote", r1, TRUE), Req(a1, "Consumer", r1, TRUE),
     Req(a1, "Remote", r1, TRUE), Req(a1, "Host", r1, TRUE),
     Req(Legacy, "Host", r1, TRUE)}

=============================================================================
