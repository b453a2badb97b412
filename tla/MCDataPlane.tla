---------------------------- MODULE MCDataPlane ----------------------------
(* A small instance of DataPlane for TLC. *)
EXTENDS DataPlane

BothModes == {"tls", "passthrough"}
SomeOffsets == {1}
AHeader == <<"h1", "h2">>
APayload == <<"p1", "p2">>
=============================================================================
