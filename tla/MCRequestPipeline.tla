------------------------- MODULE MCRequestPipeline -------------------------
(* A small instance of RequestPipeline for TLC. *)
EXTENDS RequestPipeline
CONSTANTS c1, c2

TwoConns == {c1, c2}
AllKinds == {"attest", "http", "websocket", "tcp"}
=============================================================================
