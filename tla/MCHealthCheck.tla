--------------------------- MODULE MCHealthCheck ---------------------------
(* A small instance of HealthCheck for TLC. *)
EXTENDS HealthCheck

AnyState == {"up", "failing", "down", "hung"}
=============================================================================
