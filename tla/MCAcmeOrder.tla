---------------------------- MODULE MCAcmeOrder ----------------------------
(* Small instances of AcmeOrder for TLC. *)
EXTENDS AcmeOrder
CONSTANTS n1, n2, n3

Nonces == {n1, n2, n3}
=============================================================================
