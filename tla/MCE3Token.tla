------------------------------ MODULE MCE3Token ------------------------------
(* A small instance of E3Token for TLC. *)
EXTENDS E3Token
CONSTANTS a, b

TwoCallers == {a, b}
=============================================================================
