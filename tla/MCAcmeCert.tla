----------------------------- MODULE MCAcmeCert -----------------------------
(* Small instances of AcmeCert for TLC. *)
EXTENDS AcmeCert
CONSTANTS i1, i2

Two == {i1, i2}
First == {i1}

SkewedClocks == [i \in Inst |-> IF i = i2 THEN 1 ELSE 0]

\* A bound: a behaviour has a restart or an instance that was slow.
SlowOrRestarted == slow = {} \/ restarts = 0
=============================================================================
