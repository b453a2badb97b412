--------------------------- MODULE MCCertRenewal ---------------------------
(* Small instances of CertRenewal for TLC. *)
EXTENDS CertRenewal
CONSTANTS i1, i2, t1, t2

Two == {i1, i2}
TwoTasks == {t1, t2}

Owners == [t \in Task |-> IF t = t2 THEN i2 ELSE i1]
=============================================================================
