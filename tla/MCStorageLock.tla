--------------------------- MODULE MCStorageLock ---------------------------
(* Small instances of StorageLock for TLC. *)
EXTENDS StorageLock
CONSTANTS i1, i2, i3

Three == {i1, i2, i3}

\* i2 runs a second ahead of the others: its reader is the eager one.
SkewedClocks == [i \in Inst |-> IF i = i2 THEN 1 ELSE 0]

ASSUME RunIsTimely == Timely

\* Past the step that makes somebody slow the properties claim no more than
\* the types, which are proved for every state: there the search stops.
NobodyIsSlow == slow = {}
=============================================================================
