------------------------------- MODULE Mutex -------------------------------
(***************************************************************************)
(* What a lock promises: instances acquire it one at a time, and only when *)
(* nobody owns it.  StorageLock implements this when its timing            *)
(* assumptions hold.                                                       *)
(***************************************************************************)
CONSTANT Inst
VARIABLE owners

Init == owners = {}

Acquire(p) == owners = {} /\ owners' = {p}

\* The owner gives the lock up, or is gone.
Release(p) == p \in owners /\ owners' = {}

Next == \E p \in Inst : Acquire(p) \/ Release(p)

Spec == Init /\ [][Next]_owners
=============================================================================
