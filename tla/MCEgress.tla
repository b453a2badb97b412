------------------------------ MODULE MCEgress ------------------------------
(* A small instance of Egress for TLC. *)
EXTENDS Egress
CONSTANTS l1, l2, c1, good, odd, evil, a1, own

TwoLookups == {l1, l2}
OneConn == {c1}
Ips == {a1, own}
OwnIp == {own}
GoodOnly == {good}
GoodAndOdd == {good, odd}
AllDomains == {good, odd, evil}

\* No name resolves to the enclave's own network; that it is on the list
\* does not help it.
ShortAndLong == [ip \in Ip |-> IF ip = own THEN {} ELSE {2, 3}]
=============================================================================
