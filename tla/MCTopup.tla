------------------------------- MODULE MCTopup -------------------------------
(* One top-up, whose order MonCash may give two references.                  *)
EXTENDS Topup

CONSTANTS u1, t1, p1, p2

OwnerIsU1 == [t \in Topups |-> u1]
Amounts == [t \in Topups |-> 2]
TwoReferences == [t \in Topups |-> {p1, p2}]
=============================================================================
