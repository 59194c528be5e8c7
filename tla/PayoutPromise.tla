--------------------------- MODULE PayoutPromise ----------------------------
(***************************************************************************)
(* What a withdrawal promises, with no calls, rows or gates: money is held *)
(* on the wallet, then either MonCash pays it and it is spent, or MonCash  *)
(* does not and it is returned. Never both, and no decision is revised.    *)
(***************************************************************************)
CONSTANT Requests

VARIABLES phase,    \* request -> "none", "held", "spent" or "returned"
          paidOut   \* requests MonCash has paid

Init == phase = [r \in Requests |-> "none"] /\ paidOut = {}

To(r, from, to) == phase[r] = from /\ phase' = [phase EXCEPT ![r] = to]

Hold(r)   == To(r, "none", "held") /\ UNCHANGED paidOut
Pay(r)    == phase[r] = "held" /\ paidOut' = paidOut \cup {r} /\ UNCHANGED phase
Spend(r)  == r \in paidOut /\ To(r, "held", "spent") /\ UNCHANGED paidOut
Return(r) == r \notin paidOut /\ To(r, "held", "returned") /\ UNCHANGED paidOut

Next == \E r \in Requests: Hold(r) \/ Pay(r) \/ Spend(r) \/ Return(r)

Spec == Init /\ [][Next]_<<phase, paidOut>>
=============================================================================
