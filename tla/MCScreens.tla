----------------------------- MODULE MCScreens ------------------------------
EXTENDS Screens

Every == PhoneScreens \cup AdminScreens
Requests ==
  [s \in Explored |-> CASE s \in {"kycCapture", "queue"} -> 5 [] s \in {"topup", "home"} -> 4 [] OTHER -> 3]
TransferOnly == {"transfer"}
=============================================================================
