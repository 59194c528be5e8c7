------------------------------ MODULE MCPayout ------------------------------
(* Payout requests of one or two users, each sent by the calls listed.     *)
EXTENDS Payout, TLC

CONSTANTS u1, u2, r1, r2, c1, c2, c3

payoutOf(u, n) ==
  [kind |-> "payout", sender |-> u, recipient |-> MonCashFloat, amountMinor |-> n, otp |-> NoOtp]

\* r1 and r2 belong to different users; r2 may exceed the balance when r1 is
\* the same user's (OneUserDto).
TwoUserDto == (r1 :> payoutOf(u1, 2) @@ r2 :> payoutOf(u2, 1))
OneUserDto == (r1 :> payoutOf(u1, 2) @@ r2 :> payoutOf(u1, 2))
SameRequest == [c \in Calls |-> r1]
OneCallEach == (c1 :> r1 @@ c2 :> r2)
OneRetried == (c1 :> r1 @@ c2 :> r1 @@ c3 :> r2)

Funds == [u \in Users |-> 3]
NoLimit == [u \in Users |-> 100]
=============================================================================
