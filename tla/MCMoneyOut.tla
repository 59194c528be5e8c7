----------------------------- MODULE MCMoneyOut -----------------------------
(* Transfers and payouts of two users against the same wallets.            *)
EXTENDS MoneyOut, TLC

CONSTANTS u1, u2, r1, r2, r3, r4, c1, c2, c3, c4, c5, o1

request(k, from, to, n, id) ==
  [kind |-> k, sender |-> from, recipient |-> to, amountMinor |-> n, otp |-> id]

\* u1 holds 3: the payout r1 and the transfer r2 do not both fit, and a day's
\* cap is 2; u2, who holds 2 and what r2 brings, sends 3 (r3) and again (r4)
\* with one OTP.
SharedDto == (r1 :> request("payout", u1, MonCashFloat, 2, NoOtp)
           @@ r2 :> request("transfer", u1, u2, 2, NoOtp)
           @@ r3 :> request("transfer", u2, u1, 3, o1)
           @@ r4 :> request("transfer", u2, u1, 3, o1))
SharedCalls == (c1 :> r1 @@ c2 :> r2 @@ c3 :> r2 @@ c4 :> r3 @@ c5 :> r4)

Funds == [u \in Users |-> IF u = u1 THEN 3 ELSE 2]
TightLimit == [u \in Users |-> IF u = u1 THEN 2 ELSE 6]
LooseLimit == [u \in Users |-> IF u = u1 THEN 3 ELSE 6]

\* u2's caps never refuse: on which day u2 calls makes no difference, so that
\* u2's calls are not explored past the day that ends the first month.
EarlyReplies == today < DaysPerMonth \/ \A c \in {c4, c5}: stage[c] \in AtRest
=============================================================================
