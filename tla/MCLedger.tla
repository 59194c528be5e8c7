------------------------------ MODULE MCLedger ------------------------------
(* Three keys, two wallets and the float, two currencies, inputs that       *)
(* include every way assertBalanced can refuse one.                         *)
EXTENDS LedgerSystem

CONSTANTS w1, w2, float

leg(a, d, n, c) == [account |-> a, direction |-> d, amountMinor |-> n, currency |-> c]
input(t, s, e) == [type |-> t, status |-> s, entries |-> e]

MCPostings == {
  \* a transfer, a payout reserve and a three-leg two-currency adjustment
  input("transfer", "completed", <<leg(w1, "debit", 1, "HTG"), leg(w2, "credit", 1, "HTG")>>),
  input("payout", "pending", <<leg(w1, "debit", 2, "HTG"), leg(float, "credit", 2, "HTG")>>),
  input("adjustment", "completed",
        <<leg(w1, "credit", 2, "USD"), leg(w2, "debit", 1, "USD"), leg(float, "debit", 1, "USD")>>),
  \* refused: one leg, no leg, zero amounts, unequal sides, sides in two currencies
  input("topup", "completed", <<leg(w1, "credit", 1, "HTG")>>),
  input("topup", "completed", <<>>),
  input("topup", "completed", <<leg(w1, "credit", 0, "HTG"), leg(float, "debit", 0, "HTG")>>),
  input("topup", "completed", <<leg(w1, "credit", 2, "HTG"), leg(float, "debit", 1, "HTG")>>),
  input("topup", "completed", <<leg(w1, "credit", 1, "HTG"), leg(float, "debit", 1, "USD")>>)}
=============================================================================
