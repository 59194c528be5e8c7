------------------------------- MODULE Books --------------------------------
(***************************************************************************)
(* What the ledger promises its callers, with nothing about rows, statuses *)
(* or transactions: books with one stored balance per account and          *)
(* currency. Every key moves money at most once, a move takes nothing from *)
(* and adds nothing to the total of a currency, and no move is ever undone *)
(* except by another move under another key.                               *)
(***************************************************************************)
EXTENDS Integers, FiniteSetsExt

CONSTANTS Accounts, Currencies, Keys

VARIABLES balance,  \* [account, currency] -> Int, stored
          moves     \* key -> the change it made to every balance

Cells == Accounts \X Currencies

Conserves(move) ==
  \A currency \in Currencies:
    SumFunction([a \in Accounts |-> move[<<a, currency>>]]) = 0

Init == balance = [cell \in Cells |-> 0] /\ moves = <<>>

\* A key that has not moved money yet moves it, and the books follow.
Move(key) ==
  /\ key \in Keys \ DOMAIN moves
  /\ DOMAIN moves' = DOMAIN moves \cup {key}
  /\ \A k \in DOMAIN moves: moves'[k] = moves[k]
  /\ Conserves(moves'[key])
  /\ balance' = [cell \in Cells |-> balance[cell] + moves'[key][cell]]

Next == \E key \in Keys: Move(key)

Spec == Init /\ [][Next]_<<balance, moves>>
=============================================================================
