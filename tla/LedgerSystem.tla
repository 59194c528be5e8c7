---------------------------- MODULE LedgerSystem ----------------------------
(***************************************************************************)
(* The ledger service under an arbitrary caller: any key posted, reversed, *)
(* confirmed, again and in any order. Nothing is assumed of how the wallet,*)
(* payout and top-up modules use it.                                       *)
(***************************************************************************)
EXTENDS Ledger

CONSTANTS Keys,      \* idempotency keys the callers use
          Postings   \* inputs of postOperation: [type, status, entries]

ASSUME PostingsAssumption ==
  /\ Postings \subseteq [type: OperationTypes, status: {"pending", "completed"}, entries: Seq(Leg)]
  /\ NoOperation \notin Keys

PostAny(key) ==
  /\ \E input \in Postings: PostOperation(key, input.type, input.status, input.entries)
  /\ UNCHANGED today

ReverseAny(original, key) == ReverseOperation(original, key) /\ UNCHANGED today

ConfirmAny(key) == ConfirmOperation(key) /\ UNCHANGED today

NextDay == NewDay /\ UNCHANGED operations

LedgerNext ==
  \/ \E key \in Keys: PostAny(key) \/ ConfirmAny(key)
  \/ \E original, key \in Keys: ReverseAny(original, key)
  \/ NextDay

LedgerSpec == LedgerInit /\ [][LedgerNext]_ledgerVars

-----------------------------------------------------------------------------
TypeOK ==
  /\ DOMAIN operations \subseteq Keys
  /\ operations \in [DOMAIN operations -> Operation(Keys)]
  /\ today \in 0..LastDay

\* Whatever is posted, reversed or refused, every operation in the table is
\* balanced by itself: two legs or more, positive, zero per currency.
OperationsBalanced == \A k \in DOMAIN operations: Balanced(operations[k].entries)

Reversals(key) == {r \in DOMAIN operations: operations[r].reversalOf = key}

\* An operation is marked reversed exactly when mirrored legs for it are in
\* the table: the mark and the reversal commit together, and no later
\* confirmation takes the mark away.
ReversedMeansMirrored ==
  \A k \in DOMAIN operations:
    /\ operations[k].status = "reversed" <=> Reversals(k) # {}
    /\ \A r \in Reversals(k): operations[r].entries = Mirror(operations[k].entries)

\* Append-only: a posted operation keeps its legs, type, day and the operation
\* it reverses for ever, and a decision on it stands: pending is the only
\* status that can be confirmed, reversed is final.
HistoryStands ==
  [][\A k \in DOMAIN operations:
       /\ k \in DOMAIN operations'
       /\ operations'[k] = [operations[k] EXCEPT !.status = operations'[k].status]
       /\ operations'[k].status = "completed" => operations[k].status # "reversed"
       /\ operations'[k].status = "pending" => operations[k].status = "pending"]_operations

-----------------------------------------------------------------------------
(* The books the table stands for. *)

Change(key, cell) ==
  LET entries == operations[key].entries
      legs == {i \in DOMAIN entries: entries[i].account = cell[1] /\ entries[i].currency = cell[2]}
  IN  SumFunction([i \in legs |-> Signed(entries[i])])

DerivedBalance == [cell \in Accounts \X Currencies |-> Balance(cell[1], cell[2])]
DerivedMoves ==
  [k \in DOMAIN operations |-> [cell \in Accounts \X Currencies |-> Change(k, cell)]]

Refined == INSTANCE Books WITH balance <- DerivedBalance, moves <- DerivedMoves

\* The table implements stored balances that each key changes at most once.
ImplementsBooks == Refined!Spec
=============================================================================
