------------------------------- MODULE Ledger -------------------------------
(***************************************************************************)
(* The double-entry ledger: modules/ledger/ledger.service.ts over the      *)
(* tables operations and ledger_entries.                                   *)
(*                                                                         *)
(* An operation row and its entry rows are written in one transaction and  *)
(* the entries never change, so both are one value here: operations maps   *)
(* the idempotency key of every posted operation to its row and its legs.  *)
(* The key is UNIQUE in the table (1735689600000-InitSchema.ts), so it     *)
(* also stands for the operation's id.                                     *)
(*                                                                         *)
(* The module is the service alone; LedgerSystem closes it with an         *)
(* arbitrary caller, Security, Payout and Wallet call it from theirs.      *)
(***************************************************************************)
EXTENDS Integers, Sequences, FiniteSets, FiniteSetsExt

CONSTANTS Accounts,     \* account ids: the users' wallets and the system float
          Currencies,   \* ISO codes; the callers only ever use HTG
          LastDay,      \* bound on the calendar: days are 0..LastDay
          DaysPerMonth  \* length of a calendar month, in days

ASSUME AccountsAssumption == IsFiniteSet(Accounts)
ASSUME CalendarAssumption == LastDay \in Nat /\ DaysPerMonth \in Nat \ {0}

VARIABLES operations,   \* idempotencyKey -> [type, status, entries, reversalOf, createdAt]
          today         \* the database clock, in whole days

ledgerVars == <<operations, today>>

Directions == {"debit", "credit"}
OperationTypes == {"topup", "payout", "transfer", "adjustment"}
Statuses == {"pending", "completed", "reversed", "failed"}

\* metadata.reversalOf of an operation that reverses nothing.
NoOperation == <<>>

Leg == [account: Accounts, direction: Directions, amountMinor: Int, currency: Currencies]

Operation(Key) ==
  [type: OperationTypes, status: Statuses, entries: Seq(Leg),
   reversalOf: Key \cup {NoOperation}, createdAt: 0..LastDay]

-----------------------------------------------------------------------------
(* Money in the legs of a sequence of entries, and in the whole table. *)

Signed(leg) ==
  IF leg.direction = "credit" THEN leg.amountMinor ELSE -leg.amountMinor

Total(entries, currency) ==
  SumFunction([i \in {j \in DOMAIN entries: entries[j].currency = currency} |-> Signed(entries[i])])

\* Ids <<key, i>> of every ledger_entries row.
EntryIds == UNION {{k} \X DOMAIN operations[k].entries: k \in DOMAIN operations}
Entry(id) == operations[id[1]].entries[id[2]]

\* Balance of an account: sum(credits) - sum(debits), derived, never stored.
Balance(account, currency) ==
  LET ids == {id \in EntryIds: Entry(id).account = account /\ Entry(id).currency = currency}
  IN  SumFunction([id \in ids |-> Signed(Entry(id))])

\* Sum of an account's entries in one direction created on day `since` or later.
SumDirection(account, direction, since, currency) ==
  LET ids == {id \in EntryIds: /\ Entry(id).account = account
                               /\ Entry(id).direction = direction
                               /\ Entry(id).currency = currency
                               /\ operations[id[1]].createdAt >= since}
  IN  SumFunction([id \in ids |-> Entry(id).amountMinor])

\* assertBalanced: at least two legs, all strictly positive, summing to zero
\* in every currency.
Balanced(entries) ==
  /\ Len(entries) >= 2
  /\ \A i \in DOMAIN entries: entries[i].amountMinor > 0
  /\ \A currency \in Currencies: Total(entries, currency) = 0

Opposite(direction) == IF direction = "debit" THEN "credit" ELSE "debit"

\* The legs that undo a sequence of legs.
Mirror(entries) ==
  [i \in DOMAIN entries |->
     [entries[i] EXCEPT !.direction = Opposite(entries[i].direction)]]

-----------------------------------------------------------------------------
(* The operations of the service. Each is one database transaction. *)

\* INSERT of a row under its unique key.
Insert(table, key, row) ==
  [k \in DOMAIN table \cup {key} |-> IF k = key THEN row ELSE table[k]]

LedgerInit == operations = <<>> /\ today = 0

NewOperation(type, status, entries, reversalOf) ==
  [type |-> type, status |-> status, entries |-> entries,
   reversalOf |-> reversalOf, createdAt |-> today]

Posted(key) == key \in DOMAIN operations

\* Mutants of PostOperation: legs written unchecked; the key an upsert.
PostUnchecked(key, type, status, entries) ==
  operations' = IF Posted(key) THEN operations
                ELSE Insert(operations, key, NewOperation(type, status, entries, NoOperation))
PostOverwriting(key, type, status, entries) ==
  /\ Balanced(entries)
  /\ operations' = Insert(operations, key, NewOperation(type, status, entries, NoOperation))

\* postOperation: a key that is already taken keeps its first operation, and
\* the call answers with that one (idempotent: true). Unbalanced input throws
\* before anything is written, so there is no step.
PostOperation(key, type, status, entries) ==
  /\ Balanced(entries)
  /\ operations' = IF Posted(key) THEN operations
                   ELSE Insert(operations, key, NewOperation(type, status, entries, NoOperation))

\* Mutants of ReverseOperation: a type the table does not know; the reversal
\* key an upsert; the mark without the mirrored legs.
ReverseAsReversal(original, key) ==
  /\ Posted(original) /\ ~Posted(key)
  /\ operations' = Insert([operations EXCEPT ![original].status = "reversed"], key,
       NewOperation("reversal", "completed", Mirror(operations[original].entries), original))
ReverseOverwriting(original, key) ==
  /\ Posted(original)
  /\ operations' = Insert([operations EXCEPT ![original].status = "reversed"], key,
       NewOperation("adjustment", "completed", Mirror(operations[original].entries), original))
ReverseMarkOnly(original, key) ==
  /\ Posted(original) /\ ~Posted(key)
  /\ operations' = [operations EXCEPT ![original].status = "reversed"]

\* reverseOperation: post the mirrored legs under their own key and mark the
\* original, in one transaction. It reads no status; a reversal key that is
\* already taken violates the unique index and aborts the transaction.
ReverseOperation(original, key) ==
  /\ Posted(original)
  /\ operations[original].entries # <<>>
  /\ ~Posted(key)
  /\ LET mirrored == Mirror(operations[original].entries)
     IN  /\ Balanced(mirrored)
         /\ operations' =
              Insert([operations EXCEPT ![original].status = "reversed"],
                     key, NewOperation("adjustment", "completed", mirrored, original))

\* Mutant of ConfirmOperation: the UPDATE without its WHERE status = PENDING.
ConfirmUnconditionally(key) ==
  operations' = IF Posted(key) THEN [operations EXCEPT ![key].status = "completed"] ELSE operations

\* confirmOperation: UPDATE ... WHERE status = PENDING, else a silent no-op.
ConfirmOperation(key) ==
  operations' = IF Posted(key) /\ operations[key].status = "pending"
                THEN [operations EXCEPT ![key].status = "completed"]
                ELSE operations

\* The calendar moves on.
NewDay == today < LastDay /\ today' = today + 1

\* Mutant of StartOfMonth: the monthly sum starts today.
StartOfToday == today

StartOfMonth == (today \div DaysPerMonth) * DaysPerMonth
=============================================================================
