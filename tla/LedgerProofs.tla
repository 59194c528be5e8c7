---------------------------- MODULE LedgerProofs ----------------------------
(***************************************************************************)
(* What one call of the ledger service does to the operations table and to *)
(* the sums over its entries, which the proofs about its callers cite; and *)
(* theorems about the ledger under an arbitrary caller, for any keys,      *)
(* accounts, currencies, inputs and calendar.                              *)
(***************************************************************************)
EXTENDS LedgerSystem, SumLemmas, TLAPS

\* Adding a row changes the row at its key and no other.
LEMMA InsertRow ==
  ASSUME NEW table, NEW key, NEW row
  PROVE  /\ DOMAIN Insert(table, key, row) = DOMAIN table \cup {key}
         /\ Insert(table, key, row)[key] = row
         /\ \A k \in DOMAIN table: k # key => Insert(table, key, row)[k] = table[k]
  BY DEF Insert

\* The legs that undo legs are legs.
LEMMA MirrorLegs ==
  ASSUME NEW entries \in Seq(Leg)
  PROVE  Mirror(entries) \in Seq(Leg)
  <1>1. DOMAIN entries = 1..Len(entries) /\ Len(entries) \in Nat
    OBVIOUS
  <1>2. \A i \in 1..Len(entries): entries[i] \in Leg
    OBVIOUS
  <1>3. ASSUME NEW i \in 1..Len(entries)
        PROVE  [entries[i] EXCEPT !.direction = Opposite(entries[i].direction)] \in Leg
    BY <1>2 DEF Leg, Opposite, Directions
  <1>4. Mirror(entries) \in [1..Len(entries) -> Leg]
    BY <1>1, <1>3 DEF Mirror
  <1>. QED
    BY <1>1, <1>4

\* A table of operations over the keys Key.
Table(Key) == DOMAIN operations \subseteq Key /\ operations \in [DOMAIN operations -> Operation(Key)]

\* postOperation leaves every posted row alone and, under a fresh key, adds
\* the row it was asked for.
LEMMA PostShape ==
  ASSUME NEW key, NEW type, NEW status, NEW entries, PostOperation(key, type, status, entries)
  PROVE  /\ DOMAIN operations' = DOMAIN operations \cup {key}
         /\ \A k \in DOMAIN operations: operations'[k] = operations[k]
         /\ key \notin DOMAIN operations =>
              operations'[key] = NewOperation(type, status, entries, NoOperation)
  <1>1. CASE Posted(key)
    BY <1>1 DEF PostOperation, Posted
  <1>2. CASE ~Posted(key)
    <2> DEFINE row == NewOperation(type, status, entries, NoOperation)
    <2>1. operations' = Insert(operations, key, row) /\ key \notin DOMAIN operations
      BY <1>2 DEF PostOperation, Posted
    <2>2. /\ DOMAIN operations' = DOMAIN operations \cup {key}
          /\ operations'[key] = row
          /\ \A k \in DOMAIN operations: operations'[k] = operations[k]
      <3> HIDE DEF row
      <3>. QED
        BY <2>1 DEF Insert
    <2>. QED
      BY <2>1, <2>2
  <1>. QED
    BY <1>1, <1>2

\* postOperation keeps the table well formed.
LEMMA PostTable ==
  ASSUME NEW Key, Table(Key), today \in 0..LastDay,
         NEW key \in Key, NEW type \in OperationTypes, NEW status \in Statuses,
         NEW entries \in Seq(Leg), PostOperation(key, type, status, entries)
  PROVE  Table(Key)'
  <1> DEFINE row == NewOperation(type, status, entries, NoOperation)
  <1>1. row \in Operation(Key)
    BY DEF NewOperation, Operation
  <1>2. operations' = operations \/ operations' = Insert(operations, key, row)
    BY DEF PostOperation
  <1> HIDE DEF row
  <1>. QED
    BY <1>1, <1>2 DEF Table, Insert

\* reverseOperation marks the original and adds a row that names it.
LEMMA ReverseShape ==
  ASSUME NEW Key, Table(Key), NEW original, NEW key, ReverseOperation(original, key)
  PROVE  /\ original \in DOMAIN operations /\ key \notin DOMAIN operations
         /\ DOMAIN operations' = DOMAIN operations \cup {key}
         /\ \A k \in DOMAIN operations: k # original => operations'[k] = operations[k]
         /\ operations'[original] = [operations[original] EXCEPT !.status = "reversed"]
         /\ operations'[original].status = "reversed"
         /\ operations'[original].type = operations[original].type
         /\ operations'[original].reversalOf = operations[original].reversalOf
         /\ operations'[original].entries = operations[original].entries
         /\ operations'[original].createdAt = operations[original].createdAt
         /\ operations'[key] =
              NewOperation("adjustment", "completed", Mirror(operations[original].entries), original)
  <1> DEFINE marked == [operations EXCEPT ![original].status = "reversed"]
             row == NewOperation("adjustment", "completed", Mirror(operations[original].entries), original)
  <1>1. /\ original \in DOMAIN operations /\ key \notin DOMAIN operations
        /\ operations' = Insert(marked, key, row)
    BY DEF ReverseOperation, Posted
  <1>2. /\ DOMAIN marked = DOMAIN operations
        /\ \A k \in DOMAIN operations: k # original => marked[k] = operations[k]
        /\ marked[original] = [operations[original] EXCEPT !.status = "reversed"]
    BY <1>1
  <1>3. operations[original] \in Operation(Key)
    BY <1>1 DEF Table
  <1> HIDE DEF marked, row
  <1>4. /\ DOMAIN operations' = DOMAIN operations \cup {key}
        /\ operations'[key] = row
        /\ \A k \in DOMAIN operations: operations'[k] = marked[k]
    BY <1>1, <1>2 DEF Insert
  <1>5. /\ operations'[original] = [operations[original] EXCEPT !.status = "reversed"]
        /\ \A k \in DOMAIN operations: k # original => operations'[k] = operations[k]
    BY <1>1, <1>2, <1>4
  <1>6. /\ operations'[original].status = "reversed"
        /\ operations'[original].type = operations[original].type
        /\ operations'[original].reversalOf = operations[original].reversalOf
        /\ operations'[original].entries = operations[original].entries
        /\ operations'[original].createdAt = operations[original].createdAt
    BY <1>3, <1>5 DEF Operation
  <1>. QED
    BY <1>1, <1>4, <1>5, <1>6 DEF row

\* reverseOperation keeps the table well formed.
LEMMA ReverseTable ==
  ASSUME NEW Key, Table(Key), today \in 0..LastDay,
         NEW original, NEW key \in Key, ReverseOperation(original, key)
  PROVE  Table(Key)'
  <1> DEFINE row == NewOperation("adjustment", "completed", Mirror(operations[original].entries), original)
             marked == [operations EXCEPT ![original].status = "reversed"]
  <1>1. original \in DOMAIN operations /\ operations' = Insert(marked, key, row)
    BY DEF ReverseOperation, Posted
  <1>2. operations[original].entries \in Seq(Leg) /\ original \in Key
    BY <1>1 DEF Table, Operation
  <1>3. row \in Operation(Key)
    BY <1>2, MirrorLegs DEF NewOperation, Operation, OperationTypes, Statuses
  <1>4. marked \in [DOMAIN operations -> Operation(Key)]
    BY <1>1 DEF Table, Operation, Statuses
  <1> HIDE DEF row, marked
  <1>5. /\ DOMAIN operations' = DOMAIN operations \cup {key}
        /\ \A k \in DOMAIN operations': operations'[k] \in Operation(Key)
    BY <1>1, <1>3, <1>4 DEF Insert
  <1>6. operations' = [k \in DOMAIN operations' |-> operations'[k]]
    BY <1>1 DEF Insert
  <1>. QED
    BY <1>5, <1>6 DEF Table

\* confirmOperation completes a pending row and touches nothing else.
LEMMA ConfirmShape ==
  ASSUME NEW Key, Table(Key), NEW key, ConfirmOperation(key)
  PROVE  /\ DOMAIN operations' = DOMAIN operations
         /\ \A k \in DOMAIN operations:
              /\ operations'[k].type = operations[k].type
              /\ operations'[k].reversalOf = operations[k].reversalOf
              /\ operations'[k].entries = operations[k].entries
              /\ operations'[k].createdAt = operations[k].createdAt
              /\ operations'[k].status = IF k = key /\ operations[k].status = "pending"
                                         THEN "completed" ELSE operations[k].status
  BY DEF ConfirmOperation, Posted, Table, Operation

\* confirmOperation keeps the table well formed.
LEMMA ConfirmTable ==
  ASSUME NEW Key, Table(Key), NEW key, ConfirmOperation(key)
  PROVE  Table(Key)'
  BY DEF ConfirmOperation, Posted, Table, Operation, Statuses

-----------------------------------------------------------------------------
(* Sums over the entries. *)

\* A table over which there is something to add up: finitely many operations,
\* each with legs.
Summed == /\ IsFiniteSet(DOMAIN operations)
          /\ \A k \in DOMAIN operations: operations[k].entries \in Seq(Leg)

\* There are finitely many entries, and every one is a leg.
LEMMA FiniteEntries ==
  ASSUME Summed
  PROVE  /\ IsFiniteSet(EntryIds)
         /\ \A id \in EntryIds: /\ id = <<id[1], id[2]>>
                                /\ id[1] \in DOMAIN operations
                                /\ id[2] \in DOMAIN operations[id[1]].entries
                                /\ Entry(id) \in Leg
         /\ \A k \in DOMAIN operations: \A i \in DOMAIN operations[k].entries: <<k, i>> \in EntryIds
  <1> DEFINE rows == [k \in DOMAIN operations |-> {k} \X DOMAIN operations[k].entries]
             all == {rows[k]: k \in DOMAIN operations}
  <1>1. EntryIds = UNION all
    BY DEF EntryIds
  <1>2. ASSUME NEW k \in DOMAIN operations
        PROVE  IsFiniteSet(rows[k])
    <2>1. DOMAIN operations[k].entries = 1..Len(operations[k].entries) /\ Len(operations[k].entries) \in Nat
      BY DEF Summed
    <2>2. IsFiniteSet(DOMAIN operations[k].entries)
      BY <2>1, FS_Interval
    <2>3. IsFiniteSet({k})
      BY FS_Singleton
    <2>. QED
      BY <2>2, <2>3, FS_Product
  <1>3. IsFiniteSet(all)
    <2> HIDE DEF rows
    <2>. QED
      BY FiniteImage DEF Summed
  <1>4. IsFiniteSet(EntryIds)
    <2>1. \A T \in all: IsFiniteSet(T)
      BY <1>2
    <2> HIDE DEF all
    <2>. QED
      BY <1>1, <1>3, <2>1, FS_UNION
  <1>5. ASSUME NEW id \in EntryIds
        PROVE  /\ id = <<id[1], id[2]>>
               /\ id[1] \in DOMAIN operations
               /\ id[2] \in DOMAIN operations[id[1]].entries
    BY DEF EntryIds
  <1>6. ASSUME NEW id \in EntryIds
        PROVE  Entry(id) \in Leg
    <2>1. operations[id[1]].entries \in Seq(Leg) /\ id[2] \in DOMAIN operations[id[1]].entries
      BY <1>5 DEF Summed
    <2>. QED
      BY <2>1 DEF Entry
  <1>7. \A k \in DOMAIN operations: \A i \in DOMAIN operations[k].entries: <<k, i>> \in EntryIds
    BY DEF EntryIds
  <1>. QED
    BY <1>4, <1>5, <1>6, <1>7

\* A step that adds an operation and leaves the legs of the others alone.
Adding(key) ==
  /\ key \notin DOMAIN operations
  /\ DOMAIN operations' = DOMAIN operations \cup {key}
  /\ \A k \in DOMAIN operations: operations'[k].entries = operations[k].entries
  /\ operations'[key].entries \in Seq(Leg)

\* The entries after such a step are those before it and the new legs.
LEMMA EntriesAdded ==
  ASSUME Summed, NEW key, Adding(key)
  PROVE  /\ Summed'
         /\ EntryIds' = EntryIds \cup {<<key, i>>: i \in DOMAIN operations'[key].entries}
         /\ \A id \in EntryIds: Entry(id)' = Entry(id) /\ id[1] \in DOMAIN operations /\ id[1] # key
         /\ \A i \in DOMAIN operations'[key].entries:
              /\ Entry(<<key, i>>)' = operations'[key].entries[i]
              /\ <<key, i>> \notin EntryIds
  <1>1. Summed'
    BY FS_AddElement DEF Summed, Adding
  <1>2. \A id: id \in EntryIds' <=> \E k \in DOMAIN operations': id \in {k} \X DOMAIN operations'[k].entries
    BY DEF EntryIds
  <1>3. \A id: id \in EntryIds <=> \E k \in DOMAIN operations: id \in {k} \X DOMAIN operations[k].entries
    BY DEF EntryIds
  <1>4. \A id: id \in {<<key, i>>: i \in DOMAIN operations'[key].entries}
                 <=> id \in {key} \X DOMAIN operations'[key].entries
    OBVIOUS
  <1>5. EntryIds' = EntryIds \cup {<<key, i>>: i \in DOMAIN operations'[key].entries}
    BY <1>2, <1>3, <1>4 DEF Adding
  <1>6. \A id \in EntryIds: id[1] \in DOMAIN operations
    BY FiniteEntries
  <1>7. \A id \in EntryIds: Entry(id)' = Entry(id) /\ id[1] # key
    BY <1>6 DEF Entry, Adding
  <1>8. \A i \in DOMAIN operations'[key].entries: Entry(<<key, i>>)' = operations'[key].entries[i]
    BY DEF Entry
  <1>. QED
    BY <1>1, <1>5, <1>6, <1>7, <1>8 DEF Adding

\* A step that leaves all the legs alone.
Keeping ==
  /\ DOMAIN operations' = DOMAIN operations
  /\ \A k \in DOMAIN operations: operations'[k].entries = operations[k].entries

\* The entries after such a step are those before it.
LEMMA EntriesKept ==
  ASSUME Summed, Keeping
  PROVE  Summed' /\ EntryIds' = EntryIds /\ \A id \in EntryIds: Entry(id)' = Entry(id)
  <1>1. Summed'
    BY DEF Summed, Keeping
  <1>2. \A id: id \in EntryIds' <=> \E k \in DOMAIN operations': id \in {k} \X DOMAIN operations'[k].entries
    BY DEF EntryIds
  <1>3. \A id: id \in EntryIds <=> \E k \in DOMAIN operations: id \in {k} \X DOMAIN operations[k].entries
    BY DEF EntryIds
  <1>4. \A id \in EntryIds: id[1] \in DOMAIN operations
    BY FiniteEntries
  <1>. QED
    BY <1>1, <1>2, <1>3, <1>4 DEF Keeping, Entry

\* A sum over entries, after new ones are selected too: g over the selection
\* after the step, f over the one before it, e over the new legs by position.
SelectsToo(g, f, e, key) ==
  /\ \A i \in DOMAIN e: <<key, i>> \notin DOMAIN f
  /\ \A id: id \in DOMAIN g <=> id \in DOMAIN f \/ \E i \in DOMAIN e: id = <<key, i>>
  /\ \A id \in DOMAIN f: g[id] = f[id]
  /\ \A i \in DOMAIN e: g[<<key, i>>] = e[i]

LEMMA SumNewLegs ==
  ASSUME NEW f, NEW e, NEW g, NEW key, Summable(f), Summable(e), SelectsToo(g, f, e, key)
  PROVE  Summable(g) /\ SumFunction(g) = SumFunction(f) + SumFunction(e)
  <1> DEFINE h == [i \in DOMAIN e |-> <<key, i>>]
  <1>1. \A i \in DOMAIN e: h[i] = <<key, i>>
    OBVIOUS
  <1>2. Appends(g, f, e, h)
    <2> HIDE DEF h
    <2>. QED
      BY <1>1 DEF Appends, SelectsToo
  <1> HIDE DEF h
  <1>. QED
    BY <1>2, SumAppend

\* What the legs of an operation add to an account.
LegsOf(entries, account, currency) ==
  {i \in DOMAIN entries: entries[i].account = account /\ entries[i].currency = currency}
Effect(entries, account, currency) ==
  SumFunction([i \in LegsOf(entries, account, currency) |-> Signed(entries[i])])

\* Legs have integer amounts, whatever their sign.
LEMMA SignedInt ==
  ASSUME NEW leg \in Leg
  PROVE  Signed(leg) \in Int
  BY DEF Signed, Leg

\* The legs of a sequence can be added up, over any of its positions.
LEMMA LegsSummable ==
  ASSUME NEW entries \in Seq(Leg), NEW J \in SUBSET DOMAIN entries
  PROVE  /\ Summable([i \in J |-> Signed(entries[i])])
         /\ Summable([i \in J |-> entries[i].amountMinor])
  <1>1. DOMAIN entries = 1..Len(entries) /\ Len(entries) \in Nat
    OBVIOUS
  <1>2. IsFiniteSet(J)
    <2>1. IsFiniteSet(DOMAIN entries)
      BY <1>1, FS_Interval
    <2>. QED
      BY <2>1, FS_Subset
  <1>3. \A i \in J: entries[i] \in Leg
    OBVIOUS
  <1>4. \A i \in J: Signed(entries[i]) \in Int /\ entries[i].amountMinor \in Int
    BY <1>3, SignedInt DEF Leg
  <1>. QED
    BY <1>2, <1>4 DEF Summable

\* A balance is a sum, and a number.
LEMMA BalanceInt ==
  ASSUME Summed, NEW account, NEW currency
  PROVE  Balance(account, currency) \in Int
  <1> DEFINE ids == {id \in EntryIds: Entry(id).account = account /\ Entry(id).currency = currency}
             f == [id \in ids |-> Signed(Entry(id))]
  <1>1. Summable(f)
    BY FiniteEntries, FS_Subset, SignedInt DEF Summable
  <1>2. Balance(account, currency) = SumFunction(f)
    BY DEF Balance
  <1> HIDE DEF f
  <1>. QED
    BY <1>1, <1>2, SumInt

\* A balance is what it was and what the new legs add to it.
LEMMA BalanceAdded ==
  ASSUME Summed, NEW key, Adding(key), NEW account, NEW currency
  PROVE  /\ Balance(account, currency)' =
              Balance(account, currency) + Effect(operations'[key].entries, account, currency)
         /\ Effect(operations'[key].entries, account, currency) \in Int
  <1> DEFINE of(id) == Entry(id).account = account /\ Entry(id).currency = currency
             entries == operations'[key].entries
             ids == {id \in EntryIds: of(id)}
             after == {id \in EntryIds': of(id)'}
             legs == LegsOf(entries, account, currency)
             f == [id \in ids |-> Signed(Entry(id))]
             g == [id \in after |-> Signed(Entry(id)')]
             e == [i \in legs |-> Signed(entries[i])]
  <1>1. Balance(account, currency) = SumFunction(f)
    BY DEF Balance
  <1>2. Balance(account, currency)' = SumFunction(g)
    BY DEF Balance, Signed
  <1>3. Summable(f)
    BY FiniteEntries, FS_Subset, SignedInt DEF Summable
  <1>4. Summable(e)
    BY LegsSummable DEF LegsOf, Adding
  <1>5. /\ \A i \in legs: <<key, i>> \notin ids
        /\ after = ids \cup {<<key, i>>: i \in legs}
    BY EntriesAdded DEF LegsOf
  <1>6. /\ \A id \in ids: Entry(id)' = Entry(id)
        /\ \A i \in legs: Entry(<<key, i>>)' = entries[i]
    BY EntriesAdded DEF LegsOf
  <1>a. DOMAIN f = ids /\ DOMAIN g = after /\ DOMAIN e = legs
    OBVIOUS
  <1>7. SelectsToo(g, f, e, key)
    <2>1. \A id \in ids: id \in after /\ Signed(Entry(id)') = Signed(Entry(id))
      BY <1>5, <1>6
    <2>2. \A i \in legs: <<key, i>> \in after /\ Signed(Entry(<<key, i>>)') = Signed(entries[i])
      BY <1>5, <1>6
    <2> HIDE DEF ids, after, legs, entries, of
    <2>. QED
      BY <1>5, <2>1, <2>2 DEF SelectsToo
  <1> HIDE DEF f, g, e, ids, after, legs, entries, of
  <1>8. SumFunction(g) = SumFunction(f) + SumFunction(e)
    BY <1>3, <1>4, <1>7, SumNewLegs
  <1>9. SumFunction(e) = Effect(entries, account, currency)
    BY DEF Effect, e, legs
  <1>. QED
    BY <1>1, <1>2, <1>4, <1>8, <1>9, SumInt DEF entries

\* Two legs add to an account what those of them add that are its own.
LEMMA EffectOfTwo ==
  ASSUME NEW x \in Leg, NEW y \in Leg, NEW account, NEW currency
  PROVE  Effect(<<x, y>>, account, currency) =
           (IF x.account = account /\ x.currency = currency THEN Signed(x) ELSE 0)
             + (IF y.account = account /\ y.currency = currency THEN Signed(y) ELSE 0)
  <1> DEFINE J == LegsOf(<<x, y>>, account, currency)
             f == [i \in J |-> Signed(<<x, y>>[i])]
  <1>1. /\ DOMAIN f = J /\ J \subseteq {1, 2}
        /\ 1 \in J <=> x.account = account /\ x.currency = currency
        /\ 2 \in J <=> y.account = account /\ y.currency = currency
        /\ 1 \in J => f[1] = Signed(x)
        /\ 2 \in J => f[2] = Signed(y)
    BY DEF LegsOf
  <1>2. Effect(<<x, y>>, account, currency) = SumFunction(f)
    BY DEF Effect
  <1> HIDE DEF f, J
  <1>a. Signed(x) \in Int /\ Signed(y) \in Int
    BY SignedInt
  <1>b. DOMAIN f \subseteq {1, 2} /\ 1 # 2
    BY <1>1
  <1>3. /\ \A i \in DOMAIN f: f[i] \in Int
        /\ DOMAIN f \subseteq {1, 2} /\ 1 # 2
    BY <1>1, <1>a, <1>b
  <1>4. SumFunction(f) = (IF 1 \in DOMAIN f THEN f[1] ELSE 0) + (IF 2 \in DOMAIN f THEN f[2] ELSE 0)
    BY ONLY <1>3, SumOfTwo
  <1>. QED
    BY <1>1, <1>2, <1>4

\* A balance stays when the legs do.
LEMMA BalanceKept ==
  ASSUME Summed, Keeping, NEW account, NEW currency
  PROVE  Balance(account, currency)' = Balance(account, currency)
  BY EntriesKept DEF Balance, Signed

\* What the legs of an operation add to all the accounts together is their
\* total: every leg counts at one account.
LEMMA EffectsTotal ==
  ASSUME NEW entries \in Seq(Leg), NEW currency
  PROVE  SumFunction([a \in Accounts |-> Effect(entries, a, currency)]) = Total(entries, currency)
  <1> DEFINE J == {j \in DOMAIN entries: entries[j].currency = currency}
             f == [i \in J |-> Signed(entries[i])]
             part == [i \in J |-> entries[i].account]
             parts == [a \in Accounts |-> SumFunction([x \in {y \in DOMAIN f: part[y] = a} |-> f[x]])]
  <1>1. Summable(f) /\ Total(entries, currency) = SumFunction(f)
    BY LegsSummable DEF Total
  <1>2. \A x \in DOMAIN f: part[x] \in Accounts
    <2>1. \A i \in DOMAIN entries: entries[i] \in Leg
      OBVIOUS
    <2>. QED
      BY <2>1 DEF Leg
  <1>3. \A a \in Accounts: {y \in DOMAIN f: part[y] = a} = LegsOf(entries, a, currency)
    BY DEF LegsOf
  <1>4. \A a \in Accounts: [x \in {y \in DOMAIN f: part[y] = a} |-> f[x]]
                             = [i \in LegsOf(entries, a, currency) |-> Signed(entries[i])]
    <2>1. \A a \in Accounts: \A i \in LegsOf(entries, a, currency): f[i] = Signed(entries[i])
      BY DEF LegsOf
    <2> HIDE DEF f, part
    <2>. QED
      BY <1>3, <2>1
  <1>5. parts = [a \in Accounts |-> Effect(entries, a, currency)]
    <2> HIDE DEF f, part
    <2>. QED
      BY <1>4 DEF Effect
  <1>6. SumFunction(parts) = SumFunction(f)
    <2> HIDE DEF f, part
    <2>. QED
      BY <1>1, <1>2, AccountsAssumption, SumByParts
  <1>. QED
    BY <1>1, <1>5, <1>6

\* What the service writes is an operation row.
LEMMA NewRowTyped ==
  ASSUME TypeOK,
         NEW type \in OperationTypes, NEW status \in Statuses,
         NEW entries \in Seq(Leg), NEW reversalOf \in Keys \cup {NoOperation}
  PROVE  NewOperation(type, status, entries, reversalOf) \in Operation(Keys)
  BY DEF NewOperation, Operation, TypeOK

-----------------------------------------------------------------------------
(* Type correctness. *)

LEMMA PostAnyType ==
  ASSUME TypeOK, NEW key \in Keys, PostAny(key)
  PROVE  TypeOK'
  <1>1. PICK input \in Postings:
          PostOperation(key, input.type, input.status, input.entries)
    BY DEF PostAny
  <1>2. /\ input.type \in OperationTypes /\ input.status \in Statuses
        /\ input.entries \in Seq(Leg)
    BY PostingsAssumption DEF Statuses
  <1> DEFINE row == NewOperation(input.type, input.status, input.entries, NoOperation)
  <1>3. row \in Operation(Keys)
    BY <1>2, NewRowTyped
  <1>4. operations' = operations \/ operations' = Insert(operations, key, row)
    BY <1>1 DEF PostOperation
  <1>. QED
    BY <1>3, <1>4, InsertRow DEF TypeOK, PostAny, Insert

LEMMA ReverseAnyType ==
  ASSUME TypeOK, NEW original \in Keys, NEW key \in Keys, ReverseAny(original, key)
  PROVE  TypeOK'
  <1> DEFINE marked == [operations EXCEPT ![original].status = "reversed"]
             row == NewOperation("adjustment", "completed", Mirror(operations[original].entries), original)
  <1>1. original \in DOMAIN operations /\ operations' = Insert(marked, key, row)
    BY DEF ReverseAny, ReverseOperation, Posted
  <1>2. operations[original].entries \in Seq(Leg)
    BY <1>1 DEF TypeOK, Operation
  <1>3. row \in Operation(Keys)
    BY <1>2, MirrorLegs, NewRowTyped DEF OperationTypes, Statuses
  <1>4. marked \in [DOMAIN operations -> Operation(Keys)]
    BY <1>1 DEF TypeOK, Operation, Statuses
  <1>5. /\ DOMAIN operations' = DOMAIN operations \cup {key}
        /\ \A k \in DOMAIN operations': operations'[k] \in Operation(Keys)
    BY <1>1, <1>3, <1>4 DEF Insert
  <1>6. operations' = [k \in DOMAIN operations' |-> operations'[k]]
    BY <1>1 DEF Insert
  <1>. QED
    BY <1>5, <1>6 DEF TypeOK, ReverseAny

LEMMA ConfirmAnyType ==
  ASSUME TypeOK, NEW key \in Keys, ConfirmAny(key)
  PROVE  TypeOK'
  BY DEF ConfirmAny, ConfirmOperation, Posted, TypeOK, Operation, Statuses

LEMMA NextDayType ==
  ASSUME TypeOK, NextDay
  PROVE  TypeOK'
  BY CalendarAssumption DEF NextDay, NewDay, TypeOK

LEMMA LedgerTypeCorrectStep ==
  ASSUME TypeOK, [LedgerNext]_ledgerVars
  PROVE  TypeOK'
  <1>1. CASE \E key \in Keys: PostAny(key)
    BY <1>1, PostAnyType
  <1>2. CASE \E key \in Keys: ConfirmAny(key)
    BY <1>2, ConfirmAnyType
  <1>3. CASE \E original, key \in Keys: ReverseAny(original, key)
    BY <1>3, ReverseAnyType
  <1>4. CASE NextDay
    BY <1>4, NextDayType
  <1>5. CASE UNCHANGED ledgerVars
    BY <1>5 DEF TypeOK, ledgerVars, Operation
  <1>. QED
    BY <1>1, <1>2, <1>3, <1>4, <1>5 DEF LedgerNext

\* The tables always hold well-formed rows, whoever calls the ledger.
THEOREM LedgerTypeCorrect == LedgerSpec => []TypeOK
  <1>1. LedgerInit => TypeOK
    BY CalendarAssumption DEF LedgerInit, TypeOK
  <1>2. TypeOK /\ [LedgerNext]_ledgerVars => TypeOK'
    BY LedgerTypeCorrectStep
  <1>. QED
    BY <1>1, <1>2, PTL DEF LedgerSpec

-----------------------------------------------------------------------------
(* The four things a step can do to the table, in the form the invariants   *)
(* need: nothing, a new posting, a reversal, a confirmation.                *)

NewPosting(key) ==
  /\ key \in Keys \ DOMAIN operations
  /\ DOMAIN operations' = DOMAIN operations \cup {key}
  /\ \A k \in DOMAIN operations: operations'[k] = operations[k]
  /\ operations'[key].status # "reversed"
  /\ operations'[key].reversalOf = NoOperation
  /\ Balanced(operations'[key].entries)

NewReversal(original, key) ==
  /\ original \in DOMAIN operations
  /\ key \in Keys \ DOMAIN operations
  /\ DOMAIN operations' = DOMAIN operations \cup {key}
  /\ \A k \in DOMAIN operations: k # original => operations'[k] = operations[k]
  /\ operations'[original] = [operations[original] EXCEPT !.status = "reversed"]
  /\ operations'[key].status = "completed"
  /\ operations'[key].reversalOf = original
  /\ operations'[key].entries = Mirror(operations[original].entries)
  /\ Balanced(operations'[key].entries)

Confirmation(key) ==
  /\ key \in DOMAIN operations
  /\ DOMAIN operations' = DOMAIN operations
  /\ \A k \in DOMAIN operations: k # key => operations'[k] = operations[k]
  /\ operations[key].status = "pending"
  /\ operations'[key] = [operations[key] EXCEPT !.status = "completed"]

LEMMA StepShape ==
  ASSUME TypeOK, [LedgerNext]_ledgerVars
  PROVE  \/ UNCHANGED operations
         \/ \E key \in Keys: NewPosting(key)
         \/ \E original, key \in Keys: NewReversal(original, key)
         \/ \E key \in Keys: Confirmation(key)
  <1>1. ASSUME NEW key \in Keys, PostAny(key)
        PROVE  UNCHANGED operations \/ NewPosting(key)
    <2>1. PICK input \in Postings:
            PostOperation(key, input.type, input.status, input.entries)
      BY <1>1 DEF PostAny
    <2>2. input.status \in {"pending", "completed"}
      BY PostingsAssumption
    <2>3. CASE Posted(key)
      BY <2>1, <2>3 DEF PostOperation
    <2>4. CASE ~Posted(key)
      <3> DEFINE row == NewOperation(input.type, input.status, input.entries, NoOperation)
      <3>1. operations' = Insert(operations, key, row) /\ Balanced(input.entries)
        BY <2>1, <2>4 DEF PostOperation
      <3>2. /\ DOMAIN operations' = DOMAIN operations \cup {key}
            /\ operations'[key] = row
            /\ \A k \in DOMAIN operations: k # key => operations'[k] = operations[k]
        BY <3>1 DEF Insert
      <3>3. /\ row.status = input.status /\ row.entries = input.entries
            /\ row.reversalOf = NoOperation
        BY DEF NewOperation
      <3>. QED
        BY <2>2, <2>4, <3>1, <3>2, <3>3 DEF NewPosting, Posted
    <2>. QED
      BY <2>3, <2>4
  <1>2. ASSUME NEW original \in Keys, NEW key \in Keys, ReverseAny(original, key)
        PROVE  NewReversal(original, key)
    <2> DEFINE mirrored == Mirror(operations[original].entries)
               marked == [operations EXCEPT ![original].status = "reversed"]
               row == NewOperation("adjustment", "completed", mirrored, original)
    <2>1. /\ original \in DOMAIN operations /\ key \notin DOMAIN operations
          /\ Balanced(mirrored)
          /\ operations' = Insert(marked, key, row)
      BY <1>2 DEF ReverseAny, ReverseOperation, Posted
    <2>2. /\ DOMAIN marked = DOMAIN operations
          /\ \A k \in DOMAIN operations: k # original => marked[k] = operations[k]
          /\ marked[original] = [operations[original] EXCEPT !.status = "reversed"]
      BY <2>1
    <2>3. /\ DOMAIN operations' = DOMAIN marked \cup {key}
          /\ operations'[key] = row
          /\ \A k \in DOMAIN marked: k # key => operations'[k] = marked[k]
      BY <2>1 DEF Insert
    <2>4. row.status = "completed" /\ row.reversalOf = original /\ row.entries = mirrored
      BY DEF NewOperation
    <2> HIDE DEF marked, row, mirrored
    <2>. QED
      BY <2>1, <2>2, <2>3, <2>4 DEF NewReversal, mirrored
  <1>3. ASSUME NEW key \in Keys, ConfirmAny(key)
        PROVE  UNCHANGED operations \/ Confirmation(key)
    BY <1>3 DEF ConfirmAny, ConfirmOperation, Posted, Confirmation
  <1>. QED
    BY <1>1, <1>2, <1>3 DEF LedgerNext, NextDay, ledgerVars

-----------------------------------------------------------------------------
(* The safety invariants. *)

\* A reversal always reverses an operation of the table. This is what keeps a
\* freshly posted operation from being born with a reversal of its own.
ReversalsHaveOriginals ==
  \A k \in DOMAIN operations:
    operations[k].reversalOf # NoOperation => operations[k].reversalOf \in DOMAIN operations

LedgerInv == ReversalsHaveOriginals /\ ReversedMeansMirrored /\ OperationsBalanced

LEMMA PostingKeepsInv ==
  ASSUME TypeOK, LedgerInv, NEW key \in Keys, NewPosting(key)
  PROVE  LedgerInv'
  <1>1. Reversals(key) = {}
    BY PostingsAssumption DEF LedgerInv, ReversalsHaveOriginals, NewPosting, Reversals
  <1>2. \A k \in DOMAIN operations': Reversals(k)' = Reversals(k)
    BY PostingsAssumption DEF NewPosting, Reversals, TypeOK
  <1>3. OperationsBalanced'
    BY DEF LedgerInv, OperationsBalanced, NewPosting
  <1>4. ReversalsHaveOriginals'
    BY DEF LedgerInv, ReversalsHaveOriginals, NewPosting
  <1>5. ReversedMeansMirrored'
    <2> SUFFICES ASSUME NEW k \in DOMAIN operations'
                 PROVE  /\ operations'[k].status = "reversed" <=> Reversals(k)' # {}
                        /\ \A r \in Reversals(k)': operations'[r].entries = Mirror(operations'[k].entries)
      BY DEF ReversedMeansMirrored
    <2>1. CASE k = key
      BY <1>1, <1>2, <2>1 DEF NewPosting
    <2>2. CASE k # key
      <3>1. k \in DOMAIN operations /\ operations'[k] = operations[k]
        BY <2>2 DEF NewPosting
      <3>2. \A r \in Reversals(k): operations'[r] = operations[r]
        BY DEF NewPosting, Reversals
      <3>. QED
        BY <1>2, <3>1, <3>2 DEF LedgerInv, ReversedMeansMirrored
    <2>. QED
      BY <2>1, <2>2
  <1>. QED
    BY <1>3, <1>4, <1>5 DEF LedgerInv

LEMMA ReversalKeepsInv ==
  ASSUME TypeOK, LedgerInv, NEW original \in Keys, NEW key \in Keys, NewReversal(original, key)
  PROVE  LedgerInv'
  <1>1. Reversals(key) = {}
    BY PostingsAssumption DEF LedgerInv, ReversalsHaveOriginals, NewReversal, Reversals
  <1>a. /\ operations'[original].reversalOf = operations[original].reversalOf
        /\ operations'[original].entries = operations[original].entries
    BY DEF NewReversal, TypeOK, Operation
  <1>b. \A k \in DOMAIN operations \ {original}: operations'[k] = operations[k]
    BY DEF NewReversal
  <1>2. \A k \in DOMAIN operations': operations'[k].reversalOf =
          IF k = key THEN original ELSE operations[k].reversalOf
    BY <1>a, <1>b DEF NewReversal
  <1>3. \A k \in DOMAIN operations': operations'[k].entries =
          IF k = key THEN Mirror(operations[original].entries) ELSE operations[k].entries
    BY <1>a, <1>b DEF NewReversal
  <1>4. \A k \in DOMAIN operations':
          Reversals(k)' = IF k = original THEN Reversals(k) \cup {key} ELSE Reversals(k)
    BY <1>2 DEF NewReversal, Reversals
  <1>5. OperationsBalanced'
    BY <1>3 DEF LedgerInv, OperationsBalanced, NewReversal
  <1>6. ReversalsHaveOriginals'
    BY <1>2 DEF LedgerInv, ReversalsHaveOriginals, NewReversal
  <1>7. ReversedMeansMirrored'
    <2> SUFFICES ASSUME NEW k \in DOMAIN operations'
                 PROVE  /\ operations'[k].status = "reversed" <=> Reversals(k)' # {}
                        /\ \A r \in Reversals(k)': operations'[r].entries = Mirror(operations'[k].entries)
      BY DEF ReversedMeansMirrored
    <2>1. CASE k = key
      BY <1>1, <1>4, <2>1 DEF NewReversal
    <2>2. CASE k = original
      <3>1. operations'[k].status = "reversed"
        BY <2>2 DEF NewReversal, TypeOK, Operation
      <3>2. \A r \in Reversals(k): r # key
        BY DEF NewReversal, Reversals
      <3>3. \A r \in Reversals(k): operations[r].entries = Mirror(operations[k].entries)
        BY <2>2 DEF LedgerInv, ReversedMeansMirrored, NewReversal
      <3>4. Reversals(k) \subseteq DOMAIN operations'
        BY DEF NewReversal, Reversals
      <3>. QED
        BY <1>3, <1>4, <2>2, <3>1, <3>2, <3>3, <3>4 DEF NewReversal
    <2>3. CASE k # key /\ k # original
      <3>1. k \in DOMAIN operations /\ operations'[k] = operations[k]
        BY <2>3 DEF NewReversal
      <3>2. Reversals(k)' = Reversals(k)
        BY <1>4, <2>3
      <3>3. \A r \in Reversals(k): operations'[r].entries = operations[r].entries
        BY <1>3 DEF NewReversal, Reversals
      <3>. QED
        BY <3>1, <3>2, <3>3 DEF LedgerInv, ReversedMeansMirrored
    <2>. QED
      BY <2>1, <2>2, <2>3
  <1>. QED
    BY <1>5, <1>6, <1>7 DEF LedgerInv

LEMMA ConfirmationKeepsInv ==
  ASSUME TypeOK, LedgerInv, NEW key \in Keys, Confirmation(key)
  PROVE  LedgerInv'
  <1>1. \A k \in DOMAIN operations: /\ operations'[k].entries = operations[k].entries
                                    /\ operations'[k].reversalOf = operations[k].reversalOf
    BY DEF Confirmation, TypeOK, Operation
  <1>2. \A k \in DOMAIN operations:
          operations'[k].status = "reversed" <=> operations[k].status = "reversed"
    BY DEF Confirmation, TypeOK, Operation
  <1>3. \A k \in DOMAIN operations: Reversals(k)' = Reversals(k)
    BY <1>1 DEF Confirmation, Reversals
  <1>4. OperationsBalanced'
    BY <1>1 DEF LedgerInv, OperationsBalanced, Confirmation
  <1>5. ReversalsHaveOriginals'
    BY <1>1 DEF LedgerInv, ReversalsHaveOriginals, Confirmation
  <1>6. ReversedMeansMirrored'
    BY <1>1, <1>2, <1>3 DEF LedgerInv, ReversedMeansMirrored, Confirmation, Reversals
  <1>. QED
    BY <1>4, <1>5, <1>6 DEF LedgerInv

LEMMA LedgerInvHolds == LedgerSpec => []LedgerInv
  <1>1. LedgerInit => LedgerInv
    BY DEF LedgerInit, LedgerInv, ReversalsHaveOriginals, ReversedMeansMirrored, OperationsBalanced
  <1>2. TypeOK /\ LedgerInv /\ [LedgerNext]_ledgerVars => LedgerInv'
    <2> SUFFICES ASSUME TypeOK, LedgerInv, [LedgerNext]_ledgerVars PROVE LedgerInv'
      OBVIOUS
    <2>1. CASE UNCHANGED operations
      BY <2>1 DEF LedgerInv, ReversalsHaveOriginals, ReversedMeansMirrored, OperationsBalanced, Reversals
    <2>. QED
      BY <2>1, StepShape, PostingKeepsInv, ReversalKeepsInv, ConfirmationKeepsInv
  <1>. QED
    BY <1>1, <1>2, LedgerTypeCorrect, PTL DEF LedgerSpec

\* Every operation in the table is balanced by itself: assertBalanced can not
\* be passed by, whichever way an operation comes about.
THEOREM EveryOperationBalances == LedgerSpec => []OperationsBalanced
  BY LedgerInvHolds, PTL DEF LedgerInv

\* An operation is marked reversed exactly when legs mirroring its own have
\* been posted for it: neither half can be seen without the other.
THEOREM ReversedExactlyWhenMirrored == LedgerSpec => []ReversedMeansMirrored
  BY LedgerInvHolds, PTL DEF LedgerInv

\* No step rewrites an operation's legs, type, day or reversed original, takes
\* it out of the table, or revises a decision once made.
THEOREM HistoryIsAppendOnly == LedgerSpec => HistoryStands
  <1> DEFINE Stands(k) ==
        /\ k \in DOMAIN operations'
        /\ operations'[k] = [operations[k] EXCEPT !.status = operations'[k].status]
        /\ operations'[k].status = "completed" => operations[k].status # "reversed"
        /\ operations'[k].status = "pending" => operations[k].status = "pending"
  <1>1. ASSUME TypeOK, [LedgerNext]_ledgerVars, NEW k \in DOMAIN operations, operations' # operations
        PROVE  Stands(k)
    <2>0. operations[k] = [operations[k] EXCEPT !.status = operations[k].status]
      BY <1>1 DEF TypeOK, Operation
    <2>1. CASE \E key \in Keys: NewPosting(key)
      BY <1>1, <2>0, <2>1 DEF NewPosting
    <2>2. CASE \E original, key \in Keys: NewReversal(original, key)
      <3>1. PICK original \in Keys, key \in Keys: NewReversal(original, key)
        BY <2>2
      <3>2. CASE k # original
        BY <1>1, <2>0, <3>1, <3>2 DEF NewReversal
      <3>3. CASE k = original
        BY <1>1, <3>1, <3>3 DEF NewReversal, TypeOK, Operation
      <3>. QED
        BY <3>2, <3>3
    <2>3. CASE \E key \in Keys: Confirmation(key)
      <3>1. PICK key \in Keys: Confirmation(key)
        BY <2>3
      <3>2. CASE k # key
        BY <1>1, <2>0, <3>1, <3>2 DEF Confirmation
      <3>3. CASE k = key
        BY <1>1, <3>1, <3>3 DEF Confirmation, TypeOK, Operation
      <3>. QED
        BY <3>2, <3>3
    <2>. QED
      BY <1>1, <2>1, <2>2, <2>3, StepShape
  <1>2. TypeOK /\ [LedgerNext]_ledgerVars => [\A k \in DOMAIN operations: Stands(k)]_operations
    BY <1>1
  <1>. QED
    BY <1>2, LedgerTypeCorrect, PTL DEF LedgerSpec, HistoryStands

-----------------------------------------------------------------------------
(* The table implements books with stored balances.                        *)

\* The table stays finite: a step adds one operation at most.
LEMMA TableIsFinite == LedgerSpec => []IsFiniteSet(DOMAIN operations)
  <1>1. LedgerInit => IsFiniteSet(DOMAIN operations)
    BY FS_EmptySet DEF LedgerInit
  <1>2. TypeOK /\ IsFiniteSet(DOMAIN operations) /\ [LedgerNext]_ledgerVars => IsFiniteSet(DOMAIN operations)'
    BY StepShape, FS_AddElement DEF NewPosting, NewReversal, Confirmation
  <1>. QED
    BY <1>1, <1>2, LedgerTypeCorrect, PTL DEF LedgerSpec

LEMMA TypedIsSummed ==
  ASSUME TypeOK, IsFiniteSet(DOMAIN operations)
  PROVE  Summed
  BY DEF TypeOK, Operation, Summed

\* What a key changes is the effect of its legs.
LEMMA ChangeIsEffect ==
  ASSUME NEW key, NEW cell
  PROVE  Change(key, cell) = Effect(operations[key].entries, cell[1], cell[2])
  BY DEF Change, Effect, LegsOf

\* The books add up as the table does.
LEMMA SameSum ==
  ASSUME NEW f
  PROVE  Refined!SumFunction(f) = SumFunction(f)
  BY DEF Refined!SumFunction, Refined!SumFunctionOnSet, Refined!FoldFunctionOnSet, Refined!MapThenFoldSet,
         SumFunction, SumFunctionOnSet, FoldFunctionOnSet, MapThenFoldSet

\* A step that adds legs is a move of the books.
LEMMA AddingMoves ==
  ASSUME Summed, NEW key \in Keys, Adding(key), Balanced(operations'[key].entries)
  PROVE  Refined!Move(key)
  <1> DEFINE entries == operations'[key].entries
             cells == Accounts \X Currencies
  <1>1. key \in Keys \ DOMAIN DerivedMoves /\ DOMAIN DerivedMoves' = DOMAIN DerivedMoves \cup {key}
    BY DEF Adding, DerivedMoves
  <1>2. \A k \in DOMAIN operations: \A cell \in cells: Change(k, cell)' = Change(k, cell)
    BY DEF Adding, Change, Signed
  <1>3. \A k \in DOMAIN DerivedMoves: DerivedMoves'[k] = DerivedMoves[k]
    <2>1. \A k \in DOMAIN operations:
            [cell \in cells |-> Change(k, cell)'] = [cell \in cells |-> Change(k, cell)]
      BY <1>2
    <2>. QED
      BY <2>1 DEF DerivedMoves, Adding
  <1>4. \A cell \in cells: DerivedMoves'[key][cell] = Effect(entries, cell[1], cell[2])
    <2>1. \A cell \in cells: Change(key, cell)' = Effect(entries, cell[1], cell[2])
      BY DEF Change, Effect, LegsOf, Signed
    <2>. QED
      BY <2>1 DEF DerivedMoves, Adding
  <1>5. Refined!Conserves(DerivedMoves'[key])
    <2> SUFFICES ASSUME NEW currency \in Currencies
                 PROVE  SumFunction([a \in Accounts |-> DerivedMoves'[key][<<a, currency>>]]) = 0
      BY SameSum DEF Refined!Conserves
    <2>1. \A a \in Accounts: DerivedMoves'[key][<<a, currency>>] = Effect(entries, a, currency)
      BY <1>4
    <2>2. [a \in Accounts |-> DerivedMoves'[key][<<a, currency>>]]
            = [a \in Accounts |-> Effect(entries, a, currency)]
      BY <2>1
    <2>3. SumFunction([a \in Accounts |-> Effect(entries, a, currency)]) = Total(entries, currency)
      BY EffectsTotal DEF Adding
    <2>. QED
      BY <2>2, <2>3 DEF Balanced
  <1>6. DerivedBalance' = [cell \in cells |-> DerivedBalance[cell] + DerivedMoves'[key][cell]]
    <2>1. \A cell \in cells: Balance(cell[1], cell[2])' =
            Balance(cell[1], cell[2]) + Effect(entries, cell[1], cell[2])
      BY BalanceAdded
    <2>2. \A cell \in cells: DerivedBalance[cell] = Balance(cell[1], cell[2])
      BY DEF DerivedBalance
    <2>3. DerivedBalance' = [cell \in cells |-> Balance(cell[1], cell[2])']
      BY DEF DerivedBalance
    <2>. QED
      BY <1>4, <2>1, <2>2, <2>3
  <1>. QED
    BY <1>1, <1>3, <1>5, <1>6 DEF Refined!Move, Refined!Cells

\* A step that keeps all legs does not show in the books.
LEMMA KeepingStutters ==
  ASSUME Summed, Keeping
  PROVE  DerivedBalance' = DerivedBalance /\ DerivedMoves' = DerivedMoves
  <1> DEFINE cells == Accounts \X Currencies
  <1>1. \A cell \in cells: Balance(cell[1], cell[2])' = Balance(cell[1], cell[2])
    BY BalanceKept
  <1>2. DerivedBalance' = DerivedBalance
    BY <1>1 DEF DerivedBalance
  <1>3. \A k \in DOMAIN operations: \A cell \in cells: Change(k, cell)' = Change(k, cell)
    BY DEF Keeping, Change, Signed
  <1>4. DerivedMoves' = DerivedMoves
    <2>1. \A k \in DOMAIN operations:
            [cell \in cells |-> Change(k, cell)'] = [cell \in cells |-> Change(k, cell)]
      BY <1>3
    <2>. QED
      BY <2>1 DEF DerivedMoves, Keeping
  <1>. QED
    BY <1>2, <1>4

\* The table of operations and entries, whose balances are derived by adding
\* up, implements books that store a balance per account and currency: every
\* key moves money once, every move adds up to nothing, none is taken back.
THEOREM LedgerImplementsBooks == LedgerSpec => ImplementsBooks
  <1>1. LedgerInit => Refined!Init
    <2> SUFFICES ASSUME LedgerInit PROVE Refined!Init
      OBVIOUS
    <2>1. DOMAIN operations = {}
      BY DEF LedgerInit
    <2>2. EntryIds = {}
      BY <2>1 DEF EntryIds
    <2>3. ASSUME NEW a, NEW currency
          PROVE  Balance(a, currency) = 0
      <3> DEFINE f == [id \in {id \in EntryIds: Entry(id).account = a /\ Entry(id).currency = currency} |->
                         Signed(Entry(id))]
      <3>1. DOMAIN f = {}
        BY <2>2
      <3>2. Balance(a, currency) = SumFunction(f)
        BY DEF Balance
      <3> HIDE DEF f
      <3>. QED
        BY <3>1, <3>2, SumEmpty
    <2>4. DerivedBalance = [cell \in Accounts \X Currencies |-> 0]
      BY <2>3 DEF DerivedBalance
    <2>5. DerivedMoves = <<>>
      BY <2>1 DEF DerivedMoves
    <2>. QED
      BY <2>4, <2>5 DEF Refined!Init, Refined!Cells
  <1>2. TypeOK /\ LedgerInv /\ IsFiniteSet(DOMAIN operations) /\ [LedgerNext]_ledgerVars
          => [Refined!Next]_<<DerivedBalance, DerivedMoves>>
    <2> SUFFICES ASSUME TypeOK, LedgerInv, IsFiniteSet(DOMAIN operations), [LedgerNext]_ledgerVars
                 PROVE  Refined!Next \/ UNCHANGED <<DerivedBalance, DerivedMoves>>
      OBVIOUS
    <2>0. Summed
      BY TypedIsSummed
    <2>a. TypeOK'
      BY LedgerTypeCorrectStep
    <2>1. CASE \E key \in Keys: NewPosting(key)
      <3>1. PICK key \in Keys: NewPosting(key)
        BY <2>1
      <3>2. Adding(key) /\ Balanced(operations'[key].entries)
        BY <2>a, <3>1 DEF NewPosting, Adding, TypeOK, Operation
      <3>. QED
        BY <2>0, <3>2, AddingMoves DEF Refined!Next
    <2>2. CASE \E original, key \in Keys: NewReversal(original, key)
      <3>1. PICK original \in Keys, key \in Keys: NewReversal(original, key)
        BY <2>2
      <3>2. operations'[original].entries = operations[original].entries
        BY <3>1 DEF NewReversal, TypeOK, Operation
      <3>3. Adding(key) /\ Balanced(operations'[key].entries)
        BY <2>a, <3>1, <3>2 DEF NewReversal, Adding, TypeOK, Operation
      <3>. QED
        BY <2>0, <3>3, AddingMoves DEF Refined!Next
    <2>3. CASE (\E key \in Keys: Confirmation(key)) \/ UNCHANGED operations
      <3>1. Keeping
        BY <2>3 DEF Confirmation, Keeping, TypeOK, Operation
      <3>. QED
        BY <2>0, <3>1, KeepingStutters
    <2>. QED
      BY <2>1, <2>2, <2>3, StepShape
  <1>. QED
    BY <1>1, <1>2, LedgerTypeCorrect, LedgerInvHolds, TableIsFinite, PTL
    DEF LedgerSpec, ImplementsBooks, Refined!Spec
=============================================================================
