--------------------------- MODULE MoneyOutProofs ---------------------------
(***************************************************************************)
(* Theorems about money that leaves a wallet, for any users, requests,     *)
(* calls, days and bounds. First payouts: any number of calls may serve    *)
(* one request, overlap, die, and MonCash may pay late. Then transfers and *)
(* payouts against the same wallets, limits and OTP rows; those about      *)
(* balances, limits and OTPs are for one call of a sender at a time: the   *)
(* services check first and act later, and TLC shows what two calls that   *)
(* overlap make of that.                                                   *)
(***************************************************************************)
EXTENDS MoneyOut, LedgerProofs, TLAPS

-----------------------------------------------------------------------------
(* Keys. *)

\* Reservations and reversals of requests have keys of their own.
LEMMA KeysDiffer ==
  ASSUME NEW r, NEW s
  PROVE  /\ ReserveKey(r) = ReserveKey(s) => r = s
         /\ ReversalKey(r) = ReversalKey(s) => r = s
         /\ ReserveKey(r) # ReversalKey(s)
         /\ ReserveKey(r) # TopupKey(s)
         /\ ReserveKey(r) # NoOperation
  BY DEF ReserveKey, ReversalKey, TopupKey, NoOperation

\* The keys of a call are keys of the table.
LEMMA CallKeys ==
  ASSUME NEW c \in Calls
  PROVE  /\ RequestOf[c] \in Requests
         /\ Order(c) = ReserveKey(RequestOf[c]) /\ Reversal(c) = ReversalKey(RequestOf[c])
         /\ Order(c) \in {ReserveKey(r): r \in Requests}
         /\ Order(c) \in PayoutKeys /\ Reversal(c) \in PayoutKeys
         /\ Request(c) \in RequestForm
  BY SecurityAssumption DEF Order, Reversal, PayoutKeys, Request

\* The legs of a reservation are legs.
LEMMA ReserveLegs ==
  ASSUME NEW c \in Calls
  PROVE  <<Debit(Sender(c), AmountMinor(c)), Credit(MonCashFloat, AmountMinor(c))>> \in Seq(Leg)
  <1>1. /\ Sender(c) \in Accounts /\ MonCashFloat \in Accounts /\ "HTG" \in Currencies
        /\ AmountMinor(c) \in Int
    BY CallKeys, SecurityAssumption DEF RequestForm, Sender, AmountMinor
  <1>2. /\ Debit(Sender(c), AmountMinor(c)) \in Leg
        /\ Credit(MonCashFloat, AmountMinor(c)) \in Leg
    BY <1>1 DEF Debit, Credit, Leg, Directions
  <1>. QED
    BY <1>2

-----------------------------------------------------------------------------
(* Type correctness. *)

LEMMA InitType == PayoutInit => PayoutTypeOK
  <1> SUFFICES ASSUME PayoutInit PROVE PayoutTypeOK
    OBVIOUS
  <1> DEFINE funded == {TopupKey(u): u \in {v \in Users: Funding[v] > 0}}
             row(k) == NewOperation("topup", "completed",
                         <<Credit(k[2], Funding[k[2]]), Debit(MonCashFloat, Funding[k[2]])>>, NoOperation)
  <1>1. operations = [k \in funded |-> row(k)] /\ today = 0
    BY DEF PayoutInit, SecurityInit
  <1>2. ASSUME NEW k \in funded
        PROVE  k \in PayoutKeys /\ row(k) \in Operation(PayoutKeys)
    <2>1. PICK u \in Users: k = TopupKey(u) /\ k[2] = u
      BY <1>2 DEF TopupKey
    <2>2. /\ u \in Accounts /\ MonCashFloat \in Accounts /\ "HTG" \in Currencies
          /\ Funding[u] \in Int
      BY SecurityAssumption
    <2>3. Credit(u, Funding[u]) \in Leg /\ Debit(MonCashFloat, Funding[u]) \in Leg
      BY <2>2 DEF Debit, Credit, Leg, Directions
    <2>4. <<Credit(u, Funding[u]), Debit(MonCashFloat, Funding[u])>> \in Seq(Leg)
      BY <2>3
    <2>. QED
      BY <1>1, <2>1, <2>4, CalendarAssumption
      DEF NewOperation, Operation, OperationTypes, Statuses, PayoutKeys
  <1>3. DOMAIN operations \subseteq PayoutKeys
        /\ operations \in [DOMAIN operations -> Operation(PayoutKeys)]
    <2> HIDE DEF funded, row
    <2>. QED
      BY <1>1, <1>2
  <1>4. /\ stage \in [Calls -> GateStages \cup PayoutStages]
        /\ seenAttempts \in [Calls -> 0..(MaxAttempts - 1)]
        /\ otpCodes = <<>> /\ payouts = <<>> /\ monCashPaid = {} /\ monCashUncertain = {}
    BY SecurityAssumption DEF PayoutInit, SecurityInit, GateStages
  <1>. QED
    BY <1>1, <1>3, <1>4, CalendarAssumption DEF PayoutTypeOK

\* A step of a call that writes no table but its stage and its OTP row object.
LEMMA StageType ==
  ASSUME PayoutTypeOK, NEW c \in Calls, NEW from, NEW to \in GateStages \cup PayoutStages,
         Goto(c, from, to)
  PROVE  stage' \in [Calls -> GateStages \cup PayoutStages]
  BY DEF PayoutTypeOK, Goto

LEMMA GateType ==
  ASSUME PayoutTypeOK, NEW c \in Calls, GateStep(c) \/ Abort(c), UNCHANGED payoutVars
  PROVE  PayoutTypeOK'
  <1>1. CASE CheckBalance(c) \/ EnforceLimits(c)
    BY <1>1 DEF CheckBalance, EnforceLimits, Gate, Goto, GateStages, PayoutTypeOK, ledgerVars, payoutVars
  <1>2. CASE Abort(c)
    BY <1>2, SecurityAssumption DEF Abort, GateStages, PayoutTypeOK, ledgerVars, payoutVars
  <1>3. CASE ReadOtp(c)
    <2>1. stage' \in [Calls -> GateStages \cup PayoutStages]
      BY <1>3 DEF ReadOtp, Gate, Goto, GateStages, PayoutTypeOK
    <2>2. seenAttempts' \in [Calls -> 0..(MaxAttempts - 1)]
      BY <1>3, SecurityAssumption DEF ReadOtp, OtpUsable, OtpRow, PayoutTypeOK
    <2>. QED
      BY <1>3, <2>1, <2>2 DEF ReadOtp, PayoutTypeOK, ledgerVars, payoutVars
  <1>4. CASE \E right \in BOOLEAN: SaveOtp(c, right)
    <2>1. PICK right \in BOOLEAN: SaveOtp(c, right)
      BY <1>4
    <2>2. stage' \in [Calls -> GateStages \cup PayoutStages]
      BY <2>1 DEF SaveOtp, Gate, Goto, GateStages, PayoutTypeOK
    <2>3. seenAttempts' \in [Calls -> 0..(MaxAttempts - 1)]
      BY <2>1, SecurityAssumption DEF SaveOtp, PayoutTypeOK
    <2>4. seenAttempts[c] \in 0..MaxAttempts /\ seenAttempts[c] + 1 \in 0..MaxAttempts
      BY SecurityAssumption DEF PayoutTypeOK
    <2>5. /\ DOMAIN otpCodes' = DOMAIN otpCodes
          /\ otpCodes' \in [DOMAIN otpCodes' -> OtpRow]
      <3> DEFINE n == IF right THEN seenAttempts[c] ELSE seenAttempts[c] + 1
                 id == Request(c).otp
                 saved == [otpCodes[id] EXCEPT !.attempts = n, !.consumed = right]
      <3>1. n \in 0..MaxAttempts
        BY <2>4
      <3>2. otpCodes' = [otpCodes EXCEPT ![id].attempts = n, ![id].consumed = right]
        BY <2>1 DEF SaveOtp
      <3> HIDE DEF n, id
      <3>3. otpCodes' = [otpCodes EXCEPT ![id] = saved]
        BY <3>2
      <3>4. id \in DOMAIN otpCodes => saved \in OtpRow
        BY <3>1 DEF OtpRow, PayoutTypeOK
      <3> HIDE DEF saved
      <3>. QED
        BY <3>3, <3>4 DEF PayoutTypeOK
    <2>. QED
      BY <2>1, <2>2, <2>3, <2>5 DEF SaveOtp, PayoutTypeOK, ledgerVars, payoutVars
  <1>. QED
    BY <1>1, <1>2, <1>3, <1>4 DEF GateStep

LEMMA SurroundingsType ==
  ASSUME PayoutTypeOK, Surroundings, UNCHANGED payoutVars
  PROVE  PayoutTypeOK'
  <1>1. ASSUME NEW id \in OtpIds, ExpireOtp(id)
        PROVE  PayoutTypeOK'
    <2>1. DOMAIN otpCodes' = DOMAIN otpCodes /\ otpCodes' \in [DOMAIN otpCodes' -> OtpRow]
      BY <1>1 DEF ExpireOtp, OtpRow, PayoutTypeOK
    <2>. QED
      BY <1>1, <2>1 DEF ExpireOtp, PayoutTypeOK, ledgerVars, payoutVars
  <1>2. ASSUME NEW id \in OtpIds, NEW user \in Users, NEW purpose \in Purposes,
               RequestOtp(id, user, purpose)
        PROVE  PayoutTypeOK'
    <2> DEFINE row == [userId |-> user, purpose |-> purpose, attempts |-> 0,
                       consumed |-> FALSE, expired |-> FALSE]
    <2>1. row \in OtpRow
      BY SecurityAssumption DEF OtpRow
    <2>2. otpCodes' = Insert(otpCodes, id, row)
      BY <1>2 DEF RequestOtp
    <2> HIDE DEF row
    <2>3. /\ DOMAIN otpCodes' = DOMAIN otpCodes \cup {id}
          /\ otpCodes' \in [DOMAIN otpCodes' -> OtpRow]
      BY <2>1, <2>2 DEF Insert, PayoutTypeOK
    <2>. QED
      BY <1>2, <2>3 DEF RequestOtp, PayoutTypeOK, ledgerVars, payoutVars
  <1>3. CASE NewDay /\ UNCHANGED <<operations, securityVars>>
    BY <1>3, CalendarAssumption DEF NewDay, PayoutTypeOK, securityVars, payoutVars
  <1>. QED
    BY <1>1, <1>2, <1>3 DEF Surroundings

\* The ledger part of the type invariant.
LEMMA TypeTable == PayoutTypeOK => Table(PayoutKeys) /\ today \in 0..LastDay
  BY DEF PayoutTypeOK, Table

LEMMA TableType ==
  ASSUME PayoutTypeOK, Table(PayoutKeys)', UNCHANGED <<today, otpCodes, seenAttempts, payoutVars>>,
         stage' \in [Calls -> GateStages \cup PayoutStages]
  PROVE  PayoutTypeOK'
  BY DEF PayoutTypeOK, Table, payoutVars

LEMMA ReserveType ==
  ASSUME PayoutTypeOK, NEW c \in Calls, Reserve(c)
  PROVE  PayoutTypeOK'
  <1>1. Table(PayoutKeys)'
    <2> DEFINE legs == <<Debit(Sender(c), AmountMinor(c)), Credit(MonCashFloat, AmountMinor(c))>>
    <2>1. PostOperation(Order(c), "payout", "pending", legs) /\ legs \in Seq(Leg)
      BY ReserveLegs DEF Reserve
    <2> HIDE DEF legs
    <2>2. Order(c) \in PayoutKeys /\ "payout" \in OperationTypes /\ "pending" \in Statuses
      BY CallKeys DEF OperationTypes, Statuses
    <2>. QED
      BY <2>1, <2>2, TypeTable, PostTable
  <1>2. stage' \in [Calls -> GateStages \cup PayoutStages]
    BY DEF Reserve, Goto, PayoutTypeOK, PayoutStages
  <1>. QED
    BY <1>1, <1>2, TableType DEF Reserve

LEMMA ConfirmType ==
  ASSUME PayoutTypeOK, NEW c \in Calls, Confirm(c)
  PROVE  PayoutTypeOK'
  <1>1. Table(PayoutKeys)'
    BY TypeTable, ConfirmTable DEF Confirm
  <1>2. stage' \in [Calls -> GateStages \cup PayoutStages]
    BY DEF Confirm, Goto, PayoutTypeOK, PayoutStages
  <1>. QED
    BY <1>1, <1>2, TableType DEF Confirm

LEMMA ReverseType ==
  ASSUME PayoutTypeOK, NEW c \in Calls, Reverse(c)
  PROVE  PayoutTypeOK'
  <1>1. Table(PayoutKeys)'
    <2>1. CASE Posted(Reversal(c))
      BY <2>1, TypeTable DEF Reverse, Table
    <2>2. CASE ~Posted(Reversal(c))
      BY <2>2, TypeTable, CallKeys, ReverseTable DEF Reverse
    <2>. QED
      BY <2>1, <2>2
  <1>2. stage' \in [Calls -> GateStages \cup PayoutStages]
    BY DEF Reverse, Goto, PayoutTypeOK, PayoutStages
  <1>. QED
    BY <1>1, <1>2, TableType DEF Reverse

LEMMA MonCashType ==
  ASSUME PayoutTypeOK, NEW c \in Calls, MonCashPays(c) \/ MonCashUnavailable(c)
  PROVE  PayoutTypeOK'
  BY CallKeys DEF MonCashPays, MonCashUnavailable, Goto, PayoutTypeOK, PayoutStages, ledgerVars

LEMMA SaveType ==
  ASSUME PayoutTypeOK, NEW c \in Calls, SaveCompleted(c) \/ SaveFailed(c)
  PROVE  PayoutTypeOK'
  <1> DEFINE Row == [status: {"completed", "failed"}, reversal: PayoutKeys \cup {NoOperation}]
  <1>1. ASSUME NEW from, NEW to \in PayoutStages, NEW row \in Row, SaveOutcome(c, from, to, row)
        PROVE  PayoutTypeOK'
    <2> HIDE DEF Row
    <2>1. /\ DOMAIN payouts' \subseteq {ReserveKey(r): r \in Requests}
          /\ payouts' \in [DOMAIN payouts' -> Row]
      BY <1>1, CallKeys DEF SaveOutcome, Insert, PayoutTypeOK, Row
    <2>2. stage' \in [Calls -> GateStages \cup PayoutStages]
      BY <1>1 DEF SaveOutcome, Goto, PayoutTypeOK, PayoutStages
    <2>. QED
      BY <1>1, <2>1, <2>2 DEF SaveOutcome, PayoutTypeOK, ledgerVars, Row
  <1>2. CASE SaveCompleted(c)
    <2>1. [status |-> "completed", reversal |-> NoOperation] \in Row /\ "recorded" \in PayoutStages
      BY DEF PayoutStages
    <2> HIDE DEF Row
    <2>. QED
      BY <1>1, <1>2, <2>1 DEF SaveCompleted
  <1>3. CASE SaveFailed(c)
    <2>1. [status |-> "failed", reversal |-> Reversal(c)] \in Row /\ "recordedFailure" \in PayoutStages
      BY CallKeys DEF PayoutStages
    <2> HIDE DEF Row
    <2>. QED
      BY <1>1, <1>3, <2>1 DEF SaveFailed
  <1>. QED
    BY <1>2, <1>3

LEMMA StageOnlyType ==
  ASSUME PayoutTypeOK, NEW c \in Calls,
         \/ StartPayout(c) \/ FindOutcome(c) \/ AuditCompleted(c)
         \/ AnswerCompleted(c) \/ AnswerFailed(c)
  PROVE  PayoutTypeOK'
  <1>1. CASE FindOutcome(c)
    <2>1. Order(c) \in DOMAIN payouts => payouts[Order(c)].status \in {"completed", "failed"}
      BY DEF PayoutTypeOK
    <2>. QED
      BY <1>1, <2>1 DEF FindOutcome, Goto, PayoutTypeOK, PayoutStages, ledgerVars, payoutVars
  <1>2. CASE StartPayout(c) \/ AuditCompleted(c) \/ AnswerCompleted(c) \/ AnswerFailed(c)
    BY <1>2 DEF StartPayout, Enter, Gate, AuditCompleted, AnswerCompleted, AnswerFailed, Goto,
                PayoutTypeOK, PayoutStages, GateStages, ledgerVars, payoutVars
  <1>. QED
    BY <1>1, <1>2

LEMMA MonCashLateType ==
  ASSUME PayoutTypeOK, NEW order \in monCashUncertain, MonCashPaysUnanswered(order)
  PROVE  PayoutTypeOK'
  BY DEF MonCashPaysUnanswered, PayoutTypeOK, ledgerVars, securityVars

LEMMA NextType == PayoutTypeOK /\ [PayoutNext]_vars => PayoutTypeOK'
  <1> SUFFICES ASSUME PayoutTypeOK, [PayoutNext]_vars PROVE PayoutTypeOK'
    OBVIOUS
  <1>1. ASSUME NEW c \in PayoutCalls, StartPayout(c) \/ PayoutStep(c) PROVE PayoutTypeOK'
    BY <1>1, StageOnlyType, ReserveType, MonCashType, ConfirmType, SaveType, ReverseType
    DEF PayoutStep, PayoutCalls
  <1>2. ASSUME NEW c \in PayoutCalls, (GateStep(c) \/ Abort(c)) /\ UNCHANGED payoutVars
        PROVE  PayoutTypeOK'
    BY <1>2, GateType DEF PayoutCalls
  <1>3. ASSUME NEW order \in monCashUncertain, MonCashPaysUnanswered(order) PROVE PayoutTypeOK'
    BY <1>3, MonCashLateType
  <1>4. CASE Surroundings /\ UNCHANGED payoutVars
    BY <1>4, SurroundingsType
  <1>5. CASE UNCHANGED vars
    BY <1>5 DEF vars, ledgerVars, securityVars, payoutVars, PayoutTypeOK
  <1>. QED
    BY <1>1, <1>2, <1>3, <1>4, <1>5 DEF PayoutNext

\* Rows, reservations, OTP rows and the stages of all calls keep their types.
THEOREM PayoutTypeCorrect == PayoutSpec => []PayoutTypeOK
  BY InitType, NextType, PTL DEF PayoutSpec

-----------------------------------------------------------------------------
(* Nothing recorded is taken back. *)

Kept ==
  /\ \A k \in DOMAIN operations:
       /\ k \in DOMAIN operations'
       /\ operations'[k].type = operations[k].type
       /\ operations'[k].reversalOf = operations[k].reversalOf
       /\ operations[k].status = "reversed" => operations'[k].status = "reversed"
  /\ \A order \in DOMAIN payouts: order \in DOMAIN payouts' /\ payouts'[order] = payouts[order]
  /\ monCashPaid \subseteq monCashPaid'

LEMMA ReserveKeeps ==
  ASSUME PayoutTypeOK, NEW c \in Calls, Reserve(c)
  PROVE  Kept
  <1> DEFINE legs == <<Debit(Sender(c), AmountMinor(c)), Credit(MonCashFloat, AmountMinor(c))>>
  <1>1. PostOperation(Order(c), "payout", "pending", legs) /\ UNCHANGED payoutVars
    BY DEF Reserve
  <1> HIDE DEF legs
  <1>2. /\ DOMAIN operations' = DOMAIN operations \cup {Order(c)}
        /\ \A k \in DOMAIN operations: operations'[k] = operations[k]
    BY <1>1, PostShape
  <1>. QED
    BY <1>1, <1>2 DEF Kept, payoutVars

LEMMA ConfirmKeeps ==
  ASSUME PayoutTypeOK, NEW c \in Calls, Confirm(c)
  PROVE  Kept
  <1>1. ConfirmOperation(Order(c)) /\ UNCHANGED payoutVars
    BY DEF Confirm
  <1>2. /\ DOMAIN operations' = DOMAIN operations
        /\ \A k \in DOMAIN operations:
             /\ operations'[k].type = operations[k].type
             /\ operations'[k].reversalOf = operations[k].reversalOf
             /\ operations'[k].status = IF k = Order(c) /\ operations[k].status = "pending"
                                        THEN "completed" ELSE operations[k].status
    BY <1>1, TypeTable, ConfirmShape
  <1>. QED
    BY <1>1, <1>2 DEF Kept, payoutVars

LEMMA ReverseKeeps ==
  ASSUME PayoutTypeOK, NEW c \in Calls, Reverse(c)
  PROVE  Kept
  <1>1. UNCHANGED payoutVars
    BY DEF Reverse
  <1>2. CASE Posted(Reversal(c))
    BY <1>1, <1>2 DEF Reverse, Kept, payoutVars
  <1>3. CASE ~Posted(Reversal(c))
    <2>1. ReverseOperation(Order(c), Reversal(c))
      BY <1>3 DEF Reverse
    <2>2. /\ Reversal(c) \notin DOMAIN operations
          /\ DOMAIN operations' = DOMAIN operations \cup {Reversal(c)}
          /\ \A k \in DOMAIN operations: k # Order(c) => operations'[k] = operations[k]
          /\ operations'[Order(c)].status = "reversed"
          /\ operations'[Order(c)].type = operations[Order(c)].type
          /\ operations'[Order(c)].reversalOf = operations[Order(c)].reversalOf
      BY <2>1, TypeTable, ReverseShape
    <2>. QED
      BY <1>1, <2>2 DEF Kept, payoutVars
  <1>. QED
    BY <1>2, <1>3

LEMMA SaveKeeps ==
  ASSUME NEW c \in Calls, NEW from, NEW to, NEW row, SaveOutcome(c, from, to, row)
  PROVE  Kept
  BY DEF SaveOutcome, Insert, Kept, ledgerVars

\* No step, of whatever call, takes back a row, a reversal or a payment.
LEMMA StepKeeps == PayoutTypeOK /\ [PayoutNext]_vars => Kept
  <1> SUFFICES ASSUME PayoutTypeOK, [PayoutNext]_vars PROVE Kept
    OBVIOUS
  <1>1. ASSUME NEW c \in Calls, PayoutStep(c) \/ StartPayout(c) PROVE Kept
    <2>1. CASE Reserve(c) \/ Confirm(c) \/ Reverse(c)
      BY <2>1, ReserveKeeps, ConfirmKeeps, ReverseKeeps
    <2>2. CASE SaveCompleted(c) \/ SaveFailed(c)
      BY <2>2, SaveKeeps DEF SaveCompleted, SaveFailed
    <2>3. CASE MonCashPays(c) \/ MonCashUnavailable(c)
      BY <2>3 DEF MonCashPays, MonCashUnavailable, Kept, ledgerVars
    <2>4. CASE \/ StartPayout(c) \/ FindOutcome(c) \/ AuditCompleted(c)
               \/ AnswerCompleted(c) \/ AnswerFailed(c)
      BY <2>4 DEF StartPayout, Enter, FindOutcome, AuditCompleted, AnswerCompleted, AnswerFailed,
                  Kept, ledgerVars, payoutVars
    <2>. QED
      BY <1>1, <2>1, <2>2, <2>3, <2>4 DEF PayoutStep
  <1>2. ASSUME NEW c \in Calls, (GateStep(c) \/ Abort(c)) /\ UNCHANGED payoutVars PROVE Kept
    BY <1>2 DEF GateStep, CheckBalance, EnforceLimits, ReadOtp, SaveOtp, Abort,
                Kept, ledgerVars, payoutVars
  <1>3. ASSUME NEW order \in monCashUncertain, MonCashPaysUnanswered(order) PROVE Kept
    BY <1>3 DEF MonCashPaysUnanswered, Kept, ledgerVars
  <1>4. CASE (Surroundings /\ UNCHANGED payoutVars) \/ UNCHANGED vars
    BY <1>4 DEF Surroundings, ExpireOtp, RequestOtp, vars, ledgerVars, payoutVars, Kept
  <1>. QED
    BY <1>1, <1>2, <1>3, <1>4 DEF PayoutNext, PayoutCalls

\* A recorded outcome never changes and a reversal is never taken back, not
\* even by a confirmation that comes late.
THEOREM OutcomesStayFinal == PayoutSpec => OutcomesAreFinal
  <1>1. PayoutTypeOK /\ [PayoutNext]_vars =>
          [/\ \A order \in DOMAIN payouts: order \in DOMAIN payouts' /\ payouts'[order] = payouts[order]
           /\ \A k \in DOMAIN operations:
                operations[k].status = "reversed" => operations'[k].status = "reversed"]_vars
    BY StepKeeps DEF Kept
  <1>. QED
    BY <1>1, PayoutTypeCorrect, PTL DEF PayoutSpec, OutcomesAreFinal

-----------------------------------------------------------------------------
(* The records tell the truth. What a call may record is settled by where   *)
(* it is: the stages carry what MonCash and the ledger have already done.   *)

\* The reservation is reversed, by the operation posted under key.
Returned(order, key) ==
  /\ order \in DOMAIN operations /\ operations[order].status = "reversed"
  /\ key \in DOMAIN operations /\ operations[key].reversalOf = order

Recorded(order, status) == order \in DOMAIN payouts /\ payouts[order].status = status

CallKnows(c) ==
  /\ stage[c] \in {"paid", "confirmed"} => Order(c) \in monCashPaid
  /\ stage[c] = "reversed" => Returned(Order(c), Reversal(c))
  /\ stage[c] \in {"recorded", "audited", "completed"} => Recorded(Order(c), "completed")
  /\ stage[c] \in {"recordedFailure", "failed"} => Recorded(Order(c), "failed")

RowsTrue ==
  \A order \in DOMAIN payouts:
    IF payouts[order].status = "completed" THEN order \in monCashPaid
    ELSE Returned(order, payouts[order].reversal)

ConfirmedArePaid ==
  \A k \in DOMAIN operations:
    operations[k].type = "payout" /\ operations[k].status = "completed" => k \in monCashPaid

OutcomeInv == (\A c \in Calls: CallKnows(c)) /\ RowsTrue /\ ConfirmedArePaid

LEMMA InitOutcome == PayoutInit => OutcomeInv
  BY DEF PayoutInit, SecurityInit, OutcomeInv, CallKnows, RowsTrue, ConfirmedArePaid, NewOperation

\* What a call knows stays true while it does not move.
LEMMA KnowledgeKept ==
  ASSUME NEW c \in Calls, CallKnows(c), Kept, stage'[c] = stage[c]
  PROVE  CallKnows(c)'
  BY DEF CallKnows, Kept, Returned, Recorded, Order, Reversal

LEMMA RowsKept ==
  ASSUME RowsTrue, Kept, payouts' = payouts
  PROVE  RowsTrue'
  BY DEF RowsTrue, Kept, Returned

LEMMA ConfirmedKept ==
  ASSUME ConfirmedArePaid, Kept, operations' = operations
  PROVE  ConfirmedArePaid'
  BY DEF ConfirmedArePaid, Kept

\* A step of call c is judged by what c knows afterwards and by the two tables.
LEMMA OneCallMoves ==
  ASSUME PayoutTypeOK, OutcomeInv, Kept, NEW c \in Calls, NEW from, NEW to, Goto(c, from, to),
         CallKnows(c)', RowsTrue', ConfirmedArePaid'
  PROVE  OutcomeInv'
  <1>1. \A d \in Calls: d # c => stage'[d] = stage[d]
    BY DEF Goto, PayoutTypeOK
  <1>. QED
    BY <1>1, KnowledgeKept DEF OutcomeInv

LEMMA Arrives ==
  ASSUME PayoutTypeOK, NEW c \in Calls, NEW from, NEW to, Goto(c, from, to)
  PROVE  stage[c] = from /\ stage'[c] = to
  BY DEF Goto, PayoutTypeOK

LEMMA ReserveOutcome ==
  ASSUME PayoutTypeOK, OutcomeInv, NEW c \in Calls, Reserve(c)
  PROVE  OutcomeInv'
  <1> DEFINE legs == <<Debit(Sender(c), AmountMinor(c)), Credit(MonCashFloat, AmountMinor(c))>>
             to == IF Posted(Order(c)) THEN "replayed" ELSE "paying"
  <1>1. /\ Goto(c, "gated", to) /\ UNCHANGED payoutVars
        /\ PostOperation(Order(c), "payout", "pending", legs)
    BY DEF Reserve
  <1>2. /\ DOMAIN operations' = DOMAIN operations \cup {Order(c)}
        /\ \A k \in DOMAIN operations: operations'[k] = operations[k]
        /\ Order(c) \notin DOMAIN operations =>
             operations'[Order(c)] = NewOperation("payout", "pending", legs, NoOperation)
    <2> HIDE DEF legs
    <2>. QED
      BY <1>1, PostShape
  <1>3. Order(c) \notin DOMAIN operations => operations'[Order(c)].status = "pending"
    BY <1>2 DEF NewOperation
  <1>4. ConfirmedArePaid'
    BY <1>1, <1>2, <1>3 DEF ConfirmedArePaid, OutcomeInv, payoutVars
  <1>5. Kept
    BY ReserveKeeps
  <1>6. RowsTrue'
    BY <1>1, <1>5, RowsKept DEF OutcomeInv, payoutVars
  <1>7. CallKnows(c)'
    BY <1>1, Arrives DEF CallKnows
  <1> HIDE DEF to
  <1>. QED
    BY <1>1, <1>4, <1>5, <1>6, <1>7, OneCallMoves

LEMMA ConfirmOutcome ==
  ASSUME PayoutTypeOK, OutcomeInv, NEW c \in Calls, Confirm(c)
  PROVE  OutcomeInv'
  <1>1. Goto(c, "paid", "confirmed") /\ ConfirmOperation(Order(c)) /\ UNCHANGED payoutVars
    BY DEF Confirm
  <1>2. Kept /\ RowsTrue'
    BY <1>1, ConfirmKeeps, RowsKept DEF OutcomeInv, payoutVars
  <1>3. Order(c) \in monCashPaid
    BY <1>1, Arrives DEF OutcomeInv, CallKnows
  <1>4. CallKnows(c)'
    BY <1>1, <1>3, Arrives DEF CallKnows, payoutVars, Order
  <1>5. ConfirmedArePaid'
    <2>1. /\ DOMAIN operations' = DOMAIN operations
          /\ \A k \in DOMAIN operations:
               /\ operations'[k].type = operations[k].type
               /\ operations'[k].status = IF k = Order(c) /\ operations[k].status = "pending"
                                          THEN "completed" ELSE operations[k].status
      BY <1>1, TypeTable, ConfirmShape
    <2>. QED
      BY <1>1, <1>3, <2>1 DEF ConfirmedArePaid, OutcomeInv, payoutVars
  <1>. QED
    BY <1>1, <1>2, <1>4, <1>5, OneCallMoves

LEMMA ReverseOutcome ==
  ASSUME PayoutTypeOK, OutcomeInv, NEW c \in Calls, Reverse(c)
  PROVE  OutcomeInv'
  <1>1. UNCHANGED payoutVars /\ Kept /\ RowsTrue'
    BY ReverseKeeps, RowsKept DEF Reverse, OutcomeInv, payoutVars
  <1>2. CASE Posted(Reversal(c))
    <2>1. Goto(c, "declined", "error") /\ operations' = operations
      BY <1>2 DEF Reverse
    <2>2. CallKnows(c)' /\ ConfirmedArePaid'
      BY <1>1, <2>1, Arrives, ConfirmedKept DEF CallKnows, OutcomeInv
    <2>. QED
      BY <1>1, <2>1, <2>2, OneCallMoves
  <1>3. CASE ~Posted(Reversal(c))
    <2>1. Goto(c, "declined", "reversed") /\ ReverseOperation(Order(c), Reversal(c))
      BY <1>3 DEF Reverse
    <2>2. /\ Order(c) \in DOMAIN operations /\ Reversal(c) \notin DOMAIN operations
          /\ DOMAIN operations' = DOMAIN operations \cup {Reversal(c)}
          /\ \A k \in DOMAIN operations: k # Order(c) => operations'[k] = operations[k]
          /\ operations'[Order(c)].status = "reversed"
          /\ operations'[Reversal(c)] =
               NewOperation("adjustment", "completed", Mirror(operations[Order(c)].entries), Order(c))
      BY <2>1, TypeTable, ReverseShape
    <2>3. operations'[Reversal(c)].reversalOf = Order(c) /\ operations'[Reversal(c)].type = "adjustment"
      BY <2>2 DEF NewOperation
    <2>4. CallKnows(c)'
      BY <2>1, <2>2, <2>3, Arrives DEF CallKnows, Returned, Order, Reversal
    <2>5. ConfirmedArePaid'
      BY <1>1, <2>2, <2>3 DEF ConfirmedArePaid, OutcomeInv, payoutVars
    <2>. QED
      BY <1>1, <2>1, <2>4, <2>5, OneCallMoves
  <1>. QED
    BY <1>2, <1>3

LEMMA MonCashOutcome ==
  ASSUME PayoutTypeOK, OutcomeInv, NEW c \in Calls, MonCashPays(c) \/ MonCashUnavailable(c)
  PROVE  OutcomeInv'
  <1>1. Kept /\ payouts' = payouts /\ operations' = operations
    BY DEF MonCashPays, MonCashUnavailable, Kept, ledgerVars
  <1>2. RowsTrue' /\ ConfirmedArePaid'
    BY <1>1, RowsKept, ConfirmedKept DEF OutcomeInv
  <1>3. CASE MonCashPays(c)
    <2>1. Goto(c, "paying", "paid") /\ Order(c) \in monCashPaid'
      BY <1>3 DEF MonCashPays
    <2>2. CallKnows(c)'
      BY <2>1, Arrives DEF CallKnows, Order
    <2>. QED
      BY <1>1, <1>2, <2>1, <2>2, OneCallMoves
  <1>4. CASE MonCashUnavailable(c)
    <2>1. Goto(c, "paying", "declined")
      BY <1>4 DEF MonCashUnavailable
    <2>2. CallKnows(c)'
      BY <2>1, Arrives DEF CallKnows
    <2>. QED
      BY <1>1, <1>2, <2>1, <2>2, OneCallMoves
  <1>. QED
    BY <1>3, <1>4

\* Inserting an outcome that is true, or failing to insert one.
LEMMA SaveOutcomeTrue ==
  ASSUME PayoutTypeOK, OutcomeInv, NEW c \in Calls, NEW from, NEW to, NEW row,
         SaveOutcome(c, from, to, row),
         IF row.status = "completed" THEN Order(c) \in monCashPaid
                                     ELSE Returned(Order(c), row.reversal),
         row.status = "completed" => to = "recorded",
         row.status # "completed" => to = "recordedFailure" /\ row.status = "failed"
  PROVE  OutcomeInv'
  <1>1. Kept /\ operations' = operations /\ monCashPaid' = monCashPaid
    BY SaveKeeps DEF SaveOutcome, ledgerVars
  <1>2. ConfirmedArePaid'
    BY <1>1, ConfirmedKept DEF OutcomeInv
  <1>3. CASE Order(c) \in DOMAIN payouts
    <2>1. Goto(c, from, "error") /\ payouts' = payouts
      BY <1>3 DEF SaveOutcome
    <2>2. CallKnows(c)' /\ RowsTrue'
      BY <1>1, <2>1, Arrives, RowsKept DEF CallKnows, OutcomeInv
    <2>. QED
      BY <1>1, <1>2, <2>1, <2>2, OneCallMoves
  <1>4. CASE Order(c) \notin DOMAIN payouts
    <2>1. Goto(c, from, to) /\ payouts' = Insert(payouts, Order(c), row)
      BY <1>4 DEF SaveOutcome
    <2>2. /\ DOMAIN payouts' = DOMAIN payouts \cup {Order(c)}
          /\ payouts'[Order(c)] = row
          /\ \A order \in DOMAIN payouts: payouts'[order] = payouts[order]
      BY <1>4, <2>1 DEF Insert
    <2>3. CallKnows(c)'
      BY <2>1, <2>2, Arrives DEF CallKnows, Recorded, Order
    <2>4. RowsTrue'
      BY <1>1, <2>2 DEF RowsTrue, OutcomeInv, Returned
    <2>. QED
      BY <1>1, <1>2, <2>1, <2>3, <2>4, OneCallMoves
  <1>. QED
    BY <1>3, <1>4

LEMMA SaveTrue ==
  ASSUME PayoutTypeOK, OutcomeInv, NEW c \in Calls, SaveCompleted(c) \/ SaveFailed(c)
  PROVE  OutcomeInv'
  <1>1. CASE SaveCompleted(c)
    <2> DEFINE row == [status |-> "completed", reversal |-> NoOperation]
    <2>1. SaveOutcome(c, "confirmed", "recorded", row)
      BY <1>1 DEF SaveCompleted
    <2>2. stage[c] = "confirmed"
      BY <2>1 DEF SaveOutcome, Goto
    <2>3. Order(c) \in monCashPaid
      BY <2>2 DEF OutcomeInv, CallKnows
    <2>4. row.status = "completed"
      OBVIOUS
    <2> HIDE DEF row
    <2>. QED
      BY <2>1, <2>3, <2>4, SaveOutcomeTrue
  <1>2. CASE SaveFailed(c)
    <2> DEFINE row == [status |-> "failed", reversal |-> Reversal(c)]
    <2>1. SaveOutcome(c, "reversed", "recordedFailure", row)
      BY <1>2 DEF SaveFailed
    <2>2. stage[c] = "reversed"
      BY <2>1 DEF SaveOutcome, Goto
    <2>3. Returned(Order(c), Reversal(c))
      BY <2>2 DEF OutcomeInv, CallKnows
    <2>4. row.status = "failed" /\ row.reversal = Reversal(c)
      OBVIOUS
    <2> HIDE DEF row
    <2>. QED
      BY <2>1, <2>3, <2>4, SaveOutcomeTrue
  <1>. QED
    BY <1>1, <1>2

\* Steps that only move a call on: what they arrive at they already knew.
LEMMA MovesOn ==
  ASSUME PayoutTypeOK, OutcomeInv, NEW c \in Calls,
         UNCHANGED <<operations, payouts, monCashPaid>>,
         \/ StartPayout(c) \/ FindOutcome(c) \/ AuditCompleted(c)
         \/ AnswerCompleted(c) \/ AnswerFailed(c) \/ GateStep(c)
  PROVE  OutcomeInv'
  <1>1. Kept /\ RowsTrue' /\ ConfirmedArePaid'
    BY RowsKept, ConfirmedKept DEF Kept, OutcomeInv
  <1>2. CASE FindOutcome(c)
    <2> DEFINE to == IF Order(c) \in DOMAIN payouts THEN payouts[Order(c)].status ELSE "paying"
    <2>1. Goto(c, "replayed", to)
      BY <1>2 DEF FindOutcome
    <2>2. Order(c) \in DOMAIN payouts => payouts[Order(c)].status \in {"completed", "failed"}
      BY DEF PayoutTypeOK
    <2>3. CallKnows(c)'
      BY <2>1, <2>2, Arrives DEF CallKnows, Recorded, Order
    <2> HIDE DEF to
    <2>. QED
      BY <1>1, <2>1, <2>3, OneCallMoves
  <1>3. CASE AuditCompleted(c)
    <2>1. Goto(c, "recorded", "audited")
      BY <1>3 DEF AuditCompleted
    <2>2. CallKnows(c)'
      BY <2>1, Arrives DEF OutcomeInv, CallKnows, Recorded, Order
    <2>. QED
      BY <1>1, <2>1, <2>2, OneCallMoves
  <1>4. CASE AnswerCompleted(c)
    <2>1. Goto(c, "audited", "completed")
      BY <1>4 DEF AnswerCompleted
    <2>2. CallKnows(c)'
      BY <2>1, Arrives DEF OutcomeInv, CallKnows, Recorded, Order
    <2>. QED
      BY <1>1, <2>1, <2>2, OneCallMoves
  <1>5. CASE AnswerFailed(c)
    <2>1. Goto(c, "recordedFailure", "failed")
      BY <1>5 DEF AnswerFailed
    <2>2. CallKnows(c)'
      BY <2>1, Arrives DEF OutcomeInv, CallKnows, Recorded, Order
    <2>. QED
      BY <1>1, <2>1, <2>2, OneCallMoves
  <1>6. CASE StartPayout(c) \/ GateStep(c)
    <2>1. PICK from, to: Goto(c, from, to) /\ to \in GateStages
      BY <1>6 DEF StartPayout, Enter, GateStep, CheckBalance, EnforceLimits, ReadOtp, SaveOtp,
                  Gate, GateStages
    <2>2. CallKnows(c)'
      BY <2>1, Arrives DEF CallKnows, GateStages
    <2>. QED
      BY <1>1, <2>1, <2>2, OneCallMoves
  <1>. QED
    BY <1>2, <1>3, <1>4, <1>5, <1>6

LEMMA AbortOutcome ==
  ASSUME PayoutTypeOK, OutcomeInv, NEW c \in Calls, Abort(c), UNCHANGED payoutVars
  PROVE  OutcomeInv'
  <1>1. Kept /\ RowsTrue' /\ ConfirmedArePaid'
    BY RowsKept, ConfirmedKept DEF Abort, Kept, OutcomeInv, ledgerVars, payoutVars
  <1>2. Goto(c, stage[c], "aborted")
    BY DEF Abort, Goto
  <1>3. CallKnows(c)'
    BY <1>2, Arrives DEF CallKnows
  <1>. QED
    BY <1>1, <1>2, <1>3, OneCallMoves

\* Steps of no call: MonCash's late payments, codes, days, and none at all.
LEMMA NobodyMoves ==
  ASSUME OutcomeInv, Kept, UNCHANGED <<operations, payouts, stage>>
  PROVE  OutcomeInv'
  BY KnowledgeKept, RowsKept, ConfirmedKept DEF OutcomeInv

LEMMA NextOutcome == PayoutTypeOK /\ OutcomeInv /\ [PayoutNext]_vars => OutcomeInv'
  <1> SUFFICES ASSUME PayoutTypeOK, OutcomeInv, [PayoutNext]_vars PROVE OutcomeInv'
    OBVIOUS
  <1>1. ASSUME NEW c \in Calls, PayoutStep(c) \/ StartPayout(c) PROVE OutcomeInv'
    <2>1. CASE Reserve(c) \/ Confirm(c) \/ Reverse(c)
      BY <2>1, ReserveOutcome, ConfirmOutcome, ReverseOutcome
    <2>2. CASE SaveCompleted(c) \/ SaveFailed(c) \/ MonCashPays(c) \/ MonCashUnavailable(c)
      BY <2>2, SaveTrue, MonCashOutcome
    <2>3. CASE \/ StartPayout(c) \/ FindOutcome(c) \/ AuditCompleted(c)
               \/ AnswerCompleted(c) \/ AnswerFailed(c)
      <3>1. UNCHANGED <<operations, payouts, monCashPaid>>
        BY <2>3 DEF StartPayout, Enter, FindOutcome, AuditCompleted, AnswerCompleted, AnswerFailed,
                    ledgerVars, payoutVars
      <3>. QED
        BY <2>3, <3>1, MovesOn
    <2>. QED
      BY <1>1, <2>1, <2>2, <2>3 DEF PayoutStep
  <1>2. ASSUME NEW c \in Calls, GateStep(c) /\ UNCHANGED payoutVars PROVE OutcomeInv'
    <2>1. UNCHANGED <<operations, payouts, monCashPaid>>
      BY <1>2 DEF GateStep, CheckBalance, EnforceLimits, ReadOtp, SaveOtp, ledgerVars, payoutVars
    <2>. QED
      BY <1>2, <2>1, MovesOn
  <1>3. ASSUME NEW c \in Calls, Abort(c) /\ UNCHANGED payoutVars PROVE OutcomeInv'
    BY <1>3, AbortOutcome
  <1>4. CASE \/ \E order \in monCashUncertain: MonCashPaysUnanswered(order)
             \/ Surroundings /\ UNCHANGED payoutVars
             \/ UNCHANGED vars
    <2>1. UNCHANGED <<operations, payouts, stage>>
      BY <1>4 DEF MonCashPaysUnanswered, Surroundings, ExpireOtp, RequestOtp,
                  vars, ledgerVars, securityVars, payoutVars
    <2>. QED
      BY <2>1, StepKeeps, NobodyMoves
  <1>. QED
    BY <1>1, <1>2, <1>3, <1>4 DEF PayoutNext, PayoutCalls

LEMMA OutcomeInvariant == PayoutSpec => []OutcomeInv
  BY PayoutTypeCorrect, InitOutcome, NextOutcome, PTL DEF PayoutSpec

\* Whatever overlaps, repeats or dies: a completed row means MonCash paid, a
\* failed row means the money is back, by the reversal the row names.
THEOREM RecordsTellTheTruth == PayoutSpec => []RowsTellTheTruth
  <1>1. PayoutTypeOK /\ OutcomeInv => RowsTellTheTruth
    BY DEF PayoutTypeOK, OutcomeInv, RowsTrue, ConfirmedArePaid, Returned, RowsTellTheTruth
  <1>. QED
    BY <1>1, PayoutTypeCorrect, OutcomeInvariant, PTL

\* No call is told anything but the recorded outcome of its request.
THEOREM AnswersAreRecorded == PayoutSpec => []AnswersMatchRows
  <1>1. OutcomeInv => AnswersMatchRows
    BY DEF OutcomeInv, CallKnows, Recorded, AnswersMatchRows, PayoutCalls
  <1>. QED
    BY <1>1, OutcomeInvariant, PTL

-----------------------------------------------------------------------------
(* The wallet is debited once or made whole. The legs of a payout are those *)
(* of its reservation and, once that is reversed, their mirror image, each  *)
(* under the one key the request has for it.                                *)

Reservation(r) ==
  <<Debit(Dto[r].sender, Dto[r].amountMinor), Credit(MonCashFloat, Dto[r].amountMinor)>>
Refund(r) ==
  <<Credit(Dto[r].sender, Dto[r].amountMinor), Debit(MonCashFloat, Dto[r].amountMinor)>>

RowsOf(r) ==
  /\ Posted(ReserveKey(r)) =>
       /\ operations[ReserveKey(r)].type = "payout"
       /\ operations[ReserveKey(r)].entries = Reservation(r)
       /\ operations[ReserveKey(r)].status = "reversed" <=> Posted(ReversalKey(r))
  /\ Posted(ReversalKey(r)) =>
       /\ Posted(ReserveKey(r))
       /\ operations[ReversalKey(r)].type = "adjustment"
       /\ operations[ReversalKey(r)].entries = Refund(r)
PayoutRows == \A r \in Requests: RowsOf(r)

\* The form of a request.
LEMMA DtoForm ==
  ASSUME NEW r \in Requests
  PROVE  /\ Dto[r].sender \in Users /\ Dto[r].sender # MonCashFloat
         /\ Dto[r].recipient \in Users \cup {MonCashFloat}
         /\ Dto[r].amountMinor \in Nat \ {0}
  BY SecurityAssumption DEF RequestForm

\* A refund is the mirror image of the reservation.
LEMMA RefundMirrors ==
  ASSUME NEW r
  PROVE  Mirror(Reservation(r)) = Refund(r)
  BY DEF Mirror, Reservation, Refund, Debit, Credit, Opposite

\* What the steps of a payout do to the ledger. The rows posted before a step
\* are there after it, with their type, their legs and their day.
SameRows ==
  \A k \in DOMAIN operations:
    /\ k \in DOMAIN operations'
    /\ operations'[k].type = operations[k].type
    /\ operations'[k].entries = operations[k].entries
    /\ operations'[k].createdAt = operations[k].createdAt

\* One row more, and no row marked.
Posts(key, row) ==
  /\ SameRows /\ key \notin DOMAIN operations
  /\ DOMAIN operations' = DOMAIN operations \cup {key}
  /\ \A k \in DOMAIN operations: operations'[k].status = "reversed" <=> operations[k].status = "reversed"
  /\ operations'[key] = row

Reserves(c) ==
  Posts(Order(c), NewOperation("payout", "pending", Reservation(RequestOf[c]), NoOperation))

\* No row more, and none marked.
Confirms ==
  /\ SameRows /\ DOMAIN operations' = DOMAIN operations
  /\ \A k \in DOMAIN operations: operations'[k].status = "reversed" <=> operations[k].status = "reversed"

\* The reservation marked, and its mirror image posted.
Reverses(c) ==
  /\ SameRows /\ Order(c) \in DOMAIN operations /\ Reversal(c) \notin DOMAIN operations
  /\ DOMAIN operations' = DOMAIN operations \cup {Reversal(c)}
  /\ \A k \in DOMAIN operations:
       operations'[k].status = "reversed" <=> operations[k].status = "reversed" \/ k = Order(c)
  /\ operations'[Reversal(c)] =
       NewOperation("adjustment", "completed", Mirror(operations[Order(c)].entries), Order(c))

LEMMA ReserveDoes ==
  ASSUME NEW c \in Calls, Reserve(c)
  PROVE  operations' = operations \/ Reserves(c)
  <1> DEFINE legs == Reservation(RequestOf[c])
             row == NewOperation("payout", "pending", legs, NoOperation)
  <1>1. PostOperation(Order(c), "payout", "pending", legs)
    BY DEF Reserve, Reservation, Sender, AmountMinor, Request
  <1>2. Reserves(c) <=> Posts(Order(c), row)
    BY DEF Reserves
  <1>3. row = NewOperation("payout", "pending", legs, NoOperation)
    OBVIOUS
  <1>4. CASE Posted(Order(c))
    BY <1>1, <1>4 DEF PostOperation
  <1>5. CASE ~Posted(Order(c))
    <2> HIDE DEF legs, row
    <2>. QED
      BY <1>1, <1>2, <1>3, <1>5, PostShape DEF Posts, SameRows, Posted
  <1>. QED
    BY <1>4, <1>5

LEMMA ConfirmDoes ==
  ASSUME NEW Key, Table(Key), NEW c \in Calls, Confirm(c)
  PROVE  Confirms
  <1>1. ConfirmOperation(Order(c))
    BY DEF Confirm
  <1>2. /\ DOMAIN operations' = DOMAIN operations
        /\ \A k \in DOMAIN operations:
             /\ operations'[k].type = operations[k].type
             /\ operations'[k].entries = operations[k].entries
             /\ operations'[k].createdAt = operations[k].createdAt
             /\ operations'[k].status = IF k = Order(c) /\ operations[k].status = "pending"
                                        THEN "completed" ELSE operations[k].status
    BY <1>1, ConfirmShape
  <1>. QED
    BY <1>2 DEF Confirms, SameRows

LEMMA ReverseDoes ==
  ASSUME NEW Key, Table(Key), NEW c \in Calls, Reverse(c)
  PROVE  operations' = operations \/ Reverses(c)
  <1>1. CASE Posted(Reversal(c))
    BY <1>1 DEF Reverse
  <1>2. CASE ~Posted(Reversal(c))
    <2>1. ReverseOperation(Order(c), Reversal(c))
      BY <1>2 DEF Reverse
    <2>2. /\ Order(c) \in DOMAIN operations /\ Reversal(c) \notin DOMAIN operations
          /\ DOMAIN operations' = DOMAIN operations \cup {Reversal(c)}
          /\ \A k \in DOMAIN operations: k # Order(c) => operations'[k] = operations[k]
          /\ operations'[Order(c)].status = "reversed"
          /\ operations'[Order(c)].type = operations[Order(c)].type
          /\ operations'[Order(c)].entries = operations[Order(c)].entries
          /\ operations'[Order(c)].createdAt = operations[Order(c)].createdAt
          /\ operations'[Reversal(c)] =
               NewOperation("adjustment", "completed", Mirror(operations[Order(c)].entries), Order(c))
      BY <2>1, ReverseShape
    <2>3. SameRows
      BY <2>2 DEF SameRows
    <2>. QED
      BY <2>2, <2>3 DEF Reverses
  <1>. QED
    BY <1>1, <1>2

\* A row under a key that is no payout's changes no payout's rows.
LEMMA OthersPost ==
  ASSUME PayoutRows, NEW key, NEW row, Posts(key, row),
         \A r \in Requests: key # ReserveKey(r) /\ key # ReversalKey(r)
  PROVE  PayoutRows'
  BY DEF PayoutRows, RowsOf, Posts, SameRows, Posted, Reservation, Refund

LEMMA ReservesRows ==
  ASSUME PayoutRows, NEW c \in Calls, Reserves(c)
  PROVE  PayoutRows'
  <1> DEFINE row == NewOperation("payout", "pending", Reservation(RequestOf[c]), NoOperation)
  <1>1. Posts(Order(c), row)
    BY DEF Reserves
  <1>2. row.type = "payout" /\ row.status = "pending" /\ row.entries = Reservation(RequestOf[c])
    BY DEF NewOperation
  <1> HIDE DEF row
  <1>3. /\ RequestOf[c] \in Requests /\ Order(c) = ReserveKey(RequestOf[c])
        /\ ~Posted(ReversalKey(RequestOf[c]))
    BY <1>1, CallKeys DEF PayoutRows, RowsOf, Posts, Posted
  <1>4. ASSUME NEW r \in Requests PROVE RowsOf(r)'
    <2>1. ReversalKey(r) # Order(c) /\ (ReserveKey(r) = Order(c) => r = RequestOf[c])
      BY <1>3, KeysDiffer
    <2>2. Posted(ReversalKey(r))' <=> Posted(ReversalKey(r))
      BY <1>1, <2>1 DEF Posts, Posted
    <2>. QED
      BY <1>1, <1>2, <1>3, <2>1, <2>2 DEF PayoutRows, RowsOf, Posts, SameRows, Posted, Reservation, Refund
  <1>. QED
    BY <1>4 DEF PayoutRows

LEMMA ConfirmsRows ==
  ASSUME PayoutRows, Confirms
  PROVE  PayoutRows'
  BY DEF PayoutRows, RowsOf, Confirms, SameRows, Posted, Reservation, Refund

LEMMA ReversesRows ==
  ASSUME PayoutRows, NEW c \in Calls, Reverses(c)
  PROVE  PayoutRows' /\ operations'[Reversal(c)].entries = Refund(RequestOf[c])
  <1> DEFINE row == NewOperation("adjustment", "completed", Mirror(operations[Order(c)].entries), Order(c))
  <1>1. operations'[Reversal(c)] = row /\ Order(c) \in DOMAIN operations
    BY DEF Reverses
  <1>2. /\ RequestOf[c] \in Requests
        /\ Order(c) = ReserveKey(RequestOf[c]) /\ Reversal(c) = ReversalKey(RequestOf[c])
    BY CallKeys
  <1>3. Mirror(operations[Order(c)].entries) = Refund(RequestOf[c])
    BY <1>1, <1>2, RefundMirrors DEF PayoutRows, RowsOf, Posted
  <1>4. row.type = "adjustment" /\ row.entries = Refund(RequestOf[c])
    BY <1>3 DEF NewOperation
  <1> HIDE DEF row
  <1>5. ASSUME NEW r \in Requests PROVE RowsOf(r)'
    <2>1. /\ ReserveKey(r) # Reversal(c)
          /\ (ReversalKey(r) = Reversal(c) <=> r = RequestOf[c])
          /\ (ReserveKey(r) = Order(c) <=> r = RequestOf[c])
      BY <1>2, KeysDiffer
    <2>2. /\ Posted(ReserveKey(r))' <=> Posted(ReserveKey(r))
          /\ Posted(ReversalKey(r))' <=> Posted(ReversalKey(r)) \/ r = RequestOf[c]
      BY <2>1 DEF Reverses, Posted
    <2>. QED
      BY <1>1, <1>2, <1>4, <2>1, <2>2 DEF PayoutRows, RowsOf, Reverses, SameRows, Posted, Reservation, Refund
  <1>. QED
    BY <1>1, <1>4, <1>5 DEF PayoutRows

LEMMA InitRows == SecurityInit => PayoutRows
  <1> SUFFICES ASSUME SecurityInit PROVE PayoutRows
    OBVIOUS
  <1>1. DOMAIN operations \subseteq {TopupKey(u): u \in Users}
    BY DEF SecurityInit
  <1>2. \A r: ReserveKey(r) \notin DOMAIN operations /\ ReversalKey(r) \notin DOMAIN operations
    BY <1>1 DEF ReserveKey, ReversalKey, TopupKey
  <1>. QED
    BY <1>2 DEF PayoutRows, RowsOf, Posted

\* What a step of the protocol does to the ledger is one of the four.
LEMMA PayoutDoes ==
  ASSUME NEW Key, Table(Key), [PayoutNext]_vars
  PROVE  \/ operations' = operations
         \/ Confirms
         \/ \E c \in Calls: Reserves(c) \/ Reverses(c)
  <1>1. ASSUME NEW c \in Calls, PayoutStep(c) \/ StartPayout(c)
        PROVE  \/ operations' = operations \/ Confirms
               \/ Reserves(c) \/ Reverses(c)
    <2>1. CASE Reserve(c) \/ Confirm(c) \/ Reverse(c)
      BY <2>1, ReserveDoes, ConfirmDoes, ReverseDoes
    <2>2. CASE ~(Reserve(c) \/ Confirm(c) \/ Reverse(c))
      BY <1>1, <2>2 DEF PayoutStep, StartPayout, Enter, FindOutcome, MonCashPays, MonCashUnavailable,
        SaveCompleted, SaveFailed, SaveOutcome, AuditCompleted, AnswerCompleted, AnswerFailed, ledgerVars
    <2>. QED
      BY <2>1, <2>2
  <1>2. ASSUME NEW c \in Calls, GateStep(c) \/ Abort(c)
        PROVE  operations' = operations
    BY <1>2 DEF GateStep, CheckBalance, EnforceLimits, ReadOtp, SaveOtp, Abort, ledgerVars
  <1>3. CASE \/ \E order \in monCashUncertain: MonCashPaysUnanswered(order)
             \/ Surroundings \/ UNCHANGED vars
    BY <1>3 DEF MonCashPaysUnanswered, Surroundings, ExpireOtp, RequestOtp, vars, ledgerVars
  <1>. QED
    BY <1>1, <1>2, <1>3 DEF PayoutNext, PayoutCalls

LEMMA NextRows == PayoutTypeOK /\ PayoutRows /\ [PayoutNext]_vars => PayoutRows'
  <1> SUFFICES ASSUME PayoutTypeOK, PayoutRows, [PayoutNext]_vars PROVE PayoutRows'
    OBVIOUS
  <1>1. CASE operations' = operations
    BY <1>1 DEF PayoutRows, RowsOf, Posted, Reservation, Refund
  <1>. QED
    BY <1>1, TypeTable, PayoutDoes, ReservesRows, ConfirmsRows, ReversesRows

LEMMA RowsInvariant == PayoutSpec => []PayoutRows
  <1>1. PayoutInit => PayoutRows
    BY InitRows DEF PayoutInit
  <1>. QED
    BY <1>1, NextRows, PayoutTypeCorrect, PTL DEF PayoutSpec

\* What has moved on the sender's wallet, computed from the rows.
LEMMA MovedByRows ==
  ASSUME PayoutRows, NEW r \in Requests
  PROVE  Moved(r) = IF Posted(ReserveKey(r)) /\ operations[ReserveKey(r)].status # "reversed"
                    THEN -Dto[r].amountMinor ELSE 0
  <1> DEFINE n == Dto[r].amountMinor
             out == <<ReserveKey(r), 1>>
             back == <<ReversalKey(r), 1>>
             ids == {id \in EntryIds: /\ id[1] \in {ReserveKey(r), ReversalKey(r)}
                                      /\ Entry(id).account = Dto[r].sender}
             f == [id \in ids |-> Signed(Entry(id))]
  <1>1. n \in Int /\ Dto[r].sender # MonCashFloat /\ out # back /\ RowsOf(r)
    BY DtoForm, KeysDiffer DEF PayoutRows
  <1>2. ASSUME NEW id
        PROVE  id \in ids <=> \/ id = out /\ Posted(ReserveKey(r))
                              \/ id = back /\ Posted(ReversalKey(r))
    <2>1. id \in ids <=> \E k \in {ReserveKey(r), ReversalKey(r)}:
                           /\ Posted(k)
                           /\ \E i \in DOMAIN operations[k].entries:
                                id = <<k, i>> /\ operations[k].entries[i].account = Dto[r].sender
      BY DEF EntryIds, Entry, Posted
    <2>2. Posted(ReserveKey(r)) =>
            \A i: (i \in DOMAIN operations[ReserveKey(r)].entries
                     /\ operations[ReserveKey(r)].entries[i].account = Dto[r].sender) <=> i = 1
      BY <1>1 DEF RowsOf, Reservation, Debit, Credit
    <2>3. Posted(ReversalKey(r)) =>
            \A i: (i \in DOMAIN operations[ReversalKey(r)].entries
                     /\ operations[ReversalKey(r)].entries[i].account = Dto[r].sender) <=> i = 1
      BY <1>1 DEF RowsOf, Refund, Debit, Credit
    <2>. QED
      BY <2>1, <2>2, <2>3
  <1>3. /\ out \in ids => f[out] = -n
        /\ back \in ids => f[back] = n
    <2>1. out \in ids => Entry(out) = Debit(Dto[r].sender, n)
      BY <1>1, <1>2 DEF Entry, RowsOf, Reservation
    <2>2. back \in ids => Entry(back) = Credit(Dto[r].sender, n)
      BY <1>1, <1>2 DEF Entry, RowsOf, Refund
    <2>3. Signed(Debit(Dto[r].sender, n)) = -n /\ Signed(Credit(Dto[r].sender, n)) = n
      BY DEF Signed, Debit, Credit
    <2> HIDE DEF ids, n, out, back
    <2>. QED
      BY <2>1, <2>2, <2>3
  <1>4. Moved(r) = SumFunction(f) /\ DOMAIN f = ids
    BY DEF Moved
  <1> HIDE DEF f, ids, n, out, back
  <1>5. DOMAIN f \subseteq {out, back} /\ out # back /\ \A z \in DOMAIN f: f[z] \in Int
    BY <1>1, <1>2, <1>3, <1>4
  <1>6. SumFunction(f) = (IF out \in DOMAIN f THEN f[out] ELSE 0) + (IF back \in DOMAIN f THEN f[back] ELSE 0)
    BY ONLY <1>5, SumOfTwo
  <1>7. /\ out \in ids <=> Posted(ReserveKey(r))
        /\ back \in ids <=> Posted(ReversalKey(r))
    BY <1>1, <1>2
  <1>8. Posted(ReversalKey(r)) <=> Posted(ReserveKey(r)) /\ operations[ReserveKey(r)].status = "reversed"
    BY <1>1 DEF RowsOf
  <1>. QED
    BY <1>1, <1>3, <1>4, <1>6, <1>7, <1>8 DEF n

\* However calls of a request overlap, repeat and die, its sender is out by
\* the amount while the reservation stands and by nothing once it is reversed.
THEOREM PayoutDebitsOnce == PayoutSpec => []DebitedOnceOrMadeWhole
  <1>1. PayoutRows => DebitedOnceOrMadeWhole
    BY MovedByRows DEF DebitedOnceOrMadeWhole
  <1>. QED
    BY <1>1, RowsInvariant, PTL

-----------------------------------------------------------------------------
(* What a payout promises when every request is sent once and MonCash's    *)
(* refusals are definitive: paid or returned, never both, for any number   *)
(* of users, requests and calls, and wherever calls die. Each of the two   *)
(* conditions is needed: without either TLC finds the promise broken.      *)

OneCallPerRequest == \A c, d \in Calls: RequestOf[c] = RequestOf[d] => c = d

Orders == {ReserveKey(r): r \in Requests}

EarlyStages == {"new", "loaded", "funded", "otpDue", "otpRead", "gated"}

Held(order, status) == order \in DOMAIN operations /\ operations[order].status = status

\* Where a call is tells everything about its reservation: no other call of
\* the request has ever touched it.
CallHolds(c) ==
  /\ stage[c] \in EarlyStages =>
       Order(c) \notin DOMAIN operations \cup DOMAIN payouts \cup monCashPaid
  /\ stage[c] # "replayed"
  /\ stage[c] \in {"paying", "declined"} =>
       Held(Order(c), "pending") /\ Order(c) \notin DOMAIN payouts \cup monCashPaid
  /\ stage[c] = "paid" =>
       Held(Order(c), "pending") /\ Order(c) \notin DOMAIN payouts /\ Order(c) \in monCashPaid
  /\ stage[c] = "confirmed" => Held(Order(c), "completed") /\ Order(c) \notin DOMAIN payouts
  /\ stage[c] = "reversed" => Held(Order(c), "reversed") /\ Order(c) \notin DOMAIN payouts

\* What is recorded of a reservation agrees, whatever became of its call.
OrderAgrees(order) ==
  /\ order \in monCashPaid => order \in DOMAIN operations /\ operations[order].status # "reversed"
  /\ order \in DOMAIN payouts =>
       Held(order, IF payouts[order].status = "completed" THEN "completed" ELSE "reversed")

PromiseInv ==
  /\ \A c \in Calls: CallHolds(c)
  /\ \A order \in Orders: OrderAgrees(order)
  /\ monCashUncertain = {}

-----------------------------------------------------------------------------
(* A step of a call touches its own reservation, its reversal, its row and  *)
(* its payment, and nobody else's.                                          *)

OnlyTouches(c) ==
  \A order \in Orders: order # Order(c) =>
    /\ order \in DOMAIN operations' <=> order \in DOMAIN operations
    /\ order \in DOMAIN operations => operations'[order] = operations[order]
    /\ order \in DOMAIN payouts' <=> order \in DOMAIN payouts
    /\ order \in DOMAIN payouts => payouts'[order] = payouts[order]
    /\ order \in monCashPaid' <=> order \in monCashPaid

LEMMA OrdersDiffer ==
  ASSUME OneCallPerRequest, NEW c \in Calls, NEW d \in Calls, c # d
  PROVE  Order(c) \in Orders /\ Order(d) \in Orders /\ Order(d) # Order(c)
  BY CallKeys, KeysDiffer DEF OneCallPerRequest, Orders

LEMMA OthersHold ==
  ASSUME OneCallPerRequest, NEW c \in Calls, NEW d \in Calls, c # d,
         CallHolds(d), stage'[d] = stage[d], OnlyTouches(c)
  PROVE  CallHolds(d)'
  <1>1. Order(d) \in Orders /\ Order(d) # Order(c)
    BY OrdersDiffer
  <1>. QED
    BY <1>1 DEF CallHolds, OnlyTouches, Held, Order

LEMMA OthersAgree ==
  ASSUME NEW c \in Calls, NEW order \in Orders, order # Order(c), OrderAgrees(order), OnlyTouches(c)
  PROVE  OrderAgrees(order)'
  BY DEF OrderAgrees, OnlyTouches, Held

LEMMA CallMoves ==
  ASSUME OneCallPerRequest, PayoutTypeOK, PromiseInv, NEW c \in Calls, NEW from, NEW to,
         Goto(c, from, to), OnlyTouches(c),
         CallHolds(c)', OrderAgrees(Order(c))', monCashUncertain' = {}
  PROVE  PromiseInv'
  <1>1. \A d \in Calls: d # c => stage'[d] = stage[d]
    BY DEF Goto, PayoutTypeOK
  <1>2. \A d \in Calls: CallHolds(d)'
    BY <1>1, OthersHold DEF PromiseInv
  <1>3. ASSUME NEW order \in Orders PROVE OrderAgrees(order)'
    BY OthersAgree DEF PromiseInv, Order
  <1>. QED
    BY <1>2, <1>3 DEF PromiseInv, Orders

\* The reservation a call makes is the first under its key.
LEMMA ReserveFresh ==
  ASSUME PayoutTypeOK, PromiseInv, NEW c \in Calls, Reserve(c)
  PROVE  /\ Goto(c, "gated", "paying") /\ UNCHANGED payoutVars
         /\ Order(c) \notin DOMAIN operations \cup DOMAIN payouts \cup monCashPaid
         /\ DOMAIN operations' = DOMAIN operations \cup {Order(c)}
         /\ operations'[Order(c)].status = "pending"
         /\ OnlyTouches(c)
  <1> DEFINE legs == <<Debit(Sender(c), AmountMinor(c)), Credit(MonCashFloat, AmountMinor(c))>>
  <1>1. /\ stage[c] = "gated" /\ UNCHANGED payoutVars
        /\ PostOperation(Order(c), "payout", "pending", legs)
    BY DEF Reserve, Goto
  <1>2. Order(c) \notin DOMAIN operations \cup DOMAIN payouts \cup monCashPaid
    BY <1>1 DEF PromiseInv, CallHolds, EarlyStages
  <1>3. Goto(c, "gated", "paying")
    BY <1>2 DEF Reserve, Posted
  <1>4. /\ DOMAIN operations' = DOMAIN operations \cup {Order(c)}
        /\ \A k \in DOMAIN operations: operations'[k] = operations[k]
        /\ operations'[Order(c)] = NewOperation("payout", "pending", legs, NoOperation)
    <2> HIDE DEF legs
    <2>. QED
      BY <1>1, <1>2, PostShape
  <1>5. operations'[Order(c)].status = "pending"
    BY <1>4 DEF NewOperation
  <1>6. OnlyTouches(c)
    BY <1>1, <1>2, <1>4 DEF OnlyTouches, payoutVars
  <1>. QED
    BY <1>1, <1>2, <1>3, <1>4, <1>5, <1>6

LEMMA ReserveHolds ==
  ASSUME OneCallPerRequest, PayoutTypeOK, PromiseInv, NEW c \in Calls, Reserve(c)
  PROVE  PromiseInv'
  <1>1. /\ stage'[c] = "paying" /\ Held(Order(c), "pending")'
        /\ Order(c) \notin DOMAIN payouts' \cup monCashPaid'
    BY ReserveFresh, Arrives DEF Held, payoutVars, Order
  <1>2. CallHolds(c)'
    BY <1>1 DEF CallHolds, EarlyStages, Order
  <1>3. OrderAgrees(Order(c))'
    BY <1>1 DEF OrderAgrees, Held, Order
  <1>4. monCashUncertain' = {}
    BY ReserveFresh DEF PromiseInv, payoutVars
  <1>. QED
    BY <1>2, <1>3, <1>4, ReserveFresh, CallMoves

\* A confirmation completes a pending, paid reservation.
LEMMA ConfirmPending ==
  ASSUME PayoutTypeOK, PromiseInv, NEW c \in Calls, Confirm(c)
  PROVE  /\ Goto(c, "paid", "confirmed") /\ UNCHANGED payoutVars
         /\ Held(Order(c), "pending") /\ Order(c) \notin DOMAIN payouts /\ Order(c) \in monCashPaid
         /\ Held(Order(c), "completed")'
         /\ OnlyTouches(c)
  <1>1. Goto(c, "paid", "confirmed") /\ UNCHANGED payoutVars /\ ConfirmOperation(Order(c))
    BY DEF Confirm
  <1>2. Held(Order(c), "pending") /\ Order(c) \notin DOMAIN payouts /\ Order(c) \in monCashPaid
    BY <1>1, Arrives DEF PromiseInv, CallHolds
  <1>3. operations' = [operations EXCEPT ![Order(c)].status = "completed"]
    BY <1>1, <1>2 DEF ConfirmOperation, Posted, Held
  <1>4. /\ DOMAIN operations' = DOMAIN operations
        /\ operations'[Order(c)].status = "completed"
    BY <1>1, <1>2, TypeTable, ConfirmShape DEF Held
  <1>5. OnlyTouches(c)
    BY <1>1, <1>3 DEF OnlyTouches, payoutVars
  <1>. QED
    BY <1>1, <1>2, <1>4, <1>5 DEF Held, Order

LEMMA ConfirmHolds ==
  ASSUME OneCallPerRequest, PayoutTypeOK, PromiseInv, NEW c \in Calls, Confirm(c)
  PROVE  PromiseInv'
  <1>1. CallHolds(c)' /\ OrderAgrees(Order(c))'
    BY ConfirmPending, Arrives DEF CallHolds, OrderAgrees, Held, EarlyStages, payoutVars, Order
  <1>2. monCashUncertain' = {}
    BY ConfirmPending DEF PromiseInv, payoutVars
  <1>. QED
    BY <1>1, <1>2, ConfirmPending, CallMoves

\* A reversal returns a pending, unpaid reservation.
LEMMA ReversePending ==
  ASSUME PayoutTypeOK, PromiseInv, NEW c \in Calls, Reverse(c)
  PROVE  /\ UNCHANGED payoutVars
         /\ Held(Order(c), "pending") /\ Order(c) \notin DOMAIN payouts \cup monCashPaid
         /\ \/ Goto(c, "declined", "error") /\ operations' = operations
            \/ Goto(c, "declined", "reversed") /\ Held(Order(c), "reversed")'
         /\ OnlyTouches(c)
  <1>1. UNCHANGED payoutVars /\ stage[c] = "declined"
    BY DEF Reverse, Goto
  <1>2. Held(Order(c), "pending") /\ Order(c) \notin DOMAIN payouts \cup monCashPaid
    BY <1>1 DEF PromiseInv, CallHolds
  <1>3. CASE Posted(Reversal(c))
    <2>1. Goto(c, "declined", "error") /\ operations' = operations
      BY <1>3 DEF Reverse
    <2>2. OnlyTouches(c)
      BY <1>1, <2>1 DEF OnlyTouches, payoutVars
    <2>. QED
      BY <1>1, <1>2, <2>1, <2>2
  <1>4. CASE ~Posted(Reversal(c))
    <2>1. Goto(c, "declined", "reversed") /\ ReverseOperation(Order(c), Reversal(c))
      BY <1>4 DEF Reverse
    <2>2. /\ DOMAIN operations' = DOMAIN operations \cup {Reversal(c)}
          /\ \A k \in DOMAIN operations: k # Order(c) => operations'[k] = operations[k]
          /\ operations'[Order(c)].status = "reversed"
          /\ Order(c) \in DOMAIN operations
      BY <2>1, TypeTable, ReverseShape
    <2>3. \A order \in Orders: order # Reversal(c)
      BY CallKeys, KeysDiffer DEF Orders
    <2>4. OnlyTouches(c)
      BY <1>1, <2>2, <2>3 DEF OnlyTouches, payoutVars
    <2>. QED
      BY <1>1, <1>2, <2>1, <2>2, <2>4 DEF Held, Order
  <1>. QED
    BY <1>3, <1>4

LEMMA ReverseHolds ==
  ASSUME OneCallPerRequest, PayoutTypeOK, PromiseInv, NEW c \in Calls, Reverse(c)
  PROVE  PromiseInv'
  <1>1. monCashUncertain' = {}
    BY ReversePending DEF PromiseInv, payoutVars
  <1>2. OrderAgrees(Order(c))'
    BY ReversePending DEF OrderAgrees, payoutVars, Order
  <1>3. CASE Goto(c, "declined", "error")
    <2>1. CallHolds(c)'
      BY <1>3, Arrives DEF CallHolds, EarlyStages
    <2>. QED
      BY <1>1, <1>2, <1>3, <2>1, ReversePending, CallMoves
  <1>4. CASE Goto(c, "declined", "reversed") /\ Held(Order(c), "reversed")'
    <2>1. CallHolds(c)'
      BY <1>4, Arrives, ReversePending DEF CallHolds, EarlyStages, payoutVars, Order, Held
    <2>. QED
      BY <1>1, <1>2, <1>4, <2>1, ReversePending, CallMoves
  <1>. QED
    BY <1>3, <1>4, ReversePending

LEMMA MonCashHolds ==
  ASSUME OneCallPerRequest, UncertainAnswers = FALSE, PayoutTypeOK, PromiseInv,
         NEW c \in Calls, MonCashPays(c) \/ MonCashUnavailable(c)
  PROVE  PromiseInv' /\ OnlyTouches(c)
  <1>1. /\ UNCHANGED <<operations, payouts>> /\ stage[c] = "paying"
        /\ monCashUncertain' = {}
    BY DEF MonCashPays, MonCashUnavailable, Goto, PromiseInv, ledgerVars
  <1>2. Held(Order(c), "pending") /\ Order(c) \notin DOMAIN payouts \cup monCashPaid
    BY <1>1 DEF PromiseInv, CallHolds
  <1>3. CASE MonCashPays(c)
    <2>1. Goto(c, "paying", "paid") /\ monCashPaid' = monCashPaid \cup {Order(c)}
      BY <1>3 DEF MonCashPays
    <2>2. OnlyTouches(c)
      BY <1>1, <2>1 DEF OnlyTouches
    <2>3. CallHolds(c)' /\ OrderAgrees(Order(c))'
      BY <1>1, <1>2, <2>1, Arrives DEF CallHolds, OrderAgrees, Held, EarlyStages, Order
    <2>. QED
      BY <1>1, <2>1, <2>2, <2>3, CallMoves
  <1>4. CASE MonCashUnavailable(c)
    <2>1. Goto(c, "paying", "declined") /\ monCashPaid' = monCashPaid
      BY <1>4 DEF MonCashUnavailable
    <2>2. OnlyTouches(c)
      BY <1>1, <2>1 DEF OnlyTouches
    <2>3. CallHolds(c)' /\ OrderAgrees(Order(c))'
      BY <1>1, <1>2, <2>1, Arrives DEF CallHolds, OrderAgrees, Held, EarlyStages, Order
    <2>. QED
      BY <1>1, <2>1, <2>2, <2>3, CallMoves
  <1>. QED
    BY <1>3, <1>4

\* The row a call inserts agrees with the reservation as the call left it.
LEMMA SaveHolds ==
  ASSUME OneCallPerRequest, PayoutTypeOK, PromiseInv, NEW c \in Calls,
         SaveCompleted(c) \/ SaveFailed(c)
  PROVE  PromiseInv'
  <1>1. ASSUME NEW from \in {"confirmed", "reversed"}, NEW to \in {"recorded", "recordedFailure"},
               NEW row, SaveOutcome(c, from, to, row),
               Held(Order(c), IF row.status = "completed" THEN "completed" ELSE "reversed")
        PROVE  PromiseInv'
    <2>1. stage[c] = from
      BY <1>1 DEF SaveOutcome, Goto
    <2>2. Order(c) \notin DOMAIN payouts
      BY <2>1 DEF PromiseInv, CallHolds
    <2>3. /\ Goto(c, from, to) /\ payouts' = Insert(payouts, Order(c), row)
          /\ UNCHANGED <<operations, monCashPaid, monCashUncertain>>
      BY <1>1, <2>2 DEF SaveOutcome, ledgerVars
    <2>4. /\ DOMAIN payouts' = DOMAIN payouts \cup {Order(c)}
          /\ payouts'[Order(c)] = row
          /\ \A order \in DOMAIN payouts: payouts'[order] = payouts[order]
      BY <2>2, <2>3 DEF Insert
    <2>5. OnlyTouches(c)
      BY <2>3, <2>4 DEF OnlyTouches
    <2>6. CallHolds(c)'
      BY <2>3, Arrives DEF CallHolds, EarlyStages
    <2>7. OrderAgrees(Order(c))
      BY CallKeys DEF PromiseInv, Orders
    <2>8. OrderAgrees(Order(c))'
      BY <1>1, <2>3, <2>4, <2>7 DEF OrderAgrees, Held, Order
    <2>9. monCashUncertain' = {}
      BY <2>3 DEF PromiseInv
    <2>. QED
      BY <2>3, <2>5, <2>6, <2>8, <2>9, CallMoves
  <1>2. CASE SaveCompleted(c)
    <2> DEFINE row == [status |-> "completed", reversal |-> NoOperation]
    <2>1. SaveOutcome(c, "confirmed", "recorded", row) /\ row.status = "completed"
      BY <1>2 DEF SaveCompleted
    <2> HIDE DEF row
    <2>2. Held(Order(c), "completed")
      BY <2>1 DEF SaveOutcome, Goto, PromiseInv, CallHolds
    <2>. QED
      BY <1>1, <2>1, <2>2
  <1>3. CASE SaveFailed(c)
    <2> DEFINE row == [status |-> "failed", reversal |-> Reversal(c)]
    <2>1. SaveOutcome(c, "reversed", "recordedFailure", row) /\ row.status = "failed"
      BY <1>3 DEF SaveFailed
    <2> HIDE DEF row
    <2>2. Held(Order(c), "reversed")
      BY <2>1 DEF SaveOutcome, Goto, PromiseInv, CallHolds
    <2>. QED
      BY <1>1, <2>1, <2>2
  <1>. QED
    BY <1>2, <1>3

\* Steps that write no ledger row, no payout row and no payment.
Quiet == UNCHANGED <<operations, payouts, monCashPaid, monCashUncertain>>

LEMMA QuietHolds ==
  ASSUME OneCallPerRequest, PayoutTypeOK, PromiseInv, Quiet, NEW c \in Calls,
         \/ StartPayout(c) \/ FindOutcome(c) \/ AuditCompleted(c)
         \/ AnswerCompleted(c) \/ AnswerFailed(c) \/ GateStep(c) \/ Abort(c)
  PROVE  PromiseInv'
  <1>1. OnlyTouches(c) /\ monCashUncertain' = {}
    BY DEF Quiet, OnlyTouches, PromiseInv
  <1>2. OrderAgrees(Order(c))'
    <2>1. OrderAgrees(Order(c))
      BY CallKeys DEF PromiseInv, Orders
    <2>. QED
      BY <2>1 DEF Quiet, OrderAgrees, Held, Order
  <1>3. stage[c] # "replayed"
    BY DEF PromiseInv, CallHolds
  <1>4. CASE StartPayout(c) \/ GateStep(c)
    <2>1. PICK from \in EarlyStages, to \in EarlyStages \cup {"refused"}: Goto(c, from, to)
      BY <1>4 DEF StartPayout, Enter, GateStep, CheckBalance, EnforceLimits, ReadOtp, SaveOtp,
                  Gate, EarlyStages
    <2>2. Order(c) \notin DOMAIN operations \cup DOMAIN payouts \cup monCashPaid
      BY <2>1 DEF Goto, PromiseInv, CallHolds
    <2>3. CallHolds(c)'
      BY <2>1, <2>2, Arrives DEF Quiet, CallHolds, EarlyStages, Order
    <2>. QED
      BY <1>1, <1>2, <2>1, <2>3, CallMoves
  <1>5. CASE AuditCompleted(c) \/ AnswerCompleted(c) \/ AnswerFailed(c) \/ Abort(c)
    <2>1. PICK to \in {"audited", "completed", "failed", "aborted"}: Goto(c, stage[c], to)
      BY <1>5 DEF AuditCompleted, AnswerCompleted, AnswerFailed, Abort, Goto
    <2>2. CallHolds(c)'
      BY <2>1, Arrives DEF CallHolds, EarlyStages
    <2>. QED
      BY <1>1, <1>2, <2>1, <2>2, CallMoves
  <1>. QED
    BY <1>3, <1>4, <1>5 DEF FindOutcome, Goto

LEMMA NobodyHolds ==
  ASSUME PromiseInv, Quiet, UNCHANGED stage
  PROVE  PromiseInv'
  BY DEF Quiet, PromiseInv, CallHolds, OrderAgrees, Held, Order, Orders

LEMMA PromiseInit == PayoutInit => PromiseInv
  <1> SUFFICES ASSUME PayoutInit PROVE PromiseInv
    OBVIOUS
  <1>1. /\ \A c \in Calls: stage[c] = "new"
        /\ payouts = <<>> /\ monCashPaid = {} /\ monCashUncertain = {}
        /\ DOMAIN operations \subseteq {TopupKey(u): u \in Users}
    BY DEF PayoutInit, SecurityInit
  <1>2. \A c \in Calls: Order(c) \notin DOMAIN operations
    BY <1>1, KeysDiffer DEF Order
  <1>. QED
    BY <1>1, <1>2 DEF PromiseInv, CallHolds, OrderAgrees, EarlyStages

-----------------------------------------------------------------------------
(* The invariant, step by step. Each step either is quiet or is one of the  *)
(* five that write.                                                         *)

LEMMA QuietSteps ==
  ASSUME NEW c \in Calls,
         \/ StartPayout(c) \/ FindOutcome(c) \/ AuditCompleted(c)
         \/ AnswerCompleted(c) \/ AnswerFailed(c)
         \/ (GateStep(c) \/ Abort(c)) /\ UNCHANGED payoutVars
  PROVE  Quiet
  BY DEF StartPayout, Enter, FindOutcome, AuditCompleted, AnswerCompleted, AnswerFailed, GateStep,
         CheckBalance, EnforceLimits, ReadOtp, SaveOtp, Abort, Quiet, ledgerVars, payoutVars

LEMMA NextHolds ==
  ASSUME OneCallPerRequest, UncertainAnswers = FALSE
  PROVE  PayoutTypeOK /\ PromiseInv /\ [PayoutNext]_vars => PromiseInv'
  <1> SUFFICES ASSUME PayoutTypeOK, PromiseInv, [PayoutNext]_vars PROVE PromiseInv'
    OBVIOUS
  <1>1. ASSUME NEW c \in Calls, PayoutStep(c) \/ StartPayout(c) PROVE PromiseInv'
    <2>1. CASE Reserve(c) \/ Confirm(c) \/ Reverse(c)
      BY <2>1, ReserveHolds, ConfirmHolds, ReverseHolds
    <2>2. CASE SaveCompleted(c) \/ SaveFailed(c)
      BY <2>2, SaveHolds
    <2>3. CASE MonCashPays(c) \/ MonCashUnavailable(c)
      BY <2>3, MonCashHolds
    <2>4. CASE \/ StartPayout(c) \/ FindOutcome(c) \/ AuditCompleted(c)
               \/ AnswerCompleted(c) \/ AnswerFailed(c)
      BY <2>4, QuietSteps, QuietHolds
    <2>. QED
      BY <1>1, <2>1, <2>2, <2>3, <2>4 DEF PayoutStep
  <1>2. ASSUME NEW c \in Calls, (GateStep(c) \/ Abort(c)) /\ UNCHANGED payoutVars
        PROVE  PromiseInv'
    BY <1>2, QuietSteps, QuietHolds
  <1>3. ASSUME NEW order \in monCashUncertain, MonCashPaysUnanswered(order) PROVE PromiseInv'
    BY <1>3 DEF PromiseInv
  <1>4. CASE (Surroundings /\ UNCHANGED payoutVars) \/ UNCHANGED vars
    <2>1. Quiet /\ UNCHANGED stage
      BY <1>4 DEF Surroundings, ExpireOtp, RequestOtp, Quiet, vars, ledgerVars, securityVars, payoutVars
    <2>. QED
      BY <2>1, NobodyHolds
  <1>. QED
    BY <1>1, <1>2, <1>3, <1>4 DEF PayoutNext, PayoutCalls

LEMMA PromiseInvariant ==
  ASSUME OneCallPerRequest, UncertainAnswers = FALSE
  PROVE  PayoutSpec => []PromiseInv
  BY PayoutTypeCorrect, PromiseInit, NextHolds, PTL DEF PayoutSpec

\* Money MonCash has paid out stays debited.
THEOREM NoPayoutIsFree ==
  ASSUME OneCallPerRequest, UncertainAnswers = FALSE
  PROVE  PayoutSpec => []NoFreePayout
  <1>1. PayoutTypeOK /\ PromiseInv => NoFreePayout
    BY DEF PayoutTypeOK, PromiseInv, Orders, OrderAgrees, NoFreePayout, Posted
  <1>. QED
    BY <1>1, PayoutTypeCorrect, PromiseInvariant, PTL

\* The row and the reservation record the same outcome.
THEOREM RowsAgreeWithLedger ==
  ASSUME OneCallPerRequest, UncertainAnswers = FALSE
  PROVE  PayoutSpec => []RowAgreesWithLedger
  <1>1. PayoutTypeOK /\ PromiseInv => RowAgreesWithLedger
    BY DEF PayoutTypeOK, PromiseInv, Orders, OrderAgrees, Held, RowAgreesWithLedger
  <1>. QED
    BY <1>1, PayoutTypeCorrect, PromiseInvariant, PTL

-----------------------------------------------------------------------------
(* The protocol implements the promise: every step is one of its steps, or  *)
(* none.                                                                    *)

phases == [r \in Requests |-> Phase(r)]
paidRequests == {r \in Requests: ReserveKey(r) \in monCashPaid}

LEMMA PhaseOf ==
  ASSUME NEW r
  PROVE  /\ ReserveKey(r) \notin DOMAIN operations => Phase(r) = "none"
         /\ Held(ReserveKey(r), "pending") => Phase(r) = "held"
         /\ Held(ReserveKey(r), "completed") => Phase(r) = "spent"
         /\ Held(ReserveKey(r), "reversed") => Phase(r) = "returned"
  BY DEF Phase, Held, Posted

\* A step that touches one reservation moves one request from phase to phase.
LEMMA OnePhaseMoves ==
  ASSUME NEW c \in Calls, OnlyTouches(c), NEW from, NEW to,
         Phase(RequestOf[c]) = from, Phase(RequestOf[c])' = to
  PROVE  Promise!To(RequestOf[c], from, to)
  <1>1. RequestOf[c] \in Requests /\ Order(c) = ReserveKey(RequestOf[c])
    BY CallKeys
  <1>2. ASSUME NEW r \in Requests, r # RequestOf[c] PROVE Phase(r)' = Phase(r)
    <2>1. ReserveKey(r) \in Orders /\ ReserveKey(r) # Order(c)
      BY <1>1, <1>2, KeysDiffer DEF Orders
    <2>. QED
      BY <2>1 DEF OnlyTouches, Phase, Posted
  <1> DEFINE r0 == RequestOf[c]
  <1>3. phases' = [phases EXCEPT ![r0] = to] /\ phases[r0] = from
    BY <1>1, <1>2 DEF phases
  <1>. QED
    BY <1>3 DEF Promise!To, phases

LEMMA PaymentsKept ==
  ASSUME monCashPaid' = monCashPaid
  PROVE  paidRequests' = paidRequests
  BY DEF paidRequests

LEMMA QuietStutters ==
  ASSUME operations' = operations, monCashPaid' = monCashPaid
  PROVE  UNCHANGED <<phases, paidRequests>>
  BY DEF phases, paidRequests, Phase, Posted

LEMMA StepImplements ==
  ASSUME OneCallPerRequest, UncertainAnswers = FALSE
  PROVE  PayoutTypeOK /\ PromiseInv /\ [PayoutNext]_vars => [Promise!Next]_<<phases, paidRequests>>
  <1> SUFFICES ASSUME PayoutTypeOK, PromiseInv, [PayoutNext]_vars
               PROVE  Promise!Next \/ UNCHANGED <<phases, paidRequests>>
    OBVIOUS
  <1>1. ASSUME NEW c \in Calls, PayoutStep(c) \/ StartPayout(c)
        PROVE  Promise!Next \/ UNCHANGED <<phases, paidRequests>>
    <2> DEFINE r == RequestOf[c]
    <2>1. r \in Requests /\ Order(c) = ReserveKey(r)
      BY CallKeys
    <2>2. CASE Reserve(c)
      <3>1. Phase(r) = "none" /\ Phase(r)' = "held"
        BY <2>1, <2>2, ReserveFresh, PhaseOf DEF Phase, Posted
      <3>2. Promise!To(r, "none", "held") /\ paidRequests' = paidRequests
        BY <2>2, <3>1, ReserveFresh, OnePhaseMoves, PaymentsKept DEF payoutVars
      <3>. QED
        BY <2>1, <3>2 DEF Promise!Next, Promise!Hold, paidRequests
    <2>3. CASE Confirm(c)
      <3>1. Phase(r) = "held" /\ Phase(r)' = "spent"
        BY <2>1, <2>3, ConfirmPending, PhaseOf DEF Phase, Posted, Held
      <3>2. Promise!To(r, "held", "spent") /\ paidRequests' = paidRequests /\ r \in paidRequests
        BY <2>1, <2>3, <3>1, ConfirmPending, OnePhaseMoves, PaymentsKept DEF payoutVars, paidRequests
      <3>. QED
        BY <2>1, <3>2 DEF Promise!Next, Promise!Spend, paidRequests
    <2>4. CASE Reverse(c)
      <3>1. CASE operations' = operations
        BY <2>4, <3>1, ReversePending, QuietStutters DEF payoutVars
      <3>2. CASE Held(Order(c), "reversed")'
        <4>1. Phase(r) = "held" /\ Phase(r)' = "returned"
          BY <2>1, <2>4, <3>2, ReversePending, PhaseOf DEF Phase, Posted, Held
        <4>2. Promise!To(r, "held", "returned") /\ paidRequests' = paidRequests /\ r \notin paidRequests
          BY <2>1, <2>4, <4>1, ReversePending, OnePhaseMoves, PaymentsKept DEF payoutVars, paidRequests
        <4>. QED
          BY <2>1, <4>2 DEF Promise!Next, Promise!Return, paidRequests
      <3>. QED
        BY <2>4, <3>1, <3>2, ReversePending
    <2>5. CASE MonCashPays(c)
      <3>1. Held(Order(c), "pending") /\ operations' = operations
        BY <2>5 DEF MonCashPays, Goto, PromiseInv, CallHolds, ledgerVars
      <3>2. monCashPaid' = monCashPaid \cup {ReserveKey(r)}
        BY <2>1, <2>5 DEF MonCashPays
      <3>3. paidRequests' = paidRequests \cup {r}
        BY <2>1, <3>2, KeysDiffer DEF paidRequests
      <3>4. phases' = phases /\ phases[r] = "held"
        BY <2>1, <3>1, PhaseOf DEF phases, Phase, Posted
      <3>. QED
        BY <2>1, <3>3, <3>4 DEF Promise!Next, Promise!Pay, phases, paidRequests
    <2>6. CASE SaveCompleted(c) \/ SaveFailed(c) \/ MonCashUnavailable(c)
      BY <2>6, QuietStutters DEF SaveCompleted, SaveFailed, SaveOutcome, MonCashUnavailable, ledgerVars
    <2>7. CASE \/ StartPayout(c) \/ FindOutcome(c) \/ AuditCompleted(c)
               \/ AnswerCompleted(c) \/ AnswerFailed(c)
      BY <2>7, QuietSteps, QuietStutters DEF Quiet
    <2>. QED
      BY <1>1, <2>2, <2>3, <2>4, <2>5, <2>6, <2>7 DEF PayoutStep
  <1>2. ASSUME NEW c \in Calls, (GateStep(c) \/ Abort(c)) /\ UNCHANGED payoutVars
        PROVE  UNCHANGED <<phases, paidRequests>>
    BY <1>2, QuietSteps, QuietStutters DEF Quiet
  <1>3. monCashUncertain = {}
    BY DEF PromiseInv
  <1>4. CASE (Surroundings /\ UNCHANGED payoutVars) \/ UNCHANGED vars
    BY <1>4, QuietStutters
    DEF Surroundings, ExpireOtp, RequestOtp, vars, ledgerVars, securityVars, payoutVars
  <1>. QED
    BY <1>1, <1>2, <1>3, <1>4 DEF PayoutNext, PayoutCalls

LEMMA InitImplements == PayoutInit => Promise!Init
  <1> SUFFICES ASSUME PayoutInit PROVE Promise!Init
    OBVIOUS
  <1>1. DOMAIN operations \subseteq {TopupKey(u): u \in Users} /\ monCashPaid = {}
    BY DEF PayoutInit, SecurityInit
  <1>2. \A r \in Requests: Phase(r) = "none"
    BY <1>1, KeysDiffer, PhaseOf
  <1>. QED
    BY <1>1, <1>2 DEF Promise!Init

\* Reserving holds, MonCash's payment pays, confirming spends and reversing
\* returns; nothing else of the protocol can be told from the outside.
THEOREM PayoutKeepsItsPromise ==
  ASSUME OneCallPerRequest, UncertainAnswers = FALSE
  PROVE  PayoutSpec => ImplementsPromise
  <1>1. PayoutTypeOK /\ PromiseInv /\ [PayoutNext]_vars =>
          [Promise!Next]_<<[r \in Requests |-> Phase(r)], {r \in Requests: ReserveKey(r) \in monCashPaid}>>
    BY StepImplements DEF phases, paidRequests
  <1>. QED
    BY <1>1, InitImplements, PayoutTypeCorrect, PromiseInvariant, PTL
    DEF PayoutSpec, ImplementsPromise, Promise!Spec

-----------------------------------------------------------------------------
(* Transfers and payouts together: the inductive invariant. *)

TransferKeys == {TransferKey(r): r \in Requests}
MoneyKeys == PayoutKeys \cup TransferKeys

\* Stages before money moves, and after.
Before == {"new", "loaded", "funded", "otpDue", "otpRead", "gated"}
After == PayoutStages \cup {"posted", "reposted", "transferred", "sent", "refused", "aborted"}

OtpForm == [userId: Users, purpose: Purposes, attempts: Nat, consumed: BOOLEAN, expired: BOOLEAN]

MoneyType ==
  /\ Table(MoneyKeys) /\ today \in 0..LastDay
  /\ stage \in [Calls -> Before \cup After]
  /\ seenAttempts \in [Calls -> Nat]
  /\ otpCodes \in [DOMAIN otpCodes -> OtpForm]
  /\ \A order \in DOMAIN payouts: payouts[order].status \in {"completed", "failed"}

\* A posted transfer has the legs its request asks for, and only a transfer
\* is of that type.
TransferOf(r) ==
  <<Debit(Dto[r].sender, Dto[r].amountMinor), Credit(Dto[r].recipient, Dto[r].amountMinor)>>
TransferRows ==
  /\ \A r \in Requests: Posted(TransferKey(r)) =>
       operations[TransferKey(r)].type = "transfer" /\ operations[TransferKey(r)].entries = TransferOf(r)
  /\ \A k \in DOMAIN operations: operations[k].type = "transfer" => k \in TransferKeys

\* Legs are in HTG and not negative, and no row is of a day to come.
PlainRows ==
  \A k \in DOMAIN operations:
    /\ operations[k].createdAt <= today
    /\ \A i \in DOMAIN operations[k].entries:
         operations[k].entries[i].amountMinor >= 0 /\ operations[k].entries[i].currency = "HTG"

\* An answered transfer is posted.
SentArePosted ==
  \A c \in TransferCalls:
    stage[c] \in {"posted", "reposted", "transferred", "sent"} => Posted(TransferKey(RequestOf[c]))

RowsInv == /\ MoneyType /\ IsFiniteSet(DOMAIN operations)
           /\ PayoutRows /\ TransferRows /\ PlainRows /\ SentArePosted

\* With MaxInFlight = 1: no two calls of a sender are running.
OneAtATime ==
  \A c, d \in Calls:
    Sender(c) = Sender(d) /\ stage[c] \notin AtRest /\ stage[d] \notin AtRest => c = d

\* What a call has checked still holds: nobody else spends from its wallet.
Covered ==
  \A c \in Calls:
    stage[c] \in {"funded", "otpDue", "otpRead", "gated"} => Balance(Sender(c), "HTG") >= AmountMinor(c)
FundsInv == NoOverdraft /\ Covered

Allowed ==
  \A c \in Calls:
    stage[c] \in {"otpDue", "otpRead", "gated"} =>
      /\ DebitsOf(Sender(c), {today}) + AmountMinor(c) <= DailyLimit[Sender(c)]
      /\ DebitsOf(Sender(c), Month(today)) + AmountMinor(c) <= MonthlyLimit[Sender(c)]
LimitsInv == LimitsHold /\ Allowed

\* The row object a call holds is the row.
HoldsOtp ==
  \A c \in Calls: stage[c] = "otpRead" =>
    LET id == Request(c).otp IN
    /\ id \in DOMAIN otpCodes /\ otpCodes[id].userId = Sender(c) /\ ~otpCodes[id].consumed
    /\ seenAttempts[c] = otpCodes[id].attempts
OtpActions == {"security.otp_verified", "security.otp_failed"}
OtpRecords ==
  /\ IsFiniteSet(auditLog)
  /\ \A e \in auditLog: e.action \in OtpActions => e.target \in DOMAIN otpCodes /\ e.call \in Calls
  /\ \A e \in auditLog: e.action = "security.otp_failed" => stage[e.call] = "refused"
  /\ \A id \in DOMAIN otpCodes: ~otpCodes[id].consumed => VerifiedBy(id) = {}
OtpInv == HoldsOtp /\ OtpRecords /\ OtpSpentOnce

-----------------------------------------------------------------------------
(* What a step does to the ledger, the stages and the OTP rows.             *)

\* Call c posts a new operation with two legs: the debit of its sender and
\* the credit of somebody.
Debits(c) ==
  /\ \E to \in After \ {"sent"}: Goto(c, "gated", to)
  /\ \E key \in MoneyKeys, row \in Operation(MoneyKeys):
       /\ Posts(key, row) /\ row.createdAt = today
       /\ \/ key = Order(c) /\ Reserves(c) /\ row.type # "transfer"
             /\ row.entries = Reservation(RequestOf[c])
          \/ /\ key = TransferKey(RequestOf[c]) /\ row.type = "transfer"
             /\ row.entries = TransferOf(RequestOf[c])
  /\ UNCHANGED <<today, otpCodes, seenAttempts, auditLog>>

\* Call c posts a reversal.
Returns(c) ==
  /\ \E to \in After: Goto(c, "declined", to)
  /\ Reverses(c)
  /\ UNCHANGED <<today, otpCodes, seenAttempts, auditLog>>

\* Call c goes on, or dies, without moving money.
Continues(c) ==
  /\ stage[c] \notin AtRest
  /\ \E to \in After: Goto(c, stage[c], to)
  /\ Confirms
  /\ seenAttempts' = seenAttempts \/ seenAttempts' = [seenAttempts EXCEPT ![c] = 0]
  /\ \/ auditLog' = auditLog
     \/ \E action, target: action \notin OtpActions /\ Record(action, c, target)
  /\ UNCHANGED <<today, otpCodes>>

\* A gate: call c has not moved money yet.
Gates(c) ==
  \/ \E admitted: Enter(c, admitted)
  \/ CheckBalance(c) \/ EnforceLimits(c) \/ ReadOtp(c)
  \/ \E right \in BOOLEAN: SaveOtp(c, right)

\* Nobody's step.
Idles ==
  /\ \/ UNCHANGED <<today, otpCodes>>
     \/ \E id \in OtpIds: ExpireOtp(id)
     \/ \E id \in OtpIds, user \in Users, purpose \in Purposes: RequestOtp(id, user, purpose)
     \/ NewDay /\ UNCHANGED otpCodes
  /\ UNCHANGED <<operations, stage, seenAttempts, auditLog>>

MoneyStep == (\E c \in Calls: Gates(c) \/ Debits(c) \/ Returns(c) \/ Continues(c)) \/ Idles

LEMMA TransferKeysDiffer ==
  ASSUME NEW r, NEW s
  PROVE  /\ TransferKey(r) = TransferKey(s) => r = s
         /\ TransferKey(r) # ReserveKey(s) /\ TransferKey(r) # ReversalKey(s)
         /\ TransferKey(r) # TopupKey(s) /\ ReversalKey(r) # TopupKey(s)
  BY DEF TransferKey, ReserveKey, ReversalKey, TopupKey

\* The legs of a transfer to a user are legs.
LEMMA TransferLegsForm ==
  ASSUME NEW r \in Requests
  PROVE  TransferOf(r) \in Seq(Leg) /\ Reservation(r) \in Seq(Leg)
  <1>1. /\ Dto[r].sender \in Accounts /\ Dto[r].recipient \in Accounts /\ MonCashFloat \in Accounts
        /\ "HTG" \in Currencies /\ Dto[r].amountMinor \in Int
    BY DtoForm, SecurityAssumption
  <1> DEFINE n == Dto[r].amountMinor
  <1>2. /\ Debit(Dto[r].sender, n) \in Leg /\ Credit(Dto[r].recipient, n) \in Leg
        /\ Credit(MonCashFloat, n) \in Leg
    BY <1>1 DEF Debit, Credit, Leg, Directions
  <1>. QED
    BY <1>2 DEF TransferOf, Reservation

LEMMA SameLedger ==
  ASSUME operations' = operations
  PROVE  Confirms
  BY DEF Confirms, SameRows

\* A posting call under a fresh key.
LEMMA PostsRow ==
  ASSUME NEW key, NEW type, NEW status, NEW entries, PostOperation(key, type, status, entries)
  PROVE  \/ operations' = operations /\ Posted(key)
         \/ Posts(key, NewOperation(type, status, entries, NoOperation))
  <1> DEFINE row == NewOperation(type, status, entries, NoOperation)
  <1>1. row = NewOperation(type, status, entries, NoOperation)
    OBVIOUS
  <1> HIDE DEF row
  <1>2. CASE Posted(key)
    BY <1>2 DEF PostOperation
  <1>3. CASE ~Posted(key)
    BY <1>1, <1>3, PostShape DEF Posts, SameRows, Posted
  <1>. QED
    BY <1>1, <1>2, <1>3

LEMMA ReserveStep ==
  ASSUME MoneyType, NEW c \in Calls, Reserve(c)
  PROVE  Debits(c) \/ Continues(c)
  <1> DEFINE legs == Reservation(RequestOf[c])
             row == NewOperation("payout", "pending", legs, NoOperation)
  <1>1. UNCHANGED <<today, otpCodes, seenAttempts, auditLog>> /\ stage[c] = "gated" /\ "gated" \notin AtRest
    BY DEF Reserve, Goto, AtRest
  <1>2. \E to \in After \ {"sent"}: Goto(c, "gated", to)
    BY DEF Reserve, After, PayoutStages
  <1>3. CASE operations' = operations
    BY <1>1, <1>2, <1>3, SameLedger DEF Continues
  <1>4. CASE Reserves(c)
    <2>1. /\ row \in Operation(MoneyKeys) /\ Order(c) \in MoneyKeys
      BY TransferLegsForm, CallKeys
      DEF NewOperation, Operation, OperationTypes, Statuses, MoneyKeys, MoneyType
    <2>2. row.createdAt = today /\ row.type # "transfer" /\ row.entries = legs
      BY DEF NewOperation
    <2>3. Posts(Order(c), row)
      BY <1>4 DEF Reserves
    <2> HIDE DEF row
    <2>. QED
      BY <1>1, <1>2, <1>4, <2>1, <2>2, <2>3 DEF Debits
  <1>. QED
    BY <1>3, <1>4, ReserveDoes

LEMMA PostTransferStep ==
  ASSUME MoneyType, NEW c \in Calls, PostTransfer(c)
  PROVE  Debits(c) \/ Continues(c)
  <1> DEFINE key == TransferKey(RequestOf[c])
             legs == TransferOf(RequestOf[c])
             row == NewOperation("transfer", "completed", legs, NoOperation)
  <1>1. UNCHANGED <<today, otpCodes, seenAttempts, auditLog>> /\ stage[c] = "gated" /\ "gated" \notin AtRest
    BY DEF PostTransfer, Goto, AtRest
  <1>2. \E to \in After \ {"sent"}: Goto(c, "gated", to)
    BY DEF PostTransfer, After
  <1>3. PostOperation(key, "transfer", "completed", legs)
    BY DEF PostTransfer, TransferOf, Sender, AmountMinor, Request
  <1>4. CASE operations' = operations
    BY <1>1, <1>2, <1>4, SameLedger DEF Continues
  <1>5. CASE Posts(key, row)
    <2>1. row \in Operation(MoneyKeys) /\ key \in MoneyKeys
      BY TransferLegsForm, CallKeys
      DEF NewOperation, Operation, OperationTypes, Statuses, MoneyKeys, MoneyType, TransferKeys
    <2>2. row.createdAt = today /\ row.type = "transfer" /\ row.entries = legs
      BY DEF NewOperation
    <2> HIDE DEF row
    <2>. QED
      BY <1>1, <1>2, <1>5, <2>1, <2>2 DEF Debits
  <1> HIDE DEF key, legs
  <1>. QED
    BY <1>3, <1>4, <1>5, PostsRow DEF key, legs

LEMMA AbortStep ==
  ASSUME MoneyType, NEW c \in Calls, Abort(c)
  PROVE  Continues(c)
  BY SameLedger DEF Abort, Continues, Goto, After, ledgerVars, MoneyType

LEMMA TransferStepIs ==
  ASSUME MoneyType, NEW c \in Calls, TransferCall(c)
  PROVE  Gates(c) \/ Debits(c) \/ Continues(c)
  <1>1. CASE AuditTransfer(c) \/ AnswerTransfer(c)
    BY <1>1, SameLedger
    DEF AuditTransfer, AnswerTransfer, Goto, Record, Continues, AtRest, After, OtpActions, ledgerVars
  <1>2. CASE StartTransfer(c) \/ GateStep(c)
    BY <1>2 DEF StartTransfer, GateStep, Gates
  <1>. QED
    BY <1>1, <1>2, AbortStep, PostTransferStep DEF TransferCall, TransferStep

LEMMA PayoutStepIs ==
  ASSUME MoneyType, NEW c \in Calls, PayoutStep(c)
  PROVE  Debits(c) \/ Returns(c) \/ Continues(c)
  <1>1. CASE Confirm(c)
    BY <1>1, ConfirmDoes
    DEF Confirm, Goto, Continues, AtRest, After, PayoutStages, MoneyType
  <1>2. CASE Reverse(c)
    <2>1. \E to \in After: Goto(c, "declined", to)
      BY <1>2 DEF Reverse, After, PayoutStages
    <2>2. UNCHANGED <<today, otpCodes, seenAttempts, auditLog>> /\ stage[c] = "declined" /\ stage[c] \notin AtRest
      BY <1>2 DEF Reverse, Goto, AtRest
    <2>. QED
      BY <1>2, <2>1, <2>2, ReverseDoes, SameLedger DEF Returns, Continues, MoneyType
  <1>3. CASE FindOutcome(c)
    BY <1>3, SameLedger
    DEF FindOutcome, Goto, Continues, AtRest, After, PayoutStages, MoneyType, ledgerVars
  <1>4. CASE SaveCompleted(c) \/ SaveFailed(c)
    BY <1>4, SameLedger
    DEF SaveCompleted, SaveFailed, SaveOutcome, Goto, Continues, AtRest, After, PayoutStages, ledgerVars
  <1>5. CASE AuditCompleted(c) \/ AnswerFailed(c)
    BY <1>5, SameLedger
    DEF AuditCompleted, AnswerFailed, Goto, Continues, AtRest, After, PayoutStages, OtpActions, ledgerVars
  <1>6. CASE MonCashPays(c) \/ MonCashUnavailable(c) \/ AnswerCompleted(c)
    BY <1>6, SameLedger
    DEF MonCashPays, MonCashUnavailable, AnswerCompleted, Goto, Continues, AtRest, After, PayoutStages, ledgerVars
  <1>. QED
    BY <1>1, <1>2, <1>3, <1>4, <1>5, <1>6, ReserveStep DEF PayoutStep

LEMMA StepIs == MoneyType /\ [Next]_vars => MoneyStep
  <1> SUFFICES ASSUME MoneyType, [Next]_vars PROVE MoneyStep
    OBVIOUS
  <1>1. ASSUME NEW c \in Calls, StartPayout(c) \/ PayoutStep(c) PROVE MoneyStep
    BY <1>1, PayoutStepIs DEF StartPayout, Gates, MoneyStep
  <1>2. ASSUME NEW c \in Calls, GateStep(c) \/ Abort(c) PROVE MoneyStep
    BY <1>2, AbortStep DEF GateStep, Gates, MoneyStep
  <1>3. ASSUME NEW c \in Calls, TransferCall(c) PROVE MoneyStep
    BY <1>3, TransferStepIs DEF MoneyStep
  <1>4. CASE \/ \E order \in monCashUncertain: MonCashPaysUnanswered(order)
             \/ Surroundings \/ UNCHANGED vars
    BY <1>4 DEF MonCashPaysUnanswered, Surroundings, ExpireOtp, RequestOtp, Idles, MoneyStep,
                vars, ledgerVars, securityVars
  <1>. QED
    BY <1>1, <1>2, <1>3, <1>4 DEF Next, PayoutNext, PayoutCalls, TransferCalls

-----------------------------------------------------------------------------
(* Types and rows. *)

\* The rows of a step stay, and at most one is added.
LEMMA StepGrows ==
  ASSUME MoneyType, MoneyStep
  PROVE  /\ SameRows
         /\ today \in 0..LastDay /\ today' \in 0..LastDay /\ today <= today'
         /\ \/ DOMAIN operations' = DOMAIN operations
            \/ today' = today /\ \E key: DOMAIN operations' = DOMAIN operations \cup {key}
  <1>0. operations' = operations => SameRows
    BY DEF SameRows
  <1>1. ASSUME NEW c \in Calls, Gates(c) PROVE operations' = operations /\ today' = today
    BY <1>1 DEF Gates, Enter, CheckBalance, EnforceLimits, ReadOtp, SaveOtp, ledgerVars
  <1>2. ASSUME NEW c \in Calls, Debits(c)
        PROVE  /\ SameRows /\ today' = today
               /\ \E key: DOMAIN operations' = DOMAIN operations \cup {key}
    BY <1>2 DEF Debits, Posts
  <1>3. ASSUME NEW c \in Calls, Returns(c)
        PROVE  /\ SameRows /\ today' = today
               /\ \E key: DOMAIN operations' = DOMAIN operations \cup {key}
    BY <1>3 DEF Returns, Reverses
  <1>4. ASSUME NEW c \in Calls, Continues(c)
        PROVE  SameRows /\ today' = today /\ DOMAIN operations' = DOMAIN operations
    BY <1>4 DEF Continues, Confirms
  <1>5. ASSUME Idles
        PROVE  operations' = operations /\ today' \in 0..LastDay /\ today <= today'
    <2>1. today' = today \/ NewDay
      BY <1>5 DEF Idles, ExpireOtp, RequestOtp, ledgerVars
    <2>. QED
      BY <1>5, <2>1, CalendarAssumption DEF Idles, NewDay, MoneyType
  <1>6. today \in 0..LastDay /\ today <= today
    BY CalendarAssumption DEF MoneyType
  <1>. QED
    BY <1>0, <1>1, <1>2, <1>3, <1>4, <1>5, <1>6 DEF MoneyStep

\* Whoever moves, moves alone.
LEMMA OneMoves ==
  ASSUME MoneyType, NEW c \in Calls, Gates(c) \/ Debits(c) \/ Returns(c) \/ Continues(c)
  PROVE  /\ stage' \in [Calls -> Before \cup After]
         /\ \A d \in Calls: d # c => stage'[d] = stage[d]
         /\ stage[c] = "new" \/ stage[c] \notin AtRest
         /\ stage[c] = "new" => \E admitted: Enter(c, admitted)
  <1>1. CASE \E admitted: Enter(c, admitted)
    BY <1>1 DEF Enter, Gate, Goto, MoneyType, Before, After, AtRest
  <1>2. CASE CheckBalance(c) \/ EnforceLimits(c)
    BY <1>2 DEF CheckBalance, EnforceLimits, Gate, Goto, MoneyType, Before, After, AtRest
  <1>3. CASE ReadOtp(c) \/ \E right \in BOOLEAN: SaveOtp(c, right)
    BY <1>3 DEF ReadOtp, SaveOtp, Gate, Goto, MoneyType, Before, After, AtRest
  <1>4. CASE Debits(c) \/ Returns(c) \/ Continues(c)
    BY <1>4 DEF Debits, Returns, Continues, Goto, MoneyType, AtRest
  <1>. QED
    BY <1>1, <1>2, <1>3, <1>4 DEF Gates

LEMMA StepStages == MoneyType /\ MoneyStep => stage' \in [Calls -> Before \cup After]
  <1> SUFFICES ASSUME MoneyType, MoneyStep PROVE stage' \in [Calls -> Before \cup After]
    OBVIOUS
  <1>1. CASE Idles
    BY <1>1 DEF Idles, MoneyType
  <1>. QED
    BY <1>1, OneMoves DEF MoneyStep

\* What the saved code leaves in its row.
SavedOtp(c, right) ==
  [otpCodes[Request(c).otp] EXCEPT
     !.attempts = IF right THEN seenAttempts[c] ELSE seenAttempts[c] + 1, !.consumed = right]

LEMMA SaveOtpRow ==
  ASSUME MoneyType, NEW c \in Calls, NEW right \in BOOLEAN, SaveOtp(c, right)
  PROVE  /\ otpCodes' = [otpCodes EXCEPT ![Request(c).otp] = SavedOtp(c, right)]
         /\ Request(c).otp \in DOMAIN otpCodes =>
              /\ SavedOtp(c, right) \in OtpForm
              /\ SavedOtp(c, right).userId = otpCodes[Request(c).otp].userId
              /\ SavedOtp(c, right).consumed = right
              /\ SavedOtp(c, right).attempts = IF right THEN seenAttempts[c] ELSE seenAttempts[c] + 1
  <1> DEFINE n == IF right THEN seenAttempts[c] ELSE seenAttempts[c] + 1
             id == Request(c).otp
             saved == [otpCodes[id] EXCEPT !.attempts = n, !.consumed = right]
  <1>1. n \in Nat
    BY DEF MoneyType
  <1>2. otpCodes' = [otpCodes EXCEPT ![id].attempts = n, ![id].consumed = right]
    BY DEF SaveOtp
  <1>3. SavedOtp(c, right) = saved
    BY DEF SavedOtp
  <1> HIDE DEF n, id
  <1>4. otpCodes' = [otpCodes EXCEPT ![id] = saved]
    BY <1>2
  <1>5. id \in DOMAIN otpCodes =>
          /\ saved \in OtpForm /\ saved.userId = otpCodes[id].userId
          /\ saved.consumed = right /\ saved.attempts = n
    BY <1>1 DEF OtpForm, MoneyType
  <1> HIDE DEF saved
  <1>. QED
    BY <1>3, <1>4, <1>5 DEF id, n

LEMMA ExpireOtpRow ==
  ASSUME MoneyType, NEW id, ExpireOtp(id)
  PROVE  /\ DOMAIN otpCodes' = DOMAIN otpCodes /\ otpCodes' \in [DOMAIN otpCodes' -> OtpForm]
         /\ \A one \in DOMAIN otpCodes:
              /\ otpCodes'[one].userId = otpCodes[one].userId
              /\ otpCodes'[one].attempts = otpCodes[one].attempts
              /\ otpCodes'[one].consumed = otpCodes[one].consumed
  BY DEF ExpireOtp, OtpForm, MoneyType

LEMMA RequestOtpRow ==
  ASSUME MoneyType, NEW id, NEW user \in Users, NEW purpose \in Purposes, RequestOtp(id, user, purpose)
  PROVE  /\ id \notin DOMAIN otpCodes /\ DOMAIN otpCodes' = DOMAIN otpCodes \cup {id}
         /\ otpCodes' \in [DOMAIN otpCodes' -> OtpForm]
         /\ otpCodes'[id].attempts = 0
         /\ \A one \in DOMAIN otpCodes: otpCodes'[one] = otpCodes[one]
  <1> DEFINE row == [userId |-> user, purpose |-> purpose, attempts |-> 0, consumed |-> FALSE, expired |-> FALSE]
  <1>1. row \in OtpForm /\ row.attempts = 0
    BY DEF OtpForm
  <1>2. otpCodes' = Insert(otpCodes, id, row) /\ id \notin DOMAIN otpCodes
    BY DEF RequestOtp
  <1> HIDE DEF row
  <1>. QED
    BY <1>1, <1>2 DEF Insert, MoneyType

LEMMA StepOtpType ==
  ASSUME MoneyType, MoneyStep
  PROVE  seenAttempts' \in [Calls -> Nat] /\ otpCodes' \in [DOMAIN otpCodes' -> OtpForm]
  <1>1. ASSUME NEW c \in Calls, Debits(c) \/ Returns(c) \/ Continues(c)
        PROVE  seenAttempts' \in [Calls -> Nat] /\ otpCodes' = otpCodes
    BY <1>1 DEF Debits, Returns, Continues, MoneyType
  <1>2. ASSUME NEW c \in Calls, (\E admitted: Enter(c, admitted)) \/ CheckBalance(c) \/ EnforceLimits(c)
        PROVE  seenAttempts' = seenAttempts /\ otpCodes' = otpCodes
    BY <1>2 DEF Enter, CheckBalance, EnforceLimits
  <1>3. ASSUME NEW c \in Calls, ReadOtp(c)
        PROVE  seenAttempts' \in [Calls -> Nat] /\ otpCodes' = otpCodes
    BY <1>3 DEF ReadOtp, OtpUsable, OtpForm, MoneyType
  <1>4. ASSUME NEW c \in Calls, NEW right \in BOOLEAN, SaveOtp(c, right)
        PROVE  seenAttempts' \in [Calls -> Nat] /\ otpCodes' \in [DOMAIN otpCodes' -> OtpForm]
    <2>1. seenAttempts' \in [Calls -> Nat]
      BY <1>4 DEF SaveOtp, MoneyType
    <2>. QED
      BY <1>4, <2>1, SaveOtpRow DEF MoneyType
  <1>5. CASE Idles
    <2>1. seenAttempts' \in [Calls -> Nat]
      BY <1>5 DEF Idles, MoneyType
    <2>. QED
      BY <1>5, <2>1, ExpireOtpRow, RequestOtpRow DEF Idles, MoneyType
  <1>6. seenAttempts \in [Calls -> Nat] /\ otpCodes \in [DOMAIN otpCodes -> OtpForm]
    BY DEF MoneyType
  <1>. QED
    BY <1>1, <1>2, <1>3, <1>4, <1>5, <1>6 DEF MoneyStep, Gates

\* The ledger is written by four kinds of steps.
LEMMA NextTable == MoneyType /\ [Next]_vars => Table(MoneyKeys)'
  <1> SUFFICES ASSUME MoneyType, [Next]_vars PROVE Table(MoneyKeys)'
    OBVIOUS
  <1>1. Table(MoneyKeys) /\ today \in 0..LastDay
    BY DEF MoneyType
  <1>2. CASE operations' = operations
    BY <1>1, <1>2 DEF Table
  <1>3. ASSUME NEW c \in Calls, Reserve(c) PROVE Table(MoneyKeys)'
    <2> DEFINE legs == Reservation(RequestOf[c])
    <2>1. PostOperation(Order(c), "payout", "pending", legs)
      BY <1>3 DEF Reserve, Reservation, Sender, AmountMinor, Request
    <2>2. /\ Order(c) \in MoneyKeys /\ legs \in Seq(Leg)
          /\ "payout" \in OperationTypes /\ "pending" \in Statuses
      BY CallKeys, TransferLegsForm DEF MoneyKeys, OperationTypes, Statuses
    <2> HIDE DEF legs
    <2>. QED
      BY <1>1, <2>1, <2>2, PostTable
  <1>4. ASSUME NEW c \in Calls, PostTransfer(c) PROVE Table(MoneyKeys)'
    <2> DEFINE legs == TransferOf(RequestOf[c])
               key == TransferKey(RequestOf[c])
    <2>1. PostOperation(key, "transfer", "completed", legs)
      BY <1>4 DEF PostTransfer, TransferOf, Sender, AmountMinor, Request
    <2>2. /\ key \in MoneyKeys /\ legs \in Seq(Leg)
          /\ "transfer" \in OperationTypes /\ "completed" \in Statuses
      BY CallKeys, TransferLegsForm DEF MoneyKeys, TransferKeys, OperationTypes, Statuses
    <2> HIDE DEF legs, key
    <2>. QED
      BY <1>1, <2>1, <2>2, PostTable
  <1>5. ASSUME NEW c \in Calls, Confirm(c) PROVE Table(MoneyKeys)'
    BY <1>1, <1>5, ConfirmTable DEF Confirm
  <1>6. ASSUME NEW c \in Calls, Reverse(c) PROVE Table(MoneyKeys)'
    <2>1. Reversal(c) \in MoneyKeys
      BY CallKeys DEF MoneyKeys
    <2>. QED
      BY <1>1, <1>2, <1>6, <2>1, ReverseTable DEF Reverse
  <1>7. ASSUME NEW c \in Calls, StartPayout(c) \/ PayoutStep(c)
        PROVE  operations' = operations \/ Reserve(c) \/ Confirm(c) \/ Reverse(c)
    BY <1>7 DEF PayoutStep, StartPayout, Enter, FindOutcome, MonCashPays, MonCashUnavailable,
        SaveCompleted, SaveFailed, SaveOutcome, AuditCompleted, AnswerCompleted, AnswerFailed, ledgerVars
  <1>8. ASSUME NEW c \in Calls, GateStep(c) \/ Abort(c) \/ TransferCall(c)
        PROVE  operations' = operations \/ PostTransfer(c)
    BY <1>8 DEF GateStep, CheckBalance, EnforceLimits, ReadOtp, SaveOtp, Abort, TransferCall, StartTransfer,
        Enter, TransferStep, AuditTransfer, AnswerTransfer, ledgerVars
  <1>9. CASE \/ \E order \in monCashUncertain: MonCashPaysUnanswered(order)
             \/ Surroundings \/ UNCHANGED vars
    BY <1>2, <1>9 DEF MonCashPaysUnanswered, Surroundings, ExpireOtp, RequestOtp, vars, ledgerVars
  <1>. QED
    BY <1>2, <1>3, <1>4, <1>5, <1>6, <1>7, <1>8, <1>9 DEF Next, PayoutNext, PayoutCalls, TransferCalls

\* Outcomes are of one of two kinds.
LEMMA NextPayouts ==
  ASSUME MoneyType, [Next]_vars
  PROVE  \A order \in DOMAIN payouts': payouts'[order].status \in {"completed", "failed"}
  <1>1. ASSUME NEW c \in Calls, NEW from, NEW to, NEW row, row.status \in {"completed", "failed"},
               SaveOutcome(c, from, to, row)
        PROVE  \A order \in DOMAIN payouts': payouts'[order].status \in {"completed", "failed"}
    BY <1>1 DEF SaveOutcome, Insert, MoneyType
  <1>2. ASSUME NEW c \in Calls, SaveCompleted(c) \/ SaveFailed(c)
        PROVE  \A order \in DOMAIN payouts': payouts'[order].status \in {"completed", "failed"}
    <2>1. /\ [status |-> "completed", reversal |-> NoOperation].status = "completed"
          /\ [status |-> "failed", reversal |-> Reversal(c)].status = "failed"
      OBVIOUS
    <2>. QED
      BY <1>1, <1>2, <2>1 DEF SaveCompleted, SaveFailed
  <1>3. CASE payouts' = payouts
    BY <1>3 DEF MoneyType
  <1>4. ASSUME NEW c \in Calls, StartPayout(c) \/ PayoutStep(c)
        PROVE  payouts' = payouts \/ SaveCompleted(c) \/ SaveFailed(c)
    BY <1>4 DEF PayoutStep, StartPayout, FindOutcome, Reserve, Confirm, Reverse, MonCashPays,
        MonCashUnavailable, AuditCompleted, AnswerCompleted, AnswerFailed, payoutVars
  <1>. QED
    BY <1>2, <1>3, <1>4 DEF Next, PayoutNext, PayoutCalls, MonCashPaysUnanswered, vars, payoutVars

LEMMA MoneyTypeStep == MoneyType /\ [Next]_vars => MoneyType'
  BY StepIs, StepGrows, StepStages, StepOtpType, NextTable, NextPayouts DEF MoneyType

\* The initial table: what earlier top-ups left in the wallets.
TopupOf(u) == <<Credit(u, Funding[u]), Debit(MonCashFloat, Funding[u])>>

LEMMA InitLedger ==
  ASSUME SecurityInit
  PROVE  /\ DOMAIN operations = {TopupKey(u): u \in {v \in Users: Funding[v] > 0}}
         /\ today = 0
         /\ \A u \in Users: TopupKey(u) \in DOMAIN operations =>
              /\ operations[TopupKey(u)] = NewOperation("topup", "completed", TopupOf(u), NoOperation)
              /\ operations[TopupKey(u)] \in Operation(MoneyKeys)
              /\ operations[TopupKey(u)].type = "topup" /\ operations[TopupKey(u)].createdAt = 0
              /\ operations[TopupKey(u)].entries = TopupOf(u)
  <1> DEFINE funded == {TopupKey(u): u \in {v \in Users: Funding[v] > 0}}
             row(k) == NewOperation("topup", "completed",
                         <<Credit(k[2], Funding[k[2]]), Debit(MonCashFloat, Funding[k[2]])>>, NoOperation)
  <1>1. operations = [k \in funded |-> row(k)] /\ today = 0
    BY DEF SecurityInit
  <1>2. ASSUME NEW u \in Users
        PROVE  /\ row(TopupKey(u)) = NewOperation("topup", "completed", TopupOf(u), NoOperation)
               /\ row(TopupKey(u)) \in Operation(MoneyKeys)
               /\ row(TopupKey(u)).type = "topup" /\ row(TopupKey(u)).createdAt = 0
               /\ row(TopupKey(u)).entries = TopupOf(u)
    <2>1. row(TopupKey(u)) = NewOperation("topup", "completed", TopupOf(u), NoOperation)
      BY DEF TopupKey, TopupOf
    <2>2. /\ u \in Accounts /\ MonCashFloat \in Accounts /\ "HTG" \in Currencies /\ Funding[u] \in Int
      BY SecurityAssumption
    <2>3. Credit(u, Funding[u]) \in Leg /\ Debit(MonCashFloat, Funding[u]) \in Leg
      BY <2>2 DEF Debit, Credit, Leg, Directions
    <2>4. TopupOf(u) \in Seq(Leg)
      BY <2>3 DEF TopupOf
    <2> HIDE DEF row
    <2>. QED
      BY <1>1, <2>1, <2>4, CalendarAssumption DEF NewOperation, Operation, OperationTypes, Statuses
  <1> HIDE DEF row
  <1>. QED
    BY <1>1, <1>2

\* Amounts that are not negative, in HTG.
PlainLegs(entries) ==
  \A i \in DOMAIN entries: entries[i].amountMinor >= 0 /\ entries[i].currency = "HTG"

LEMMA FormsArePlain ==
  ASSUME NEW r \in Requests
  PROVE  PlainLegs(TransferOf(r)) /\ PlainLegs(Reservation(r)) /\ PlainLegs(Refund(r))
  <1>1. Dto[r].amountMinor >= 0
    BY DtoForm
  <1>. QED
    BY <1>1 DEF PlainLegs, TransferOf, Reservation, Refund, Debit, Credit

LEMMA MoneyInitRows == Init => RowsInv
  <1> SUFFICES ASSUME Init PROVE RowsInv
    OBVIOUS
  <1>1. SecurityInit /\ payouts = <<>>
    BY DEF Init, PayoutInit
  <1> DEFINE funded == {v \in Users: Funding[v] > 0}
             key == [u \in funded |-> TopupKey(u)]
  <1>2. DOMAIN operations = {TopupKey(u): u \in funded} /\ funded \subseteq Users
    BY <1>1, InitLedger
  <1>3. ASSUME NEW k \in DOMAIN operations
        PROVE  \E u \in Users: k = TopupKey(u)
    BY <1>2
  <1>4. Table(MoneyKeys) /\ today \in 0..LastDay
    <2>1. operations = [k \in DOMAIN operations |-> operations[k]]
      BY <1>1 DEF SecurityInit
    <2>2. \A k \in DOMAIN operations: operations[k] \in Operation(MoneyKeys) /\ k \in MoneyKeys
      BY <1>1, <1>3, InitLedger DEF MoneyKeys, PayoutKeys
    <2>. QED
      BY <1>1, <2>1, <2>2, InitLedger, CalendarAssumption DEF Table
  <1>5. MoneyType
    <2>1. /\ stage = [c \in Calls |-> "new"] /\ otpCodes = <<>> /\ seenAttempts = [c \in Calls |-> 0]
      BY <1>1 DEF SecurityInit
    <2>. QED
      BY <1>1, <1>4, <2>1 DEF MoneyType, Before
  <1>6. IsFiniteSet(DOMAIN operations)
    <2>1. IsFiniteSet(funded)
      BY AccountsAssumption, SecurityAssumption, FS_Subset
    <2>2. DOMAIN operations = {key[u]: u \in funded}
      BY <1>2
    <2> HIDE DEF key, funded
    <2>. QED
      BY <2>1, <2>2, FiniteImage
  <1>7. PlainRows
    <2>1. ASSUME NEW u \in Users PROVE PlainLegs(TopupOf(u))
      BY SecurityAssumption DEF PlainLegs, TopupOf, Debit, Credit
    <2>. QED
      BY <1>1, <1>3, <2>1, InitLedger DEF PlainRows, PlainLegs
  <1>8. TransferRows
    <2>1. \A r \in Requests: ~Posted(TransferKey(r))
      BY <1>3, TransferKeysDiffer DEF Posted
    <2>. QED
      BY <1>1, <1>3, <2>1, InitLedger DEF TransferRows
  <1>9. SentArePosted
    BY <1>1 DEF SecurityInit, SentArePosted, TransferCalls
  <1>. QED
    BY <1>1, <1>5, <1>6, <1>7, <1>8, <1>9, InitRows DEF RowsInv

\* A new row is a transfer's, a reservation or a refund, and of today.
NewRow(key) ==
  /\ SameRows /\ key \notin DOMAIN operations /\ DOMAIN operations' = DOMAIN operations \cup {key}
  /\ operations'[key].createdAt = today
  /\ \E r \in Requests:
       \/ /\ key = TransferKey(r) /\ operations'[key].type = "transfer"
          /\ operations'[key].entries = TransferOf(r)
       \/ operations'[key].type # "transfer" /\ key = ReserveKey(r) /\ operations'[key].entries = Reservation(r)
       \/ operations'[key].type # "transfer" /\ key = ReversalKey(r) /\ operations'[key].entries = Refund(r)

LEMMA DebitsRow ==
  ASSUME NEW c \in Calls, Debits(c)
  PROVE  \E key: /\ NewRow(key)
                 /\ \/ key = Order(c) /\ operations'[key].entries = Reservation(RequestOf[c])
                    \/ key = TransferKey(RequestOf[c]) /\ operations'[key].entries = TransferOf(RequestOf[c])
  <1>1. PICK key \in MoneyKeys, row \in Operation(MoneyKeys):
          /\ Posts(key, row) /\ row.createdAt = today
          /\ \/ key = Order(c) /\ row.type # "transfer" /\ row.entries = Reservation(RequestOf[c])
             \/ /\ key = TransferKey(RequestOf[c]) /\ row.type = "transfer"
                /\ row.entries = TransferOf(RequestOf[c])
    BY DEF Debits
  <1>. QED
    BY <1>1, CallKeys DEF Posts, NewRow

LEMMA ReturnsRow ==
  ASSUME PayoutRows, NEW c \in Calls, Returns(c)
  PROVE  NewRow(Reversal(c)) /\ operations'[Reversal(c)].entries = Refund(RequestOf[c])
  <1> DEFINE row == NewOperation("adjustment", "completed", Mirror(operations[Order(c)].entries), Order(c))
  <1>1. row.type = "adjustment" /\ row.createdAt = today
    BY DEF NewOperation
  <1>2. Reverses(c) /\ operations'[Reversal(c)] = row
    BY DEF Returns, Reverses
  <1> HIDE DEF row
  <1>. QED
    BY <1>1, <1>2, CallKeys, ReversesRows DEF Reverses, NewRow

\* A step keeps the rows or adds one.
LEMMA StepRows ==
  ASSUME MoneyType, PayoutRows, MoneyStep
  PROVE  \/ SameRows /\ DOMAIN operations' = DOMAIN operations
         \/ today' = today /\ \E key: NewRow(key)
  <1>0. operations' = operations => SameRows
    BY DEF SameRows
  <1>1. ASSUME NEW c \in Calls, Gates(c) PROVE operations' = operations
    BY <1>1 DEF Gates, Enter, CheckBalance, EnforceLimits, ReadOtp, SaveOtp, ledgerVars
  <1>2. ASSUME NEW c \in Calls, Debits(c) PROVE today' = today /\ \E key: NewRow(key)
    BY <1>2, DebitsRow DEF Debits
  <1>3. ASSUME NEW c \in Calls, Returns(c) PROVE today' = today /\ \E key: NewRow(key)
    BY <1>3, ReturnsRow DEF Returns
  <1>4. ASSUME NEW c \in Calls, Continues(c) PROVE SameRows /\ DOMAIN operations' = DOMAIN operations
    BY <1>4 DEF Continues, Confirms
  <1>5. CASE Idles
    BY <1>0, <1>5 DEF Idles
  <1>. QED
    BY <1>0, <1>1, <1>2, <1>3, <1>4, <1>5 DEF MoneyStep

LEMMA RowsKeepForm ==
  ASSUME MoneyType, MoneyType', PayoutRows, TransferRows, PlainRows, IsFiniteSet(DOMAIN operations), MoneyStep
  PROVE  TransferRows' /\ PlainRows' /\ IsFiniteSet(DOMAIN operations')
  <1>0. /\ today \in Int /\ today' \in Int /\ today <= today'
        /\ \A k \in DOMAIN operations: operations[k].createdAt \in Int
    BY StepGrows DEF MoneyType, Table, Operation
  <1>1. CASE SameRows /\ DOMAIN operations' = DOMAIN operations
    BY <1>0, <1>1 DEF SameRows, TransferRows, PlainRows, Posted, TransferOf
  <1>2. ASSUME today' = today, NEW key, NewRow(key)
        PROVE  TransferRows' /\ PlainRows' /\ IsFiniteSet(DOMAIN operations')
    <2>1. IsFiniteSet(DOMAIN operations')
      BY <1>2, FS_AddElement DEF NewRow
    <2>2. PlainLegs(operations'[key].entries)
      BY <1>2, FormsArePlain DEF NewRow
    <2>3. PlainRows'
      BY <1>0, <1>2, <2>2 DEF PlainRows, PlainLegs, NewRow, SameRows
    <2>4. TransferRows'
      <3>1. \A r \in Requests: key = TransferKey(r) =>
              operations'[key].type = "transfer" /\ operations'[key].entries = TransferOf(r)
        BY <1>2, TransferKeysDiffer DEF NewRow
      <3>2. operations'[key].type = "transfer" => key \in TransferKeys
        BY <1>2 DEF NewRow, TransferKeys
      <3>. QED
        BY <1>2, <3>1, <3>2 DEF TransferRows, NewRow, SameRows, Posted, TransferOf
    <2>. QED
      BY <2>1, <2>3, <2>4
  <1>. QED
    BY <1>1, <1>2, StepRows

LEMMA PayoutRowsStep ==
  ASSUME MoneyType, PayoutRows, MoneyStep
  PROVE  PayoutRows'
  <1>0. operations' = operations => PayoutRows'
    BY DEF PayoutRows, RowsOf, Posted, Reservation, Refund
  <1>1. ASSUME NEW c \in Calls, Gates(c) PROVE operations' = operations
    BY <1>1 DEF Gates, Enter, CheckBalance, EnforceLimits, ReadOtp, SaveOtp, ledgerVars
  <1>2. ASSUME NEW c \in Calls, Debits(c) PROVE PayoutRows'
    <2>1. CASE Reserves(c)
      BY <2>1, ReservesRows
    <2>2. CASE \E key, row: key = TransferKey(RequestOf[c]) /\ Posts(key, row)
      BY <2>2, TransferKeysDiffer, OthersPost
    <2>. QED
      BY <1>2, <2>1, <2>2 DEF Debits
  <1>3. ASSUME NEW c \in Calls, Returns(c) PROVE PayoutRows'
    BY <1>3, ReversesRows DEF Returns
  <1>4. ASSUME NEW c \in Calls, Continues(c) PROVE PayoutRows'
    BY <1>4, ConfirmsRows DEF Continues
  <1>5. CASE Idles
    BY <1>0, <1>5 DEF Idles
  <1>. QED
    BY <1>0, <1>1, <1>2, <1>3, <1>4, <1>5 DEF MoneyStep

\* A transfer is answered, and audited, only when it is posted.
LEMMA SentStep ==
  ASSUME MoneyType, SentArePosted, SameRows, [Next]_vars
  PROVE  SentArePosted'
  <1> DEFINE done == {"posted", "reposted", "transferred", "sent"}
  <1>1. \A k: Posted(k) => Posted(k)'
    BY DEF SameRows, Posted
  <1>2. SUFFICES ASSUME NEW d \in TransferCalls, stage'[d] \in done
                 PROVE  stage[d] \in done \/ Posted(TransferKey(RequestOf[d]))'
    BY <1>1 DEF SentArePosted
  <1>3. ASSUME NEW c \in Calls, StartPayout(c) \/ PayoutStep(c), c # d
        PROVE  stage'[d] = stage[d]
    BY <1>2, <1>3 DEF PayoutStep, StartPayout, Enter, FindOutcome, Reserve, Confirm, Reverse, MonCashPays,
        MonCashUnavailable, SaveCompleted, SaveFailed, SaveOutcome, AuditCompleted, AnswerCompleted,
        AnswerFailed, Gate, Goto, MoneyType, TransferCalls
  <1>4. ASSUME NEW c \in Calls, StartTransfer(c) \/ GateStep(c) \/ Abort(c)
        PROVE  stage'[d] = stage[d] \/ stage'[d] \notin done
    BY <1>2, <1>4 DEF StartTransfer, GateStep, CheckBalance, EnforceLimits, ReadOtp, SaveOtp, Abort, Enter,
        Gate, Goto, MoneyType, TransferCalls
  <1>5. ASSUME NEW c \in Calls, AuditTransfer(c) \/ AnswerTransfer(c)
        PROVE  stage[d] \in done \/ stage'[d] = stage[d]
    BY <1>2, <1>5 DEF AuditTransfer, AnswerTransfer, Goto, MoneyType, TransferCalls
  <1>6. ASSUME NEW c \in Calls, PostTransfer(c)
        PROVE  stage'[d] = stage[d] \/ Posted(TransferKey(RequestOf[d]))'
    <2> DEFINE legs == <<Debit(Sender(c), AmountMinor(c)), Credit(Request(c).recipient, AmountMinor(c))>>
               key == TransferKey(RequestOf[c])
    <2>1. PostOperation(key, "transfer", "completed", legs)
      BY <1>6 DEF PostTransfer
    <2>2. Posted(key)'
      <3> HIDE DEF legs, key
      <3>. QED
        BY <2>1, PostShape DEF Posted
    <2>3. c # d => stage'[d] = stage[d]
      BY <1>6 DEF PostTransfer, Goto, MoneyType, TransferCalls
    <2>. QED
      BY <2>2, <2>3
  <1>7. CASE \/ \E order \in monCashUncertain: MonCashPaysUnanswered(order)
             \/ Surroundings \/ UNCHANGED vars
    BY <1>2, <1>7 DEF MonCashPaysUnanswered, Surroundings, ExpireOtp, RequestOtp, vars, securityVars
  <1>8. d \notin PayoutCalls
    BY DEF TransferCalls, PayoutCalls
  <1>. QED
    BY <1>2, <1>3, <1>4, <1>5, <1>6, <1>7, <1>8
    DEF Next, PayoutNext, PayoutCalls, TransferCalls, TransferCall, TransferStep

LEMMA RowsStep == RowsInv /\ [Next]_vars => RowsInv' /\ MoneyStep
  BY MoneyTypeStep, StepIs, StepGrows, RowsKeepForm, PayoutRowsStep, SentStep DEF RowsInv

LEMMA RowsHold == Spec => []RowsInv
  BY MoneyInitRows, RowsStep, PTL DEF Spec

-----------------------------------------------------------------------------
(* A transfer moves once. *)

\* Legs of transfers that are, request by request, the leg at position p.
LEMMA LegsOfTransfers ==
  ASSUME RowsInv, NEW u, NEW direction, NEW S \in SUBSET Requests, NEW p,
         \A r \in Requests: \A i:
           (/\ i \in DOMAIN TransferOf(r)
            /\ TransferOf(r)[i].account = u /\ TransferOf(r)[i].direction = direction) <=> i = p /\ r \in S,
         \A r \in S: TransferOf(r)[p].amountMinor = Dto[r].amountMinor
  PROVE  TransferLegs(u, direction) = Ordered(S)
  <1> DEFINE R == {q \in S: Posted(TransferKey(q))}
             ids == {id \in EntryIds: /\ operations[id[1]].type = "transfer"
                                      /\ Entry(id).account = u /\ Entry(id).direction = direction}
             e == [r \in R |-> Dto[r].amountMinor]
             h == [r \in R |-> <<TransferKey(r), p>>]
             g == [id \in ids |-> Entry(id).amountMinor]
  <1>1. ASSUME NEW r \in R
        PROVE  operations[TransferKey(r)].type = "transfer" /\ operations[TransferKey(r)].entries = TransferOf(r)
    BY DEF RowsInv, TransferRows
  <1>2. ASSUME NEW id \in ids PROVE \E r \in R: id = <<TransferKey(r), p>>
    <2>1. PICK k \in DOMAIN operations: id \in {k} \X DOMAIN operations[k].entries
      BY DEF EntryIds
    <2>2. id = <<k, id[2]>> /\ id[1] = k /\ id[2] \in DOMAIN operations[k].entries
      BY <2>1
    <2>3. PICK r \in Requests: k = TransferKey(r)
      BY <2>2 DEF RowsInv, TransferRows, TransferKeys
    <2>4. operations[k].entries = TransferOf(r)
      BY <2>3 DEF RowsInv, TransferRows, Posted
    <2>5. id[2] = p /\ r \in S
      BY <2>2, <2>4 DEF Entry
    <2>. QED
      BY <2>2, <2>3, <2>5 DEF Posted
  <1>3. ASSUME NEW r \in R PROVE <<TransferKey(r), p>> \in ids /\ g[<<TransferKey(r), p>>] = Dto[r].amountMinor
    <2>1. /\ p \in DOMAIN TransferOf(r)
          /\ TransferOf(r)[p].account = u /\ TransferOf(r)[p].direction = direction
      OBVIOUS
    <2>2. <<TransferKey(r), p>> \in EntryIds
      BY <1>1, <2>1 DEF EntryIds, Posted
    <2>3. Entry(<<TransferKey(r), p>>) = TransferOf(r)[p]
      BY <1>1 DEF Entry
    <2>. QED
      BY <1>1, <2>1, <2>2, <2>3
  <1>4. DOMAIN g = {h[r]: r \in DOMAIN e}
    BY <1>2, <1>3
  <1>5. /\ \A r, s \in DOMAIN e: h[r] = h[s] => r = s
        /\ \A r \in DOMAIN e: g[h[r]] = e[r]
    BY <1>3, TransferKeysDiffer
  <1>6. Summable(e)
    <2> DEFINE second == [k \in DOMAIN operations |-> k[2]]
               seconds == {second[k]: k \in DOMAIN operations}
    <2>1. IsFiniteSet(seconds)
      <3> HIDE DEF second
      <3>. QED
        BY FiniteImage DEF RowsInv
    <2>2. R \subseteq seconds
      <3>1. \A r \in R: TransferKey(r) \in DOMAIN operations /\ second[TransferKey(r)] = r
        BY DEF Posted, TransferKey
      <3>. QED
        BY <3>1
    <2>3. IsFiniteSet(R)
      <3> HIDE DEF seconds, R
      <3>. QED
        BY <2>1, <2>2, FS_Subset
    <2>4. \A r \in R: Dto[r].amountMinor \in Int
      BY DtoForm
    <2>. QED
      BY <2>3, <2>4 DEF Summable
  <1>7. TransferLegs(u, direction) = SumFunction(g) /\ Ordered(S) = SumFunction(e)
    BY DEF TransferLegs, Ordered
  <1> HIDE DEF e, g, h
  <1>. QED
    BY <1>4, <1>5, <1>6, <1>7, SumRenamed

\* However often a request is sent, and whatever dies, its transfer leaves the
\* sender once and reaches the recipient once, and whoever is told that it was
\* sent has been told the truth.
THEOREM TransfersMoveOnce == Spec => []TransferMovesOnce
  <1>1. ASSUME RowsInv PROVE TransferMovesOnce
    <2>1. ASSUME NEW u \in Users
          PROVE  TransferLegs(u, "debit") = Ordered({r \in Requests: Dto[r].sender = u})
      <3> DEFINE S == {r \in Requests: Dto[r].sender = u}
      <3>1. \A r \in Requests: \A i:
              (/\ i \in DOMAIN TransferOf(r)
               /\ TransferOf(r)[i].account = u /\ TransferOf(r)[i].direction = "debit") <=> i = 1 /\ r \in S
        BY DEF TransferOf, Debit, Credit
      <3>2. \A r \in S: TransferOf(r)[1].amountMinor = Dto[r].amountMinor
        BY DEF TransferOf, Debit
      <3> HIDE DEF S
      <3>3. S \in SUBSET Requests
        BY DEF S
      <3>4. TransferLegs(u, "debit") = Ordered(S)
        BY <1>1, <3>1, <3>2, <3>3, LegsOfTransfers
      <3>. QED
        BY <3>4 DEF S
    <2>2. ASSUME NEW u \in Users
          PROVE  TransferLegs(u, "credit") = Ordered({r \in Requests: Dto[r].recipient = u})
      <3> DEFINE S == {r \in Requests: Dto[r].recipient = u}
      <3>1. \A r \in Requests: \A i:
              (/\ i \in DOMAIN TransferOf(r)
               /\ TransferOf(r)[i].account = u /\ TransferOf(r)[i].direction = "credit") <=> i = 2 /\ r \in S
        BY DEF TransferOf, Debit, Credit
      <3>2. \A r \in S: TransferOf(r)[2].amountMinor = Dto[r].amountMinor
        BY DEF TransferOf, Credit
      <3> HIDE DEF S
      <3>3. S \in SUBSET Requests
        BY DEF S
      <3>4. TransferLegs(u, "credit") = Ordered(S)
        BY <1>1, <3>1, <3>2, <3>3, LegsOfTransfers
      <3>. QED
        BY <3>4 DEF S
    <2>3. \A c \in TransferCalls: stage[c] = "sent" => Posted(TransferKey(RequestOf[c]))
      BY <1>1 DEF RowsInv, SentArePosted
    <2>. QED
      BY <2>1, <2>2, <2>3 DEF TransferMovesOnce
  <1>. QED
    BY <1>1, RowsHold, PTL

-----------------------------------------------------------------------------
(* One call of a sender at a time.                                          *)

LEMMA OneAtATimeStep ==
  ASSUME MaxInFlight = 1, MoneyType, OneAtATime, MoneyStep
  PROVE  OneAtATime'
  <1>1. CASE Idles
    BY <1>1 DEF Idles, OneAtATime, Sender, Request
  <1>2. ASSUME NEW c \in Calls, Gates(c) \/ Debits(c) \/ Returns(c) \/ Continues(c)
        PROVE  OneAtATime'
    <2>1. \A d \in Calls: d # c => stage'[d] = stage[d]
      BY <1>2, OneMoves
    <2>2. stage[c] \in AtRest => \A d \in Calls: Sender(d) = Sender(c) => stage[d] \in AtRest
      <3> SUFFICES ASSUME stage[c] \in AtRest
                   PROVE  \A d \in Calls: Sender(d) = Sender(c) => stage[d] \in AtRest
        OBVIOUS
      <3>1. Cardinality(InFlight(Sender(c))) < 1
        BY <1>2, OneMoves DEF Enter
      <3>2. ASSUME NEW d \in InFlight(Sender(c)) PROVE FALSE
        <4>1. InFlight(Sender(c)) = {d}
          BY DEF InFlight, OneAtATime
        <4>2. Cardinality({d}) = 1
          BY FS_Singleton
        <4>3. Cardinality(InFlight(Sender(c))) = 1
          BY <4>1, <4>2
        <4>. QED
          BY <3>1, <4>3
      <3>. QED
        BY <3>2 DEF InFlight
    <2>. QED
      BY <2>1, <2>2 DEF OneAtATime, Sender, Request
  <1>. QED
    BY <1>1, <1>2 DEF MoneyStep

-----------------------------------------------------------------------------
(* No wallet is overdrawn.                                                  *)

\* What the legs of a request add to a user's wallet.
LEMMA Effects ==
  ASSUME NEW r \in Requests, NEW u \in Users
  PROVE  /\ Effect(Reservation(r), u, "HTG") = IF Dto[r].sender = u THEN -Dto[r].amountMinor ELSE 0
         /\ Effect(Refund(r), u, "HTG") = IF Dto[r].sender = u THEN Dto[r].amountMinor ELSE 0
         /\ Effect(TransferOf(r), u, "HTG") = (IF Dto[r].sender = u THEN -Dto[r].amountMinor ELSE 0)
                                                + (IF Dto[r].recipient = u THEN Dto[r].amountMinor ELSE 0)
  <1> DEFINE n == Dto[r].amountMinor
  <1>1. /\ Dto[r].sender \in Accounts /\ Dto[r].recipient \in Accounts /\ MonCashFloat \in Accounts
        /\ "HTG" \in Currencies /\ n \in Int /\ u # MonCashFloat
    BY DtoForm, SecurityAssumption
  <1>2. ASSUME NEW a \in Accounts
        PROVE  /\ Debit(a, n) \in Leg /\ Credit(a, n) \in Leg
               /\ Signed(Debit(a, n)) = -n /\ Signed(Credit(a, n)) = n
               /\ Debit(a, n).account = a /\ Credit(a, n).account = a
               /\ Debit(a, n).currency = "HTG" /\ Credit(a, n).currency = "HTG"
    BY <1>1 DEF Debit, Credit, Leg, Directions, Signed
  <1>3. ASSUME NEW a \in Accounts, NEW b \in Accounts
        PROVE  /\ Effect(<<Debit(a, n), Credit(b, n)>>, u, "HTG")
                    = (IF a = u THEN -n ELSE 0) + (IF b = u THEN n ELSE 0)
               /\ Effect(<<Credit(a, n), Debit(b, n)>>, u, "HTG")
                    = (IF a = u THEN n ELSE 0) + (IF b = u THEN -n ELSE 0)
    <2> HIDE DEF n
    <2>. QED
      BY <1>2, EffectOfTwo
  <1> HIDE DEF n
  <1>4. /\ Effect(Reservation(r), u, "HTG") = (IF Dto[r].sender = u THEN -n ELSE 0) + 0
        /\ Effect(Refund(r), u, "HTG") = (IF Dto[r].sender = u THEN n ELSE 0) + 0
        /\ Effect(TransferOf(r), u, "HTG") =
             (IF Dto[r].sender = u THEN -n ELSE 0) + (IF Dto[r].recipient = u THEN n ELSE 0)
    BY <1>1, <1>3 DEF Reservation, Refund, TransferOf, n
  <1>. QED
    BY <1>1, <1>4 DEF n

LEMMA RowsSum ==
  ASSUME RowsInv
  PROVE  Summed
  BY DEF RowsInv, MoneyType, Table, Operation, Summed

LEMMA NewRowAdds ==
  ASSUME RowsInv, RowsInv', NEW key, NewRow(key), NEW u
  PROVE  /\ Adding(key)
         /\ Balance(u, "HTG")' = Balance(u, "HTG") + Effect(operations'[key].entries, u, "HTG")
         /\ Effect(operations'[key].entries, u, "HTG") \in Int
  <1>1. operations'[key].entries \in Seq(Leg)
    BY DEF NewRow, RowsInv, MoneyType, Table, Operation
  <1>2. Adding(key)
    BY <1>1 DEF NewRow, SameRows, Adding
  <1>. QED
    BY <1>2, RowsSum, BalanceAdded

\* Only the sender's own posting call takes money from a wallet.
LEMMA BalanceStep ==
  ASSUME RowsInv, RowsInv', MoneyStep, NEW u \in Users
  PROVE  /\ Balance(u, "HTG") \in Int /\ Balance(u, "HTG")' \in Int
         /\ \/ Balance(u, "HTG")' >= Balance(u, "HTG")
            \/ \E c \in Calls: /\ Debits(c) /\ Sender(c) = u
                               /\ Balance(u, "HTG")' >= Balance(u, "HTG") - AmountMinor(c)
  <1> DEFINE b == Balance(u, "HTG")
             b1 == Balance(u, "HTG")'
  <1>1. b \in Int /\ b1 \in Int
    <2>1. Summed /\ Summed'
      <3>1. Summed
        BY RowsSum
      <3>2. Summed'
        BY DEF RowsInv, MoneyType, Table, Operation, Summed
      <3>. QED
        BY <3>1, <3>2
    <2>2. b \in Int
      BY <2>1, BalanceInt
    <2>3. b1 \in Int
      <3>1. CASE SameRows /\ DOMAIN operations' = DOMAIN operations
        BY <2>1, <2>2, <3>1, BalanceKept DEF SameRows, Keeping
      <3>2. ASSUME NEW key, NewRow(key) PROVE b1 \in Int
        BY <2>2, <3>2, NewRowAdds
      <3>. QED
        BY <3>1, <3>2, StepRows DEF RowsInv
    <2>. QED
      BY <2>2, <2>3
  <1>2. CASE SameRows /\ DOMAIN operations' = DOMAIN operations
    <2>1. b1 = b
      BY <1>2, RowsSum, BalanceKept DEF SameRows, Keeping
    <2>. QED
      BY <1>1, <2>1
  <1>3. ASSUME NEW c \in Calls, Returns(c) PROVE b1 >= b
    <2>1. b1 = b + Effect(Refund(RequestOf[c]), u, "HTG")
      BY <1>3, ReturnsRow, NewRowAdds DEF RowsInv
    <2>2. /\ Effect(Refund(RequestOf[c]), u, "HTG") \in {0, Dto[RequestOf[c]].amountMinor}
          /\ Dto[RequestOf[c]].amountMinor \in Nat
      BY CallKeys, Effects, DtoForm
    <2> HIDE DEF b, b1
    <2>. QED
      BY <1>1, <2>1, <2>2
  <1>4. ASSUME NEW c \in Calls, Debits(c)
        PROVE  b1 >= b \/ (Sender(c) = u /\ b1 >= b - AmountMinor(c))
    <2> DEFINE r == RequestOf[c]
               n == Dto[r].amountMinor
    <2>1. PICK key: /\ NewRow(key)
                    /\ operations'[key].entries \in {Reservation(r), TransferOf(r)}
      BY <1>4, DebitsRow
    <2>2. /\ b1 = b + Effect(operations'[key].entries, u, "HTG")
          /\ Effect(operations'[key].entries, u, "HTG") \in Int
      BY <2>1, NewRowAdds
    <2>3. r \in Requests /\ n \in Nat /\ Sender(c) = Dto[r].sender /\ AmountMinor(c) = n
      BY CallKeys, DtoForm DEF Sender, AmountMinor, Request
    <2>4. \/ Effect(operations'[key].entries, u, "HTG") >= 0
          \/ Dto[r].sender = u /\ Effect(operations'[key].entries, u, "HTG") >= -n
      <3> HIDE DEF r
      <3>. QED
        BY <2>1, <2>3, Effects
    <2> HIDE DEF b, b1, r, n
    <2>. QED
      BY <1>1, <2>2, <2>3, <2>4
  <1>5. ASSUME NEW c \in Calls, Gates(c) PROVE operations' = operations
    BY <1>5 DEF Gates, Enter, CheckBalance, EnforceLimits, ReadOtp, SaveOtp, ledgerVars
  <1>6. operations' = operations => SameRows
    BY DEF SameRows
  <1>7. ASSUME NEW c \in Calls, Continues(c) PROVE SameRows /\ DOMAIN operations' = DOMAIN operations
    BY <1>7 DEF Continues, Confirms
  <1>. QED
    BY <1>1, <1>2, <1>3, <1>4, <1>5, <1>6, <1>7 DEF MoneyStep, Idles

LEMMA FundsStep ==
  ASSUME RowsInv, RowsInv', OneAtATime, FundsInv, MoneyStep
  PROVE  FundsInv'
  <1> DEFINE F == {"funded", "otpDue", "otpRead", "gated"}
  <1>0. \A c \in Calls: Sender(c) \in Users /\ AmountMinor(c) \in Nat
    BY CallKeys, DtoForm DEF Sender, AmountMinor, Request
  <1>1. NoOverdraft'
    <2> SUFFICES ASSUME NEW u \in Users PROVE Balance(u, "HTG")' >= 0
      BY DEF NoOverdraft
    <2>1. Balance(u, "HTG") >= 0
      BY DEF FundsInv, NoOverdraft
    <2>2. ASSUME NEW c \in Calls, Debits(c), Sender(c) = u PROVE Balance(u, "HTG") >= AmountMinor(c)
      BY <2>2 DEF Debits, Goto, FundsInv, Covered
    <2>. QED
      BY <1>0, <2>1, <2>2, BalanceStep
  <1>2. Covered'
    <2> SUFFICES ASSUME NEW d \in Calls, stage'[d] \in F PROVE Balance(Sender(d), "HTG")' >= AmountMinor(d)
      BY DEF Covered, Sender, AmountMinor, Request
    <2>1. CASE stage[d] \in F
      <3>1. Balance(Sender(d), "HTG") >= AmountMinor(d)
        BY <2>1 DEF FundsInv, Covered
      <3>2. ASSUME NEW c \in Calls, Debits(c), Sender(c) = Sender(d) PROVE FALSE
        <4>1. /\ stage[c] = "gated" /\ stage'[c] \in After
              /\ \A e \in Calls: e # c => stage'[e] = stage[e]
          BY <3>2 DEF Debits, Goto, RowsInv, MoneyType
        <4>2. d = c
          BY <2>1, <3>2, <4>1 DEF OneAtATime, AtRest
        <4>. QED
          BY <4>1, <4>2 DEF After, PayoutStages
      <3>. QED
        BY <1>0, <3>1, <3>2, BalanceStep
    <2>2. CASE stage[d] \notin F
      <3>1. CheckBalance(d)
        <4>1. ASSUME NEW c \in Calls, Gates(c) \/ Debits(c) \/ Returns(c) \/ Continues(c)
              PROVE  CheckBalance(c) /\ c = d
          <5>1. c = d
            BY <2>2, <4>1, OneMoves DEF RowsInv
          <5>2. CASE Debits(c) \/ Returns(c) \/ Continues(c)
            BY <5>1, <5>2 DEF Debits, Returns, Continues, Goto, RowsInv, MoneyType, After, PayoutStages
          <5>3. CASE Gates(c)
            BY <2>2, <5>1, <5>3 DEF Gates, Enter, EnforceLimits, ReadOtp, SaveOtp, Gate, Goto, RowsInv, MoneyType
          <5>. QED
            BY <4>1, <5>1, <5>2, <5>3
        <4>. QED
          BY <2>2, <4>1 DEF MoneyStep, Idles
      <3>2. Balance(Sender(d), "HTG") >= AmountMinor(d) /\ operations' = operations
        BY <3>1 DEF CheckBalance, Gate, Goto, RowsInv, MoneyType, ledgerVars
      <3>3. Balance(Sender(d), "HTG")' = Balance(Sender(d), "HTG")
        BY <3>2, RowsSum, BalanceKept DEF Keeping
      <3>. QED
        BY <3>2, <3>3
    <2>. QED
      BY <2>1, <2>2
  <1>. QED
    BY <1>1, <1>2 DEF FundsInv

\* At first every entry of a user's is a credit.
LEMMA InitCredits ==
  ASSUME Init, NEW id \in EntryIds, Entry(id).account \in Users
  PROVE  Entry(id).direction = "credit" /\ Entry(id).amountMinor >= 0
  <1>1. SecurityInit
    BY DEF Init, PayoutInit
  <1>2. PICK k \in DOMAIN operations: id \in {k} \X DOMAIN operations[k].entries
    BY DEF EntryIds
  <1>3. PICK u \in Users: k = TopupKey(u)
    BY <1>1, InitLedger
  <1>4. operations[k].entries = TopupOf(u) /\ id[1] = k /\ id[2] \in DOMAIN TopupOf(u)
    BY <1>1, <1>2, <1>3, InitLedger
  <1>5. Entry(id) \in {Credit(u, Funding[u]), Debit(MonCashFloat, Funding[u])}
    BY <1>4 DEF Entry, TopupOf
  <1>. QED
    BY <1>5, SecurityAssumption DEF Credit, Debit

LEMMA InitFunds == Init => FundsInv /\ OneAtATime
  <1> SUFFICES ASSUME Init PROVE FundsInv /\ OneAtATime
    OBVIOUS
  <1>1. ASSUME NEW u \in Users PROVE Balance(u, "HTG") >= 0
    <2> DEFINE ids == {id \in EntryIds: Entry(id).account = u /\ Entry(id).currency = "HTG"}
               f == [id \in ids |-> Signed(Entry(id))]
    <2>1. Summable(f)
      BY MoneyInitRows, RowsSum, FiniteEntries, FS_Subset, SignedInt DEF Summable
    <2>2. \A id \in ids: Signed(Entry(id)) >= 0
      BY InitCredits DEF Signed
    <2>3. Balance(u, "HTG") = SumFunction(f)
      BY DEF Balance
    <2>4. \A id \in DOMAIN f: f[id] >= 0
      BY <2>2
    <2> HIDE DEF f
    <2>. QED
      BY <2>1, <2>3, <2>4, SumSign
  <1>2. \A c \in Calls: stage[c] = "new"
    BY DEF Init, PayoutInit, SecurityInit
  <1>. QED
    BY <1>1, <1>2 DEF FundsInv, NoOverdraft, Covered, OneAtATime, AtRest

\* Whichever calls die and however payouts end, no wallet is overdrawn while
\* no two calls of a sender run at once: the balance a call has checked is
\* still there when it posts.
THEOREM WalletsStayFunded ==
  ASSUME MaxInFlight = 1
  PROVE  Spec => []NoOverdraft
  <1>1. RowsInv /\ OneAtATime /\ FundsInv /\ [Next]_vars => OneAtATime' /\ FundsInv'
    BY RowsStep, OneAtATimeStep, FundsStep DEF RowsInv
  <1>2. FundsInv => NoOverdraft
    BY DEF FundsInv
  <1>. QED
    BY <1>1, <1>2, InitFunds, RowsHold, PTL DEF Spec

LEMMA OneAtATimeHolds ==
  ASSUME MaxInFlight = 1
  PROVE  Spec => []OneAtATime
  <1>1. RowsInv /\ OneAtATime /\ [Next]_vars => OneAtATime'
    BY RowsStep, OneAtATimeStep DEF RowsInv
  <1>. QED
    BY <1>1, InitFunds, RowsHold, PTL DEF Spec

-----------------------------------------------------------------------------
(* The limits.                                                              *)

\* Quotients, for the calendar.
LEMMA Quotient ==
  ASSUME NEW a \in Nat, NEW D \in Nat \ {0}
  PROVE  a \div D \in Nat /\ (a \div D) * D <= a /\ a < (a \div D) * D + D
  OBVIOUS

LEMMA Multiples ==
  ASSUME NEW p \in Nat, NEW q \in Nat, NEW D \in Nat \ {0}, p < q
  PROVE  p * D + D <= q * D
  <1>1. p + 1 <= q
    OBVIOUS
  <1>2. (p + 1) * D <= q * D
    BY <1>1
  <1>3. (p + 1) * D = p * D + D
    OBVIOUS
  <1>. QED
    BY <1>2, <1>3

\* A day is of today's month or of an earlier one; it is of today's when it
\* is not before the month's first day.
LEMMA MonthOf ==
  ASSUME NEW a \in Nat, NEW t \in Nat, a <= t
  PROVE  /\ a \div DaysPerMonth <= t \div DaysPerMonth
         /\ a >= (t \div DaysPerMonth) * DaysPerMonth <=> a \div DaysPerMonth = t \div DaysPerMonth
         /\ a \div DaysPerMonth \in Nat /\ t \div DaysPerMonth \in Nat
  <1> DEFINE D == DaysPerMonth
             p == a \div D
             q == t \div D
  <1>0. D \in Nat \ {0}
    BY CalendarAssumption
  <1>1. /\ p \in Nat /\ q \in Nat /\ p * D <= a /\ a < p * D + D /\ q * D <= t /\ t < q * D + D
    BY <1>0, Quotient
  <1> HIDE DEF p, q, D
  <1>2. q < p => q * D + D <= p * D
    BY <1>0, <1>1, Multiples
  <1>3. p < q => p * D + D <= q * D
    BY <1>0, <1>1, Multiples
  <1>4. p * D \in Nat /\ q * D \in Nat
    BY <1>0, <1>1
  <1>5. p <= q /\ (a >= q * D <=> p = q)
    BY <1>0, <1>1, <1>2, <1>3, <1>4
  <1>. QED
    BY <1>1, <1>5 DEF p, q, D

\* The entries DebitsOf adds up.
DebitIds(user, days) ==
  {id \in EntryIds: /\ Entry(id).account = user
                    /\ Entry(id).direction = "debit"
                    /\ operations[id[1]].createdAt \in days}

LEMMA DebitsSummable ==
  ASSUME RowsInv, NEW u, NEW days
  PROVE  /\ Summable([id \in DebitIds(u, days) |-> Entry(id).amountMinor])
         /\ DebitsOf(u, days) = SumFunction([id \in DebitIds(u, days) |-> Entry(id).amountMinor])
         /\ DebitsOf(u, days) \in Int /\ DebitsOf(u, days) >= 0
         /\ DebitIds(u, days) = {} => DebitsOf(u, days) = 0
  <1> DEFINE f == [id \in DebitIds(u, days) |-> Entry(id).amountMinor]
  <1>1. /\ IsFiniteSet(DebitIds(u, days))
        /\ \A id \in DebitIds(u, days): Entry(id) \in Leg /\ Entry(id).amountMinor >= 0
    <2>1. IsFiniteSet(EntryIds) /\ \A id \in EntryIds: /\ Entry(id) \in Leg
                                                       /\ id[1] \in DOMAIN operations
                                                       /\ id[2] \in DOMAIN operations[id[1]].entries
      BY RowsSum, FiniteEntries
    <2>2. \A id \in EntryIds: Entry(id).amountMinor >= 0
      BY <2>1 DEF RowsInv, PlainRows, Entry
    <2>3. DebitIds(u, days) \subseteq EntryIds
      BY DEF DebitIds
    <2>. QED
      BY <2>1, <2>2, <2>3, FS_Subset
  <1>2. Summable(f) /\ \A id \in DOMAIN f: f[id] >= 0
    BY <1>1 DEF Summable, Leg
  <1>3. DebitsOf(u, days) = SumFunction(f)
    BY DEF DebitsOf, DebitIds
  <1>4. DOMAIN f = DebitIds(u, days)
    OBVIOUS
  <1>5. SumFunction(f) \in Int /\ SumFunction(f) >= 0 /\ (DOMAIN f = {} => SumFunction(f) = 0)
    <2> HIDE DEF f
    <2>. QED
      BY <1>2, SumInt, SumSign, SumEmpty
  <1>. QED
    BY <1>2, <1>3, <1>4, <1>5

\* What enforceLimits adds up is what is debited today and in this month.
LEMMA SpentIsDebited ==
  ASSUME RowsInv, NEW u \in Users
  PROVE  /\ Spent(u, today) = DebitsOf(u, {today})
         /\ Spent(u, StartOfMonth) = DebitsOf(u, Month(today))
  <1>1. ASSUME NEW id \in EntryIds
        PROVE  /\ Entry(id).currency = "HTG"
               /\ operations[id[1]].createdAt \in 0..LastDay /\ operations[id[1]].createdAt <= today
    <2>1. id[1] \in DOMAIN operations /\ id[2] \in DOMAIN operations[id[1]].entries
      BY RowsSum, FiniteEntries
    <2>. QED
      BY <2>1 DEF RowsInv, PlainRows, Entry, MoneyType, Table, Operation
  <1>2. today \in 0..LastDay /\ 0..LastDay \subseteq Nat
    BY CalendarAssumption DEF RowsInv, MoneyType
  <1>3. ASSUME NEW id \in EntryIds
        PROVE  /\ operations[id[1]].createdAt >= today <=> operations[id[1]].createdAt \in {today}
               /\ operations[id[1]].createdAt >= StartOfMonth <=> operations[id[1]].createdAt \in Month(today)
    <2> DEFINE a == operations[id[1]].createdAt
    <2>1. a \in Nat /\ today \in Nat /\ a <= today /\ a \in 0..LastDay
      BY <1>1, <1>2
    <2> HIDE DEF a
    <2>2. a >= StartOfMonth <=> a \in Month(today)
      BY <2>1, MonthOf DEF StartOfMonth, Month
    <2>3. a >= today <=> a \in {today}
      BY <2>1
    <2>. QED
      BY <2>2, <2>3 DEF a
  <1>4. ASSUME NEW since, NEW days,
               \A id \in EntryIds: operations[id[1]].createdAt >= since <=> operations[id[1]].createdAt \in days
        PROVE  Spent(u, since) = DebitsOf(u, days)
    <2>1. {id \in EntryIds: /\ Entry(id).account = u /\ Entry(id).direction = "debit"
                            /\ Entry(id).currency = "HTG" /\ operations[id[1]].createdAt >= since}
            = DebitIds(u, days)
      BY <1>1, <1>4 DEF DebitIds
    <2>. QED
      BY <2>1 DEF Spent, SumDirection, DebitsOf, DebitIds
  <1>. QED
    BY <1>3, <1>4

LEMMA DebitsKept ==
  ASSUME RowsInv, SameRows, DOMAIN operations' = DOMAIN operations, NEW u, NEW days
  PROVE  DebitsOf(u, days)' = DebitsOf(u, days)
  <1>1. Keeping
    BY DEF SameRows, Keeping
  <1>2. EntryIds' = EntryIds /\ \A id \in EntryIds: Entry(id)' = Entry(id) /\ id[1] \in DOMAIN operations
    BY <1>1, RowsSum, EntriesKept, FiniteEntries
  <1>3. \A id \in EntryIds: operations'[id[1]].createdAt = operations[id[1]].createdAt
    BY <1>2 DEF SameRows
  <1>. QED
    BY <1>2, <1>3 DEF DebitsOf

\* The debits of an account among the legs of an operation.
OwnDebits(entries, user) ==
  SumFunction([i \in {j \in DOMAIN entries: entries[j].account = user /\ entries[j].direction = "debit"}
                 |-> entries[i].amountMinor])

LEMMA DebitsAdded ==
  ASSUME RowsInv, RowsInv', NEW key, NewRow(key), NEW u, NEW days
  PROVE  /\ OwnDebits(operations'[key].entries, u) \in Int
         /\ DebitsOf(u, days)' =
              DebitsOf(u, days) + IF today \in days THEN OwnDebits(operations'[key].entries, u) ELSE 0
  <1> DEFINE entries == operations'[key].entries
             own == {j \in DOMAIN entries: entries[j].account = u /\ entries[j].direction = "debit"}
             legs == IF today \in days THEN own ELSE {}
             ids == DebitIds(u, days)
             after == DebitIds(u, days)'
             f == [id \in ids |-> Entry(id).amountMinor]
             g == [id \in after |-> Entry(id)'.amountMinor]
             e == [i \in legs |-> entries[i].amountMinor]
             o == [i \in own |-> entries[i].amountMinor]
  <1>0. Adding(key) /\ operations'[key].createdAt = today
    BY NewRowAdds DEF NewRow
  <1>1. DebitsOf(u, days) = SumFunction(f) /\ Summable(f)
    BY DebitsSummable
  <1>2. DebitsOf(u, days)' = SumFunction(g)
    BY DEF DebitsOf, DebitIds
  <1>3. Summable(e) /\ Summable(o)
    BY <1>0, LegsSummable DEF Adding
  <1>4. /\ EntryIds' = EntryIds \cup {<<key, i>>: i \in DOMAIN entries}
        /\ \A id \in EntryIds: /\ Entry(id)' = Entry(id)
                               /\ operations'[id[1]].createdAt = operations[id[1]].createdAt
        /\ \A i \in DOMAIN entries: Entry(<<key, i>>)' = entries[i] /\ <<key, i>> \notin EntryIds
    <2>1. \A id \in EntryIds: id[1] \in DOMAIN operations
      BY RowsSum, FiniteEntries
    <2>2. \A id \in EntryIds: operations'[id[1]].createdAt = operations[id[1]].createdAt
      BY <2>1 DEF NewRow, SameRows
    <2>. QED
      BY <1>0, <2>2, RowsSum, EntriesAdded
  <1>5. /\ \A i \in legs: <<key, i>> \notin ids
        /\ after = ids \cup {<<key, i>>: i \in legs}
    <2>1. \A i \in legs: i \in DOMAIN entries
      OBVIOUS
    <2>2. \A id: id \in after <=> /\ id \in EntryIds' /\ Entry(id)'.account = u
                                  /\ Entry(id)'.direction = "debit" /\ operations'[id[1]].createdAt \in days
      BY DEF DebitIds
    <2>3. \A id \in EntryIds: id \in after <=> id \in ids
      BY <1>4, <2>2 DEF DebitIds
    <2>4. \A i \in DOMAIN entries: <<key, i>> \in after <=> i \in legs
      BY <1>0, <1>4, <2>2
    <2>5. \A id: id \in ids => id \in EntryIds
      BY DEF DebitIds
    <2> HIDE DEF entries, legs, ids, after
    <2>. QED
      BY <1>4, <2>1, <2>2, <2>3, <2>4, <2>5
  <1>6. DOMAIN f = ids /\ DOMAIN g = after /\ DOMAIN e = legs
    OBVIOUS
  <1>7. SelectsToo(g, f, e, key)
    <2>1. \A id \in ids: id \in after /\ Entry(id)'.amountMinor = Entry(id).amountMinor
      BY <1>4, <1>5 DEF DebitIds
    <2>2. \A i \in legs: <<key, i>> \in after /\ Entry(<<key, i>>)'.amountMinor = entries[i].amountMinor
      BY <1>4, <1>5
    <2> HIDE DEF ids, after, legs, entries
    <2>. QED
      BY <1>5, <2>1, <2>2 DEF SelectsToo
  <1>8. SumFunction(o) = OwnDebits(entries, u)
    BY DEF OwnDebits
  <1>9. /\ today \in days => e = o
        /\ today \notin days => DOMAIN e = {}
    OBVIOUS
  <1> HIDE DEF f, g, e, o, ids, after, legs, entries
  <1>10. SumFunction(g) = SumFunction(f) + SumFunction(e) /\ SumFunction(o) \in Int /\ SumFunction(f) \in Int
    BY <1>1, <1>3, <1>7, SumNewLegs, SumInt
  <1>11. SumFunction(e) = IF today \in days THEN SumFunction(o) ELSE 0
    BY <1>9, SumEmpty
  <1>. QED
    BY <1>1, <1>2, <1>8, <1>10, <1>11 DEF entries

LEMMA OwnDebitsOf ==
  ASSUME NEW r \in Requests, NEW u \in Users
  PROVE  /\ OwnDebits(Reservation(r), u) = IF Dto[r].sender = u THEN Dto[r].amountMinor ELSE 0
         /\ OwnDebits(TransferOf(r), u) = IF Dto[r].sender = u THEN Dto[r].amountMinor ELSE 0
         /\ OwnDebits(Refund(r), u) = 0
  <1> DEFINE own(entries) == {j \in DOMAIN entries: entries[j].account = u /\ entries[j].direction = "debit"}
             f(entries) == [i \in own(entries) |-> entries[i].amountMinor]
  <1>1. u # MonCashFloat /\ Dto[r].amountMinor \in Int
    BY DtoForm, SecurityAssumption
  <1>2. own(Refund(r)) = {}
    BY <1>1 DEF Refund, Debit, Credit
  <1>3. ASSUME NEW entries \in {Reservation(r), TransferOf(r)}
        PROVE  OwnDebits(entries, u) = IF Dto[r].sender = u THEN Dto[r].amountMinor ELSE 0
    <2>1. own(entries) = IF Dto[r].sender = u THEN {1} ELSE {}
      BY DEF Reservation, TransferOf, Debit, Credit
    <2>2. entries[1].amountMinor = Dto[r].amountMinor
      BY DEF Reservation, TransferOf, Debit
    <2>3. OwnDebits(entries, u) = SumFunction(f(entries))
      BY DEF OwnDebits
    <2>4. /\ Dto[r].sender = u => DOMAIN f(entries) = {1} /\ f(entries)[1] = Dto[r].amountMinor
          /\ Dto[r].sender # u => DOMAIN f(entries) = {}
      BY <2>1, <2>2
    <2> HIDE DEF f
    <2>. QED
      BY <1>1, <2>3, <2>4, SumOne, SumEmpty
  <1>4. OwnDebits(Refund(r), u) = 0
    <2>1. OwnDebits(Refund(r), u) = SumFunction(f(Refund(r))) /\ DOMAIN f(Refund(r)) = {}
      BY <1>2 DEF OwnDebits
    <2> HIDE DEF f
    <2>. QED
      BY <2>1, SumEmpty
  <1>. QED
    BY <1>3, <1>4


\* Only the sender's own posting call adds to its debits, and to today's.
LEMMA DebitsStep ==
  ASSUME RowsInv, RowsInv', MoneyStep, NEW u \in Users, NEW days
  PROVE  \/ DebitsOf(u, days)' = DebitsOf(u, days)
         \/ \E c \in Calls:
              /\ Debits(c) /\ Sender(c) = u
              /\ DebitsOf(u, days)' = DebitsOf(u, days) + IF today \in days THEN AmountMinor(c) ELSE 0
  <1> DEFINE n == DebitsOf(u, days)
             n1 == DebitsOf(u, days)'
  <1>0. n \in Int
    BY DebitsSummable
  <1>1. ASSUME SameRows, DOMAIN operations' = DOMAIN operations PROVE n1 = n
    BY <1>1, DebitsKept
  <1>2. ASSUME NEW c \in Calls, Returns(c) PROVE n1 = n
    <2>1. /\ NewRow(Reversal(c)) /\ operations'[Reversal(c)].entries = Refund(RequestOf[c])
          /\ OwnDebits(Refund(RequestOf[c]), u) = 0
      BY <1>2, ReturnsRow, CallKeys, OwnDebitsOf DEF RowsInv
    <2>2. n1 = n + IF today \in days THEN OwnDebits(operations'[Reversal(c)].entries, u) ELSE 0
      BY <2>1, DebitsAdded
    <2> HIDE DEF n, n1
    <2>. QED
      BY <1>0, <2>1, <2>2
  <1>3. ASSUME NEW c \in Calls, Debits(c)
        PROVE  n1 = n + IF today \in days /\ Sender(c) = u THEN AmountMinor(c) ELSE 0
    <2> DEFINE r == RequestOf[c]
    <2>1. PICK key: NewRow(key) /\ operations'[key].entries \in {Reservation(r), TransferOf(r)}
      BY <1>3, DebitsRow
    <2>2. n1 = n + IF today \in days THEN OwnDebits(operations'[key].entries, u) ELSE 0
      BY <2>1, DebitsAdded
    <2>3. r \in Requests /\ Dto[r].amountMinor \in Nat /\ Sender(c) = Dto[r].sender /\ AmountMinor(c) = Dto[r].amountMinor
      BY CallKeys, DtoForm DEF Sender, AmountMinor, Request
    <2>4. OwnDebits(operations'[key].entries, u) = IF Dto[r].sender = u THEN Dto[r].amountMinor ELSE 0
      <3> HIDE DEF r
      <3>. QED
        BY <2>1, <2>3, OwnDebitsOf
    <2> HIDE DEF n, n1, r
    <2>. QED
      BY <1>0, <2>2, <2>3, <2>4
  <1>4. ASSUME NEW c \in Calls, Gates(c) PROVE operations' = operations
    BY <1>4 DEF Gates, Enter, CheckBalance, EnforceLimits, ReadOtp, SaveOtp, ledgerVars
  <1>5. operations' = operations => SameRows
    BY DEF SameRows
  <1>6. ASSUME NEW c \in Calls, Continues(c) PROVE SameRows /\ DOMAIN operations' = DOMAIN operations
    BY <1>6 DEF Continues, Confirms
  <1>7. CASE \E c \in Calls: Debits(c)
    <2>1. PICK c \in Calls: Debits(c)
      BY <1>7
    <2>2. CASE Sender(c) = u
      BY <1>3, <2>1, <2>2
    <2>3. CASE Sender(c) # u
      <3>1. n1 = n + 0
        BY <1>3, <2>1, <2>3
      <3>. QED
        BY <1>0, <3>1
    <2>. QED
      BY <2>2, <2>3
  <1>. QED
    BY <1>1, <1>2, <1>4, <1>5, <1>6, <1>7 DEF MoneyStep, Idles

\* A posting call was gated, and is no more; nobody else of its sender runs.
LEMMA DebitsLeaveGate ==
  ASSUME MoneyType, OneAtATime, NEW c \in Calls, Debits(c)
  PROVE  /\ stage[c] = "gated" /\ today' = today
         /\ \A d \in Calls: Sender(d) = Sender(c) => stage'[d] \notin {"funded", "otpDue", "otpRead", "gated"}
  <1>1. /\ stage[c] = "gated" /\ today' = today /\ stage'[c] \in After
        /\ \A d \in Calls: d # c => stage'[d] = stage[d]
    BY DEF Debits, Goto, MoneyType
  <1>2. ASSUME NEW d \in Calls, Sender(d) = Sender(c), d # c
        PROVE  stage'[d] \in AtRest
    BY <1>1, <1>2 DEF OneAtATime, AtRest
  <1>. QED
    BY <1>1, <1>2 DEF After, PayoutStages, AtRest

\* Two days are of one month, or their months have no day in common.
LEMMA Months ==
  ASSUME NEW d \in 0..LastDay, NEW e \in 0..LastDay
  PROVE  /\ d \in Month(e) => Month(d) = Month(e)
         /\ d \in Month(d)
  BY DEF Month

\* The caps hold after a step: the posting call was let through for them.
LEMMA CapsStep ==
  ASSUME RowsInv, RowsInv', OneAtATime, LimitsInv, MoneyStep
  PROVE  LimitsHold'
  <1> SUFFICES ASSUME NEW u \in Users, NEW d \in 0..LastDay
               PROVE  DebitsOf(u, {d})' <= DailyLimit[u] /\ DebitsOf(u, Month(d))' <= MonthlyLimit[u]
    BY DEF LimitsHold, Month
  <1>1. DebitsOf(u, {d}) <= DailyLimit[u] /\ DebitsOf(u, Month(d)) <= MonthlyLimit[u]
    BY DEF LimitsInv, LimitsHold
  <1>2. /\ DebitsOf(u, {d}) \in Int /\ DebitsOf(u, Month(d)) \in Int
        /\ DailyLimit[u] \in Nat /\ MonthlyLimit[u] \in Nat
    BY DebitsSummable, SecurityAssumption
  <1>3. ASSUME NEW c \in Calls, Debits(c), Sender(c) = u
        PROVE  /\ today = d => DebitsOf(u, {d}) + AmountMinor(c) <= DailyLimit[u]
               /\ today \in Month(d) => DebitsOf(u, Month(d)) + AmountMinor(c) <= MonthlyLimit[u]
    <2>1. today \in 0..LastDay
      BY DEF RowsInv, MoneyType
    <2>2. stage[c] = "gated"
      BY <1>3 DEF Debits, Goto
    <2>3. /\ DebitsOf(u, {today}) + AmountMinor(c) <= DailyLimit[u]
          /\ DebitsOf(u, Month(today)) + AmountMinor(c) <= MonthlyLimit[u]
      BY <1>3, <2>2 DEF LimitsInv, Allowed
    <2>4. today \in Month(d) => Month(today) = Month(d)
      BY <2>1, Months
    <2>. QED
      BY <2>3, <2>4
  <1>4. DebitsOf(u, {d})' <= DailyLimit[u]
    BY <1>1, <1>2, <1>3, DebitsStep
  <1>5. DebitsOf(u, Month(d))' <= MonthlyLimit[u]
    BY <1>1, <1>2, <1>3, DebitsStep
  <1>. QED
    BY <1>4, <1>5


\* On a new day nothing is debited yet; its month is today's or begins.
LEMMA DebitsOfNewDay ==
  ASSUME RowsInv, NewDay, NEW u \in Users, NEW t \in 0..LastDay, NEW s, t = today, s = today'
  PROVE  /\ s \in 0..LastDay /\ DebitsOf(u, {s}) = 0
         /\ DebitsOf(u, Month(s)) = 0 \/ Month(s) = Month(t)
  <1>1. /\ t \in Nat /\ s \in Nat /\ s = t + 1 /\ s \in 0..LastDay
    BY CalendarAssumption DEF NewDay
  <1>2. ASSUME NEW id \in EntryIds
        PROVE  operations[id[1]].createdAt \in 0..LastDay /\ operations[id[1]].createdAt <= t
    <2>1. id[1] \in DOMAIN operations
      BY RowsSum, FiniteEntries
    <2>. QED
      BY <2>1 DEF RowsInv, PlainRows, MoneyType, Table, Operation
  <1>3. DebitIds(u, {s}) = {}
    BY <1>1, <1>2 DEF DebitIds
  <1>4. ASSUME NEW e \in 0..LastDay, e <= t, e \in Month(s) PROVE Month(s) = Month(t)
    <2>1. e \in Nat /\ e <= s /\ t <= s
      BY <1>1, <1>4
    <2>2. /\ e \div DaysPerMonth <= t \div DaysPerMonth /\ t \div DaysPerMonth <= s \div DaysPerMonth
          /\ e \div DaysPerMonth = s \div DaysPerMonth
          /\ e \div DaysPerMonth \in Nat /\ t \div DaysPerMonth \in Nat /\ s \div DaysPerMonth \in Nat
      BY <1>1, <1>4, <2>1, MonthOf DEF Month
    <2>3. t \div DaysPerMonth = s \div DaysPerMonth
      BY <2>2
    <2>. QED
      BY <2>3 DEF Month
  <1>5. DebitIds(u, Month(s)) = {} \/ Month(s) = Month(t)
    BY <1>2, <1>4 DEF DebitIds
  <1>. QED
    BY <1>1, <1>3, <1>5, DebitsSummable

\* What a call was let through for stays free: a day that begins frees more,
\* and nobody else spends the sender's money.
LEMMA AllowedStep ==
  ASSUME RowsInv, RowsInv', OneAtATime, LimitsInv, MoneyStep
  PROVE  Allowed'
  <1> DEFINE A == {"otpDue", "otpRead", "gated"}
  <1> SUFFICES ASSUME NEW d \in Calls, stage'[d] \in A, NEW u, u = Sender(d), NEW s, s = today'
               PROVE  /\ DebitsOf(u, {s})' + AmountMinor(d) <= DailyLimit[u]
                      /\ DebitsOf(u, Month(s))' + AmountMinor(d) <= MonthlyLimit[u]
    BY DEF Allowed, Sender, AmountMinor, Request, Month
  <1>0. u \in Users /\ AmountMinor(d) \in Nat /\ DailyLimit[u] \in Nat /\ MonthlyLimit[u] \in Nat
    BY CallKeys, DtoForm, SecurityAssumption DEF Sender, AmountMinor, Request
  <1>1. PICK t \in 0..LastDay: t = today
    BY DEF RowsInv, MoneyType
  <1>2. \A days: DebitsOf(u, days) \in Int /\ DebitsOf(u, days) >= 0
    BY DebitsSummable
  <1>3. \A days: DebitsOf(u, days)' = DebitsOf(u, days)
    <2>1. ASSUME NEW c \in Calls, Debits(c), Sender(c) = u PROVE FALSE
      BY <2>1, DebitsLeaveGate DEF RowsInv
    <2>. QED
      BY <1>0, <2>1, DebitsStep
  <1>4. stage[d] \in A =>
          DebitsOf(u, {t}) + AmountMinor(d) <= DailyLimit[u] /\ DebitsOf(u, Month(t)) + AmountMinor(d) <= MonthlyLimit[u]
    BY <1>1 DEF LimitsInv, Allowed
  <1>5. CASE Idles
    <2>1. stage[d] \in A
      BY <1>5 DEF Idles
    <2>2. CASE s = t
      BY <1>3, <1>4, <2>1, <2>2
    <2>3. CASE NewDay
      BY <1>0, <1>1, <1>2, <1>3, <1>4, <2>1, <2>3, DebitsOfNewDay
    <2>. QED
      BY <1>1, <1>5, <2>2, <2>3 DEF Idles, ExpireOtp, RequestOtp, ledgerVars
  <1>6. ASSUME NEW c \in Calls, Gates(c) \/ Debits(c) \/ Returns(c) \/ Continues(c)
        PROVE  /\ DebitsOf(u, {s})' + AmountMinor(d) <= DailyLimit[u]
               /\ DebitsOf(u, Month(s))' + AmountMinor(d) <= MonthlyLimit[u]
    <2>1. s = t
      BY <1>1, <1>6 DEF Gates, Enter, CheckBalance, EnforceLimits, ReadOtp, SaveOtp, Debits, Returns, Continues, ledgerVars
    <2>2. CASE stage[d] \in A
      BY <1>3, <1>4, <2>1, <2>2
    <2>3. CASE stage[d] \notin A
      <3>1. c = d
        BY <1>6, <2>3, OneMoves DEF RowsInv
      <3>2. CASE Debits(c) \/ Returns(c) \/ Continues(c)
        BY <3>1, <3>2 DEF Debits, Returns, Continues, Goto, RowsInv, MoneyType, After, PayoutStages
      <3>3. CASE Gates(c)
        <4>1. EnforceLimits(d)
          BY <2>3, <3>1, <3>3
          DEF Gates, Enter, CheckBalance, ReadOtp, SaveOtp, Gate, Goto, RowsInv, MoneyType
        <4>2. WithinLimits(d)
          BY <4>1 DEF EnforceLimits, Gate, Goto, RowsInv, MoneyType
        <4>3. DebitsOf(u, {t}) + AmountMinor(d) <= DailyLimit[u] /\ DebitsOf(u, Month(t)) + AmountMinor(d) <= MonthlyLimit[u]
          BY <1>0, <1>1, <4>2, SpentIsDebited DEF WithinLimits
        <4>. QED
          BY <1>3, <2>1, <4>3
      <3>. QED
        BY <1>6, <3>2, <3>3
    <2>. QED
      BY <2>2, <2>3
  <1>. QED
    BY <1>5, <1>6 DEF MoneyStep

LEMMA InitLimits == Init => LimitsInv
  <1> SUFFICES ASSUME Init PROVE LimitsInv
    OBVIOUS
  <1>1. ASSUME NEW u \in Users, NEW days PROVE DebitsOf(u, days) = 0
    <2>1. DebitIds(u, days) = {}
      BY InitCredits DEF DebitIds
    <2>. QED
      BY <2>1, MoneyInitRows, DebitsSummable
  <1>2. \A c \in Calls: stage[c] = "new"
    BY DEF Init, PayoutInit, SecurityInit
  <1>3. \A u \in Users: DailyLimit[u] >= 0 /\ MonthlyLimit[u] >= 0
    BY SecurityAssumption
  <1>. QED
    BY <1>1, <1>2, <1>3 DEF LimitsInv, LimitsHold, Allowed

\* Transfers and payouts share one daily and one monthly cap, and neither is
\* exceeded while no two calls of a sender run at once: what enforceLimits
\* found free is still free when the call posts, also when midnight passes.
THEOREM CapsAreKept ==
  ASSUME MaxInFlight = 1
  PROVE  Spec => []LimitsHold
  <1>1. RowsInv /\ OneAtATime /\ LimitsInv /\ [Next]_vars => LimitsInv'
    BY RowsStep, CapsStep, AllowedStep DEF LimitsInv
  <1>2. LimitsInv => LimitsHold
    BY DEF LimitsInv
  <1>. QED
    BY <1>1, <1>2, InitLimits, OneAtATimeHolds, RowsHold, PTL DEF Spec


-----------------------------------------------------------------------------
(* One OTP, one movement of money.                                          *)

\* A step that saves no code: rows are only added, or expire; a call that
\* holds a row has read it now or held it before.
KeepsOtps ==
  /\ \/ auditLog' = auditLog
     \/ \E e: e.action \notin OtpActions /\ auditLog' = auditLog \cup {e}
  /\ DOMAIN otpCodes \subseteq DOMAIN otpCodes'
  /\ \A id \in DOMAIN otpCodes: /\ otpCodes'[id].userId = otpCodes[id].userId
                                /\ otpCodes'[id].attempts = otpCodes[id].attempts
                                /\ otpCodes'[id].consumed = otpCodes[id].consumed
  /\ \A id \in DOMAIN otpCodes' \ DOMAIN otpCodes: otpCodes'[id].attempts = 0
  /\ \A c \in Calls:
       /\ stage[c] = "refused" => stage'[c] = "refused"
       /\ stage'[c] = "otpRead" =>
            \/ stage[c] = "otpRead" /\ seenAttempts'[c] = seenAttempts[c]
            \/ /\ OtpUsable(Request(c).otp, Sender(c))
               /\ seenAttempts'[c] = otpCodes[Request(c).otp].attempts

\* A refusal is final, and only ReadOtp makes a call hold a row.
LEMMA CallsHold ==
  ASSUME MoneyType, NEW c \in Calls,
         (\E admitted: Enter(c, admitted)) \/ CheckBalance(c) \/ EnforceLimits(c) \/ ReadOtp(c)
           \/ Debits(c) \/ Returns(c) \/ Continues(c)
  PROVE  KeepsOtps
  <1>1. otpCodes' = otpCodes
    BY DEF Enter, CheckBalance, EnforceLimits, ReadOtp, Debits, Returns, Continues
  <1>2. auditLog' = auditLog \/ \E e: e.action \notin OtpActions /\ auditLog' = auditLog \cup {e}
    <2>1. CASE EnforceLimits(c)
      <3> DEFINE e == [action |-> "security.limit_exceeded", call |-> c, target |-> NoOperation]
      <3>1. auditLog' = auditLog \/ auditLog' = auditLog \cup {e}
        BY <2>1 DEF EnforceLimits, Record
      <3>2. e.action \notin OtpActions
        BY DEF OtpActions
      <3> HIDE DEF e
      <3>. QED
        BY <3>1, <3>2
    <2>2. CASE Continues(c)
      <3>1. CASE auditLog' = auditLog
        BY <3>1
      <3>2. ASSUME NEW action, NEW target, action \notin OtpActions, Record(action, c, target)
            PROVE  \E e: e.action \notin OtpActions /\ auditLog' = auditLog \cup {e}
        <4> DEFINE e == [action |-> action, call |-> c, target |-> target]
        <4>1. e.action \notin OtpActions /\ auditLog' = auditLog \cup {e}
          BY <3>2 DEF Record
        <4> HIDE DEF e
        <4>. QED
          BY <4>1
      <3>. QED
        BY <2>2, <3>1, <3>2 DEF Continues
    <2>3. CASE (\E admitted: Enter(c, admitted)) \/ CheckBalance(c) \/ ReadOtp(c) \/ Debits(c) \/ Returns(c)
      BY <2>3 DEF Enter, CheckBalance, ReadOtp, Debits, Returns
    <2>. QED
      BY <2>1, <2>2, <2>3
  <1>3. \A d \in Calls: d # c => stage'[d] = stage[d]
    BY OneMoves DEF Gates
  <1>4. \A d \in Calls: d # c => seenAttempts'[d] = seenAttempts[d]
    BY DEF Enter, CheckBalance, EnforceLimits, ReadOtp, Debits, Returns, Continues, MoneyType
  <1>5. stage[c] # "refused"
    BY OneMoves DEF Gates, AtRest
  <1>6. stage'[c] = "otpRead" =>
          OtpUsable(Request(c).otp, Sender(c)) /\ seenAttempts'[c] = otpCodes[Request(c).otp].attempts
    <2>1. CASE ReadOtp(c)
      BY <2>1 DEF ReadOtp, Gate, Goto, MoneyType
    <2>2. CASE (\E admitted: Enter(c, admitted)) \/ CheckBalance(c) \/ EnforceLimits(c)
      BY <2>2 DEF Enter, CheckBalance, EnforceLimits, Gate, Goto, MoneyType
    <2>3. CASE Debits(c) \/ Returns(c) \/ Continues(c)
      BY <2>3 DEF Debits, Returns, Continues, Goto, MoneyType, After, PayoutStages
    <2>. QED
      BY <2>1, <2>2, <2>3
  <1>. QED
    BY <1>1, <1>2, <1>3, <1>4, <1>5, <1>6 DEF KeepsOtps

LEMMA OtpSteps ==
  ASSUME MoneyType, MoneyStep
  PROVE  KeepsOtps \/ \E c \in Calls, right \in BOOLEAN: SaveOtp(c, right)
  <1>1. CASE Idles
    <2>1. stage' = stage /\ seenAttempts' = seenAttempts /\ auditLog' = auditLog
      BY <1>1 DEF Idles
    <2>2. CASE otpCodes' = otpCodes
      BY <2>1, <2>2 DEF KeepsOtps
    <2>3. CASE \E id \in OtpIds: ExpireOtp(id)
      BY <2>1, <2>3, ExpireOtpRow DEF KeepsOtps
    <2>4. CASE \E id \in OtpIds, user \in Users, purpose \in Purposes: RequestOtp(id, user, purpose)
      BY <2>1, <2>4, RequestOtpRow DEF KeepsOtps
    <2>. QED
      BY <1>1, <2>2, <2>3, <2>4 DEF Idles
  <1>. QED
    BY <1>1, CallsHold DEF MoneyStep, Gates

\* Records that are about no OTP change nothing that is said of OTPs.
LEMMA RecordsKept ==
  ASSUME OtpRecords, KeepsOtps
  PROVE  /\ IsFiniteSet(auditLog')
         /\ \A id: VerifiedBy(id)' = VerifiedBy(id) /\ WrongCodes(id)' = WrongCodes(id)
         /\ \A e \in auditLog': e.action \in OtpActions => e \in auditLog
  <1>1. CASE auditLog' = auditLog
    BY <1>1 DEF VerifiedBy, WrongCodes, OtpRecords
  <1>2. ASSUME NEW r, r.action \notin OtpActions, auditLog' = auditLog \cup {r}
        PROVE  /\ IsFiniteSet(auditLog')
               /\ \A id: VerifiedBy(id)' = VerifiedBy(id) /\ WrongCodes(id)' = WrongCodes(id)
               /\ \A e \in auditLog': e.action \in OtpActions => e \in auditLog
    <2>1. IsFiniteSet(auditLog')
      BY <1>2, FS_AddElement DEF OtpRecords
    <2>2. ASSUME NEW id
          PROVE  /\ {f \in auditLog': f.action = "security.otp_verified" /\ f.target = id}
                      = {f \in auditLog: f.action = "security.otp_verified" /\ f.target = id}
                 /\ {f \in auditLog': f.action = "security.otp_failed" /\ f.target = id}
                      = {f \in auditLog: f.action = "security.otp_failed" /\ f.target = id}
      BY <1>2 DEF OtpActions
    <2>3. ASSUME NEW id PROVE VerifiedBy(id)' = VerifiedBy(id) /\ WrongCodes(id)' = WrongCodes(id)
      BY <2>2 DEF VerifiedBy, WrongCodes
    <2>. QED
      BY <1>2, <2>1, <2>3
  <1>. QED
    BY <1>1, <1>2 DEF KeepsOtps

\* A row nobody has recorded anything about.
LEMMA NoRecords ==
  ASSUME OtpRecords, NEW id, id \notin DOMAIN otpCodes
  PROVE  VerifiedBy(id) = {} /\ WrongCodes(id) = {}
  BY DEF OtpRecords, OtpActions, VerifiedBy, WrongCodes

LEMMA KeepsOtpInv ==
  ASSUME MoneyType, OtpInv, KeepsOtps
  PROVE  OtpInv'
  <1>1. OtpSpentOnce'
    <2> SUFFICES ASSUME NEW id \in DOMAIN otpCodes'
                 PROVE  Cardinality(VerifiedBy(id)') <= 1 /\ otpCodes'[id].attempts = Cardinality(WrongCodes(id)')
      BY DEF OtpSpentOnce
    <2>1. VerifiedBy(id)' = VerifiedBy(id) /\ WrongCodes(id)' = WrongCodes(id)
      BY RecordsKept DEF OtpInv
    <2>2. CASE id \in DOMAIN otpCodes
      BY <2>1, <2>2 DEF OtpInv, OtpSpentOnce, KeepsOtps
    <2>3. CASE id \notin DOMAIN otpCodes
      <3>1. VerifiedBy(id)' = {} /\ WrongCodes(id)' = {}
        BY <2>1, <2>3, NoRecords DEF OtpInv
      <3>. QED
        BY <2>3, <3>1, FS_EmptySet DEF KeepsOtps
    <2>. QED
      BY <2>2, <2>3
  <1>2. HoldsOtp'
    BY DEF OtpInv, HoldsOtp, KeepsOtps, OtpUsable, Request, Sender
  <1>3. OtpRecords'
    <2>1. \A id \in DOMAIN otpCodes': ~otpCodes'[id].consumed => VerifiedBy(id)' = {}
      BY RecordsKept, NoRecords DEF OtpInv, OtpRecords, KeepsOtps
    <2>2. \A e \in auditLog': e.action \in OtpActions => e.target \in DOMAIN otpCodes' /\ e.call \in Calls
      BY RecordsKept DEF OtpInv, OtpRecords, KeepsOtps
    <2>3. \A e \in auditLog': e.action = "security.otp_failed" => stage'[e.call] = "refused"
      BY RecordsKept DEF OtpInv, OtpRecords, KeepsOtps, OtpActions
    <2>. QED
      BY <2>1, <2>2, <2>3, RecordsKept DEF OtpInv, OtpRecords
  <1>. QED
    BY <1>1, <1>2, <1>3 DEF OtpInv


\* The row a call is about to save is held by no other call.
LEMMA HeldAlone ==
  ASSUME MoneyType, OneAtATime, HoldsOtp, NEW c \in Calls, NEW right \in BOOLEAN, SaveOtp(c, right),
         NEW d \in Calls, stage'[d] = "otpRead"
  PROVE  /\ stage[d] = "otpRead" /\ seenAttempts'[d] = seenAttempts[d]
         /\ Request(d).otp # Request(c).otp
  <1>1. /\ stage[c] = "otpRead" /\ stage'[c] # "otpRead"
        /\ \A e \in Calls: e # c => stage'[e] = stage[e] /\ seenAttempts'[e] = seenAttempts[e]
    BY DEF SaveOtp, Gate, Goto, MoneyType
  <1>2. Request(d).otp = Request(c).otp => Sender(d) = Sender(c)
    BY <1>1 DEF HoldsOtp
  <1>. QED
    BY <1>1, <1>2 DEF OneAtATime, AtRest

\* A code is saved: the right one is spent, the wrong one costs an attempt.
LEMMA SaveOtpInv ==
  ASSUME MoneyType, OneAtATime, OtpInv, NEW c \in Calls, NEW right \in BOOLEAN, SaveOtp(c, right)
  PROVE  OtpInv'
  <1> DEFINE id == Request(c).otp
             r == [action |-> IF right THEN "security.otp_verified" ELSE "security.otp_failed",
                   call |-> c, target |-> id]
  <1>1. /\ stage[c] = "otpRead" /\ (right \/ stage'[c] = "refused")
        /\ \A d \in Calls: d # c => stage'[d] = stage[d]
        /\ auditLog' = auditLog \cup {r}
    BY DEF SaveOtp, Gate, Goto, Record, MoneyType
  <1>2. /\ id \in DOMAIN otpCodes /\ otpCodes[id].userId = Sender(c) /\ ~otpCodes[id].consumed
        /\ seenAttempts[c] = otpCodes[id].attempts
    BY <1>1 DEF OtpInv, HoldsOtp
  <1>3. /\ DOMAIN otpCodes' = DOMAIN otpCodes
        /\ \A one \in DOMAIN otpCodes: one # id => otpCodes'[one] = otpCodes[one]
        /\ otpCodes'[id].userId = otpCodes[id].userId /\ otpCodes'[id].consumed = right
        /\ otpCodes'[id].attempts = IF right THEN otpCodes[id].attempts ELSE otpCodes[id].attempts + 1
    BY <1>2, SaveOtpRow DEF MoneyType
  <1>4. /\ r.call = c /\ r.target = id /\ r.action \in OtpActions
        /\ right => r.action = "security.otp_verified"
        /\ ~right => r.action = "security.otp_failed"
    BY DEF OtpActions
  <1>5. ASSUME NEW one \in DOMAIN otpCodes, one # id
        PROVE  VerifiedBy(one)' = VerifiedBy(one) /\ WrongCodes(one)' = WrongCodes(one)
    <2>1. {f \in auditLog': f.action = "security.otp_verified" /\ f.target = one}
            = {f \in auditLog: f.action = "security.otp_verified" /\ f.target = one}
      BY <1>1, <1>4, <1>5
    <2>2. {f \in auditLog': f.action = "security.otp_failed" /\ f.target = one}
            = {f \in auditLog: f.action = "security.otp_failed" /\ f.target = one}
      BY <1>1, <1>4, <1>5
    <2>. QED
      BY <2>1, <2>2 DEF VerifiedBy, WrongCodes
  <1>6. VerifiedBy(id) = {}
    BY <1>2 DEF OtpInv, OtpRecords
  <1>7. r \notin auditLog \/ right
    BY <1>1, <1>4 DEF OtpInv, OtpRecords
  <1>8. /\ right => VerifiedBy(id)' = {c} /\ WrongCodes(id)' = WrongCodes(id)
        /\ ~right => VerifiedBy(id)' = {} /\ WrongCodes(id)' = WrongCodes(id) \cup {r} /\ r \notin WrongCodes(id)
    <2> HIDE DEF r, id
    <2>1. \A f \in auditLog: ~(f.action = "security.otp_verified" /\ f.target = id)
      BY <1>6 DEF VerifiedBy
    <2>2. CASE right
      <3>1. {f \in auditLog': f.action = "security.otp_verified" /\ f.target = id} = {r}
        BY <1>1, <1>4, <2>1, <2>2
      <3>2. {f \in auditLog': f.action = "security.otp_failed" /\ f.target = id}
              = {f \in auditLog: f.action = "security.otp_failed" /\ f.target = id}
        BY <1>1, <1>4, <2>2
      <3>. QED
        BY <1>4, <2>2, <3>1, <3>2 DEF VerifiedBy, WrongCodes
    <2>3. CASE ~right
      <3>1. {f \in auditLog': f.action = "security.otp_verified" /\ f.target = id} = {}
        BY <1>1, <1>4, <2>1, <2>3
      <3>2. {f \in auditLog': f.action = "security.otp_failed" /\ f.target = id}
              = {f \in auditLog: f.action = "security.otp_failed" /\ f.target = id} \cup {r}
        BY <1>1, <1>4, <2>3
      <3>. QED
        BY <1>7, <2>3, <3>1, <3>2 DEF VerifiedBy, WrongCodes
    <2>. QED
      BY <2>2, <2>3
  <1>9. IsFiniteSet(auditLog') /\ IsFiniteSet(WrongCodes(id))
    <2>1. IsFiniteSet(auditLog) /\ WrongCodes(id) \subseteq auditLog
      BY DEF OtpInv, OtpRecords, WrongCodes
    <2>. QED
      BY <1>1, <2>1, FS_AddElement, FS_Subset
  <1> HIDE DEF r, id
  <1>10. HoldsOtp'
    <2> SUFFICES ASSUME NEW d \in Calls, stage'[d] = "otpRead"
                 PROVE  LET one == Request(d).otp IN
                        /\ one \in DOMAIN otpCodes' /\ otpCodes'[one].userId = Sender(d)
                        /\ ~otpCodes'[one].consumed /\ seenAttempts'[d] = otpCodes'[one].attempts
      BY DEF HoldsOtp, Request, Sender
    <2>1. stage[d] = "otpRead" /\ seenAttempts'[d] = seenAttempts[d] /\ Request(d).otp # id
      BY HeldAlone DEF OtpInv, id
    <2>. QED
      BY <1>3, <2>1 DEF OtpInv, HoldsOtp
  <1>11. OtpRecords'
    <2>1. \A e \in auditLog': e.action \in OtpActions => e.target \in DOMAIN otpCodes' /\ e.call \in Calls
      BY <1>1, <1>2, <1>3, <1>4 DEF OtpInv, OtpRecords
    <2>2. \A e \in auditLog': e.action = "security.otp_failed" => stage'[e.call] = "refused"
      BY <1>1, <1>4 DEF OtpInv, OtpRecords, OtpActions
    <2>3. \A one \in DOMAIN otpCodes': ~otpCodes'[one].consumed => VerifiedBy(one)' = {}
      BY <1>3, <1>5, <1>8 DEF OtpInv, OtpRecords
    <2>. QED
      BY <1>9, <2>1, <2>2, <2>3 DEF OtpRecords
  <1>12. OtpSpentOnce'
    <2> SUFFICES ASSUME NEW one \in DOMAIN otpCodes'
                 PROVE  Cardinality(VerifiedBy(one)') <= 1 /\ otpCodes'[one].attempts = Cardinality(WrongCodes(one)')
      BY DEF OtpSpentOnce
    <2>1. CASE one # id
      BY <1>3, <1>5, <2>1 DEF OtpInv, OtpSpentOnce
    <2>2. CASE one = id
      <3>1. Cardinality(VerifiedBy(id)') <= 1
        <4>1. Cardinality({c}) = 1 /\ Cardinality({}) = 0
          BY FS_Singleton, FS_EmptySet
        <4>2. VerifiedBy(id)' = {c} \/ VerifiedBy(id)' = {}
          BY <1>8
        <4>. QED
          BY <4>1, <4>2
      <3>2. otpCodes'[id].attempts = Cardinality(WrongCodes(id)')
        <4>1. otpCodes[id].attempts = Cardinality(WrongCodes(id))
          BY <1>2 DEF OtpInv, OtpSpentOnce
        <4>2. ~right => Cardinality(WrongCodes(id) \cup {r}) = Cardinality(WrongCodes(id)) + 1
          BY <1>8, <1>9, FS_AddElement
        <4>3. CASE right
          BY <1>3, <1>8, <4>1, <4>3
        <4>4. CASE ~right
          <5>1. WrongCodes(id)' = WrongCodes(id) \cup {r}
            BY <1>8, <4>4
          <5>2. Cardinality(WrongCodes(id)') = Cardinality(WrongCodes(id) \cup {r})
            BY <5>1
          <5>. QED
            BY <1>3, <4>1, <4>2, <4>4, <5>2
        <4>. QED
          BY <4>3, <4>4
      <3>. QED
        BY <2>2, <3>1, <3>2
    <2>. QED
      BY <2>1, <2>2
  <1>. QED
    BY <1>10, <1>11, <1>12 DEF OtpInv

LEMMA InitOtps == Init => OtpInv
  <1> SUFFICES ASSUME Init PROVE OtpInv
    OBVIOUS
  <1>1. DOMAIN otpCodes = {} /\ auditLog = {} /\ \A c \in Calls: stage[c] = "new"
    BY DEF Init, PayoutInit, SecurityInit
  <1>. QED
    BY <1>1, FS_EmptySet DEF OtpInv, HoldsOtp, OtpRecords, OtpSpentOnce

\* While no two calls of a user run at once, an OTP lets at most one call
\* through to the money, whichever days pass and whichever calls die, and its
\* attempts are exactly the wrong codes that were recorded.
THEOREM OtpsAreSpentOnce ==
  ASSUME MaxInFlight = 1
  PROVE  Spec => []OtpSpentOnce
  <1>1. RowsInv /\ OneAtATime /\ OtpInv /\ [Next]_vars => OtpInv'
    BY RowsStep, OtpSteps, KeepsOtpInv, SaveOtpInv DEF RowsInv
  <1>2. OtpInv => OtpSpentOnce
    BY DEF OtpInv
  <1>. QED
    BY <1>1, <1>2, InitOtps, OneAtATimeHolds, RowsHold, PTL DEF Spec
=============================================================================
