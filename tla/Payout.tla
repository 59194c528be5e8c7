------------------------------- MODULE Payout -------------------------------
(***************************************************************************)
(* PayoutService.initiate (modules/payout/payout.service.ts): reserve the  *)
(* money on the ledger, ask MonCash to pay, then confirm the reservation   *)
(* or reverse it, and keep the outcome in payout_transactions. Concurrent  *)
(* and repeated calls, calls that die half-way, MonCash as it may answer.  *)
(*                                                                         *)
(* MonCash is outside the repository. createPayout carries the reserve     *)
(* operation's id as orderId, and MonCash is taken at the word of the      *)
(* comment at payout.service.ts:115: it pays one orderId at most once.     *)
(***************************************************************************)
EXTENDS Security

CONSTANTS MaxPayout,         \* PAYOUT_MAX_AMOUNT_HTG, in minor units
          UncertainAnswers   \* TRUE: an unanswered createPayout may still be executed

ASSUME PayoutAssumption == MaxPayout \in Nat /\ UncertainAnswers \in BOOLEAN

VARIABLES payouts,           \* payout_transactions: reserve operation -> [status, reversal]
          monCashPaid,       \* orderIds MonCash has paid out
          monCashUncertain   \* orderIds sent, not answered, that MonCash may yet pay

payoutVars == <<payouts, monCashPaid, monCashUncertain>>
vars == <<ledgerVars, securityVars, payoutVars>>

ReserveKey(r) == <<"payout-reserve", r>>
ReversalKey(r) == <<"payout-reversal", r>>
Order(c) == ReserveKey(RequestOf[c])
Reversal(c) == ReversalKey(RequestOf[c])

PayoutStages == {"replayed", "paying", "paid", "confirmed", "recorded", "audited", "completed",
                 "declined", "reversed", "recordedFailure", "failed", "error"}

PayoutInit ==
  SecurityInit /\ payouts = <<>> /\ monCashPaid = {} /\ monCashUncertain = {}

-----------------------------------------------------------------------------
StartPayout(c) ==
  /\ Enter(c, AmountMinor(c) <= MaxPayout)
  /\ UNCHANGED payoutVars

\* Mutant of Reserve: no status given, so completed.
ReserveCompleted(c) ==
  /\ Goto(c, "gated", IF Posted(Order(c)) THEN "replayed" ELSE "paying")
  /\ PostOperation(Order(c), "payout", "completed",
       <<Debit(Sender(c), AmountMinor(c)), Credit(MonCashFloat, AmountMinor(c))>>)
  /\ UNCHANGED <<today, otpCodes, seenAttempts, auditLog, payoutVars>>

\* Debit the wallet under the request's key, before MonCash knows anything.
Reserve(c) ==
  /\ Goto(c, "gated", IF Posted(Order(c)) THEN "replayed" ELSE "paying")
  /\ PostOperation(Order(c), "payout", "pending",
       <<Debit(Sender(c), AmountMinor(c)), Credit(MonCashFloat, AmountMinor(c))>>)
  /\ UNCHANGED <<today, otpCodes, seenAttempts, auditLog, payoutVars>>

\* Mutant of FindOutcome: any recorded outcome is answered as a success.
FindSuccess(c) ==
  /\ Goto(c, "replayed", IF Order(c) \in DOMAIN payouts THEN "completed" ELSE "paying")
  /\ UNCHANGED <<ledgerVars, otpCodes, seenAttempts, auditLog, payoutVars>>

\* The reservation existed already: answer with its recorded outcome, or, if
\* no outcome was recorded, go on to MonCash again.
FindOutcome(c) ==
  /\ Goto(c, "replayed", IF Order(c) \in DOMAIN payouts THEN payouts[Order(c)].status ELSE "paying")
  /\ UNCHANGED <<ledgerVars, otpCodes, seenAttempts, auditLog, payoutVars>>

\* createPayout returns MonCash's reference: the order is paid.
MonCashPays(c) ==
  /\ Goto(c, "paying", "paid")
  /\ monCashPaid' = monCashPaid \cup {Order(c)}
  /\ UNCHANGED <<ledgerVars, otpCodes, seenAttempts, auditLog, payouts, monCashUncertain>>

\* createPayout throws MonCashUnavailableError: refusal, outage, 10 s timeout
\* or an unreadable answer, all alike to the caller.
MonCashUnavailable(c) ==
  /\ Goto(c, "paying", "declined")
  /\ monCashUncertain' = IF UncertainAnswers THEN monCashUncertain \cup {Order(c)} ELSE monCashUncertain
  /\ UNCHANGED <<ledgerVars, otpCodes, seenAttempts, auditLog, payouts, monCashPaid>>

\* MonCash executes an order whose caller got no answer.
MonCashPaysUnanswered(order) ==
  /\ order \in monCashUncertain
  /\ monCashPaid' = monCashPaid \cup {order}
  /\ monCashUncertain' = monCashUncertain \ {order}
  /\ UNCHANGED <<ledgerVars, securityVars, payouts>>

\* Mutant of Confirm: forgotten.
ConfirmNothing(c) ==
  /\ Goto(c, "paid", "confirmed")
  /\ UNCHANGED <<ledgerVars, otpCodes, seenAttempts, auditLog, payoutVars>>

Confirm(c) ==
  /\ Goto(c, "paid", "confirmed")
  /\ ConfirmOperation(Order(c))
  /\ UNCHANGED <<today, otpCodes, seenAttempts, auditLog, payoutVars>>

\* Mutant of SaveOutcome: an upsert.
SaveOutcomeUpsert(c, from, to, row) ==
  /\ Goto(c, from, to)
  /\ payouts' = Insert(payouts, Order(c), row)
  /\ UNCHANGED <<ledgerVars, otpCodes, seenAttempts, auditLog, monCashPaid, monCashUncertain>>

\* Insert the payout_transactions row; its operationId is UNIQUE, a second
\* row for the reservation makes the call fail with a 500.
SaveOutcome(c, from, to, row) ==
  /\ IF Order(c) \in DOMAIN payouts
     THEN Goto(c, from, "error") /\ UNCHANGED payouts
     ELSE Goto(c, from, to) /\ payouts' = Insert(payouts, Order(c), row)
  /\ UNCHANGED <<ledgerVars, otpCodes, seenAttempts, auditLog, monCashPaid, monCashUncertain>>

SaveCompleted(c) ==
  SaveOutcome(c, "confirmed", "recorded", [status |-> "completed", reversal |-> NoOperation])

AuditCompleted(c) ==
  /\ Goto(c, "recorded", "audited")
  /\ Record("payout.completed", c, Order(c))
  /\ UNCHANGED <<ledgerVars, otpCodes, seenAttempts, payoutVars>>

\* Notification and fraud evaluation, then the answer.
AnswerCompleted(c) ==
  /\ Goto(c, "audited", "completed")
  /\ UNCHANGED <<ledgerVars, otpCodes, seenAttempts, auditLog, payoutVars>>

\* reverseOperation under the request's reversal key. If that key is taken
\* the transaction aborts and the call fails with a 500.
Reverse(c) ==
  /\ IF Posted(Reversal(c))
     THEN Goto(c, "declined", "error") /\ UNCHANGED operations
     ELSE Goto(c, "declined", "reversed") /\ ReverseOperation(Order(c), Reversal(c))
  /\ UNCHANGED <<today, otpCodes, seenAttempts, auditLog, payoutVars>>

\* Mutants of SaveFailed: the ledger's status instead of the payout's; the row
\* before the reversal.
SaveReversed(c) ==
  SaveOutcome(c, "reversed", "recordedFailure", [status |-> "reversed", reversal |-> Reversal(c)])
SaveFailedFirst(c) ==
  SaveOutcome(c, "declined", "recordedFailure", [status |-> "failed", reversal |-> Reversal(c)])

SaveFailed(c) ==
  SaveOutcome(c, "reversed", "recordedFailure", [status |-> "failed", reversal |-> Reversal(c)])

AnswerFailed(c) ==
  /\ Goto(c, "recordedFailure", "failed")
  /\ Record("payout.failed", c, Order(c))
  /\ UNCHANGED <<ledgerVars, otpCodes, seenAttempts, payoutVars>>

PayoutStep(c) ==
  \/ Reserve(c) \/ FindOutcome(c)
  \/ MonCashPays(c) \/ MonCashUnavailable(c)
  \/ Confirm(c) \/ SaveCompleted(c) \/ AuditCompleted(c) \/ AnswerCompleted(c)
  \/ Reverse(c) \/ SaveFailed(c) \/ AnswerFailed(c)

PayoutCalls == {c \in Calls: Request(c).kind = "payout"}

PayoutNext ==
  \/ \E c \in PayoutCalls:
       \/ StartPayout(c) \/ PayoutStep(c)
       \/ (GateStep(c) \/ Abort(c)) /\ UNCHANGED payoutVars
  \/ \E order \in monCashUncertain: MonCashPaysUnanswered(order)
  \/ Surroundings /\ UNCHANGED payoutVars

PayoutSpec == PayoutInit /\ [][PayoutNext]_vars

\* A handler that has begun goes on: Node resumes it when its query or its
\* MonCash request (at most 10 s) returns. Clients, codes and days owe nothing.
Advance(c) == PayoutStep(c) \/ (GateStep(c) /\ UNCHANGED payoutVars)
FairPayoutSpec == PayoutSpec /\ \A c \in PayoutCalls: WF_vars(Advance(c))

-----------------------------------------------------------------------------
(* What holds of every payout, however calls overlap, repeat and die. *)

PayoutKeys == {ReserveKey(r): r \in Requests} \cup {ReversalKey(r): r \in Requests}
                \cup {TopupKey(u): u \in Users}

PayoutTypeOK ==
  /\ DOMAIN operations \subseteq PayoutKeys
  /\ operations \in [DOMAIN operations -> Operation(PayoutKeys)]
  /\ today \in 0..LastDay
  /\ stage \in [Calls -> GateStages \cup PayoutStages]
  /\ seenAttempts \in [Calls -> 0..(MaxAttempts - 1)]
  /\ DOMAIN otpCodes \subseteq OtpIds
  /\ otpCodes \in [DOMAIN otpCodes -> OtpRow]
  /\ DOMAIN payouts \subseteq {ReserveKey(r): r \in Requests}
  /\ payouts \in [DOMAIN payouts -> [status: {"completed", "failed"},
                                     reversal: PayoutKeys \cup {NoOperation}]]
  /\ monCashPaid \subseteq {ReserveKey(r): r \in Requests}
  /\ monCashUncertain \subseteq {ReserveKey(r): r \in Requests}

\* A reservation is confirmed, and a row says completed, only when MonCash has
\* paid; a row says failed only when the money is back on the wallet, by the
\* very operation the row names.
RowsTellTheTruth ==
  \A order \in DOMAIN operations:
    /\ operations[order].type = "payout" /\ operations[order].status = "completed" => order \in monCashPaid
    /\ order \in DOMAIN payouts =>
         IF payouts[order].status = "completed" THEN order \in monCashPaid
         ELSE /\ operations[order].status = "reversed"
              /\ payouts[order].reversal \in DOMAIN operations
              /\ operations[payouts[order].reversal].reversalOf = order

\* What the caller is told is what was recorded, for a first call and for a
\* repeated one alike.
AnswersMatchRows ==
  \A c \in PayoutCalls:
    stage[c] \in {"completed", "failed"} =>
      Order(c) \in DOMAIN payouts /\ payouts[Order(c)].status = stage[c]

\* The wallet is out by the amount while the reservation stands and by nothing
\* once it is reversed: no repetition debits twice or refunds twice.
Moved(r) ==
  LET ids == {id \in EntryIds: /\ id[1] \in {ReserveKey(r), ReversalKey(r)}
                               /\ Entry(id).account = Dto[r].sender}
  IN  SumFunction([id \in ids |-> Signed(Entry(id))])
DebitedOnceOrMadeWhole ==
  \A r \in Requests:
    Moved(r) = IF Posted(ReserveKey(r)) /\ operations[ReserveKey(r)].status # "reversed"
               THEN -Dto[r].amountMinor ELSE 0

\* An outcome once recorded never changes, and a reversal is never taken back.
OutcomesAreFinal ==
  [][/\ \A order \in DOMAIN payouts: order \in DOMAIN payouts' /\ payouts'[order] = payouts[order]
     /\ \A k \in DOMAIN operations:
          operations[k].status = "reversed" => operations'[k].status = "reversed"]_vars

-----------------------------------------------------------------------------
(* What holds when every request is sent once and MonCash's refusals are  *)
(* definitive; calls may still die half-way and overlap with other         *)
(* requests.                                                               *)

\* Money MonCash has paid out stays debited: no payout is free.
NoFreePayout == \A order \in monCashPaid: Posted(order) /\ operations[order].status # "reversed"

\* The two records of an outcome agree: the row and the reservation.
RowAgreesWithLedger ==
  \A order \in DOMAIN payouts:
    operations[order].status = IF payouts[order].status = "completed" THEN "completed" ELSE "reversed"

\* The reservation's status as a phase of the promise, MonCash's payments as
\* its payments: under the same conditions the protocol implements it.
Phase(r) ==
  CASE ~Posted(ReserveKey(r)) -> "none"
    [] Posted(ReserveKey(r)) /\ operations[ReserveKey(r)].status = "pending" -> "held"
    [] Posted(ReserveKey(r)) /\ operations[ReserveKey(r)].status = "completed" -> "spent"
    [] OTHER -> "returned"
Promise == INSTANCE PayoutPromise WITH
  phase <- [r \in Requests |-> Phase(r)],
  paidOut <- {r \in Requests: ReserveKey(r) \in monCashPaid}
ImplementsPromise == Promise!Spec

-----------------------------------------------------------------------------
(* What must happen. *)

\* Every reservation is decided, unless a call died: nothing else takes it up.
SomeCallDied == \E c \in PayoutCalls: stage[c] = "aborted"
ReservationsResolve ==
  \A r \in Requests:
    Posted(ReserveKey(r)) ~>
      \/ Posted(ReserveKey(r)) /\ operations[ReserveKey(r)].status # "pending"
      \/ SomeCallDied

-----------------------------------------------------------------------------
(* What the repository says of a payout and the code does not keep; a run   *)
(* shows how, refusals being definitive there.                              *)

\* payout.service.ts, on a reservation found without a row: asking MonCash
\* again "is safe only because MonCash's own idempotency on orderId is
\* assumed". So, with that idempotency, a payout that ends completed has not
\* been refunded.
RetriedPayoutIsSafe ==
  \A order \in DOMAIN payouts:
    payouts[order].status = "completed" => operations[order].status # "reversed"

=============================================================================
