-------------------------------- MODULE Topup --------------------------------
(***************************************************************************)
(* Top-up (modules/topup/topup.service.ts): initiate asks MonCash for a    *)
(* payment and hands its URL to the client, a BullMQ job asks again when   *)
(* MonCash was unavailable, and MonCash's webhook credits the ledger under *)
(* the payment's reference. Each await on the database, the queue or       *)
(* MonCash ends a step; a handler keeps the row object it loaded and saves *)
(* all of it.                                                              *)
(*                                                                         *)
(* MonCash and BullMQ are outside the repository. MonCash notifies every   *)
(* outcome until a delivery is acknowledged, and may deliver it again      *)
(* after that, in any order (docs/topup.md).                               *)
(***************************************************************************)
EXTENDS Ledger

CONSTANTS MonCashFloat,   \* the system account moncash_float
          Topups,         \* topup_transactions rows that may be created
          Owner,          \* topup -> the user's wallet account
          AmountMinor,    \* topup -> amount
          Attempts,       \* attempts of the retry job: 5 in the code
          References,     \* topup -> references MonCash may give its payment
          Deliveries,     \* webhook requests in flight at once
          MaxDeaths       \* bound: handlers and job runs that die half-way

AllReferences == UNION {References[t]: t \in Topups}
NoReference == <<>>

ASSUME TopupAssumption ==
  /\ MonCashFloat \in Accounts
  /\ Owner \in [Topups -> Accounts \ {MonCashFloat}]
  /\ AmountMinor \in [Topups -> Nat \ {0}]
  /\ "HTG" \in Currencies
  /\ Attempts \in Nat \ {0} /\ MaxDeaths \in Nat
  /\ References \in [Topups -> SUBSET AllReferences]
  /\ \A s, t \in Topups: s # t => References[s] \cap References[t] = {}
  /\ NoReference \notin AllReferences

VARIABLES topups,       \* topup_transactions: topup -> [status, reference, operation]
          tasks,        \* topup -> [stage, row, attemptsMade, stalls]: its initiate
                        \* handler, then its retry job, and the row object in hand
          webhooks,     \* request in flight -> [stage, topup, row, report]
          payments,     \* MonCash: reference -> "open", "completed" or "failed"
          urls,         \* references whose gateway URL the client was given
          reports,      \* MonCash: outcomes <<reference, status>> to notify
          acknowledged, \* MonCash: outcomes answered with a 2xx
          deaths        \* handlers and job runs that died

taskVars == <<topups, tasks>>
webhookVars == <<webhooks, acknowledged>>
monCashVars == <<payments, reports>>
vars == <<ledgerVars, taskVars, webhookVars, monCashVars, urls, deaths>>

TopupRow ==
  [status: {"pending", "completed", "failed"},
   reference: AllReferences \cup {NoReference},
   operation: AllReferences \cup {NoOperation}]
NewRow == [status |-> "pending", reference |-> NoReference, operation |-> NoOperation]

Reports == AllReferences \X {"completed", "failed"}
RowsWith(reference) == {t \in DOMAIN topups: topups[t].reference = reference}

Init ==
  /\ LedgerInit
  /\ topups = <<>>
  /\ tasks = [t \in Topups |-> [stage |-> "none", row |-> NewRow, attemptsMade |-> 0, stalls |-> 0]]
  /\ webhooks = <<>> /\ payments = <<>>
  /\ urls = {} /\ reports = {} /\ acknowledged = {} /\ deaths = 0

-----------------------------------------------------------------------------
(* Steps of a task: the handler of initiate, or a run of the retry job. *)

Goto(t, from, to, row) ==
  /\ tasks[t].stage = from
  /\ tasks' = [tasks EXCEPT ![t].stage = to, ![t].row = row]
  /\ UNCHANGED <<ledgerVars, webhookVars, reports, deaths>>

\* Mutant of CreatePayment: the client gets the URL as soon as MonCash answers.
CreatePaymentAnswering(t, from, to) ==
  \E reference \in References[t]:
    /\ Goto(t, from, to, [tasks[t].row EXCEPT !.reference = reference])
    /\ payments' = IF reference \in DOMAIN payments THEN payments ELSE Insert(payments, reference, "open")
    /\ urls' = urls \cup {reference}
    /\ UNCHANGED topups

\* MonCash answers with the reference of the order's payment, the one it has
\* or a new one.
CreatePayment(t, from, to) ==
  \E reference \in References[t]:
    /\ Goto(t, from, to, [tasks[t].row EXCEPT !.reference = reference])
    /\ payments' = IF reference \in DOMAIN payments THEN payments ELSE Insert(payments, reference, "open")
    /\ UNCHANGED <<topups, urls>>

\* MonCashUnavailableError: refused, out of reach, late or unreadable. The
\* payment may have been opened all the same.
PaymentUnavailable(t) ==
  \/ UNCHANGED payments
  \/ \E reference \in References[t] \ DOMAIN payments: payments' = Insert(payments, reference, "open")

\* transactions.save of the row object.
SaveRow(t, from, to) ==
  /\ Goto(t, from, to, tasks[t].row)
  /\ topups' = [topups EXCEPT ![t] = tasks[t].row]
  /\ UNCHANGED <<payments, urls>>

-----------------------------------------------------------------------------
(* TopupService.initiate. *)

\* The PENDING row is saved; its audit row is the rest of the step.
CreateRow(t) ==
  /\ Goto(t, "none", "created", NewRow)
  /\ topups' = Insert(topups, t, NewRow)
  /\ UNCHANGED <<payments, urls>>

MonCashUnavailable(t) ==
  /\ Goto(t, "created", "declined", tasks[t].row)
  /\ PaymentUnavailable(t) /\ UNCHANGED <<topups, urls>>

\* The client gets the gateway URL.
AnswerUrl(t) ==
  /\ Goto(t, "saved", "answered", tasks[t].row)
  /\ urls' = urls \cup {tasks[t].row.reference}
  /\ UNCHANGED <<topups, payments>>

\* retryQueue.add; the client gets no URL.
QueueRetry(t) ==
  Goto(t, "declined", "waiting", tasks[t].row) /\ UNCHANGED <<topups, payments, urls>>

Initiate(t) ==
  \/ CreatePayment(t, "created", "referred")
  \/ SaveRow(t, "referred", "saved")
  \/ AnswerUrl(t)
  \/ MonCashUnavailable(t)
  \/ QueueRetry(t)

-----------------------------------------------------------------------------
(* TopupService.retryInitiation, one run of the job per attempt. *)

\* Mutant of LoadRow: a row that has its reference already is asked for again.
LoadPending(t) ==
  /\ Goto(t, "waiting", IF topups[t].status = "pending" THEN "loaded" ELSE "done", topups[t])
  /\ UNCHANGED <<topups, payments, urls>>

\* A row that is decided, or has its reference, is left alone.
LoadRow(t) ==
  /\ Goto(t, "waiting",
       IF topups[t].status = "pending" /\ topups[t].reference = NoReference THEN "loaded" ELSE "done",
       topups[t])
  /\ UNCHANGED <<topups, payments, urls>>

\* Mutant of IsFinalAttempt: off by one.
IsPastAttempts(t) == tasks[t].attemptsMade >= Attempts

IsFinalAttempt(t) == tasks[t].attemptsMade + 1 >= Attempts

\* BullMQ runs a job that threw again while it has attempts left.
Rethrown(t) ==
  tasks' = [tasks EXCEPT ![t].attemptsMade = @ + 1,
                         ![t].stage = IF tasks[t].attemptsMade + 1 < Attempts THEN "waiting" ELSE "lost"]

\* MonCash is unavailable, or the save of its reference fails: the run throws,
\* but the final run gives up.
RetryFails(t) ==
  /\ \/ tasks[t].stage = "loaded" /\ PaymentUnavailable(t)
     \/ tasks[t].stage = "retried" /\ UNCHANGED payments
  /\ IF IsFinalAttempt(t)
     THEN Goto(t, tasks[t].stage, "givingUp", [tasks[t].row EXCEPT !.status = "failed"])
     ELSE Rethrown(t) /\ UNCHANGED <<ledgerVars, webhookVars, reports, deaths>>
  /\ UNCHANGED <<topups, urls>>

\* The failure is audited, and BullMQ removes the job.
RetryReturns(t) ==
  Goto(t, "finished", "done", tasks[t].row) /\ UNCHANGED <<topups, payments, urls>>

\* The gateway URL that MonCash answers with is not kept.
Retry(t) ==
  \/ LoadRow(t)
  \/ CreatePayment(t, "loaded", "retried")
  \/ SaveRow(t, "retried", "finished")
  \/ RetryFails(t)
  \/ SaveRow(t, "givingUp", "finished")
  \/ RetryReturns(t)

-----------------------------------------------------------------------------
(* TopupService.handleWebhook, for notifications whose signature is right. *)

Finished(d) == [e \in DOMAIN webhooks \ {d} |-> webhooks[e]]

\* Mutant of Receive: the status of the notification is not looked at.
ReceiveAsPaid(d, report) ==
  /\ report \in reports /\ d \notin DOMAIN webhooks
  /\ \E t \in RowsWith(report[1]):
       webhooks' = Insert(webhooks, d,
         [stage |-> "crediting", topup |-> t, row |-> topups[t], report |-> report])
  /\ UNCHANGED <<ledgerVars, taskVars, acknowledged, monCashVars, urls, deaths>>

\* The row is looked up by reference; a reference nobody has is acknowledged.
Receive(d, report) ==
  /\ report \in reports /\ d \notin DOMAIN webhooks
  /\ \/ /\ RowsWith(report[1]) = {}
        /\ acknowledged' = acknowledged \cup {report}
        /\ UNCHANGED webhooks
     \/ \E t \in RowsWith(report[1]):
          /\ webhooks' = Insert(webhooks, d,
               [stage |-> IF report[2] = "failed" THEN "failing" ELSE "crediting",
                topup |-> t, row |-> topups[t], report |-> report])
          /\ UNCHANGED acknowledged
  /\ UNCHANGED <<ledgerVars, taskVars, monCashVars, urls, deaths>>

CreditLeg(account, n) ==
  [account |-> account, direction |-> "credit", amountMinor |-> n, currency |-> "HTG"]
DebitLeg(account, n) ==
  [account |-> account, direction |-> "debit", amountMinor |-> n, currency |-> "HTG"]

\* Save the row object with what the notification makes of it, and answer.
SaveAndAcknowledge(d, row) ==
  /\ topups' = [topups EXCEPT ![webhooks[d].topup] = row]
  /\ webhooks' = Finished(d)
  /\ acknowledged' = acknowledged \cup {webhooks[d].report}
  /\ UNCHANGED <<ledgerVars, tasks, monCashVars, urls, deaths>>

FailTopup(d) ==
  /\ webhooks[d].stage = "failing"
  /\ SaveAndAcknowledge(d, [webhooks[d].row EXCEPT !.status = "failed"])

\* Mutant of CreditWallet: a type the table does not know.
CreditMonCash(d) ==
  LET t == webhooks[d].topup IN
  /\ webhooks[d].stage = "crediting"
  /\ PostOperation(webhooks[d].report[1], "moncash", "completed",
       <<CreditLeg(Owner[t], AmountMinor[t]), DebitLeg(MonCashFloat, AmountMinor[t])>>)
  /\ webhooks' = [webhooks EXCEPT ![d].stage = "credited"]
  /\ UNCHANGED <<today, taskVars, acknowledged, monCashVars, urls, deaths>>

CreditWallet(d) ==
  LET t == webhooks[d].topup IN
  /\ webhooks[d].stage = "crediting"
  /\ PostOperation(webhooks[d].report[1], "topup", "completed",
       <<CreditLeg(Owner[t], AmountMinor[t]), DebitLeg(MonCashFloat, AmountMinor[t])>>)
  /\ webhooks' = [webhooks EXCEPT ![d].stage = "credited"]
  /\ UNCHANGED <<today, taskVars, acknowledged, monCashVars, urls, deaths>>

\* Mutant of CompleteTopup: the row is saved before the wallet is credited.
CompleteFirst(d) ==
  /\ webhooks[d].stage = "crediting"
  /\ SaveAndAcknowledge(d, [webhooks[d].row EXCEPT !.status = "completed",
                                                   !.operation = webhooks[d].report[1]])

CompleteTopup(d) ==
  /\ webhooks[d].stage = "credited"
  /\ SaveAndAcknowledge(d, [webhooks[d].row EXCEPT !.status = "completed",
                                                   !.operation = webhooks[d].report[1]])

-----------------------------------------------------------------------------
(* MonCash, and what dies. *)

Notify(reference, status) ==
  /\ payments' = [payments EXCEPT ![reference] = status]
  /\ reports' = reports \cup {<<reference, status>>}
  /\ UNCHANGED <<ledgerVars, taskVars, webhookVars, urls, deaths>>

\* The client pays through the URL, perhaps on a second try.
Pay(reference) ==
  /\ reference \in urls /\ payments[reference] \in {"open", "failed"}
  /\ Notify(reference, "completed")

\* The payment is refused, or nobody pays it in time.
Decline(reference) ==
  /\ reference \in DOMAIN payments /\ payments[reference] = "open"
  /\ Notify(reference, "failed")

\* A query fails or the process stops. BullMQ runs a stalled job once more,
\* then fails it.
TaskDies(t) ==
  /\ \/ /\ tasks[t].stage \in {"created", "referred", "declined", "saved"}
        /\ tasks' = [tasks EXCEPT ![t].stage = "dead"]
     \/ /\ tasks[t].stage \in {"loaded", "retried", "givingUp", "finished"}
        /\ tasks' = [tasks EXCEPT ![t] =
             [@ EXCEPT !.stage = IF tasks[t].stalls = 0 THEN "waiting" ELSE "lost", !.stalls = 1]]
     \/ tasks[t].stage \in {"waiting", "givingUp"} /\ Rethrown(t)
  /\ UNCHANGED <<ledgerVars, topups, webhookVars, monCashVars, urls>>

WebhookDies(d) ==
  /\ webhooks' = Finished(d)
  /\ UNCHANGED <<ledgerVars, taskVars, acknowledged, monCashVars, urls>>

Dies ==
  /\ deaths < MaxDeaths /\ deaths' = deaths + 1
  /\ \/ \E t \in Topups: TaskDies(t)
     \/ \E d \in DOMAIN webhooks: WebhookDies(d)

HandleWebhook(d) == d \in DOMAIN webhooks /\ (FailTopup(d) \/ CreditWallet(d) \/ CompleteTopup(d))

Next ==
  \/ \E t \in Topups: CreateRow(t) \/ Initiate(t) \/ Retry(t)
  \/ \E d \in Deliveries: HandleWebhook(d) \/ \E report \in reports: Receive(d, report)
  \/ \E reference \in DOMAIN payments: Pay(reference) \/ Decline(reference)
  \/ Dies

Spec == Init /\ [][Next]_vars

\* Handlers and jobs that have begun go on; a notification that is not
\* acknowledged is delivered again, and some delivery of it gets through.
FairSpec ==
  /\ Spec
  /\ \A t \in Topups: WF_vars(Initiate(t)) /\ WF_vars(Retry(t))
  /\ \A d \in Deliveries: WF_vars(HandleWebhook(d))
  /\ \A report \in Reports:
       SF_vars(report \notin acknowledged /\ \E d \in Deliveries: Receive(d, report))

-----------------------------------------------------------------------------
TopupTypeOK ==
  /\ DOMAIN operations \subseteq AllReferences
  /\ operations \in [DOMAIN operations -> Operation(AllReferences)]
  /\ DOMAIN topups \subseteq Topups /\ topups \in [DOMAIN topups -> TopupRow]
  /\ tasks \in [Topups ->
       [stage: {"none", "created", "declined", "referred", "saved", "answered", "dead",
                "waiting", "loaded", "retried", "givingUp", "finished", "done", "lost"},
        row: TopupRow, attemptsMade: 0..Attempts, stalls: 0..1]]
  /\ DOMAIN webhooks \subseteq Deliveries
  /\ webhooks \in [DOMAIN webhooks -> [stage: {"failing", "crediting", "credited"},
                     topup: Topups, row: TopupRow, report: Reports]]
  /\ DOMAIN payments \subseteq AllReferences
  /\ payments \in [DOMAIN payments -> {"open", "completed", "failed"}]
  /\ urls \subseteq AllReferences /\ reports \subseteq Reports /\ acknowledged \subseteq reports
  /\ today \in 0..LastDay /\ deaths \in 0..MaxDeaths

\* The wallet of a top-up's owner is credited with its amount, only when
\* MonCash completed a payment of it, and once, however MonCash is asked
\* again and its notifications are repeated, reordered or cut short.
CreditedOncePaid ==
  \A t \in Topups:
    LET credits == DOMAIN operations \cap References[t] IN
    /\ \A k \in credits:
         /\ payments[k] = "completed"
         /\ operations[k].entries[1].account = Owner[t]
         /\ operations[k].entries[1].amountMinor = AmountMinor[t]
    /\ \A j, k \in credits: j = k

\* A row says completed only when the operation it names has credited it.
CompletedMeansCredited ==
  \A t \in DOMAIN topups:
    topups[t].status = "completed" =>
      topups[t].operation \in References[t] \cap DOMAIN operations

\* A row keeps the reference MonCash knows it by, and a completed row stays as
\* it is unless MonCash has reported that payment failed too: no handler that
\* loaded the row before saves its copy over it.
RowsKeepWhatWasPaid ==
  [][\A t \in DOMAIN topups:
       LET row == topups[t] IN
       /\ row.reference # NoReference => topups'[t].reference = row.reference
       /\ row.status = "completed" /\ <<row.reference, "failed">> \notin reports => topups'[t] = row]_vars

\* What the client paid reaches the wallet, and its row is decided, whichever
\* deliveries die: no notification of it is taken for an unknown reference.
PaidIsCredited ==
  \A t \in Topups: \A reference \in References[t]:
    reference \in DOMAIN payments /\ payments[reference] = "completed" ~>
      reference \in DOMAIN operations /\ t \in DOMAIN topups /\ topups[t].status # "pending"

\* A queued initiation ends with a reference or with a failed row, unless
\* something died.
QueuedIsDecided ==
  \A t \in Topups:
    tasks[t].stage = "waiting" ~>
      \/ t \in DOMAIN topups /\ (topups[t].reference # NoReference \/ topups[t].status = "failed")
      \/ deaths > 0

-----------------------------------------------------------------------------
(* What the repository says and the code does not keep.                      *)

\* TopupStatus.PENDING: "MonCash payment created, waiting on the webhook
\* confirmation"; docs/release.md takes a queued deposit for one the client
\* has paid. So a pending row with a reference, its initiation or its job over,
\* is one the client can pay.
PendingCanBePaid ==
  \A t \in DOMAIN topups:
    /\ topups[t].status = "pending" /\ topups[t].reference # NoReference
    /\ tasks[t].stage \in {"answered", "done"}
    => topups[t].reference \in urls
=============================================================================
