---------------------------- MODULE TopupProofs ----------------------------
(***************************************************************************)
(* Theorems about top-ups for any number of orders, references, deliveries *)
(* and deaths, and any number of attempts of the retry job.                *)
(***************************************************************************)
EXTENDS Topup, LedgerProofs, TLAPS

-----------------------------------------------------------------------------
(* Type correctness. *)

\* Attempts left for a job that may still throw.
AttemptsLeft ==
  \A t \in Topups:
    tasks[t].stage \in {"waiting", "loaded", "retried", "givingUp"} => tasks[t].attemptsMade < Attempts
\* The initiate handler counts no attempts.
NoAttemptsYet ==
  \A t \in Topups:
    tasks[t].stage \in {"none", "created", "declined", "referred", "saved"} => tasks[t].attemptsMade = 0
FinishedInTime ==
  \A t \in Topups: tasks[t].stage = "finished" => tasks[t].attemptsMade < Attempts
\* A reference about to be saved or answered is one of the order's.
HoldsReference ==
  \A t \in Topups:
    tasks[t].stage \in {"referred", "saved", "retried"} => tasks[t].row.reference \in References[t]
\* A task that has begun has its row.
RowsExist == \A t \in Topups: tasks[t].stage # "none" => t \in DOMAIN topups
\* A delivery carries an outcome MonCash notified.
Notified == \A d \in DOMAIN webhooks: webhooks[d].report \in reports
TypeInv ==
  /\ TopupTypeOK /\ AttemptsLeft /\ NoAttemptsYet /\ FinishedInTime /\ HoldsReference
  /\ RowsExist /\ Notified

Stages == {"none", "created", "declined", "referred", "saved", "answered", "dead",
           "waiting", "loaded", "retried", "givingUp", "finished", "done", "lost"}
Task == [stage: Stages, row: TopupRow, attemptsMade: 0..Attempts, stalls: 0..1]

LEMMA ReferenceOfTopup ==
  ASSUME NEW t \in Topups, NEW reference \in References[t]
  PROVE  /\ reference \in AllReferences /\ reference # NoReference
         /\ \A s \in Topups: reference \in References[s] => s = t
  BY TopupAssumption DEF AllReferences

\* The row object a task step hands on keeps its type, and so do the tasks.
LEMMA GotoType ==
  ASSUME TypeInv, NEW t \in Topups, NEW from, NEW to \in Stages, NEW row \in TopupRow,
         Goto(t, from, to, row),
         to \in {"created", "declined", "referred", "saved"} =>
           from \in {"none", "created", "declined", "referred", "saved"},
         to \in {"waiting", "loaded", "retried", "givingUp", "finished"} =>
           from \in {"declined", "waiting", "loaded", "retried", "givingUp"},
         to \in {"referred", "saved", "retried"} => row.reference \in References[t],
         to # "none"
  PROVE  /\ tasks' \in [Topups -> Task] /\ \A s \in Topups: s # t => tasks'[s] = tasks[s]
         /\ AttemptsLeft' /\ NoAttemptsYet' /\ FinishedInTime' /\ HoldsReference'
  <1>1. tasks' = [tasks EXCEPT ![t] = [tasks[t] EXCEPT !.stage = to, !.row = row]]
    BY DEF Goto
  <1>2. tasks \in [Topups -> Task]
    BY DEF TypeInv, TopupTypeOK, Task, Stages
  <1>3. [tasks[t] EXCEPT !.stage = to, !.row = row] \in Task
    BY <1>2 DEF Task
  <1>4. /\ tasks' \in [Topups -> Task]
        /\ tasks'[t].stage = to /\ tasks'[t].row = row /\ tasks'[t].attemptsMade = tasks[t].attemptsMade
        /\ \A s \in Topups: s # t => tasks'[s] = tasks[s]
    BY <1>1, <1>2, <1>3 DEF Task
  <1>5. tasks[t].stage = from
    BY DEF Goto
  <1>6. 0 < Attempts
    BY TopupAssumption
  <1>. QED
    BY <1>4, <1>5, <1>6 DEF TypeInv, AttemptsLeft, NoAttemptsYet, FinishedInTime, HoldsReference

LEMMA RethrownType ==
  ASSUME TypeInv, NEW t \in Topups, Rethrown(t), tasks[t].attemptsMade < Attempts
  PROVE  /\ tasks' \in [Topups -> Task] /\ \A s \in Topups: s # t => tasks'[s] = tasks[s]
         /\ AttemptsLeft' /\ NoAttemptsYet' /\ FinishedInTime' /\ HoldsReference'
  <1> DEFINE thrown == [tasks[t] EXCEPT !.attemptsMade = tasks[t].attemptsMade + 1,
                          !.stage = IF tasks[t].attemptsMade + 1 < Attempts THEN "waiting" ELSE "lost"]
  <1>1. tasks \in [Topups -> Task]
    BY DEF TypeInv, TopupTypeOK, Task, Stages
  <1>2. tasks[t].attemptsMade + 1 \in 0..Attempts
    BY <1>1, TopupAssumption DEF Task
  <1>3. /\ thrown \in Task /\ thrown.stage \in {"waiting", "lost"}
        /\ thrown.stage = "waiting" => thrown.attemptsMade < Attempts
    BY <1>1, <1>2 DEF Task, Stages
  <1>4. tasks' = [tasks EXCEPT ![t] = thrown]
    BY <1>1 DEF Rethrown
  <1> HIDE DEF thrown
  <1>. QED
    BY <1>1, <1>3, <1>4 DEF TypeInv, AttemptsLeft, NoAttemptsYet, FinishedInTime, HoldsReference

LEMMA PaymentsType ==
  ASSUME TypeInv, NEW t \in Topups
  PROVE  /\ PaymentUnavailable(t) =>
              /\ DOMAIN payments' \subseteq AllReferences
              /\ payments' \in [DOMAIN payments' -> {"open", "completed", "failed"}]
         /\ \A from, to: CreatePayment(t, from, to) =>
              /\ DOMAIN payments' \subseteq AllReferences
              /\ payments' \in [DOMAIN payments' -> {"open", "completed", "failed"}]
  <1>1. ASSUME NEW reference \in References[t], payments' = payments \/ payments' = Insert(payments, reference, "open")
        PROVE  /\ DOMAIN payments' \subseteq AllReferences
               /\ payments' \in [DOMAIN payments' -> {"open", "completed", "failed"}]
    BY <1>1, ReferenceOfTopup DEF TypeInv, TopupTypeOK, Insert
  <1>2. UNCHANGED payments =>
          /\ DOMAIN payments' \subseteq AllReferences
          /\ payments' \in [DOMAIN payments' -> {"open", "completed", "failed"}]
    BY DEF TypeInv, TopupTypeOK
  <1>. QED
    BY <1>1, <1>2 DEF PaymentUnavailable, CreatePayment

LEMMA InitTypeInv == Init => TypeInv
  <1> SUFFICES ASSUME Init PROVE TypeInv
    OBVIOUS
  <1>1. NewRow \in TopupRow
    BY DEF NewRow, TopupRow
  <1>2. TopupTypeOK
    BY <1>1, TopupAssumption, CalendarAssumption DEF Init, LedgerInit, TopupTypeOK
  <1>3. \A t \in Topups: tasks[t].stage = "none" /\ tasks[t].attemptsMade = 0
    BY DEF Init
  <1>. QED
    BY <1>2, <1>3 DEF TypeInv, AttemptsLeft, NoAttemptsYet, FinishedInTime, HoldsReference, RowsExist, Notified, Init

LEMMA TaskStepType ==
  ASSUME TypeInv, NEW t \in Topups, CreateRow(t) \/ Initiate(t) \/ Retry(t)
  PROVE  TypeInv'
  <1> USE DEF Stages
  <1> DEFINE Others == \A s \in Topups: s # t => tasks'[s] = tasks[s]
  <1>a. /\ tasks \in [Topups -> Task] /\ tasks[t].row \in TopupRow
        /\ DOMAIN topups \subseteq Topups /\ topups \in [DOMAIN topups -> TopupRow]
        /\ NewRow \in TopupRow
        /\ tasks[t].stage \in {"referred", "saved", "retried"} => tasks[t].row.reference \in References[t]
        /\ tasks[t].stage # "none" => t \in DOMAIN topups /\ topups[t] \in TopupRow
    BY DEF TypeInv, TopupTypeOK, Task, NewRow, TopupRow, RowsExist, HoldsReference
  <1>b. /\ topups' = Insert(topups, t, NewRow) \/ topups' = [topups EXCEPT ![t] = tasks[t].row]
             \/ topups' = topups
        => /\ DOMAIN topups' \subseteq Topups /\ topups' \in [DOMAIN topups' -> TopupRow]
           /\ DOMAIN topups \subseteq DOMAIN topups'
    BY <1>a DEF Insert
  <1>c. ASSUME NEW reference \in References[t]
        PROVE  /\ [tasks[t].row EXCEPT !.reference = reference] \in TopupRow
               /\ [tasks[t].row EXCEPT !.reference = reference].reference = reference
    BY <1>a, ReferenceOfTopup DEF TopupRow
  <1>d. ASSUME tasks' \in [Topups -> Task], AttemptsLeft', NoAttemptsYet', FinishedInTime', HoldsReference',
               Others,
               DOMAIN topups' \subseteq Topups, topups' \in [DOMAIN topups' -> TopupRow],
               DOMAIN topups \subseteq DOMAIN topups', t \in DOMAIN topups',
               DOMAIN payments' \subseteq AllReferences,
               payments' \in [DOMAIN payments' -> {"open", "completed", "failed"}],
               urls' \subseteq AllReferences,
               UNCHANGED <<ledgerVars, webhookVars, reports, deaths>>
        PROVE  TypeInv'
    BY <1>d DEF TypeInv, TopupTypeOK, Task, RowsExist, Notified, ledgerVars, webhookVars
  <1>e. /\ DOMAIN payments \subseteq AllReferences
        /\ payments \in [DOMAIN payments -> {"open", "completed", "failed"}]
        /\ urls \subseteq AllReferences
    BY DEF TypeInv, TopupTypeOK
  <1>1. CASE CreateRow(t)
    <2>1. tasks' \in [Topups -> Task] /\ Others /\ AttemptsLeft' /\ NoAttemptsYet' /\ FinishedInTime' /\ HoldsReference'
      BY <1>1, <1>a, GotoType DEF CreateRow
    <2>2. t \in DOMAIN topups'
      BY <1>1 DEF CreateRow, Insert
    <2>. QED
      BY <1>1, <1>a, <1>b, <1>d, <1>e, <2>1, <2>2 DEF CreateRow, Goto
  <1>2. ASSUME NEW from \in Stages, NEW to \in Stages, CreatePayment(t, from, to),
               \/ from = "created" /\ to = "referred"
               \/ from = "loaded" /\ to = "retried"
        PROVE  TypeInv'
    <2>1. PICK reference \in References[t]: Goto(t, from, to, [tasks[t].row EXCEPT !.reference = reference])
      BY <1>2 DEF CreatePayment
    <2>2. tasks' \in [Topups -> Task] /\ Others /\ AttemptsLeft' /\ NoAttemptsYet' /\ FinishedInTime' /\ HoldsReference'
      <3> DEFINE row == [tasks[t].row EXCEPT !.reference = reference]
      <3>1. row \in TopupRow /\ row.reference \in References[t] /\ Goto(t, from, to, row)
        BY <1>c, <2>1
      <3> HIDE DEF row
      <3>2. CASE from = "created" /\ to = "referred"
        BY <3>1, <3>2, GotoType
      <3>3. CASE from = "loaded" /\ to = "retried"
        BY <3>1, <3>3, GotoType
      <3>. QED
        BY <1>2, <3>2, <3>3
    <2>3. /\ UNCHANGED <<topups, urls>> /\ UNCHANGED <<ledgerVars, webhookVars, reports, deaths>>
          /\ t \in DOMAIN topups
      BY <1>2, <1>a, <2>1 DEF CreatePayment, Goto
    <2>. QED
      BY <1>2, <1>a, <1>b, <1>d, <1>e, <2>2, <2>3, PaymentsType
  <1>3. ASSUME NEW from \in Stages, NEW to \in Stages, SaveRow(t, from, to),
               \/ from = "referred" /\ to = "saved"
               \/ from \in {"retried", "givingUp"} /\ to = "finished"
        PROVE  TypeInv'
    <2>1. Goto(t, from, to, tasks[t].row) /\ tasks[t].stage = from
      BY <1>3 DEF SaveRow, Goto
    <2>2. tasks' \in [Topups -> Task] /\ Others /\ AttemptsLeft' /\ NoAttemptsYet' /\ FinishedInTime' /\ HoldsReference'
      <3>1. CASE from = "referred" /\ to = "saved"
        BY <1>a, <2>1, <3>1, GotoType
      <3>2. CASE from \in {"retried", "givingUp"} /\ to = "finished"
        BY <1>a, <2>1, <3>2, GotoType
      <3>. QED
        BY <1>3, <3>1, <3>2
    <2>3. /\ topups' = [topups EXCEPT ![t] = tasks[t].row] /\ UNCHANGED <<payments, urls>>
          /\ UNCHANGED <<ledgerVars, webhookVars, reports, deaths>>
      BY <1>3 DEF SaveRow, Goto
    <2>4. t \in DOMAIN topups'
      BY <1>3, <1>a, <2>1, <2>3
    <2>. QED
      BY <1>b, <1>d, <1>e, <2>2, <2>3, <2>4
  <1>4. CASE AnswerUrl(t)
    <2>1. tasks' \in [Topups -> Task] /\ Others /\ AttemptsLeft' /\ NoAttemptsYet' /\ FinishedInTime' /\ HoldsReference'
      BY <1>4, <1>a, GotoType DEF AnswerUrl
    <2>2. urls' \subseteq AllReferences
      BY <1>4, <1>a, <1>e, ReferenceOfTopup DEF AnswerUrl, Goto
    <2>. QED
      BY <1>4, <1>a, <1>b, <1>d, <1>e, <2>1, <2>2 DEF AnswerUrl, Goto
  <1>5. CASE MonCashUnavailable(t)
    <2>1. tasks' \in [Topups -> Task] /\ Others /\ AttemptsLeft' /\ NoAttemptsYet' /\ FinishedInTime' /\ HoldsReference'
      BY <1>5, <1>a, GotoType DEF MonCashUnavailable
    <2>. QED
      BY <1>5, <1>a, <1>b, <1>d, <1>e, <2>1, PaymentsType DEF MonCashUnavailable, Goto
  <1>6. CASE QueueRetry(t)
    <2>1. tasks' \in [Topups -> Task] /\ Others /\ AttemptsLeft' /\ NoAttemptsYet' /\ FinishedInTime' /\ HoldsReference'
      BY <1>6, <1>a, GotoType DEF QueueRetry
    <2>. QED
      BY <1>6, <1>a, <1>b, <1>d, <1>e, <2>1 DEF QueueRetry, Goto
  <1>7. CASE LoadRow(t)
    <2> DEFINE to == IF topups[t].status = "pending" /\ topups[t].reference = NoReference
                     THEN "loaded" ELSE "done"
    <2>1. Goto(t, "waiting", to, topups[t]) /\ to \in {"loaded", "done"} /\ topups[t] \in TopupRow
      BY <1>7, <1>a DEF LoadRow, Goto
    <2>2. tasks' \in [Topups -> Task] /\ Others /\ AttemptsLeft' /\ NoAttemptsYet' /\ FinishedInTime' /\ HoldsReference'
      <3> HIDE DEF to
      <3>. QED
        BY <1>a, <2>1, GotoType
    <2>. QED
      BY <1>7, <1>a, <1>b, <1>d, <1>e, <2>2 DEF LoadRow, Goto
  <1>8. CASE RetryFails(t)
    <2>1. /\ tasks[t].stage \in {"loaded", "retried"} /\ tasks[t].attemptsMade \in 0..Attempts
          /\ tasks[t].attemptsMade < Attempts /\ tasks[t] \in Task
          /\ UNCHANGED <<ledgerVars, webhookVars, reports, deaths>>
      BY <1>8, <1>a DEF RetryFails, Goto, TypeInv, AttemptsLeft, Task
    <2> DEFINE failed == [tasks[t].row EXCEPT !.status = "failed"]
    <2>2. failed \in TopupRow
      BY <1>a DEF TopupRow
    <2>3. IF IsFinalAttempt(t) THEN Goto(t, tasks[t].stage, "givingUp", failed) ELSE Rethrown(t)
      BY <1>8 DEF RetryFails
    <2>5. tasks' \in [Topups -> Task] /\ Others /\ AttemptsLeft' /\ NoAttemptsYet' /\ FinishedInTime' /\ HoldsReference'
      <3> HIDE DEF failed
      <3>1. CASE IsFinalAttempt(t)
        <4>1. Goto(t, tasks[t].stage, "givingUp", failed)
          BY <2>3, <3>1
        <4>. QED
          BY <2>1, <2>2, <4>1, GotoType
      <3>2. CASE ~IsFinalAttempt(t)
        BY <2>1, <2>3, <3>2, RethrownType
      <3>. QED
        BY <3>1, <3>2
    <2>6. /\ DOMAIN payments' \subseteq AllReferences
          /\ payments' \in [DOMAIN payments' -> {"open", "completed", "failed"}]
      BY <1>8, <1>e, PaymentsType DEF RetryFails
    <2>. QED
      BY <1>8, <1>a, <1>b, <1>d, <1>e, <2>1, <2>5, <2>6 DEF RetryFails
  <1>9. CASE RetryReturns(t)
    <2>1. tasks' \in [Topups -> Task] /\ Others /\ AttemptsLeft' /\ NoAttemptsYet' /\ FinishedInTime' /\ HoldsReference'
      BY <1>9, <1>a, GotoType DEF RetryReturns
    <2>. QED
      BY <1>9, <1>a, <1>b, <1>d, <1>e, <2>1 DEF RetryReturns, Goto
  <1>10. CASE CreatePayment(t, "created", "referred") \/ CreatePayment(t, "loaded", "retried")
    <2>1. CASE CreatePayment(t, "created", "referred")
      BY <1>2, <2>1
    <2>2. CASE CreatePayment(t, "loaded", "retried")
      BY <1>2, <2>2
    <2>. QED
      BY <1>10, <2>1, <2>2
  <1>11. CASE \/ SaveRow(t, "referred", "saved") \/ SaveRow(t, "retried", "finished")
              \/ SaveRow(t, "givingUp", "finished")
    BY <1>3, <1>11
  <1>. QED
    BY <1>1, <1>4, <1>5, <1>6, <1>7, <1>8, <1>9, <1>10, <1>11 DEF Initiate, Retry

\* What every step outside the tasks leaves alone.
LEMMA TasksStand ==
  ASSUME TypeInv, UNCHANGED tasks, DOMAIN topups \subseteq DOMAIN topups'
  PROVE  /\ tasks' \in [Topups -> Task]
         /\ AttemptsLeft' /\ NoAttemptsYet' /\ FinishedInTime' /\ HoldsReference' /\ RowsExist'
  BY DEF TypeInv, TopupTypeOK, Task, Stages, AttemptsLeft, NoAttemptsYet, FinishedInTime,
         HoldsReference, RowsExist

WebhookStages == {"failing", "crediting", "credited"}
Webhook == [stage: WebhookStages, topup: Topups, row: TopupRow, report: Reports]

LEMMA WebhookStepType ==
  ASSUME TypeInv, NEW d \in Deliveries,
         HandleWebhook(d) \/ \E report \in reports: Receive(d, report)
  PROVE  TypeInv'
  <1>a. /\ DOMAIN webhooks \subseteq Deliveries /\ webhooks \in [DOMAIN webhooks -> Webhook]
        /\ DOMAIN topups \subseteq Topups /\ topups \in [DOMAIN topups -> TopupRow]
        /\ acknowledged \subseteq reports /\ reports \subseteq Reports /\ Notified
    BY DEF TypeInv, TopupTypeOK, Webhook, WebhookStages
  <1>1. CASE \E report \in reports: Receive(d, report)
    <2>1. PICK report \in reports: Receive(d, report)
      BY <1>1
    <2>2. UNCHANGED <<ledgerVars, taskVars, monCashVars, urls, deaths>>
      BY <2>1 DEF Receive
    <2>3. /\ DOMAIN webhooks' \subseteq Deliveries /\ webhooks' \in [DOMAIN webhooks' -> Webhook]
          /\ Notified'
      <3>0. reports' = reports
        BY <2>2 DEF monCashVars
      <3>1. CASE UNCHANGED webhooks
        BY <1>a, <3>0, <3>1 DEF Notified
      <3>2. ASSUME NEW t \in RowsWith(report[1]), NEW stage \in WebhookStages,
                   webhooks' = Insert(webhooks, d,
                     [stage |-> stage, topup |-> t, row |-> topups[t], report |-> report])
            PROVE  /\ DOMAIN webhooks' \subseteq Deliveries /\ webhooks' \in [DOMAIN webhooks' -> Webhook]
                   /\ Notified'
        <4> DEFINE request == [stage |-> stage, topup |-> t, row |-> topups[t], report |-> report]
        <4>1. request \in Webhook /\ request.report \in reports /\ webhooks' = Insert(webhooks, d, request)
          BY <1>a, <3>2 DEF Webhook, RowsWith
        <4> HIDE DEF request
        <4>. QED
          BY <1>a, <3>0, <4>1 DEF Notified, Insert
      <3>. QED
        BY <2>1, <3>1, <3>2 DEF Receive, WebhookStages
    <2>4. acknowledged' \subseteq reports'
      BY <1>a, <2>1 DEF Receive, monCashVars
    <2>. QED
      BY <2>2, <2>3, <2>4, TasksStand
      DEF TypeInv, TopupTypeOK, Task, Stages, Webhook, WebhookStages, ledgerVars, taskVars, monCashVars
  <1>2. ASSUME d \in DOMAIN webhooks, NEW row \in TopupRow, SaveAndAcknowledge(d, row)
        PROVE  TypeInv'
    <2>1. /\ DOMAIN topups' = DOMAIN topups /\ topups' \in [DOMAIN topups' -> TopupRow]
          /\ UNCHANGED <<ledgerVars, tasks, monCashVars, urls, deaths>>
      BY <1>2, <1>a DEF SaveAndAcknowledge
    <2>2. /\ DOMAIN webhooks' \subseteq Deliveries /\ webhooks' \in [DOMAIN webhooks' -> Webhook]
          /\ Notified' /\ acknowledged' \subseteq reports'
      BY <1>2, <1>a DEF SaveAndAcknowledge, Finished, Notified, monCashVars
    <2>. QED
      BY <1>a, <2>1, <2>2, TasksStand
      DEF TypeInv, TopupTypeOK, Task, Stages, Webhook, WebhookStages, ledgerVars, monCashVars
  <1>3. CASE HandleWebhook(d)
    <2>1. d \in DOMAIN webhooks /\ webhooks[d] \in Webhook
      BY <1>3, <1>a DEF HandleWebhook
    <2>2. CASE FailTopup(d)
      <3> DEFINE row == [webhooks[d].row EXCEPT !.status = "failed"]
      <3>1. row \in TopupRow /\ SaveAndAcknowledge(d, row)
        BY <2>1, <2>2 DEF FailTopup, Webhook, TopupRow
      <3> HIDE DEF row
      <3>. QED
        BY <1>2, <2>1, <3>1
    <2>3. CASE CompleteTopup(d)
      <3> DEFINE row == [webhooks[d].row EXCEPT !.status = "completed",
                                                !.operation = webhooks[d].report[1]]
      <3>1. row \in TopupRow /\ SaveAndAcknowledge(d, row)
        BY <2>1, <2>3 DEF CompleteTopup, Webhook, TopupRow, Reports
      <3> HIDE DEF row
      <3>. QED
        BY <1>2, <2>1, <3>1
    <2>4. CASE CreditWallet(d)
      <3> DEFINE t == webhooks[d].topup
                 legs == <<CreditLeg(Owner[t], AmountMinor[t]), DebitLeg(MonCashFloat, AmountMinor[t])>>
      <3>1. /\ t \in Topups /\ Owner[t] \in Accounts /\ AmountMinor[t] \in Nat \ {0}
            /\ webhooks[d].report[1] \in AllReferences
        BY <2>1, TopupAssumption DEF Webhook, Reports
      <3>2. legs \in Seq(Leg)
        <4>1. CreditLeg(Owner[t], AmountMinor[t]) \in Leg /\ DebitLeg(MonCashFloat, AmountMinor[t]) \in Leg
          BY <3>1, TopupAssumption DEF CreditLeg, DebitLeg, Leg, Directions
        <4>. QED
          BY <4>1
      <3>3. Table(AllReferences) /\ today \in 0..LastDay
        BY DEF TypeInv, TopupTypeOK, Table
      <3>4. /\ PostOperation(webhooks[d].report[1], "topup", "completed", legs)
            /\ webhooks' = [webhooks EXCEPT ![d].stage = "credited"]
            /\ UNCHANGED <<today, taskVars, acknowledged, monCashVars, urls, deaths>>
        BY <2>4 DEF CreditWallet
      <3>5. Table(AllReferences)'
        <4> HIDE DEF legs
        <4>1. "topup" \in OperationTypes /\ "completed" \in Statuses
          BY DEF OperationTypes, Statuses
        <4>. QED
          BY <3>1, <3>2, <3>3, <3>4, <4>1, PostTable
      <3>6. /\ DOMAIN webhooks' \subseteq Deliveries /\ webhooks' \in [DOMAIN webhooks' -> Webhook]
            /\ Notified'
        BY <1>a, <2>1, <3>4 DEF Webhook, WebhookStages, Notified, monCashVars
      <3>. QED
        BY <1>a, <3>3, <3>4, <3>5, <3>6, TasksStand
        DEF TypeInv, TopupTypeOK, Task, Stages, Webhook, WebhookStages, Table, taskVars, monCashVars
    <2>. QED
      BY <1>3, <2>2, <2>3, <2>4 DEF HandleWebhook
  <1>. QED
    BY <1>1, <1>3

LEMMA MonCashStepType ==
  ASSUME TypeInv, NEW reference \in DOMAIN payments, Pay(reference) \/ Decline(reference)
  PROVE  TypeInv'
  <1>1. PICK status \in {"completed", "failed"}: Notify(reference, status)
    BY DEF Pay, Decline
  <1>2. /\ DOMAIN payments' = DOMAIN payments
        /\ payments' \in [DOMAIN payments' -> {"open", "completed", "failed"}]
        /\ reports' \subseteq Reports /\ reports \subseteq reports'
    BY <1>1 DEF Notify, TypeInv, TopupTypeOK, Reports
  <1>3. UNCHANGED <<ledgerVars, taskVars, webhookVars, urls, deaths>>
    BY <1>1 DEF Notify
  <1>. QED
    BY <1>2, <1>3, TasksStand
    DEF TypeInv, TopupTypeOK, Task, Stages, Notified, ledgerVars, taskVars, webhookVars

LEMMA DiesType == ASSUME TypeInv, Dies PROVE TypeInv'
  <1>1. deaths' \in 0..MaxDeaths
    BY TopupAssumption DEF Dies, TypeInv, TopupTypeOK
  <1>2. ASSUME NEW t \in Topups, TaskDies(t)
        PROVE  TypeInv'
    <2> DEFINE Others == \A s \in Topups: s # t => tasks'[s] = tasks[s]
    <2>a. tasks \in [Topups -> Task] /\ tasks[t] \in Task
      BY DEF TypeInv, TopupTypeOK, Task, Stages
    <2>b. UNCHANGED <<ledgerVars, topups, webhookVars, monCashVars, urls>>
      BY <1>2 DEF TaskDies
    <2>1. ASSUME NEW task \in Task, tasks' = [tasks EXCEPT ![t] = task],
                 task.stage \in {"dead", "lost", "waiting"},
                 task.stage = "waiting" => task.attemptsMade < Attempts,
                 tasks[t].stage # "none"
          PROVE  /\ tasks' \in [Topups -> Task]
                 /\ AttemptsLeft' /\ NoAttemptsYet' /\ FinishedInTime' /\ HoldsReference' /\ RowsExist'
      <3>1. tasks' \in [Topups -> Task] /\ tasks'[t] = task /\ Others
        BY <2>1, <2>a
      <3>. QED
        BY <2>1, <2>b, <3>1
        DEF TypeInv, AttemptsLeft, NoAttemptsYet, FinishedInTime, HoldsReference, RowsExist
    <2>2. /\ tasks' \in [Topups -> Task]
          /\ AttemptsLeft' /\ NoAttemptsYet' /\ FinishedInTime' /\ HoldsReference' /\ RowsExist'
      <3>1. CASE /\ tasks[t].stage \in {"created", "referred", "declined", "saved"}
                 /\ tasks' = [tasks EXCEPT ![t].stage = "dead"]
        <4> DEFINE task == [tasks[t] EXCEPT !.stage = "dead"]
        <4>1. task \in Task /\ task.stage = "dead" /\ tasks' = [tasks EXCEPT ![t] = task]
          BY <2>a, <3>1 DEF Task, Stages
        <4> HIDE DEF task
        <4>. QED
          BY <2>1, <3>1, <4>1
      <3>2. CASE /\ tasks[t].stage \in {"loaded", "retried", "givingUp", "finished"}
                 /\ tasks' = [tasks EXCEPT ![t] =
                      [@ EXCEPT !.stage = IF tasks[t].stalls = 0 THEN "waiting" ELSE "lost", !.stalls = 1]]
        <4> DEFINE task == [tasks[t] EXCEPT !.stage = IF tasks[t].stalls = 0 THEN "waiting" ELSE "lost",
                                            !.stalls = 1]
        <4>0. tasks[t].stalls \in 0..1 /\ "waiting" \in Stages /\ "lost" \in Stages /\ 1 \in 0..1
          BY <2>a DEF Task, Stages
        <4>1. task \in Task /\ task.stage \in {"waiting", "lost"} /\ task.attemptsMade = tasks[t].attemptsMade
          <5>1. CASE tasks[t].stalls = 0
            BY <2>a, <4>0, <5>1 DEF Task
          <5>2. CASE tasks[t].stalls # 0
            BY <2>a, <4>0, <5>2 DEF Task
          <5>. QED
            BY <5>1, <5>2
        <4>2. tasks' = [tasks EXCEPT ![t] = task]
          BY <2>a, <3>2
        <4>3. tasks[t].attemptsMade < Attempts
          BY <3>2 DEF TypeInv, AttemptsLeft, FinishedInTime
        <4> HIDE DEF task
        <4>. QED
          BY <2>1, <3>2, <4>1, <4>2, <4>3
      <3>3. CASE tasks[t].stage \in {"waiting", "givingUp"} /\ Rethrown(t)
        <4>1. tasks[t].attemptsMade < Attempts
          BY <3>3 DEF TypeInv, AttemptsLeft
        <4>2. /\ tasks' \in [Topups -> Task] /\ Others
              /\ AttemptsLeft' /\ NoAttemptsYet' /\ FinishedInTime' /\ HoldsReference'
          BY <3>3, <4>1, RethrownType
        <4>3. RowsExist'
          BY <2>b, <3>3, <4>2 DEF TypeInv, RowsExist
        <4>. QED
          BY <4>2, <4>3
      <3>. QED
        BY <1>2, <3>1, <3>2, <3>3 DEF TaskDies
    <2>. QED
      BY <1>1, <2>b, <2>2
      DEF TypeInv, TopupTypeOK, Task, Stages, Notified, ledgerVars, webhookVars, monCashVars
  <1>3. ASSUME NEW d \in DOMAIN webhooks, WebhookDies(d)
        PROVE  TypeInv'
    <2>1. /\ DOMAIN webhooks' \subseteq Deliveries /\ webhooks' \in [DOMAIN webhooks' -> Webhook]
          /\ Notified'
      BY <1>3 DEF WebhookDies, Finished, TypeInv, TopupTypeOK, Webhook, WebhookStages, Notified, monCashVars
    <2>2. UNCHANGED <<ledgerVars, taskVars, acknowledged, monCashVars, urls>>
      BY <1>3 DEF WebhookDies
    <2>. QED
      BY <1>1, <2>1, <2>2, TasksStand
      DEF TypeInv, TopupTypeOK, Task, Stages, Webhook, WebhookStages, ledgerVars, taskVars, monCashVars
  <1>. QED
    BY <1>2, <1>3 DEF Dies

LEMMA TypeStep == ASSUME TypeInv, [Next]_vars PROVE TypeInv'
  <1>1. CASE UNCHANGED vars
    <2>1. UNCHANGED <<ledgerVars, taskVars, webhookVars, monCashVars, urls, deaths>>
      BY <1>1 DEF vars
    <2>. QED
      BY <2>1, TasksStand
      DEF TypeInv, TopupTypeOK, Task, Stages, Notified, ledgerVars, taskVars, webhookVars, monCashVars
  <1>2. CASE Next
    BY <1>2, TaskStepType, WebhookStepType, MonCashStepType, DiesType DEF Next
  <1>. QED
    BY <1>1, <1>2

\* The state of a top-up, its tasks, its deliveries and the ledger is well
\* formed at every step of initiate, retryInitiation and handleWebhook.
THEOREM TopupTypeCorrect == Spec => []TopupTypeOK
  <1>1. TypeInv /\ [Next]_vars => TypeInv'
    BY TypeStep
  <1>2. TypeInv => TopupTypeOK
    BY DEF TypeInv
  <1>. QED
    BY <1>1, <1>2, InitTypeInv, PTL DEF Spec

-----------------------------------------------------------------------------
(* Safety: what rows, row objects in hand, payments and operations know of   *)
(* each other.                                                               *)

\* A row, or a copy of it in some handler's hands: completed means that the
\* operation posted under its reference is among the ledger's.
Honest(posted, t, row) ==
  /\ row.reference \in References[t] \cup {NoReference}
  /\ row.status = "completed" => row.operation = row.reference /\ row.operation \in posted

RowsAreHonest == \A t \in DOMAIN topups: Honest(DOMAIN operations, t, topups[t])

\* Only the task of a top-up sets its reference, and it starts with none: until
\* the task has saved one, no notification finds the row.
Initiating == {"created", "declined", "referred", "loaded", "retried", "givingUp"}
TaskKnows(t) ==
  /\ tasks[t].stage = "none" => t \notin DOMAIN topups
  /\ tasks[t].stage \in Initiating =>
       /\ topups[t].reference = NoReference
       /\ tasks[t].row.status # "completed" /\ Honest(DOMAIN operations, t, tasks[t].row)
  /\ tasks[t].stage = "saved" => tasks[t].row.reference = topups[t].reference
TasksKnow == \A t \in Topups: TaskKnows(t)

\* A client can pay a reference only when the row carries it.
UrlsAreSaved ==
  \A t \in Topups: \A reference \in urls \cap References[t]:
    t \in DOMAIN topups /\ topups[t].reference = reference

WebhookKnows(d) ==
  LET request == webhooks[d] IN
  /\ request.topup \in DOMAIN topups
  /\ topups[request.topup].reference = request.report[1]
  /\ request.row.reference = request.report[1]
  /\ Honest(DOMAIN operations, request.topup, request.row)
  /\ request.report[2] = IF request.stage = "failing" THEN "failed" ELSE "completed"
  /\ request.stage = "credited" => request.report[1] \in DOMAIN operations
WebhooksKnow == \A d \in DOMAIN webhooks: WebhookKnows(d)

\* A payment is completed for good, and was paid through its URL.
ReportsAreTrue ==
  \A reference \in AllReferences:
    <<reference, "completed">> \in reports =>
      reference \in DOMAIN payments /\ payments[reference] = "completed" /\ reference \in urls

\* The ledger holds what MonCash said was paid.
Credit(t, operation) ==
  operation.entries[1].account = Owner[t] /\ operation.entries[1].amountMinor = AmountMinor[t]
CreditsArePaid ==
  \A k \in DOMAIN operations:
    <<k, "completed">> \in reports /\ \A t \in Topups: k \in References[t] => Credit(t, operations[k])

SafeInv ==
  /\ TypeInv /\ RowsAreHonest /\ TasksKnow /\ UrlsAreSaved
  /\ WebhooksKnow /\ ReportsAreTrue /\ CreditsArePaid

LEMMA InitSafe == Init => SafeInv
  BY InitTypeInv
  DEF Init, LedgerInit, SafeInv, RowsAreHonest, TasksKnow, TaskKnows, Initiating, UrlsAreSaved,
      WebhooksKnow, ReportsAreTrue, CreditsArePaid

\* A completed row names a reference, and one of its own.
LEMMA HonestReference ==
  ASSUME SafeInv, NEW t \in Topups, NEW row, Honest(DOMAIN operations, t, row), row.status = "completed"
  PROVE  row.reference \in References[t] /\ row.reference \in DOMAIN operations
  BY TopupAssumption DEF SafeInv, TypeInv, TopupTypeOK, Honest

\* The notifications and operations of a step of a task are those before it.
LEMMA OutsideStands ==
  ASSUME SafeInv, UNCHANGED <<operations, reports>>, urls \subseteq urls',
         \A reference \in DOMAIN payments:
           reference \in DOMAIN payments' /\ payments'[reference] = payments[reference]
  PROVE  ReportsAreTrue' /\ CreditsArePaid'
  BY DEF SafeInv, ReportsAreTrue, CreditsArePaid

\* A task that does not move knows what it knew, its row being left alone.
LEMMA OtherTasksKnow ==
  ASSUME SafeInv, NEW t \in Topups, operations' = operations,
         NEW s \in Topups, s # t, tasks'[s] = tasks[s],
         DOMAIN topups \subseteq DOMAIN topups', DOMAIN topups' \subseteq DOMAIN topups \cup {t},
         s \in DOMAIN topups => topups'[s] = topups[s]
  PROVE  TaskKnows(s)'
  <1>1. tasks[s].stage # "none" => s \in DOMAIN topups
    BY DEF SafeInv, TypeInv, RowsExist
  <1>. QED
    BY <1>1 DEF SafeInv, TasksKnow, TaskKnows, Initiating

\* A task moves and no row changes.
LEMMA TaskMoves ==
  ASSUME SafeInv, TypeInv', NEW t \in Topups, TaskKnows(t)',
         UNCHANGED <<operations, reports, webhooks, topups>>,
         \A s \in Topups: s # t => tasks'[s] = tasks[s],
         \A reference \in DOMAIN payments:
           reference \in DOMAIN payments' /\ payments'[reference] = payments[reference],
         urls \subseteq urls', UrlsAreSaved'
  PROVE  SafeInv'
  <1>1. TasksKnow'
    BY OtherTasksKnow DEF TasksKnow
  <1>2. RowsAreHonest' /\ WebhooksKnow'
    BY DEF SafeInv, RowsAreHonest, WebhooksKnow, WebhookKnows
  <1>. QED
    BY <1>1, <1>2, OutsideStands DEF SafeInv

\* A task saves its row, which nobody could look up by its reference yet.
LEMMA TaskSaves ==
  ASSUME SafeInv, TypeInv', NEW t \in Topups, TaskKnows(t)', NEW row,
         Honest(DOMAIN operations, t, row),
         t \in DOMAIN topups => topups[t].reference = NoReference,
         DOMAIN topups' = DOMAIN topups \cup {t}, topups'[t] = row,
         \A s \in DOMAIN topups: s # t => topups'[s] = topups[s],
         \A s \in Topups: s # t => tasks'[s] = tasks[s],
         UNCHANGED <<operations, reports, webhooks, payments, urls>>
  PROVE  SafeInv'
  <1>1. TasksKnow'
    BY OtherTasksKnow DEF TasksKnow
  <1>2. RowsAreHonest'
    BY DEF SafeInv, RowsAreHonest
  <1>3. UrlsAreSaved'
    <2>1. urls \cap References[t] = {}
      BY ReferenceOfTopup DEF SafeInv, UrlsAreSaved
    <2>. QED
      BY <2>1 DEF SafeInv, UrlsAreSaved
  <1>4. WebhooksKnow'
    <2> SUFFICES ASSUME NEW d \in DOMAIN webhooks PROVE WebhookKnows(d)'
      BY DEF WebhooksKnow
    <2>1. WebhookKnows(d) /\ webhooks[d].report[1] \in AllReferences
      BY DEF SafeInv, WebhooksKnow, TypeInv, TopupTypeOK, Reports
    <2>2. webhooks[d].topup # t
      BY <2>1, TopupAssumption DEF WebhookKnows
    <2>. QED
      BY <2>1, <2>2 DEF WebhookKnows
  <1>. QED
    BY <1>1, <1>2, <1>3, <1>4, OutsideStands DEF SafeInv

\* MonCash opens payments and forgets none when a task asks it.
LEMMA PaymentsGrow ==
  ASSUME NEW t \in Topups,
         \/ PaymentUnavailable(t) \/ UNCHANGED payments
         \/ \E from, to: CreatePayment(t, from, to)
  PROVE  \A reference \in DOMAIN payments:
           reference \in DOMAIN payments' /\ payments'[reference] = payments[reference]
  BY DEF PaymentUnavailable, CreatePayment, Insert

\* Where a step of a task leaves it.
LEMMA GotoTask ==
  ASSUME TypeInv, NEW t \in Topups, NEW from, NEW to, NEW row, Goto(t, from, to, row)
  PROVE  /\ tasks[t].stage = from /\ tasks'[t].stage = to /\ tasks'[t].row = row
         /\ \A s \in Topups: s # t => tasks'[s] = tasks[s]
         /\ UNCHANGED <<operations, reports, webhooks>>
  <1>1. tasks \in [Topups -> Task]
    BY DEF TypeInv, TopupTypeOK, Task, Stages
  <1>2. tasks' = [tasks EXCEPT ![t] = [tasks[t] EXCEPT !.stage = to, !.row = row]]
    BY DEF Goto
  <1>3. tasks'[t].stage = to /\ tasks'[t].row = row
    BY <1>1, <1>2 DEF Task
  <1>. QED
    BY <1>1, <1>2, <1>3 DEF Goto, ledgerVars, webhookVars

LEMMA ThrownTask ==
  ASSUME TypeInv, NEW t \in Topups, Rethrown(t)
  PROVE  /\ tasks'[t].stage \in {"waiting", "lost"}
         /\ \A s \in Topups: s # t => tasks'[s] = tasks[s]
  <1>1. tasks \in [Topups -> Task]
    BY DEF TypeInv, TopupTypeOK, Task, Stages
  <1>2. tasks[t].attemptsMade \in 0..Attempts
    BY <1>1 DEF Task
  <1> DEFINE stage == IF tasks[t].attemptsMade + 1 < Attempts THEN "waiting" ELSE "lost"
             task == [tasks[t] EXCEPT !.attemptsMade = tasks[t].attemptsMade + 1, !.stage = stage]
  <1>3. tasks' = [tasks EXCEPT ![t] = task] /\ stage \in {"waiting", "lost"}
    BY <1>1 DEF Rethrown
  <1>4. task.stage = stage
    <2> HIDE DEF stage
    <2>. QED
      BY <1>1 DEF Task
  <1> HIDE DEF task, stage
  <1>. QED
    BY <1>1, <1>3, <1>4

\* A task that waits, or is over, has nothing in hand that matters.
LEMMA IdleKnows ==
  ASSUME NEW t \in Topups, tasks'[t].stage \in {"answered", "dead", "waiting", "finished", "done", "lost"}
  PROVE  TaskKnows(t)'
  BY DEF TaskKnows, Initiating

LEMMA TaskStepSafe ==
  ASSUME SafeInv, TypeInv', NEW t \in Topups, CreateRow(t) \/ Initiate(t) \/ Retry(t)
  PROVE  SafeInv'
  <1> DEFINE Others == \A s \in Topups: s # t => tasks'[s] = tasks[s]
             Kept == \A reference \in DOMAIN payments:
                       reference \in DOMAIN payments' /\ payments'[reference] = payments[reference]
             Outside == UNCHANGED <<operations, reports, webhooks>>
  <1>a. TypeInv /\ TaskKnows(t) /\ tasks[t].row \in TopupRow
    BY DEF SafeInv, TasksKnow, TypeInv, TopupTypeOK
  <1>b. ASSUME TaskKnows(t)', Others, Kept, Outside, UNCHANGED <<topups, urls>>
        PROVE  SafeInv'
    <2>1. UrlsAreSaved'
      BY <1>b DEF SafeInv, UrlsAreSaved
    <2>. QED
      BY <1>b, <2>1, TaskMoves
  <1>c. UNCHANGED payments => Kept
    OBVIOUS
  <1>1. CASE CreateRow(t)
    <2>1. /\ tasks[t].stage = "none" /\ tasks'[t].stage = "created" /\ tasks'[t].row = NewRow
          /\ Others /\ Outside
      BY <1>1, <1>a, GotoTask DEF CreateRow
    <2>2. /\ t \notin DOMAIN topups /\ DOMAIN topups' = DOMAIN topups \cup {t} /\ topups'[t] = NewRow
          /\ \A s \in DOMAIN topups: s # t => topups'[s] = topups[s]
          /\ UNCHANGED <<payments, urls>>
      BY <1>1, <1>a, <2>1 DEF CreateRow, Insert, TaskKnows
    <2>3. /\ Honest(DOMAIN operations, t, NewRow) /\ Honest(DOMAIN operations', t, NewRow)
          /\ NewRow.reference = NoReference /\ NewRow.status # "completed"
      BY DEF Honest, NewRow
    <2>4. TaskKnows(t)'
      BY <2>1, <2>2, <2>3 DEF TaskKnows, Initiating
    <2>. QED
      BY <2>1, <2>2, <2>3, <2>4, TaskSaves
  <1>2. ASSUME NEW from, NEW to, CreatePayment(t, from, to),
               from \in {"created", "loaded"}, to \in {"referred", "retried"}
        PROVE  SafeInv'
    <2>1. PICK reference \in References[t]: Goto(t, from, to, [tasks[t].row EXCEPT !.reference = reference])
      BY <1>2 DEF CreatePayment
    <2> DEFINE row == [tasks[t].row EXCEPT !.reference = reference]
    <2>2. row.reference = reference /\ row.status = tasks[t].row.status
      BY <1>a DEF TopupRow
    <2>3. Goto(t, from, to, row)
      BY <2>1
    <2> HIDE DEF row
    <2>4. tasks[t].stage = from /\ tasks'[t].stage = to /\ tasks'[t].row = row /\ Others /\ Outside
      BY <1>a, <2>3, GotoTask
    <2>5. UNCHANGED <<topups, urls>> /\ Kept
      BY <1>2, PaymentsGrow DEF CreatePayment
    <2>6. TaskKnows(t)'
      BY <1>2, <1>a, <2>2, <2>4, <2>5 DEF TaskKnows, Initiating, Honest
    <2>. QED
      BY <1>b, <2>4, <2>5, <2>6
  <1>3. ASSUME NEW from \in {"referred", "retried", "givingUp"}, NEW to \in {"saved", "finished"},
               SaveRow(t, from, to)
        PROVE  SafeInv'
    <2>1. Goto(t, from, to, tasks[t].row)
      BY <1>3 DEF SaveRow
    <2>2. /\ tasks[t].stage = from /\ tasks'[t].stage = to /\ tasks'[t].row = tasks[t].row
          /\ Others /\ Outside
      BY <1>a, <2>1, GotoTask
    <2>3. /\ t \in DOMAIN topups /\ topups[t].reference = NoReference
          /\ Honest(DOMAIN operations, t, tasks[t].row)
      BY <1>a, <2>2 DEF TaskKnows, Initiating, TypeInv, RowsExist
    <2>4. /\ DOMAIN topups' = DOMAIN topups \cup {t} /\ topups'[t] = tasks[t].row
          /\ \A s \in DOMAIN topups: s # t => topups'[s] = topups[s]
          /\ UNCHANGED <<payments, urls>>
      BY <1>3, <2>3 DEF SaveRow
    <2>5. TaskKnows(t)'
      BY <2>2, <2>4 DEF TaskKnows, Initiating
    <2>. QED
      BY <2>2, <2>3, <2>4, <2>5, TaskSaves
  <1>4. CASE AnswerUrl(t)
    <2>1. Goto(t, "saved", "answered", tasks[t].row)
      BY <1>4 DEF AnswerUrl
    <2>2. tasks[t].stage = "saved" /\ tasks'[t].stage = "answered" /\ Others /\ Outside
      BY <1>a, <2>1, GotoTask
    <2>3. urls' = urls \cup {tasks[t].row.reference} /\ UNCHANGED <<topups, payments>>
      BY <1>4 DEF AnswerUrl
    <2>4. /\ t \in DOMAIN topups /\ tasks[t].row.reference = topups[t].reference
          /\ tasks[t].row.reference \in References[t]
      BY <1>a, <2>2 DEF TaskKnows, TypeInv, RowsExist, HoldsReference
    <2>5. UrlsAreSaved'
      BY <2>3, <2>4, ReferenceOfTopup DEF SafeInv, UrlsAreSaved
    <2>. QED
      BY <1>c, <2>2, <2>3, <2>5, IdleKnows, TaskMoves
  <1>5. CASE MonCashUnavailable(t)
    <2>1. Goto(t, "created", "declined", tasks[t].row) /\ UNCHANGED <<topups, urls>>
      BY <1>5 DEF MonCashUnavailable
    <2>2. /\ tasks[t].stage = "created" /\ tasks'[t].stage = "declined" /\ tasks'[t].row = tasks[t].row
          /\ Others /\ Outside
      BY <1>a, <2>1, GotoTask
    <2>3. TaskKnows(t)'
      BY <1>a, <2>1, <2>2 DEF TaskKnows, Initiating
    <2>4. Kept
      BY <1>5, PaymentsGrow DEF MonCashUnavailable
    <2>. QED
      BY <1>b, <2>1, <2>2, <2>3, <2>4
  <1>6. CASE QueueRetry(t) \/ RetryReturns(t)
    <2>1. PICK from \in Stages, to \in {"waiting", "done"}: Goto(t, from, to, tasks[t].row)
      BY <1>6 DEF QueueRetry, RetryReturns, Stages
    <2>2. UNCHANGED <<topups, payments, urls>>
      BY <1>6 DEF QueueRetry, RetryReturns
    <2>3. tasks'[t].stage = to /\ Others /\ Outside
      BY <1>a, <2>1, GotoTask
    <2>. QED
      BY <1>b, <1>c, <2>2, <2>3, IdleKnows
  <1>7. CASE LoadRow(t)
    <2> DEFINE to == IF topups[t].status = "pending" /\ topups[t].reference = NoReference
                     THEN "loaded" ELSE "done"
    <2>1. Goto(t, "waiting", to, topups[t]) /\ UNCHANGED <<topups, payments, urls>>
      BY <1>7 DEF LoadRow
    <2>2. /\ to \in {"loaded", "done"}
          /\ to = "loaded" => topups[t].reference = NoReference /\ topups[t].status # "completed"
      OBVIOUS
    <2> HIDE DEF to
    <2>3. /\ tasks[t].stage = "waiting" /\ tasks'[t].stage = to /\ tasks'[t].row = topups[t]
          /\ Others /\ Outside
      BY <1>a, <2>1, GotoTask
    <2>4. Honest(DOMAIN operations, t, topups[t])
      BY <1>a, <2>3 DEF SafeInv, RowsAreHonest, TypeInv, RowsExist
    <2>5. TaskKnows(t)'
      BY <2>1, <2>2, <2>3, <2>4 DEF TaskKnows, Initiating
    <2>. QED
      BY <1>b, <1>c, <2>1, <2>3, <2>5
  <1>8. CASE RetryFails(t)
    <2> DEFINE failed == [tasks[t].row EXCEPT !.status = "failed"]
    <2>1. /\ tasks[t].stage \in {"loaded", "retried"} /\ UNCHANGED <<topups, urls>>
          /\ PaymentUnavailable(t) \/ UNCHANGED payments
          /\ IF IsFinalAttempt(t) THEN Goto(t, tasks[t].stage, "givingUp", failed)
             ELSE Rethrown(t) /\ UNCHANGED <<ledgerVars, webhookVars, reports, deaths>>
      BY <1>8 DEF RetryFails
    <2>2. failed.status = "failed" /\ failed.reference = tasks[t].row.reference
      BY <1>a DEF TopupRow
    <2> HIDE DEF failed
    <2>3. TaskKnows(t)' /\ Others /\ Outside
      <3>1. CASE IsFinalAttempt(t)
        <4>1. Goto(t, tasks[t].stage, "givingUp", failed)
          BY <2>1, <3>1
        <4>2. tasks'[t].stage = "givingUp" /\ tasks'[t].row = failed /\ Others /\ Outside
          BY <1>a, <4>1, GotoTask
        <4>3. TaskKnows(t)'
          BY <1>a, <2>1, <2>2, <4>2 DEF TaskKnows, Initiating, Honest
        <4>. QED
          BY <4>2, <4>3
      <3>2. CASE ~IsFinalAttempt(t)
        <4>1. Rethrown(t) /\ UNCHANGED <<ledgerVars, webhookVars, reports, deaths>>
          BY <2>1, <3>2
        <4>2. tasks'[t].stage \in {"waiting", "lost"} /\ Others
          BY <1>a, <4>1, ThrownTask
        <4>. QED
          BY <4>1, <4>2, IdleKnows DEF ledgerVars, webhookVars
      <3>. QED
        BY <3>1, <3>2
    <2>4. Kept
      BY <2>1, PaymentsGrow
    <2>. QED
      BY <1>b, <2>1, <2>3, <2>4
  <1>9. CASE CreatePayment(t, "created", "referred") \/ CreatePayment(t, "loaded", "retried")
    BY <1>2, <1>9
  <1>10. CASE \/ SaveRow(t, "referred", "saved") \/ SaveRow(t, "retried", "finished")
              \/ SaveRow(t, "givingUp", "finished")
    BY <1>3, <1>10
  <1>. QED
    BY <1>1, <1>4, <1>5, <1>6, <1>7, <1>8, <1>9, <1>10 DEF Initiate, Retry

\* A notification that finds its row knows what it found.
LEMMA ReceiveSafe ==
  ASSUME SafeInv, TypeInv', NEW d \in Deliveries, NEW report \in reports, Receive(d, report)
  PROVE  SafeInv'
  <1>a. /\ UNCHANGED <<operations, topups, tasks, payments, reports, urls>>
        /\ report \in Reports /\ DOMAIN topups \subseteq Topups
    BY DEF Receive, ledgerVars, taskVars, monCashVars, SafeInv, TypeInv, TopupTypeOK
  <1>1. /\ RowsAreHonest' /\ TasksKnow' /\ UrlsAreSaved' /\ ReportsAreTrue' /\ CreditsArePaid'
    BY <1>a
    DEF SafeInv, RowsAreHonest, TasksKnow, TaskKnows, UrlsAreSaved, ReportsAreTrue, CreditsArePaid
  <1>2. ASSUME NEW e \in DOMAIN webhooks, e \in DOMAIN webhooks', webhooks'[e] = webhooks[e]
        PROVE  WebhookKnows(e)'
    BY <1>a, <1>2 DEF SafeInv, WebhooksKnow, WebhookKnows
  <1>3. WebhooksKnow'
    <2>1. CASE UNCHANGED webhooks
      BY <1>2, <2>1 DEF WebhooksKnow
    <2>2. ASSUME NEW t \in RowsWith(report[1]),
                 webhooks' = Insert(webhooks, d,
                   [stage |-> IF report[2] = "failed" THEN "failing" ELSE "crediting",
                    topup |-> t, row |-> topups[t], report |-> report])
          PROVE  WebhooksKnow'
      <3> DEFINE request == [stage |-> IF report[2] = "failed" THEN "failing" ELSE "crediting",
                             topup |-> t, row |-> topups[t], report |-> report]
      <3>1. /\ request.topup = t /\ request.row = topups[t] /\ request.report = report
            /\ request.stage = IF report[2] = "failed" THEN "failing" ELSE "crediting"
        OBVIOUS
      <3>2. webhooks' = Insert(webhooks, d, request)
        BY <2>2
      <3> HIDE DEF request
      <3>3. /\ DOMAIN webhooks' = DOMAIN webhooks \cup {d} /\ webhooks'[d] = request
            /\ \A e \in DOMAIN webhooks: e # d => webhooks'[e] = webhooks[e]
        BY <3>2 DEF Insert
      <3>4. t \in DOMAIN topups /\ topups[t].reference = report[1] /\ Honest(DOMAIN operations, t, topups[t])
        BY DEF RowsWith, SafeInv, RowsAreHonest
      <3>5. report[2] = IF request.stage = "failing" THEN "failed" ELSE "completed"
        BY <1>a, <3>1 DEF Reports
      <3>6. WebhookKnows(d)'
        BY <1>a, <3>1, <3>3, <3>4, <3>5 DEF WebhookKnows
      <3>. QED
        BY <1>2, <3>3, <3>6 DEF WebhooksKnow
    <2>. QED
      BY <2>1, <2>2 DEF Receive
  <1>. QED
    BY <1>1, <1>3 DEF SafeInv

\* A delivery saves its copy of the row: the reference is the one the row had.
LEMMA SaveSafe ==
  ASSUME SafeInv, TypeInv', NEW d \in DOMAIN webhooks, NEW row,
         SaveAndAcknowledge(d, row),
         row.reference = webhooks[d].report[1], Honest(DOMAIN operations, webhooks[d].topup, row)
  PROVE  SafeInv'
  <1> DEFINE t == webhooks[d].topup
  <1>a. /\ WebhookKnows(d) /\ webhooks[d].report[1] \in AllReferences
        /\ t \in DOMAIN topups /\ topups[t].reference = webhooks[d].report[1] /\ t \in Topups
    BY DEF SafeInv, WebhooksKnow, WebhookKnows, TypeInv, TopupTypeOK, Reports
  <1>b. /\ DOMAIN topups' = DOMAIN topups /\ topups'[t] = row
        /\ \A s \in DOMAIN topups: topups'[s].reference = topups[s].reference
        /\ \A s \in DOMAIN topups: s # t => topups'[s] = topups[s]
        /\ UNCHANGED <<operations, tasks, payments, reports, urls>>
    BY <1>a DEF SaveAndAcknowledge, ledgerVars, monCashVars
  <1>c. webhooks' = Finished(d)
    BY DEF SaveAndAcknowledge
  <1> HIDE DEF t
  <1>1. RowsAreHonest'
    BY <1>a, <1>b DEF SafeInv, RowsAreHonest, t
  <1>2. TasksKnow'
    <2> SUFFICES ASSUME NEW s \in Topups PROVE TaskKnows(s)'
      BY DEF TasksKnow
    <2>1. tasks[s].stage # "none" => s \in DOMAIN topups
      BY DEF SafeInv, TypeInv, RowsExist
    <2>. QED
      BY <1>b, <2>1 DEF SafeInv, TasksKnow, TaskKnows, Initiating
  <1>3. UrlsAreSaved' /\ ReportsAreTrue' /\ CreditsArePaid'
    BY <1>b DEF SafeInv, UrlsAreSaved, ReportsAreTrue, CreditsArePaid
  <1>4. WebhooksKnow'
    <2> SUFFICES ASSUME NEW e \in DOMAIN webhooks' PROVE WebhookKnows(e)'
      BY DEF WebhooksKnow
    <2>1. e \in DOMAIN webhooks /\ webhooks'[e] = webhooks[e] /\ WebhookKnows(e)
      BY <1>c DEF Finished, SafeInv, WebhooksKnow
    <2>. QED
      BY <1>b, <2>1 DEF WebhookKnows
  <1>. QED
    BY <1>1, <1>2, <1>3, <1>4 DEF SafeInv

\* The credit is posted under the reference MonCash completed, once.
LEMMA CreditSafe ==
  ASSUME SafeInv, TypeInv', NEW d \in DOMAIN webhooks, CreditWallet(d)
  PROVE  SafeInv'
  <1> DEFINE t == webhooks[d].topup
             key == webhooks[d].report[1]
             legs == <<CreditLeg(Owner[t], AmountMinor[t]), DebitLeg(MonCashFloat, AmountMinor[t])>>
             row == NewOperation("topup", "completed", legs, NoOperation)
  <1>a. /\ webhooks[d] \in Webhook /\ WebhookKnows(d) /\ webhooks[d].report \in reports
        /\ webhooks \in [DOMAIN webhooks -> Webhook]
    BY DEF SafeInv, WebhooksKnow, TypeInv, TopupTypeOK, Webhook, WebhookStages, Notified
  <1>b. /\ PostOperation(key, "topup", "completed", legs)
        /\ webhooks' = [webhooks EXCEPT ![d].stage = "credited"]
        /\ webhooks[d].stage = "crediting"
        /\ UNCHANGED <<topups, tasks, payments, reports, urls>>
    BY DEF CreditWallet, taskVars, monCashVars
  <1>c. row.entries = legs /\ Credit(t, row)
    BY DEF NewOperation, Credit, CreditLeg
  <1>d. /\ DOMAIN operations' = DOMAIN operations \cup {key}
        /\ \A k \in DOMAIN operations: operations'[k] = operations[k]
        /\ key \notin DOMAIN operations => operations'[key] = row
    <2> HIDE DEF legs, key
    <2>. QED
      BY <1>b, PostShape
  <1>e. /\ t \in Topups /\ key \in AllReferences /\ key \in References[t]
        /\ <<key, "completed">> \in reports
    <2>1. t \in Topups /\ webhooks[d].report \in Reports
      BY <1>a DEF Webhook
    <2>2. key \in AllReferences /\ webhooks[d].report = <<key, webhooks[d].report[2]>>
      BY <2>1 DEF Reports
    <2>3. key \in References[t]
      BY <1>a, <2>2, TopupAssumption DEF WebhookKnows, Honest
    <2>4. webhooks[d].report[2] = "completed"
      BY <1>a, <1>b DEF WebhookKnows
    <2>. QED
      BY <1>a, <2>1, <2>2, <2>3, <2>4
  <1> HIDE DEF t, key, legs, row
  <1>1. RowsAreHonest' /\ UrlsAreSaved' /\ ReportsAreTrue'
    BY <1>b, <1>d DEF SafeInv, RowsAreHonest, Honest, UrlsAreSaved, ReportsAreTrue
  <1>2. TasksKnow'
    BY <1>b, <1>d DEF SafeInv, TasksKnow, TaskKnows, Honest, Initiating
  <1>3. CreditsArePaid'
    <2> SUFFICES ASSUME NEW k \in DOMAIN operations'
                 PROVE  /\ <<k, "completed">> \in reports'
                        /\ \A s \in Topups: k \in References[s] => Credit(s, operations'[k])
      BY DEF CreditsArePaid, Credit
    <2>1. CASE k \in DOMAIN operations
      BY <1>b, <1>d, <2>1 DEF SafeInv, CreditsArePaid
    <2>2. CASE k \notin DOMAIN operations
      BY <1>b, <1>c, <1>d, <1>e, <2>2, ReferenceOfTopup
    <2>. QED
      BY <2>1, <2>2
  <1>4. WebhooksKnow'
    <2> SUFFICES ASSUME NEW e \in DOMAIN webhooks PROVE WebhookKnows(e)'
      BY <1>b DEF WebhooksKnow
    <2>1. /\ webhooks'[e].topup = webhooks[e].topup /\ webhooks'[e].row = webhooks[e].row
          /\ webhooks'[e].report = webhooks[e].report
          /\ webhooks'[e].stage = IF e = d THEN "credited" ELSE webhooks[e].stage
      <3>1. CASE e = d
        <4>1. webhooks'[d] = [webhooks[d] EXCEPT !.stage = "credited"]
          BY <1>a, <1>b
        <4>. QED
          BY <1>a, <3>1, <4>1 DEF Webhook
      <3>2. CASE e # d
        BY <1>b, <3>2
      <3>. QED
        BY <3>1, <3>2
    <2>2. WebhookKnows(e) /\ key = webhooks[d].report[1]
      BY DEF SafeInv, WebhooksKnow, key
    <2>. QED
      BY <1>b, <1>d, <2>1, <2>2 DEF WebhookKnows, Honest
  <1>. QED
    BY <1>1, <1>2, <1>3, <1>4 DEF SafeInv

LEMMA WebhookStepSafe ==
  ASSUME SafeInv, TypeInv', NEW d \in Deliveries,
         HandleWebhook(d) \/ \E report \in reports: Receive(d, report)
  PROVE  SafeInv'
  <1>1. CASE \E report \in reports: Receive(d, report)
    BY <1>1, ReceiveSafe
  <1>2. CASE HandleWebhook(d)
    <2>a. /\ d \in DOMAIN webhooks /\ WebhookKnows(d)
          /\ webhooks[d].row \in TopupRow /\ webhooks[d].report[1] \in AllReferences
      BY <1>2 DEF HandleWebhook, SafeInv, WebhooksKnow, TypeInv, TopupTypeOK, Reports
    <2>1. CASE FailTopup(d)
      <3> DEFINE row == [webhooks[d].row EXCEPT !.status = "failed"]
      <3>1. row.reference = webhooks[d].row.reference /\ row.status = "failed"
        BY <2>a DEF TopupRow
      <3>2. SaveAndAcknowledge(d, row)
        BY <2>1 DEF FailTopup
      <3> HIDE DEF row
      <3>3. Honest(DOMAIN operations, webhooks[d].topup, row) /\ row.reference = webhooks[d].report[1]
        BY <2>a, <3>1 DEF WebhookKnows, Honest
      <3>. QED
        BY <2>a, <3>2, <3>3, SaveSafe
    <2>2. CASE CompleteTopup(d)
      <3> DEFINE row == [webhooks[d].row EXCEPT !.status = "completed",
                                                !.operation = webhooks[d].report[1]]
      <3>1. row.reference = webhooks[d].row.reference /\ row.operation = webhooks[d].report[1]
        BY <2>a DEF TopupRow
      <3>2. SaveAndAcknowledge(d, row) /\ webhooks[d].stage = "credited"
        BY <2>2 DEF CompleteTopup
      <3> HIDE DEF row
      <3>3. Honest(DOMAIN operations, webhooks[d].topup, row) /\ row.reference = webhooks[d].report[1]
        BY <2>a, <3>1, <3>2 DEF WebhookKnows, Honest
      <3>. QED
        BY <2>a, <3>2, <3>3, SaveSafe
    <2>3. CASE CreditWallet(d)
      BY <2>a, <2>3, CreditSafe
    <2>. QED
      BY <1>2, <2>1, <2>2, <2>3 DEF HandleWebhook
  <1>. QED
    BY <1>1, <1>2

\* MonCash completes an open payment or one that failed; it never declines a
\* completed one.
LEMMA MonCashStepSafe ==
  ASSUME SafeInv, TypeInv', NEW reference \in DOMAIN payments, Pay(reference) \/ Decline(reference)
  PROVE  SafeInv'
  <1>1. ASSUME NEW status \in {"completed", "failed"}, Notify(reference, status),
               status = "completed" => reference \in urls,
               status = "failed" => payments[reference] = "open"
        PROVE  SafeInv'
    <2>1. /\ payments' = [payments EXCEPT ![reference] = status]
          /\ reports' = reports \cup {<<reference, status>>}
          /\ UNCHANGED <<operations, topups, tasks, webhooks, urls>>
      BY <1>1 DEF Notify, ledgerVars, taskVars, webhookVars
    <2>2. RowsAreHonest' /\ TasksKnow' /\ UrlsAreSaved' /\ WebhooksKnow' /\ CreditsArePaid'
      BY <2>1
      DEF SafeInv, RowsAreHonest, TasksKnow, TaskKnows, UrlsAreSaved, WebhooksKnow, WebhookKnows,
          CreditsArePaid
    <2>3. ReportsAreTrue'
      <3> SUFFICES ASSUME NEW r \in AllReferences
                   PROVE  <<r, "completed">> \in reports' =>
                            r \in DOMAIN payments' /\ payments'[r] = "completed" /\ r \in urls'
        BY DEF ReportsAreTrue
      <3>1. CASE r = reference
        BY <1>1, <2>1, <3>1 DEF SafeInv, ReportsAreTrue
      <3>2. CASE r # reference
        BY <2>1, <3>2 DEF SafeInv, ReportsAreTrue
      <3>. QED
        BY <3>1, <3>2
    <2>. QED
      BY <2>2, <2>3 DEF SafeInv
  <1>2. CASE Pay(reference)
    <2>1. Notify(reference, "completed") /\ reference \in urls
      BY <1>2 DEF Pay
    <2>. QED
      BY <1>1, <2>1
  <1>3. CASE Decline(reference)
    BY <1>1, <1>3 DEF Decline
  <1>. QED
    BY <1>2, <1>3

LEMMA DiesSafe == ASSUME SafeInv, TypeInv', Dies PROVE SafeInv'
  <1>1. ASSUME NEW t \in Topups, TaskDies(t)
        PROVE  SafeInv'
    <2>a. UNCHANGED <<operations, topups, webhooks, payments, reports, urls>>
      BY <1>1 DEF TaskDies, ledgerVars, webhookVars, monCashVars
    <2>b. tasks \in [Topups -> Task] /\ TypeInv
      BY DEF SafeInv, TypeInv, TopupTypeOK, Task, Stages
    <2>2. /\ tasks'[t].stage \in {"dead", "waiting", "lost"}
          /\ \A s \in Topups: s # t => tasks'[s] = tasks[s]
      <3>1. CASE tasks' = [tasks EXCEPT ![t].stage = "dead"]
        <4> DEFINE task == [tasks[t] EXCEPT !.stage = "dead"]
        <4>1. task.stage = "dead" /\ tasks' = [tasks EXCEPT ![t] = task]
          BY <2>b, <3>1 DEF Task
        <4> HIDE DEF task
        <4>. QED
          BY <2>b, <4>1
      <3>2. CASE tasks' = [tasks EXCEPT ![t] =
                   [@ EXCEPT !.stage = IF tasks[t].stalls = 0 THEN "waiting" ELSE "lost", !.stalls = 1]]
        <4> DEFINE stage == IF tasks[t].stalls = 0 THEN "waiting" ELSE "lost"
                   task == [tasks[t] EXCEPT !.stage = stage, !.stalls = 1]
        <4>1. stage \in {"waiting", "lost"} /\ tasks' = [tasks EXCEPT ![t] = task]
          BY <3>2
        <4>2. task.stage = stage
          <5> HIDE DEF stage
          <5>. QED
            BY <2>b DEF Task
        <4> HIDE DEF task, stage
        <4>. QED
          BY <2>b, <4>1, <4>2
      <3>3. CASE Rethrown(t)
        BY <2>b, <3>3, ThrownTask
      <3>. QED
        BY <1>1, <3>1, <3>2, <3>3 DEF TaskDies
    <2>3. UrlsAreSaved'
      BY <2>a DEF SafeInv, UrlsAreSaved
    <2>. QED
      BY <2>a, <2>2, <2>3, IdleKnows, TaskMoves
  <1>2. ASSUME NEW d \in DOMAIN webhooks, WebhookDies(d)
        PROVE  SafeInv'
    <2>1. /\ webhooks' = Finished(d)
          /\ UNCHANGED <<operations, topups, tasks, payments, reports, urls>>
      BY <1>2 DEF WebhookDies, ledgerVars, taskVars, monCashVars
    <2>2. RowsAreHonest' /\ TasksKnow' /\ UrlsAreSaved' /\ ReportsAreTrue' /\ CreditsArePaid'
      BY <2>1
      DEF SafeInv, RowsAreHonest, TasksKnow, TaskKnows, UrlsAreSaved, ReportsAreTrue, CreditsArePaid
    <2>3. WebhooksKnow'
      BY <2>1 DEF SafeInv, WebhooksKnow, WebhookKnows, Finished
    <2>. QED
      BY <2>2, <2>3 DEF SafeInv
  <1>. QED
    BY <1>1, <1>2 DEF Dies

THEOREM TopupSafe == Spec => []SafeInv
  <1>1. SafeInv /\ [Next]_vars => SafeInv'
    <2> SUFFICES ASSUME SafeInv, [Next]_vars PROVE SafeInv'
      OBVIOUS
    <2>1. TypeInv'
      BY TypeStep DEF SafeInv
    <2>2. CASE UNCHANGED vars
      BY <2>1, <2>2
      DEF vars, ledgerVars, taskVars, webhookVars, monCashVars, SafeInv, RowsAreHonest, TasksKnow,
          TaskKnows, UrlsAreSaved, WebhooksKnow, WebhookKnows, ReportsAreTrue, CreditsArePaid
    <2>3. CASE Next
      BY <2>1, <2>3, TaskStepSafe, WebhookStepSafe, MonCashStepSafe, DiesSafe DEF Next
    <2>. QED
      BY <2>2, <2>3
  <1>. QED
    BY <1>1, InitSafe, PTL DEF Spec

\* A wallet is credited only for what MonCash completed, with the amount asked,
\* and once for an order, however many references MonCash gave it.
THEOREM TopupCreditedOnce == Spec => []CreditedOncePaid
  <1>1. SafeInv => CreditedOncePaid
    <2> SUFFICES ASSUME SafeInv, NEW t \in Topups
                 PROVE  LET credits == DOMAIN operations \cap References[t] IN
                        /\ \A k \in credits:
                             /\ payments[k] = "completed"
                             /\ operations[k].entries[1].account = Owner[t]
                             /\ operations[k].entries[1].amountMinor = AmountMinor[t]
                        /\ \A j, k \in credits: j = k
      BY DEF CreditedOncePaid
    <2>1. ASSUME NEW k \in DOMAIN operations \cap References[t]
          PROVE  payments[k] = "completed" /\ Credit(t, operations[k]) /\ topups[t].reference = k
      <3>1. k \in AllReferences /\ <<k, "completed">> \in reports /\ Credit(t, operations[k])
        BY ReferenceOfTopup DEF SafeInv, CreditsArePaid
      <3>2. payments[k] = "completed" /\ k \in urls
        BY <3>1 DEF SafeInv, ReportsAreTrue
      <3>. QED
        BY <3>1, <3>2 DEF SafeInv, UrlsAreSaved
    <2>. QED
      BY <2>1 DEF Credit
  <1>. QED
    BY <1>1, TopupSafe, PTL

\* No row is completed without the credit it names.
THEOREM TopupCompletedIsCredited == Spec => []CompletedMeansCredited
  <1>1. SafeInv => CompletedMeansCredited
    <2> SUFFICES ASSUME SafeInv, NEW t \in DOMAIN topups, topups[t].status = "completed"
                 PROVE  topups[t].operation \in References[t] \cap DOMAIN operations
      BY DEF CompletedMeansCredited
    <2>1. t \in Topups /\ Honest(DOMAIN operations, t, topups[t])
      BY DEF SafeInv, RowsAreHonest, TypeInv, TopupTypeOK
    <2>. QED
      BY <2>1, HonestReference DEF Honest
  <1>. QED
    BY <1>1, TopupSafe, PTL

\* A row keeps its reference, and all it has once it is completed.
Keeps(t) ==
  LET row == topups[t] IN
  /\ row.reference # NoReference => topups'[t].reference = row.reference
  /\ row.status = "completed" /\ <<row.reference, "failed">> \notin reports => topups'[t] = row

\* A task saves a row only while the row has no reference.
LEMMA TaskKeeps ==
  ASSUME SafeInv, NEW t \in Topups, CreateRow(t) \/ Initiate(t) \/ Retry(t), NEW s \in DOMAIN topups
  PROVE  Keeps(s)
  <1>1. CASE UNCHANGED topups
    BY <1>1 DEF Keeps
  <1>2. CASE CreateRow(t)
    <2>1. t \notin DOMAIN topups
      BY <1>2 DEF CreateRow, Goto, SafeInv, TasksKnow, TaskKnows
    <2>. QED
      BY <1>2, <2>1 DEF CreateRow, Insert, Keeps
  <1>3. ASSUME NEW from \in {"referred", "retried", "givingUp"}, NEW to, SaveRow(t, from, to)
        PROVE  Keeps(s)
    <2>1. CASE s = t
      <3>1. topups[t].reference = NoReference /\ Honest(DOMAIN operations, t, topups[t])
        BY <1>3, <2>1 DEF SaveRow, Goto, SafeInv, TasksKnow, TaskKnows, Initiating, RowsAreHonest
      <3>2. topups[t].status # "completed"
        BY <3>1, HonestReference, ReferenceOfTopup
      <3>. QED
        BY <2>1, <3>1, <3>2 DEF Keeps
    <2>2. CASE s # t
      BY <1>3, <2>2 DEF SaveRow, Keeps
    <2>. QED
      BY <2>1, <2>2
  <1>4. \/ UNCHANGED topups \/ CreateRow(t) \/ SaveRow(t, "referred", "saved")
        \/ SaveRow(t, "retried", "finished") \/ SaveRow(t, "givingUp", "finished")
    BY DEF Initiate, Retry, CreatePayment, AnswerUrl, MonCashUnavailable, QueueRetry, LoadRow,
           RetryFails, RetryReturns
  <1>. QED
    BY <1>1, <1>2, <1>3, <1>4

\* A delivery saves what its row has, if the row is completed, unless it is one
\* of a failure that MonCash reported of the same payment.
LEMMA WebhookKeeps ==
  ASSUME SafeInv, NEW d \in DOMAIN webhooks,
         FailTopup(d) \/ CompleteTopup(d), NEW s \in DOMAIN topups
  PROVE  Keeps(s)
  <1> DEFINE t == webhooks[d].topup
             key == webhooks[d].report[1]
  <1>a. /\ WebhookKnows(d) /\ webhooks[d].report \in reports /\ key \in AllReferences
        /\ webhooks[d].report = <<key, webhooks[d].report[2]>>
        /\ t \in DOMAIN topups /\ t \in Topups /\ topups[t].reference = key
        /\ webhooks[d].row \in TopupRow /\ webhooks[d].row.reference = key
        /\ topups[t] \in TopupRow /\ Honest(DOMAIN operations, t, topups[t])
    BY DEF SafeInv, WebhooksKnow, WebhookKnows, TypeInv, TopupTypeOK, Notified, Reports, RowsAreHonest
  <1> HIDE DEF t, key
  <1>1. CASE s # t
    <2>1. PICK row: SaveAndAcknowledge(d, row)
      BY DEF FailTopup, CompleteTopup
    <2>. QED
      BY <1>1, <2>1 DEF SaveAndAcknowledge, Keeps, t
  <1>2. CASE s = t /\ FailTopup(d)
    <2>1. webhooks[d].report[2] = "failed"
      BY <1>2, <1>a DEF WebhookKnows, FailTopup
    <2>2. <<topups[t].reference, "failed">> \in reports
      BY <1>a, <2>1
    <2> DEFINE row == [webhooks[d].row EXCEPT !.status = "failed"]
    <2>4. row.reference = key
      BY <1>a DEF TopupRow
    <2>5. topups' = [topups EXCEPT ![t] = row]
      BY <1>2 DEF FailTopup, SaveAndAcknowledge, t
    <2> HIDE DEF row
    <2>. QED
      BY <1>2, <1>a, <2>2, <2>4, <2>5 DEF Keeps
  <1>3. CASE s = t /\ CompleteTopup(d)
    <2> DEFINE row == [webhooks[d].row EXCEPT !.status = "completed", !.operation = key]
    <2>1. row.reference = key /\ row.status = "completed" /\ row.operation = key /\ row \in TopupRow
      BY <1>a DEF TopupRow
    <2>2. topups' = [topups EXCEPT ![t] = row]
      BY <1>3 DEF CompleteTopup, SaveAndAcknowledge, t, key
    <2> HIDE DEF row
    <2>3. topups[t].status = "completed" => topups[t] = row
      BY <1>a, <2>1 DEF TopupRow, Honest
    <2>. QED
      BY <1>3, <1>a, <2>1, <2>2, <2>3 DEF Keeps
  <1>. QED
    BY <1>1, <1>2, <1>3

\* No copy of a row that a handler holds undoes what another recorded, short of
\* a failure MonCash itself reported.
THEOREM TopupRowsKeep == Spec => RowsKeepWhatWasPaid
  <1>1. SafeInv /\ [Next]_vars =>
          [\A t \in DOMAIN topups:
             LET row == topups[t] IN
             /\ row.reference # NoReference => topups'[t].reference = row.reference
             /\ row.status = "completed" /\ <<row.reference, "failed">> \notin reports => topups'[t] = row]_vars
    <2> SUFFICES ASSUME SafeInv, Next, NEW t \in DOMAIN topups
                 PROVE  Keeps(t)
      BY DEF Keeps
    <2>1. CASE UNCHANGED topups
      BY <2>1 DEF Keeps
    <2>2. CASE \E s \in Topups: CreateRow(s) \/ Initiate(s) \/ Retry(s)
      BY <2>2, TaskKeeps
    <2>3. CASE \E d \in Deliveries: d \in DOMAIN webhooks /\ (FailTopup(d) \/ CompleteTopup(d))
      BY <2>3, WebhookKeeps
    <2>. QED
      BY <2>1, <2>2, <2>3
      DEF Next, HandleWebhook, CreditWallet, Receive, Pay, Decline, Notify, Dies, TaskDies, WebhookDies,
          taskVars
  <1>. QED
    BY <1>1, TopupSafe, PTL DEF Spec, RowsKeepWhatWasPaid
=============================================================================
