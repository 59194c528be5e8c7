# Lajan'm, specified

TLA+ modules, TLC runs and TLAPS proofs about the money paths of Lajan'm, a mobile
wallet for Haiti: a NestJS API over PostgreSQL and Redis (`services/api`), a React
Native app (`apps/mobile`) and a back-office web app (`apps/admin-web`). Paths below are
relative to the repository root; services without a directory are under
`services/api/src/modules`.

## 1. Inventory

| component | state it keeps | operations | what is hard about it |
|---|---|---|---|
| **ledger** (`ledger/ledger.service.ts`) | `operations` (unique `idempotencyKey`, status), append-only `ledger_entries` | postOperation, reverseOperation, confirmOperation, derived balance and sums | the same key posted twice or concurrently; a reversal and a confirmation of one operation in either order |
| **ledger accounts** | `accounts`, unique per owner and name | getOrCreate | two first uses at once |
| **payout** (`payout/payout.service.ts`) | `payout_transactions`, unique `operationId` | initiate, history | four writes and a MonCash request in sequence; overlapping calls of one request; calls that die; a MonCash timeout that is not a refusal |
| **wallet** (`wallet/wallet.service.ts`) | none of its own | transfer, lookupRecipient, history | pre-checks read before the post; a repetition passes the pre-checks again |
| **security** (`security/security.service.ts`) | `otp_codes` | requestOtp, verifyAndConsumeOtp, enforceLimits, enforceOtpIfRequired | read-check-save of an OTP row; sums read before the debit; day and month boundaries |
| **MonCash client** (`topup/moncash-client.service.ts`) | none | createPayment, createPayout, verifyWebhookSignature | every failure looks alike, a request may be executed without an answer |
| **topup** (`topup/topup.service.ts`) | `topup_transactions`, the BullMQ retry queue | initiate, retryInitiation, handleWebhook | webhooks repeated, reordered, early; stale row saves; retries |
| **rate limit** (`common/rate-limit.service.ts`) | a Redis counter with a TTL per key | consume | the TTL is set again on every call |
| **auth** (`auth/auth.service.ts`) | `users`, `device_sessions` | register, login, changePin, updateProfile, revokeDevice | whole-row saves after long awaits; the lock counter |
| **kyc** (`kyc/kyc.service.ts`) | `kyc_submissions`, `users.tier` | submit, decide | two reviewers; decision and tier are two writes |
| **support** (`support/support.service.ts`) | `support_tickets`, `support_messages`, FAQ | createTicket, addMessage, updateTicket, create, update and delete of an FAQ entry | rows saved from a copy read before other awaits; a ticket without a message |
| **uploads** (`uploads/`) | files on disk, `uploaded_files` | accept, assertOwnedBy, read | file and row are two writes |
| **fraud** (`fraud/fraud.service.ts`) | `fraud_flags` | evaluate (three rules side by side), resolve | runs after the money moved, beside other calls of the sender; skipped by a repetition |
| **compliance** (`compliance/compliance.service.ts`) | `disputes`, reports of suspicious activity | reconcile, createDispute, updateDispute, createSar | two sums in two queries; stale dispute saves |
| **audit** (`audit/audit.service.ts`) | `audit_logs`, append-only | record | written after what it records |
| **admin, notifications, SMS, configuration** | none | token and role checks, stubs, start-up checks | - |
| **phone numbers** (`common/phone.ts`, migration 011) | none | normalizePhone and its SQL twin | the two must agree |
| **API client** (`apps/mobile/src/api/client.ts`, `apps/admin-web/src/lib/api.ts`) | the token, a timer per request | apiRequest | the server may act on a request the client gave up, or never get it; a gateway may answer instead |
| **money screens** (`TransferScreen`, `PayoutScreen`, `TopupScreen`, `useOtpStep`) | the state of the form, a card, intervals | look up, pay, ask for a code, poll | answers to a form that has changed; a doubt told as a refusal; two taps |
| **forms** (of both apps, `KycCaptureScreen`) | a draft, a busy mark, two photos | send, upload, submit | a text sent twice; a photo replaced while it uploads |
| **session, balance, lock** (`AuthContext`, `useBalance`, `AppLockGate`) | token and user, the cached balance, the lock | login, logout, refresh, unlock | answers that come after a logout; two prompts |
| **back-office pages** (`apps/admin-web/src/app`) | the rows shown, the open thread, one busy mark | load, filter, more, open, reply, decide | offsets over a list that moves; answers for another filter or row |

The API's handlers share nothing but the database: each `await` on it lets any other
handler run. A movement of money is `wallet`/`payout` -> `security` (limits, OTP) ->
`ledger` (one transaction) -> `audit`, `notifications`, `fraud`; `payout` and `topup`
also talk to MonCash, and MonCash calls `topup` back. The two clients talk to the API
through one function each, `apiRequest`; each tap is a request with a UUID of its own, so
that only a user, never a client, repeats one.

What makes each of them correct, in one line: the ledger's rows are balanced, unique by
key and final; a payout is paid or returned, never both, and its row says which; a request
repeated moves its money once; a wallet is not overdrawn and a cap not exceeded; an OTP
lets one movement through; a top-up is credited exactly when MonCash completed it; a row
saved from a stale copy takes nothing back; a debit that breaks a rule is flagged; a
reconciliation of quiet books shows no discrepancy; a screen claims what is so, sends what
its user saw, and never spins for ever.

## 2. Modules

Components are composed by EXTENDS with names of their own; INSTANCE is used for
refinement only.

| module | what it is |
|---|---|
| `Ledger` | the ledger service over `operations`: helpers and one operator per service method, no specification |
| `LedgerSystem` | the service closed by an arbitrary caller: `PostAny`, `ReverseAny`, `ConfirmAny`, `NextDay` |
| `Books` | what a ledger promises: stored balances that each key changes at most once |
| `Security` | concurrent calls as a `stage` per call, and the gates both money paths pass: entry, balance, limits, OTP |
| `Payout` | `PayoutService.initiate` from the reservation to the answer, with MonCash as its environment |
| `PayoutPromise` | what a payout promises: held, then paid and spent, or returned |
| `Wallet` | `WalletService.transfer` from the post to the answer |
| `MoneyOut` | transfers and payouts on one ledger |
| `Topup` | `TopupService`: initiate, the retry job, the webhook, with MonCash and BullMQ as the environment |
| `Auth` | `AuthService` on the users table: registration, login and its lock, PIN, profile, devices |
| `Kyc` | `KycService` on the same table: submissions, decisions, the tier |
| `Accounts` | the two together, with their properties |
| `RateLimit` | the Redis counter of `RateLimitService` |
| `Uploads` | `UploadsService.accept`: counter, inspection, disk, row |
| `Handlers` | how a support or compliance handler runs: find, save over, audit, die |
| `Support` | `SupportService`: tickets, their threads, the FAQ |
| `Oversight` | `FraudService` and `ComplianceService`: flags, disputes, reports, the reconciliation |
| `BackOffice` | the two together, sharing the slots of one process |
| `ApiClient` | a request, what the server does with it, and how its promise ends |
| `MoneyScreens` | the transfer, payout and top-up screens, and what the server may answer them |
| `FormScreens` | the screens that send a form, the KYC capture among them |
| `Desk` | the ticket page and the one-page queues, over lists others move |
| `Device` | session, balance and cache, lock |
| `Screens` | one open screen of one client against the server |
| `MCLedger`, `MCPayout`, `MCMoneyOut`, `MCTopup`, `MCAccounts`, `MCUploads`, `MCBackOffice`, `MCScreens` | small instances for TLC |
| `SumLemmas` | lemmas about sums over finite sets, and how an induction over one is replaced (`SmallestSubset`) |
| `LedgerProofs` | lemmas about the operators of `Ledger`, and theorems about the ledger under any caller |
| `MoneyOutProofs`, `TopupProofs`, `AccountsProofs`, `UploadsProofs`, `BackOfficeProofs`, `ScreensProofs` | theorems about the components of these names |

**How state corresponds.** `operations[key]` is the row with that `idempotencyKey`
together with its `ledger_entries`: both are written in one transaction and the entries
are immutable (migration 001), and since the key is unique it stands for the id too.
`reversalOf` is `metadata.reversalOf`. `today` is the database clock in whole days.
`stage[c]` is the program counter of call `c`, one handler execution; each `await` that
reads or writes a table ends a step. `payouts[order]` is the `payout_transactions` row with that
`operationId`. `otpCodes[id]` is an `otp_codes` row, and `seenAttempts[c]` the column of
the row object a call holds between its read and its save. `auditLog` is `audit_logs`.
`monCashPaid` and `monCashUncertain` are MonCash's, outside the repository. Amounts are
in minor units.

In `Topup`, `topups[t]` is a `topup_transactions` row. `tasks[t]` is whoever works on it:
first the `initiate` handler, then the job that handler queued, whose runs follow one
another; `row` is the TypeORM object in its hands and `attemptsMade`, `stalls` are
BullMQ's counters. `webhooks[d]` is a running `handleWebhook` with the row object it
loaded. `payments`, `reports` and `acknowledged` are MonCash's: the payments it opened,
the outcomes it notifies, those answered with a 2xx. `urls` are the gateway URLs a client
was given. A save writes every column of the object in hand, which is what makes a
stale copy dangerous.

In `Auth` and `Kyc`, `users[u]` is the row of the user with that normalised number, `sessions`
is `device_sessions`, `tokens` the users somebody holds an access token of. `calls[c]` is the
handler running in slot `c` with the row object it holds (`read`); `Save` writes that object
over the row, as `repository.save()` does. `overwritten` are the users whose row had changed
between the read and the save, `overlapped` what had two submissions or two decisions in flight
at once, `died` whose call stopped half-way: properties say what holds outside these, so that
each exception names the one thing in the code that breaks it. In `Uploads`, `disk[i]` is the
content under a stored name, `rows[i]` the `uploaded_files` row of that name with the
fingerprint (here the content itself).

In `Support` and `Oversight`, `calls[c]` is again the handler in slot `c`: its next step, the row
it is about, the object it holds and what it was asked. `SaveOver` is `repository.save()`: the
row ends up as the object. `tickets`, `threads` and `faqs` are the tables, a message reduced
to who wrote it. `debits` are the debit entries of the fraud rules' window in order,
`flags[<<i, rule>>]` the flag a rule raised on the i-th; `walletTotal` and `floatBalance` are
the two sums the reconciliation reads, and `moves` counts what crossed between them.

In `Screens`, `screen` is the screen a behaviour is about, and `requests` are its requests in
order: what was asked (`ask`), what the server did (`did`) and answered (`data`), and how the
promise ended (`heard`): with the server's answer, with one made on the way or a 5xx
(`"gateway"`), or with none (`"none"`: the timer, no network). The last two do not say
whether the server acted. `transfer`, `payout`, `topup`, `form`, `kyc`, `page` and `list` are
the `useState`s of a component; `session` is the token in `client.ts` and the user in
`AuthContext`, `balance` what `useBalance` shows, `cache` whose balance is stored, `lock` the
gate with the phone's prompts. `queue` is the server's list in the order of its query
(`updatedAt`, the latest first). `raced`, `disturbed`, `vouched` and `touches` are history.

**How actions correspond.** A payout call is `StartPayout` (users, accounts and the
amount cap), `CheckBalance`, `EnforceLimits`, `ReadOtp`, `SaveOtp`, `Reserve`, then
`FindOutcome` if the reservation existed, then `MonCashPays` -> `Confirm` ->
`SaveCompleted` -> `AuditCompleted` -> `AnswerCompleted`, or `MonCashUnavailable` ->
`Reverse` -> `SaveFailed` -> `AnswerFailed`. A transfer call passes the same gates and is
then `PostTransfer`, `AuditTransfer`, `AnswerTransfer`. A top-up is `CreateRow`, then
`CreatePayment` -> `SaveRow` -> `AnswerUrl`, or `MonCashUnavailable` -> `QueueRetry`; a run
of the job is `LoadRow`, then `CreatePayment` -> `SaveRow`, or `RetryFails`, which throws
or, in the final run, saves the row as failed; a delivery is `Receive`, then `FailTopup`, or
`CreditWallet` -> `CompleteTopup`. A login is `LoadForLogin`, then `RegisterFailedPinAttempt`
or `AdmitRightPin` -> `FindSession` -> `SaveSession`, then `Answer`; the other account calls are a
`LoadFor...` and a `Save...`, then `Answer` with the audit row; a decision has `RaiseTier` between.
An upload is `CountUpload` -> `WriteFile` -> `SaveRow` -> `AuditUpload`. A ticket is
`SaveTicket` -> `SaveFirstMessage` -> `Record`; a reply `LoadForReply` -> `SaveMessage` ->
`SaveAfterMessage` -> `Record`; the other updates are a `Load...`, a `Save...` and `Record`. A
debit is `PostDebit`, then one `Check` or `CheckFails` for each rule in any order; a
reconciliation is `SumWallets` -> `ReadFloat`. A screen has its taps, `Serve...` for what the
server does, and one `Hear...` for each awaited answer, which is the rest of the handler up to
its next await. `TaskDies`, `WebhookDies` and `Die` stop calls between steps. `Abort` stops a
call anywhere between two steps: a query that fails (the client sees a 500) or a process that
dies.

**Abstractions.** The two sums of `enforceLimits` are read in one step, though the code
awaits them one after the other. The audit row of a refused limit and of an OTP check goes
with its step. Notifications are left out, and the fraud evaluation is only the last step
of a call. A code is right or wrong, nothing of its digits is kept. A tier's limits are
constants of its user. Currency is HTG except in `LedgerSystem`. MonCash pays one orderId
at most once, which the comment at `payout.service.ts:109-116` assumes too. Of BullMQ it is
assumed that a job's runs do not overlap, that a run which throws is repeated while
attempts are left, and that a stalled run is repeated once. MonCash is assumed to let
nobody pay without the gateway URL, to notify every outcome until it is acknowledged
(`docs/topup.md`), perhaps again after that and in any order, and to complete a payment
at most once; it may answer a repeated createPayment with the first reference or a new
one, and a payment reported failed may still be paid. Signatures are taken as right.
argon2 accepts exactly the PIN of the row it was given; tokens do not expire; the two profile
fields are one. An uploaded file is what the inspection tells apart of it: size class,
extension, declared type, first bytes. A flag and its audit row, which nothing else reads, are
one step; everything in `Oversight` happens within the shortest window of the rules; payouts are
paid there (one MonCash refuses is returned and never judged); a dispute's update
names one column. Amounts on a screen are over the payout limit or not, a draft is known by
its number, a balance is whose it is. React Native's `fetch` resolves with the whole
response, so the 20 s timer covers the body although `client.ts:114-117` clears it before
`text()`. A phone holds one screen at a time as far as requests are concerned.

## 3. What the runs check

Passing runs:

- **ledger** (`MCLedger`, 1574 states): three keys, two wallets and a float, two
  currencies, two days; the inputs include a single leg, a zero leg, legs that cancel
  only across currencies. Checks that the table is balanced, that *reversed* means
  mirrored legs exist, that history stands, and that it implements `Books`.
- **payout** (`MCPayout`, 15558 states): two users, a request sent by two calls that
  overlap and another beside it, one call that dies, MonCash that may pay after a timeout.
  Rows tell the truth, answers match rows, the wallet is debited once or made whole,
  outcomes are final, and unless a call died every reservation is decided.
- **payout_once** (`MCPayoutOnce`, 454 states): two requests of one user, one call each,
  in flight together, one dies, refusals are definitive. No payout is free, row and
  ledger agree, and the protocol implements `PayoutPromise`.
- **money_out** (`MCMoneyOut`, 350938 states): of one user a payout and a transfer sent
  twice; of another two transfers that present one OTP, with wrong codes, expiry and two
  attempts; three days and two months, one call of a sender at a time, one call that dies.
  Money moves once, no wallet is overdrawn, no cap is exceeded, a code is spent once and wrong
  codes are counted. Balance, daily and monthly cap each refuse some call in this instance.
- **topup** (`MCTopup`, 8675 states): one order with two possible references, two
  attempts, two deliveries at once, two deaths anywhere. The wallet is credited once and
  only for what MonCash completed, a completed row names its credit, no stale copy takes a
  reference or a completion back, what a client paid is credited and its row decided
  whichever deliveries die, and a queued initiation ends with a reference or a failed row.
- **accounts** (`MCAccounts`, 643198 states up to symmetry): one person, registered or not, two
  PINs, one device, two photos, two submissions, two calls at once and four in all, a lock after
  two wrong PINs, one death. A row changes one column at a time and the tier is not taken back,
  a running lock is neither lifted nor forgotten, a verified user stands on two papers of their
  own, an approval raises the tier (the named parts of `AccountsInv` and `AccountsAreKept`),
  decisions stay: each unless the exception it names happened, and TLC reaches every one of
  these exceptions.
- **uploads** (`MCUploads`, 17391 states): one user, two uploads at once, a true photo, one
  that lies about its format and a hostile one, a limit of two in a window of two, four
  minutes, calls that die and redeployments that wipe the disk. No two adjacent windows let
  more through than the limit allows, only photos are kept, every file on the disk is
  accounted for, and what is read is what was accepted.
- **back_office** (`MCBackOffice`, 946370 states up to symmetry): two calls at once and four in
  all, one death, one ticket, one FAQ entry, one sender with two recipients and two amounts,
  one dispute. Tickets have their text and answered ones leave the pile; what was put
  away comes back only when it is asked for or out of a stale row; a dispute and a resolved flag
  lose nothing else; every debit whose rules ran is flagged when it breaks one, however many ran
  at once; a reconciliation shows no discrepancy when no money crossed between its queries.
- **screens** (`MCScreens`, 941510 states): every modelled screen of both apps, three to
  five requests each, answers lost, late, replaced by a gateway's, out of order. What a screen
  claims is so (`ClaimsAreTrue`), what its user meant once is done once unless an answer left a
  doubt (`OnceUnlessInDoubt`), what is sent is what was shown (`SentAsShown`), the ticket page
  shows the queue of its filter without gaps while nobody moves it, the balance called live
  belongs to the token and the lock opens only for its owner (`ScreensInv`), and no spinner of
  the app turns for ever (`BusyEnds`).

Runs that show where the code does not keep what the repository says:

- **payout_retry_after_crash**: a call dies after the reversal and before the FAILED row;
  the repetition finds a reservation without a row, MonCash pays, the row says completed,
  the wallet keeps the money (`payout.service.ts:109-116`).
- **topup_without_url**: the retry job keeps the reference and drops the gateway URL, so
  the row stays pending for a payment nobody can make (`topup.service.ts:82-84`).
- **transfer_to_another**: the answer of a lookup is put on the card whatever the field holds by
  then (`TransferScreen.tsx:56`), and the transfer goes to the number in the field: an account
  nobody was shown, where line 38 promises "only to a confirmed account" and 141-142 that a
  card is worth nothing once the number changed.

More are visible in the models and have no run:

- Of two calls of one request one reverses what the other confirms (`payout.service.ts:84-86`,
  `reverseOperation` reads no status): MonCash paid and the wallet has its money back.
  `MCPayout` reaches it, `DebitedOnceOrMadeWhole` speaks of the ledger alone, and
  `NoFreePayout` is claimed for one call per request.
- A caller below the limit in every window is refused, since every call moves the expiry of
  the counter on (`rate-limit.service.ts:60`), where line 13 promises a sliding window.
- A query that fails after MonCash paid is answered with a 500, of which `PayoutScreen.tsx:57`
  says that no money moved; `ClaimsAreTrue` excepts a `"gateway"` answer for it.
- A repeated transfer is refused by the balance check before it reaches its idempotent post
  (`docs/architecture.md:24-28`).
- A profile saved from a row loaded before an approval takes the tier back; two reviewers can
  leave a verified user with a rejected submission.
- An OTP issued for one purpose is accepted for the other, since `OtpUsable` compares no
  purpose (`security.service.ts:116-119` says it does).
- A `failed` notification of a first try, delivered again after a second try was paid, saves
  `failed` over a completed row, which is why `RowsKeepWhatWasPaid` excepts payments MonCash has
  also reported failed.
- A reply that loaded its ticket before an operator closed it saves `in_progress` over `closed`
  (`support.service.ts:133`): the `overwritten` of `PutAwayStaysAway`.
- A top-up or payout posted between the two queries of the reconciliation makes balanced books look
  unbalanced (`compliance.service.ts:34-45`): the `moved` of `QuietBooksReconcile`.
- The cached balance is not cleared on logout (`useBalance.ts`): the next user of the phone is
  shown it, marked as cached, until their own arrives.
- One `busyId` serves all rows of a queue: deciding a second row revives the first one's
  buttons (`kyc/page.tsx:29`).
- Saving a dispute's notes without touching the text area erases them
  (`disputes/page.tsx:44` sends `''`).

**Bounds.** `MaxInFlight` is the number of calls of one sender that run at once. It is 1 where
overdraft, limits and OTP use are checked: with 2 these fail, since the code checks before it
posts and holds no lock, which the code's comments call best-effort. `MaxAborts` is 1: one death
per behaviour already reaches every prefix of a call. `EarlyReplies` in `MCMoneyOut` leaves out,
past the month's last day, calls of the user whose caps never refuse. Two calls of one request
and one of another suffice because calls meet only in the rows of their request, their sender's
wallet and a shared OTP. In `topup` two references and two deliveries are enough for any pair of
copies of a row to meet; top-ups meet each other only through references, and the theorems cover
any number of them. In `accounts`, `MaxCalls`, `MaxWrong` and `LastMinute` keep the table
finite: two overlapping calls after two earlier ones reach every pair of read and save on one
row, and two wrong PINs, a tick and a right one walk through the lock. In `uploads`, `MaxAsked`
is what it takes to fill two adjacent windows. In `back_office` two calls meet on a row after
two others have made it and changed it; `VelocityCount` 3, `MinHistory` 2, `NewBeneficiaries` 2
and the code's factor 5 let three debits reach every rule, and the constraint `OneDesk` explores
tickets, the FAQ, money and papers one at a time, since they share slots and nothing else. In
`screens` a behaviour is about one screen; three requests are a lost tap, its repetition and an
answer in between; the KYC capture needs five (two photos, one replaced, two submissions), and
the top-up (attempt, retry, polls of both) and the session (two users, a balance each) four; a
queue five (the list, and four decisions that take the busy mark from each other). Two rows and a page of one row are enough for a page boundary to move.

`LastDay` and `DaysPerMonth` give a day and a
month boundary where dates matter.

**Fairness.** Weak fairness of each payout call's next step: Node resumes a handler when its query
or its MonCash request (aborted after 10 s) returns, or the handler dies. Top-up tasks and
deliveries likewise. Strong fairness of the delivery of each unacknowledged notification:
MonCash delivers it until it is acknowledged, and deaths are finitely many.
On the phone, weak fairness of the end of each request: the client's timer aborts it after
20 s when nothing else ends it, an upload after 60 s (`client.ts:37,75`). The back office
has no timer, and nothing is assumed or shown of its spinners. Taps, calls, OTP requests,
expiry and days are never assumed to happen. Nothing justifies that a reservation whose
call died is ever decided, and the code has no sweep for it.

Deadlock is not checked: a behaviour ends when all calls have returned.

## 4. What is proved

For every value of the constants that satisfies the ASSUMEs (any users, accounts, requests,
calls, slots and bounds):

- **Sums** (`SumLemmas`). Balances, caps and counters are folds over sets, and what a fold
  computes would need induction over data. `SumOver` is characterised without it: if a fact
  about sums failed for some subset of a finite set, it would fail for a smallest one
  (`SmallestSubset`, from well-founded minimality of cardinalities), and taking one element
  from that one gives a contradiction. From this come adding an element, splitting a set,
  changing one term, comparing termwise, and exchanging two sums.
- **Ledger, any caller** (`LedgerProofs`): types, balanced operations, *reversed exactly
  when mirrored*, append-only history. The invariant adds that a reversal's original is in
  the table (`ReversalsHaveOriginals`), without which a new row could be born reversed.
  Balanced rows are preserved by reversal because `reverseOperation` checks its mirrored
  legs like any others. The table implements `Books` (`LedgerImplementsBooks`): a new row
  changes the sum over all legs of an account by the sum over its own legs. This needs
  `Accounts` to be finite (`AccountsAssumption`).
- **Payouts, any calls** (`MoneyOutProofs`, first half): types; outcomes are final, from
  `StepKeeps` (no step takes back a row, a reversal or a payment); rows tell the truth and
  answers match rows, from `OutcomeInv`, which says what a call's stage implies about MonCash
  and the ledger (`CallKnows`). What a call knows is only ever about facts that are kept,
  so the steps of other calls cannot spoil it. A sender is debited once or made whole, since
  the legs with a request's keys are those of its two rows.
- **Payouts, one call per request, definitive refusals**: no payout is free, row and ledger
  agree, and `PayoutSpec` implements `PayoutPromise`. The invariant is `PromiseInv`: the stage
  of the only call of a request determines the status of its reservation, and a step of a call
  touches nothing of another (`OnlyTouches`). Calls may die anywhere and overlap with calls of
  other requests. The run payout_retry_after_crash shows that one call per request is needed,
  and the same instance with `UncertainAnswers = TRUE` that definitive refusals are.
- **Transfers and payouts together** (`MoneyOutProofs`, second half). A transfer moves once,
  however often it is sent (`RowsInv`: what each kind of row looks like and which stages have
  posted theirs). With one call of a sender at a time (`MaxInFlight = 1`, a hypothesis of these
  three theorems, as of the run): no wallet is overdrawn (`FundsInv`: a call past the balance
  check still has what it checked, because only the sender's own calls debit a wallet); the
  daily and monthly caps hold (`LimitsInv`: what `enforceLimits` found free is free until the
  post; a day that passes meanwhile only frees more); an OTP row lets one movement through
  (`OtpInv`). With two calls these are false, which TLC shows on the same instance.
- **Top-ups, any number of orders, deliveries, attempts and deaths** (`TopupProofs`):
  types; a wallet is credited once and only for a completed payment; completed rows name
  their credit; copies take nothing back. The invariant `SafeInv` says what each holder of
  a copy knows. Only the task of a top-up sets the reference, and until it has saved one no
  delivery finds the row (`TasksKnow`, `WebhookKnows`); a client can pay a reference only
  if the row carries it (`UrlsAreSaved`), so a second reference of the same order is never
  paid; and a copy that says completed is backed by the ledger (`Honest`), which only grows.
- **Accounts and KYC, any calls in flight** (`AccountsProofs`): `AccountsInv`,
  `AccountsAreKept`, `DecidedStays`. Handlers save rows they read some awaits before, so the
  invariant `AccountsIInv` speaks of what each copy still vouches for (`Stands`): a copy that
  says "verified" belongs to a user with approved papers, a lock in a copy ends within
  `LockFor` of now, a decision holds a submission that is pending unless it is marked as
  overlapped. Two calls that could spoil each other's are marked when the second begins
  (`CallsApart`), which is why the exceptions the properties make are enough.
- **Uploads** (`UploadsProofs`): no window lets more than the limit through. Every call moves
  the expiry of the counter, so the counter outlives every window that reaches its last call
  and holds all of them (`Counted`). What is kept was inspected, and rows and contents never
  change under a reader (`FilesInv`: the content of a call past its write is on the disk under
  an id no other call has).
- **Back office** (`BackOfficeProofs`): answered tickets leave the pile, nothing put away comes
  back, every debit whose rules ran is flagged (`JudgesInv`: the rules of a debit see all debits
  posted before it, since they count when their turn comes), and the reconciliation is true
  of books nobody moved (`FloatsInv`: the float and the wallets change together except between
  the two queries, where `moved` is set).

- **Screens** (`ScreensProofs`), for any number of requests, texts, rows, polls and users:
  `ScreensInv`, `ClaimsAreTrue`, `OnceUnlessInDoubt`, `SentAsShown`, `PagesTellTheQueue`. A
  behaviour is about one screen, so the invariant `ScreensIInv` is that screen's own, with
  what holds of the requests of any screen (`RequestsInv`), and the others are as they begin.
  Every step is one of five things to the requests (`RequestStep`: nothing, one more, one
  answered, one ended, one ended and followed by another), each lemma about a set of requests is
  proved once for these five, and each screen says only what its handlers do besides:
  - *money* (`TransferInv`, `PayoutInv`, `TopupInv`): at most one payment or code is awaited, and
    while it is the button is dead; payments whose user was not left in doubt are at most one
    (`OneTap`), so all others are counted by the doubts. The payout shown as failed is the last,
    and was not paid. Every lookup on its way is about the number in the field, unless that was
    edited meanwhile. A decided deposit stays as a poll found it.
  - *forms* (`FormInv`, `KycInv`): what is awaited is the text in the form, and a text that was
    taken is not there any more; photos on file are those of their slot, accepted and shown.
  - *phone* (`HomeInv`, `LockInv`): a balance on its way was asked for with the token of its
    mount, or of a mount that is over; prompts that are up are among those begun, and with none
    up the lock is closed or its owner was recognised.
  - *queues* (`QueueInv`): each further decision of a row is paid for by a doubt, or by another
    row's decision that took the busy mark or cleared it when it ended.
  - *ticket page* (`PageInv`): at most one thing makes the page busy, and a draft or a reply under
    way is the open ticket's. While the list is undisturbed (`TellsAt`) the one answer it
    awaits is the page of the present queue at the list's length, so that appending it
    prolongs the prefix. The queue of a filter is defined by position (`Nth`), and that
    it is a sequence of all and only the passing rows is proved from cardinalities.

The constants are assumed to be what their comments say: bounds are naturals, and `None` is
no member of the sets it is compared with (`AuthAssumption`, `KycAssumption`,
`UploadsAssumption`, `SupportAssumption`, `OversightAssumption`, `ApiClientAssumption`,
`MoneyScreensAssumption`, `DeskAssumption`, `DeviceAssumption`); a page holds at least one row,
and the phone lets at least one unlock prompt be made.

Only model-checked: all liveness (`ReservationsResolve`, `PaidIsCredited`, `QueuedIsDecided`,
`BusyEnds`: the prover has no fairness). Every safety invariant and every action property of the
passing runs has a theorem.

## 5. Plan, and what is not modelled

The proof of the queues corrected the model's own claim. `RowsAreDecidedOnce` used to allow a row
one more decision for each request about another row; with five requests TLC finds a row decided
twice under that bound, because such a request revives the first row's buttons two times over: when
it takes the busy mark (`kyc/page.tsx:29`) and when its end clears it. The property now counts
both, the run has the five requests it takes, and the theorem covers any number.

Nothing of the plan is left but what the prover cannot do, liveness under fairness.

Not modelled:

- **ledger accounts**: `getOrCreate` is an insert and a select around a unique index; the other
  modules take the account it yields as given.
- **phone numbers**: character work on one string without state; a bounded model would be its unit
  tests again. The lookup's own rate limit is the counter of `RateLimit` under another key.
- **histories and lists that only read**: their pages grow at the front only; the ticket queue,
  which moves, is in `Desk`.
- **the publish and delete buttons of the FAQ page, the disputes and reconciliation pages**: one
  call each without a busy state of interest; their services are in `Support` and `Oversight`.
- **the profile's switches** for the lock and the language: a preference saved and read again.
- **admin token and role checks, configuration**: stateless, or read once at start-up.
- **notifications and SMS**: stubs that log. Screens' wording, language and layout.
