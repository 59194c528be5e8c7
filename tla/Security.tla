------------------------------ MODULE Security ------------------------------
(***************************************************************************)
(* The gates of modules/security/security.service.ts and the balance check *)
(* that a transfer and a payout both pass before money moves, as steps of  *)
(* concurrent API calls. A call is one execution of WalletService.transfer *)
(* or PayoutService.initiate; each await on the database is a step of its  *)
(* own, so between two steps of a call any other call may take its own.    *)
(*                                                                         *)
(* A client request (a clientRequestId and its DTO) may be sent any number *)
(* of times: several calls may serve the same request.                     *)
(***************************************************************************)
EXTENDS Ledger

CONSTANTS Users,         \* user ids; a user's wallet account is named by the user
          MonCashFloat,  \* the system account moncash_float
          Requests,      \* clientRequestIds
          Dto,           \* request -> [kind, sender, recipient, amountMinor, otp]
          Calls,         \* executions of a handler
          RequestOf,     \* call -> the request it serves
          OtpIds,        \* otp_codes rows that may be issued
          OtpThreshold,  \* OTP_THRESHOLD_HTG, in minor units
          MaxAttempts,   \* otp_codes.maxAttempts
          DailyLimit,    \* user -> daily cap of the user's tier
          MonthlyLimit,  \* user -> monthly cap of the user's tier
          Funding,       \* user -> balance topped up before the run
          MaxInFlight,   \* bound: calls of one sender running at once
          MaxAborts      \* bound: calls that die half-way

Purposes == {"transfer", "payout"}
NoOtp == "none"
RequestForm ==
  [kind: Purposes, sender: Users, recipient: Users \cup {MonCashFloat},
   amountMinor: Nat \ {0}, otp: OtpIds \cup {NoOtp}]

ASSUME SecurityAssumption ==
  /\ Users \cup {MonCashFloat} \subseteq Accounts
  /\ MonCashFloat \notin Users
  /\ "HTG" \in Currencies
  /\ Dto \in [Requests -> RequestForm]
  /\ RequestOf \in [Calls -> Requests]
  /\ NoOtp \notin OtpIds
  /\ OtpThreshold \in Nat /\ MaxAttempts \in Nat \ {0}
  /\ DailyLimit \in [Users -> Nat] /\ MonthlyLimit \in [Users -> Nat]
  /\ Funding \in [Users -> Nat]
  /\ MaxInFlight \in Nat \ {0} /\ MaxAborts \in Nat

OtpRow ==
  [userId: Users, purpose: Purposes, attempts: 0..MaxAttempts, consumed: BOOLEAN, expired: BOOLEAN]

VARIABLES stage,         \* call -> where its handler is
          otpCodes,      \* issued otp id -> [userId, purpose, attempts, consumed, expired]
          seenAttempts,  \* call -> otp.attempts of the row object it holds
          auditLog       \* audit_logs: [action, call, target]

securityVars == <<stage, otpCodes, seenAttempts, auditLog>>

Request(c) == Dto[RequestOf[c]]
Sender(c) == Request(c).sender
AmountMinor(c) == Request(c).amountMinor

\* Stages at which a handler has not begun or has returned: new; refused by a
\* gate (4xx); aborted (the process died or a query failed, the client saw a
\* 500 or nothing); error (a unique index refused a row: 500); and answers.
AtRest == {"new", "refused", "aborted", "error", "sent", "completed", "failed"}
GateStages == {"new", "loaded", "funded", "otpDue", "otpRead", "gated", "refused", "aborted"}

InFlight(user) == {c \in Calls: Sender(c) = user /\ stage[c] \notin AtRest}

\* Call c moves from one stage to another; gates lead on or refuse.
Goto(c, from, to) == stage[c] = from /\ stage' = [stage EXCEPT ![c] = to]
Gate(c, from, passes, to) == Goto(c, from, IF passes THEN to ELSE "refused")

Record(action, c, target) ==
  auditLog' = auditLog \cup {[action |-> action, call |-> c, target |-> target]}

TopupKey(user) == <<"topup", user>>
Debit(account, n) ==
  [account |-> account, direction |-> "debit", amountMinor |-> n, currency |-> "HTG"]
Credit(account, n) ==
  [account |-> account, direction |-> "credit", amountMinor |-> n, currency |-> "HTG"]

\* Nothing has run; the wallets hold what earlier top-ups left in them.
SecurityInit ==
  /\ today = 0
  /\ operations = [k \in {TopupKey(u): u \in {v \in Users: Funding[v] > 0}} |->
       NewOperation("topup", "completed",
         <<Credit(k[2], Funding[k[2]]), Debit(MonCashFloat, Funding[k[2]])>>, NoOperation)]
  /\ stage = [c \in Calls |-> "new"]
  /\ otpCodes = <<>>
  /\ seenAttempts = [c \in Calls |-> 0]
  /\ auditLog = {}

-----------------------------------------------------------------------------
(* The steps of a call up to the point where money may move. *)

\* The handler begins: it loads the users and accounts, or refuses.
Enter(c, admitted) ==
  /\ Cardinality(InFlight(Sender(c))) < MaxInFlight
  /\ Gate(c, "new", admitted, "loaded")
  /\ UNCHANGED <<ledgerVars, otpCodes, seenAttempts, auditLog>>

\* Mutant of CheckBalance: a wallet that is not empty will do.
CheckPositive(c) ==
  /\ Gate(c, "loaded", Balance(Sender(c), "HTG") > 0, "funded")
  /\ UNCHANGED <<ledgerVars, otpCodes, seenAttempts, auditLog>>

\* The best-effort balance pre-check.
CheckBalance(c) ==
  /\ Gate(c, "loaded", Balance(Sender(c), "HTG") >= AmountMinor(c), "funded")
  /\ UNCHANGED <<ledgerVars, otpCodes, seenAttempts, auditLog>>

Spent(user, since) == SumDirection(user, "debit", since, "HTG")
WithinLimits(c) ==
  /\ Spent(Sender(c), today) + AmountMinor(c) <= DailyLimit[Sender(c)]
  /\ Spent(Sender(c), StartOfMonth) + AmountMinor(c) <= MonthlyLimit[Sender(c)]

\* enforceLimits over the debits of the day and of the month, reversed ones
\* included, then the part of enforceOtpIfRequired that needs no query.
EnforceLimits(c) ==
  /\ IF AmountMinor(c) < OtpThreshold
     THEN Gate(c, "funded", WithinLimits(c), "gated")
     ELSE Gate(c, "funded", WithinLimits(c) /\ Request(c).otp # NoOtp, "otpDue")
  /\ IF WithinLimits(c) THEN UNCHANGED auditLog
     ELSE Record("security.limit_exceeded", c, NoOperation)
  /\ UNCHANGED <<ledgerVars, otpCodes, seenAttempts>>

\* requestOtp: a code is issued to a user for a purpose.
RequestOtp(id, user, purpose) ==
  /\ id \notin DOMAIN otpCodes
  /\ otpCodes' = Insert(otpCodes, id, [userId |-> user, purpose |-> purpose, attempts |-> 0,
                                       consumed |-> FALSE, expired |-> FALSE])
  /\ UNCHANGED <<ledgerVars, stage, seenAttempts, auditLog>>

ExpireOtp(id) ==
  /\ id \in DOMAIN otpCodes /\ ~otpCodes[id].expired
  /\ otpCodes' = [otpCodes EXCEPT ![id].expired = TRUE]
  /\ UNCHANGED <<ledgerVars, stage, seenAttempts, auditLog>>

\* verifyAndConsumeOtp, up to its await on save: read the row and check it.
\* The row's purpose is not compared.
OtpUsable(id, user) ==
  /\ id \in DOMAIN otpCodes
  /\ otpCodes[id].userId = user
  /\ ~otpCodes[id].consumed /\ ~otpCodes[id].expired
  /\ otpCodes[id].attempts < MaxAttempts

ReadOtp(c) ==
  LET id == Request(c).otp usable == OtpUsable(id, Sender(c)) IN
  /\ Gate(c, "otpDue", usable, "otpRead")
  /\ seenAttempts' = [seenAttempts EXCEPT ![c] = IF usable THEN otpCodes[id].attempts ELSE 0]
  /\ UNCHANGED <<ledgerVars, otpCodes, auditLog>>

\* Mutants of SaveOtp: the right code not consumed; the wrong one not counted.
SaveOtpUnconsumed(c, right) ==
  LET id == Request(c).otp IN
  /\ Gate(c, "otpRead", right, "gated")
  /\ otpCodes' = [otpCodes EXCEPT ![id].attempts = seenAttempts[c] + (IF right THEN 0 ELSE 1)]
  /\ seenAttempts' = [seenAttempts EXCEPT ![c] = 0]
  /\ Record(IF right THEN "security.otp_verified" ELSE "security.otp_failed", c, id)
  /\ UNCHANGED ledgerVars
SaveOtpUncounted(c, right) ==
  LET id == Request(c).otp IN
  /\ Gate(c, "otpRead", right, "gated")
  /\ otpCodes' = [otpCodes EXCEPT ![id].consumed = right]
  /\ seenAttempts' = [seenAttempts EXCEPT ![c] = 0]
  /\ Record(IF right THEN "security.otp_verified" ELSE "security.otp_failed", c, id)
  /\ UNCHANGED ledgerVars

\* The save that follows writes back the row object: one attempt more after a
\* wrong code, consumed after the right one. Columns that changed in between
\* return to what was read (consumedAt was null then). Its audit row goes with it.
SaveOtp(c, right) ==
  LET id == Request(c).otp IN
  /\ Gate(c, "otpRead", right, "gated")
  /\ otpCodes' = [otpCodes EXCEPT
       ![id].attempts = IF right THEN seenAttempts[c] ELSE seenAttempts[c] + 1,
       ![id].consumed = right]
  /\ seenAttempts' = [seenAttempts EXCEPT ![c] = 0]
  /\ Record(IF right THEN "security.otp_verified" ELSE "security.otp_failed", c, id)
  /\ UNCHANGED ledgerVars

\* Mutant of Abort: the catch clause takes every error for MonCash's, so a
\* payout whose confirmation failed goes on to the reversal.
AbortIntoReversal(c) ==
  /\ stage[c] \notin AtRest
  /\ Cardinality({d \in Calls: stage[d] = "aborted"}) < MaxAborts
  /\ stage' = [stage EXCEPT ![c] = IF stage[c] = "paid" THEN "declined" ELSE "aborted"]
  /\ seenAttempts' = [seenAttempts EXCEPT ![c] = 0]
  /\ UNCHANGED <<ledgerVars, otpCodes, auditLog>>

\* A handler dies between two of its steps: a query failed or the process
\* stopped. What it committed stays.
Abort(c) ==
  /\ stage[c] \notin AtRest
  /\ Cardinality({d \in Calls: stage[d] = "aborted"}) < MaxAborts
  /\ stage' = [stage EXCEPT ![c] = "aborted"]
  /\ seenAttempts' = [seenAttempts EXCEPT ![c] = 0]
  /\ UNCHANGED <<ledgerVars, otpCodes, auditLog>>

GateStep(c) ==
  \/ CheckBalance(c) \/ EnforceLimits(c) \/ ReadOtp(c)
  \/ \E right \in BOOLEAN: SaveOtp(c, right)

\* What happens around the calls: codes issued and expiring, days passing.
Surroundings ==
  \/ \E id \in OtpIds: ExpireOtp(id)
  \/ \E id \in OtpIds, user \in Users, purpose \in Purposes: RequestOtp(id, user, purpose)
  \/ NewDay /\ UNCHANGED <<operations, securityVars>>
=============================================================================
