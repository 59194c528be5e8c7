------------------------------ MODULE MoneyOut ------------------------------
(***************************************************************************)
(* Transfers and payouts together: one ledger, one set of wallets, shared  *)
(* daily and monthly limits, shared OTP rows. Each kind of call takes its  *)
(* own steps; they meet only in the tables.                                *)
(***************************************************************************)
EXTENDS Wallet, Payout

Init == PayoutInit

Next ==
  \/ PayoutNext
  \/ \E c \in TransferCalls: TransferCall(c) /\ UNCHANGED payoutVars

Spec == Init /\ [][Next]_vars

-----------------------------------------------------------------------------
\* However often a request is sent, its transfer leaves the sender once and
\* reaches the recipient once, and every answer has a transfer behind it
\* (TransferDto: "the same clientRequestId can never move money twice").
TransferLegs(account, direction) ==
  LET ids == {id \in EntryIds: /\ operations[id[1]].type = "transfer"
                               /\ Entry(id).account = account
                               /\ Entry(id).direction = direction}
  IN  SumFunction([id \in ids |-> Entry(id).amountMinor])
Ordered(R) == SumFunction([r \in {q \in R: Posted(TransferKey(q))} |-> Dto[r].amountMinor])
TransferMovesOnce ==
  /\ \A c \in TransferCalls: stage[c] = "sent" => Posted(TransferKey(RequestOf[c]))
  /\ \A u \in Users:
       /\ TransferLegs(u, "debit") = Ordered({r \in Requests: Dto[r].sender = u})
       /\ TransferLegs(u, "credit") = Ordered({r \in Requests: Dto[r].recipient = u})

\* With one call of a sender at a time, no wallet is ever overdrawn, whatever
\* other users send to it, whichever calls die, and however payouts end.
NoOverdraft == \A u \in Users: Balance(u, "HTG") >= 0

\* With one call of a sender at a time, the debits of a day and of a month
\* stay within the sender's caps: transfers and payouts share one limit.
DebitsOf(user, days) ==
  LET ids == {id \in EntryIds: /\ Entry(id).account = user
                               /\ Entry(id).direction = "debit"
                               /\ operations[id[1]].createdAt \in days}
  IN  SumFunction([id \in ids |-> Entry(id).amountMinor])
Month(d) == {e \in 0..LastDay: e \div DaysPerMonth = d \div DaysPerMonth}
LimitsHold ==
  \A u \in Users, d \in 0..LastDay:
    DebitsOf(u, {d}) <= DailyLimit[u] /\ DebitsOf(u, Month(d)) <= MonthlyLimit[u]

\* With one call of a user at a time, one OTP lets one movement of money
\* through, and (same condition) every wrong code costs the row an attempt,
\* and nothing else does.
VerifiedBy(id) == {e.call: e \in {f \in auditLog: f.action = "security.otp_verified" /\ f.target = id}}
WrongCodes(id) == {e \in auditLog: e.action = "security.otp_failed" /\ e.target = id}
OtpSpentOnce ==
  \A id \in DOMAIN otpCodes:
    /\ Cardinality(VerifiedBy(id)) <= 1
    /\ otpCodes[id].attempts = Cardinality(WrongCodes(id))

=============================================================================
