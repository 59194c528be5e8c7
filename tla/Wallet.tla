------------------------------- MODULE Wallet -------------------------------
(***************************************************************************)
(* WalletService.transfer (modules/wallet/wallet.service.ts): money from   *)
(* one user's wallet to another's, under the request's idempotency key.    *)
(***************************************************************************)
EXTENDS Security

TransferKey(r) == <<"wallet-transfer", r>>

TransferCalls == {c \in Calls: Request(c).kind = "transfer"}

\* The recipient must be someone else with an account: the number may be
\* nobody's, which is a recipient that is no user.
StartTransfer(c) ==
  Enter(c, Request(c).recipient \in Users /\ Request(c).recipient # Sender(c))

\* Mutant of PostTransfer: a key of its own for every execution.
PostTransferAnew(c) ==
  /\ Goto(c, "gated", "posted")
  /\ PostOperation(TransferKey(c), "transfer", "completed",
       <<Debit(Sender(c), AmountMinor(c)), Credit(Request(c).recipient, AmountMinor(c))>>)
  /\ UNCHANGED <<today, otpCodes, seenAttempts, auditLog>>

\* One transaction moves the money; a key already used moves nothing and
\* answers with the first operation.
PostTransfer(c) ==
  LET key == TransferKey(RequestOf[c]) IN
  /\ Goto(c, "gated", IF Posted(key) THEN "reposted" ELSE "posted")
  /\ PostOperation(key, "transfer", "completed",
       <<Debit(Sender(c), AmountMinor(c)), Credit(Request(c).recipient, AmountMinor(c))>>)
  /\ UNCHANGED <<today, otpCodes, seenAttempts, auditLog>>

\* The audit row is written for a repetition too; notifications and the fraud
\* evaluation are for a transfer that moved money.
AuditTransfer(c) ==
  /\ Goto(c, "posted", "transferred") \/ Goto(c, "reposted", "sent")
  /\ Record("wallet.transfer", c, TransferKey(RequestOf[c]))
  /\ UNCHANGED <<ledgerVars, otpCodes, seenAttempts>>

AnswerTransfer(c) ==
  /\ Goto(c, "transferred", "sent")
  /\ UNCHANGED <<ledgerVars, otpCodes, seenAttempts, auditLog>>

TransferStep(c) == PostTransfer(c) \/ AuditTransfer(c) \/ AnswerTransfer(c)

\* Everything a transfer call does, the gates and its death included.
TransferCall(c) == StartTransfer(c) \/ GateStep(c) \/ TransferStep(c) \/ Abort(c)
=============================================================================
