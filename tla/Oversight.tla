----------------------------- MODULE Oversight ------------------------------
(***************************************************************************)
(* FraudService and ComplianceService (modules/fraud/fraud.service.ts,     *)
(* modules/compliance/compliance.service.ts): the rules that judge every   *)
(* posted debit, the flags an operator resolves, disputes, reports of      *)
(* suspicious activity, and the reconciliation of the wallets with the     *)
(* MonCash float. The whole model lies inside one window of the rules.     *)
(***************************************************************************)
EXTENDS Handlers, Integers, Sequences, FiniteSetsExt

CONSTANTS Senders,           \* users whose debits are judged
          Recipients,        \* users they send to
          Amounts,           \* amounts moved
          VelocityCount,     \* debits in the window that are too many (5)
          Multiplier,        \* times the average that is unusual (5)
          MinHistory,        \* debits before an average means anything (5)
          NewBeneficiaries,  \* recipients in a day that are too many (3)
          Admins,            \* operators who resolve, note and file
          Disputes, Sars,    \* ids
          Verdicts,          \* statuses operators give to flags
          Marks,             \* statuses operators give to disputes
          Notes,             \* internal notes
          MaxMoves           \* bound: money movements

Rules == {"high_velocity", "amount_anomaly", "frequent_new_beneficiaries"}
Resolutions == {"resolved", "confirmed_suspect", "false_positive"}
DisputeStatus == {"open", "investigating", "resolved", "rejected"}

FlagRow == [status: Resolutions \cup {"open"}, resolvedBy: Admins \cup {None}]
DisputeRow == [status: DisputeStatus, internalNotes: Notes \cup {None}, assignedTo: Admins \cup {None}]

ASSUME OversightAssumption ==
  /\ Amounts \subseteq Nat \ {0}
  /\ {VelocityCount, Multiplier, MinHistory, NewBeneficiaries} \subseteq Nat \ {0}
  /\ Verdicts \subseteq Resolutions /\ Marks \subseteq DisputeStatus
  /\ MaxMoves \in Nat
  /\ None \notin FlagRow \cup DisputeRow \cup Recipients

VARIABLES debits,       \* debits posted: [user, amount, to], to None for a payout
          flags,        \* <<debit, rule>> -> its fraud_flags row, or None
          walletTotal,  \* sum of the users' wallets
          floatBalance, \* balance of the MonCash float
          moves,        \* movements between the wallets and the float so far
          reports,      \* reconciliations answered
          disputes,     \* dispute -> its row, or None
          sars          \* reports of suspicious activity filed

oversightVars == <<debits, flags, walletTotal, floatBalance, moves, reports, disputes, sars>>

\* A debit is known by its place in the ledger.
DebitId(i) == <<i>>
FlagIds == (1..MaxMoves) \X Rules

OversightInit ==
  /\ debits = <<>>
  /\ flags = [f \in FlagIds |-> None]
  /\ walletTotal = 0 /\ floatBalance = 0 /\ moves = 0
  /\ reports = {}
  /\ disputes = [d \in Disputes |-> None]
  /\ sars = {}

books == <<debits, walletTotal, floatBalance, moves>>
files == <<disputes, sars, reports>>

-----------------------------------------------------------------------------
(* Debits, and FraudService.evaluate after each *)

\* Mutant of Cross: the float is credited too.
CrossCrediting(amount) ==
  /\ walletTotal' = walletTotal + amount
  /\ floatBalance' = floatBalance + amount
  /\ moves' = moves + 1

\* A top-up or a payout moves the wallets against the float in one operation.
Cross(amount) ==
  /\ walletTotal' = walletTotal + amount
  /\ floatBalance' = floatBalance - amount
  /\ moves' = moves + 1

PostTopup(amount) ==
  /\ Len(debits) + moves < MaxMoves
  /\ Cross(amount)
  /\ UNCHANGED <<debits, flags, files, handlerVars>>

\* A transfer or a payout is posted; its call goes on to the rules. A payout
\* MonCash refuses is returned and never judged: here they are paid.
PostDebit(c, u, amount, to) ==
  /\ Len(debits) + moves < MaxMoves
  /\ debits' = Append(debits, [user |-> u, amount |-> amount, to |-> to])
  /\ IF to = None THEN Cross(-amount) ELSE UNCHANGED <<walletTotal, floatBalance, moves>>
  /\ Begin(c, Call("evaluate", DebitId(Len(debits) + 1), None,
                   IF to = None THEN Rules \ {"frequent_new_beneficiaries"} ELSE Rules))
  /\ UNCHANGED <<flags, files>>

DebitsOf(u) == {i \in DOMAIN debits: debits[i].user = u}
RecipientsOf(S) == {debits[i].to: i \in S} \ {None}
Unusual(amount, S) ==
  /\ Cardinality(S) >= MinHistory
  /\ LET average == SumFunction([i \in S |-> debits[i].amount]) \div Cardinality(S)
     IN  average > 0 /\ amount > average * Multiplier

\* Mutant of Hits: the debit being judged is not counted in.
HitsBefore(rule, i) ==
  LET all == DebitsOf(debits[i].user) IN
  CASE rule = "high_velocity" -> Cardinality(all) > VelocityCount
    [] rule = "amount_anomaly" -> Unusual(debits[i].amount, all \ {i})
    [] rule = "frequent_new_beneficiaries" -> Cardinality(RecipientsOf(all)) > NewBeneficiaries

\* Each rule reads the ledger as it stands when its turn comes.
Hits(rule, i) ==
  LET all == DebitsOf(debits[i].user) IN
  CASE rule = "high_velocity" -> Cardinality(all) >= VelocityCount
    [] rule = "amount_anomaly" -> Unusual(debits[i].amount, all \ {i})
    [] rule = "frequent_new_beneficiaries" -> Cardinality(RecipientsOf(all)) >= NewBeneficiaries

\* The rules run side by side (Promise.all); the call goes on when all are done.
Checked(c, rule) ==
  /\ LET call == calls[c] IN
     calls' = [calls EXCEPT ![c] = IF call.arg = {rule} THEN Idle
                                   ELSE Call("evaluate", call.on, call.row, call.arg \ {rule})]
  /\ UNCHANGED <<begun, overwritten>>

\* The flag and its audit row, which nothing else reads, are one step. The
\* average is read from the latest 25 entries, more than the model posts.
Check(c, rule) ==
  /\ At(c, "evaluate") /\ rule \in calls[c].arg
  /\ LET i == calls[c].on[1] IN
     IF Hits(rule, i)
     THEN /\ flags' = [flags EXCEPT ![<<i, rule>>] = [status |-> "open", resolvedBy |-> None]]
          /\ auditLog' = auditLog \cup {[action |-> "fraud.flag_raised", target |-> <<i, rule>>, status |-> "open"]}
     ELSE UNCHANGED <<flags, auditLog>>
  /\ Checked(c, rule)
  /\ UNCHANGED <<died, books, files>>

\* A rule that throws is logged and forgotten.
CheckFails(c, rule) ==
  /\ At(c, "evaluate") /\ rule \in calls[c].arg
  /\ Cardinality(died) < MaxDeaths
  /\ died' = died \cup {calls[c].on}
  /\ Checked(c, rule)
  /\ UNCHANGED <<auditLog, oversightVars>>

-----------------------------------------------------------------------------
(* FraudService.resolve: any flag, resolved before or not *)

LoadFlag(c, f, status, admin) ==
  /\ flags[f] # None
  /\ Begin(c, Call("resolve", f, flags[f], [status |-> status, resolvedBy |-> admin]))
  /\ UNCHANGED oversightVars

SaveFlag(c) ==
  /\ At(c, "resolve")
  /\ LET f == calls[c].on IN
     /\ flags' = [flags EXCEPT ![f] = calls[c].arg]
     /\ SaveOver(c, flags[f], "fraud.flag_resolved", calls[c].arg.status)
  /\ UNCHANGED <<books, files>>

-----------------------------------------------------------------------------
(* ComplianceService *)

\* Two queries, the wallets first; what is posted between them is in one only.
SumWallets(c) ==
  /\ Begin(c, Call("float", None, walletTotal, moves))
  /\ UNCHANGED oversightVars

ReadFloat(c) ==
  /\ At(c, "float")
  /\ reports' = reports \cup {[isBalanced |-> calls[c].row + floatBalance = 0,
                               moved |-> moves # calls[c].arg]}
  /\ calls' = [calls EXCEPT ![c] = Idle]
  /\ UNCHANGED <<begun, auditLog, overwritten, died, books, flags, disputes, sars>>

CreateDispute(c, d) ==
  /\ disputes[d] = None
  /\ disputes' = [disputes EXCEPT ![d] = [status |-> "open", internalNotes |-> None, assignedTo |-> None]]
  /\ Begin(c, ToAudit(d, "compliance.dispute_created", "open"))
  /\ UNCHANGED <<books, flags, reports, sars>>

\* updateDispute, one column to a request.
LoadDispute(c, d, field, value) ==
  /\ disputes[d] # None
  /\ Begin(c, Call("dispute", d, disputes[d], [field |-> field, value |-> value]))
  /\ UNCHANGED oversightVars

\* Mutant of SaveDispute: the columns the request leaves out are emptied.
SaveDisputeAfresh(c) ==
  /\ At(c, "dispute")
  /\ LET d == calls[c].on
         blank == [status |-> "open", internalNotes |-> None, assignedTo |-> None]
     IN  /\ disputes' = [disputes EXCEPT ![d] = [blank EXCEPT ![calls[c].arg.field] = calls[c].arg.value]]
         /\ SaveOver(c, disputes[d], "compliance.dispute_updated", disputes'[d].status)
  /\ UNCHANGED <<books, flags, reports, sars>>

SaveDispute(c) ==
  /\ At(c, "dispute")
  /\ LET d == calls[c].on
         row == [calls[c].row EXCEPT ![calls[c].arg.field] = calls[c].arg.value]
     IN  /\ disputes' = [disputes EXCEPT ![d] = row]
         /\ SaveOver(c, disputes[d], "compliance.dispute_updated", row.status)
  /\ UNCHANGED <<books, flags, reports, sars>>

CreateSar(c, s) ==
  /\ s \notin sars
  /\ sars' = sars \cup {s}
  /\ Begin(c, ToAudit(s, "compliance.sar_documented", "filed"))
  /\ UNCHANGED <<books, flags, reports, disputes>>

-----------------------------------------------------------------------------

OversightStep(c) ==
  \/ \E u \in Senders, a \in Amounts, to \in Recipients \cup {None}: PostDebit(c, u, a, to)
  \/ \E rule \in Rules: Check(c, rule) \/ CheckFails(c, rule)
  \/ \E f \in FlagIds, s \in Verdicts, a \in Admins: LoadFlag(c, f, s, a)
  \/ SaveFlag(c)
  \/ SumWallets(c) \/ ReadFloat(c)
  \/ \E d \in Disputes:
       \/ CreateDispute(c, d)
       \/ \E s \in Marks: LoadDispute(c, d, "status", s)
       \/ \E n \in Notes: LoadDispute(c, d, "internalNotes", n)
       \/ \E a \in Admins: LoadDispute(c, d, "assignedTo", a)
  \/ SaveDispute(c)
  \/ \E s \in Sars: CreateSar(c, s)

OversightTypeOK ==
  /\ Len(debits) + moves <= 2 * MaxMoves
  /\ flags \in [FlagIds -> FlagRow \cup {None}]
  /\ walletTotal \in Int /\ floatBalance \in Int /\ moves \in 0..MaxMoves
  /\ reports \subseteq [isBalanced: BOOLEAN, moved: BOOLEAN]
  /\ disputes \in [Disputes -> DisputeRow \cup {None}]
  /\ sars \subseteq Sars

-----------------------------------------------------------------------------
(* Properties *)

\* However calls overlap, a debit whose rules have run is flagged when it and
\* the debits before it break a rule: a burst cannot pass unflagged because
\* its calls ran at once. (An unusual amount can: the debits posted while it
\* is judged are part of its average, so only a user's last one is meant.)
DebitsAreJudged ==
  \A i \in DOMAIN debits:
    LET d == debits[i]
        before == {j \in DebitsOf(d.user): j < i}
    IN ~Working(DebitId(i)) /\ DebitId(i) \notin died =>
         /\ Cardinality(before) + 1 >= VelocityCount => flags[<<i, "high_velocity">>] # None
         /\ d.to # None /\ Cardinality(RecipientsOf(before \cup {i})) >= NewBeneficiaries
            => flags[<<i, "frequent_new_beneficiaries">>] # None
         /\ DebitsOf(d.user) = before \cup {i} /\ Unusual(d.amount, before)
            => flags[<<i, "amount_anomaly">>] # None

\* The reconciliation raises no false alarm and hides nothing when no money
\* crossed between its two queries (compliance.service.ts:34-43).
QuietBooksReconcile ==
  /\ walletTotal + floatBalance = 0
  /\ \A r \in reports: ~r.moved => r.isBalanced

\* A dispute loses a decision or a note only to another update that names the
\* column or that read the dispute before it was written; a flag an operator
\* resolved never opens again.
FilesAreKept ==
  /\ \A d \in Disputes:
       disputes[d] # None /\ disputes'[d] # disputes[d] =>
         \E c \in Calls: /\ At(c, "dispute") /\ calls[c].on = d /\ calls'[c] # calls[c]
                         /\ \A k \in {"status", "internalNotes", "assignedTo"}:
                              disputes'[d][k] # disputes[d][k] =>
                                k = calls[c].arg.field \/ d \in overwritten'
  /\ \A f \in FlagIds:
       flags[f] # None /\ flags[f].status # "open" => flags'[f] # None /\ flags'[f].status # "open"
=============================================================================
