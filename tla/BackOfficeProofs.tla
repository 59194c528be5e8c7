-------------------------- MODULE BackOfficeProofs --------------------------
(***************************************************************************)
(* Theorems about the support and compliance services of one process: any  *)
(* tickets, FAQ entries, senders, disputes and operators, any number of    *)
(* calls that overlap at every await and die between two of them.          *)
(***************************************************************************)
EXTENDS BackOffice, FiniteSetTheorems, TLAPS

-----------------------------------------------------------------------------
(* The inductive invariant, part by part. *)

\* What the slots may hold: who is where, with which row object.
TicketCalls ==
  [at: {"firstMessage"}, on: Tickets, row: {None}, arg: {None}]
  \cup [at: {"message", "afterMessage"}, on: Tickets, row: TicketRow, arg: {"user", "admin"}]
  \cup [at: {"update"}, on: Tickets, row: TicketRow, arg: Fields]
FaqCalls ==
  [at: {"saveFaq", "deleteFaq"}, on: Faqs, row: {"draft", "published", None}, arg: {"draft", "published", None}]
DebitIds == {DebitId(i): i \in DOMAIN debits}
FlagVerdicts == [status: Verdicts, resolvedBy: Admins]
FieldChanges ==
  [field: {"status"}, value: Marks] \cup [field: {"internalNotes"}, value: Notes]
  \cup [field: {"assignedTo"}, value: Admins]
OversightCalls ==
  [at: {"evaluate"}, on: DebitIds, row: {None}, arg: SUBSET Rules]
  \cup [at: {"resolve"}, on: FlagIds, row: FlagRow, arg: FlagVerdicts]
  \cup [at: {"float"}, on: {None}, row: Int, arg: Nat]
  \cup [at: {"dispute"}, on: Disputes, row: DisputeRow, arg: FieldChanges]
Targets == Tickets \cup Faqs \cup FlagIds \cup Disputes \cup Sars
AuditActions ==
  {"support.ticket_created", "support.message_added", "support.ticket_updated", "support.faq_created",
   "support.faq_updated", "support.faq_deleted", "fraud.flag_resolved", "compliance.dispute_created",
   "compliance.dispute_updated", "compliance.sar_documented"}
AuditStatus ==
  TicketStatus \cup DisputeStatus \cup Resolutions \cup {"draft", "published", "gone", "filed", None}
Audits == [at: {"audit"}, on: Targets, action: AuditActions, status: AuditStatus]

CallState == {Idle} \cup TicketCalls \cup FaqCalls \cup OversightCalls \cup Audits
CallsType == calls \in [Calls -> CallState]

TablesType ==
  /\ tickets \in [Tickets -> TicketRow \cup {None}]
  /\ threads \in [Tickets -> Seq({"user", "admin"})]
  /\ faqs \in [Faqs -> {"draft", "published", None}]
  /\ debits \in Seq([user: Senders, amount: Amounts, to: Recipients \cup {None}])
  /\ moves \in Nat /\ Len(debits) <= MaxMoves
  /\ Len(debits) + moves <= 2 * MaxMoves /\ moves <= MaxMoves
  /\ flags \in [FlagIds -> FlagRow \cup {None}]
  /\ walletTotal \in Int /\ floatBalance \in Int
  /\ reports \subseteq [isBalanced: BOOLEAN, moved: BOOLEAN]
  /\ disputes \in [Disputes -> DisputeRow \cup {None}]
  /\ sars \subseteq Sars

\* A call about a row found it, and no row goes away.
RowsFound ==
  \A c \in Calls:
    /\ calls[c].at \in {"firstMessage", "message", "afterMessage", "update"} => tickets[calls[c].on] # None
    /\ At(c, "resolve") => flags[calls[c].on] # None
    /\ At(c, "dispute") => disputes[calls[c].on] # None

TypesInv == CallsType /\ TablesType /\ RowsFound

\* Somebody asked for "open" by name, or is about to have it recorded.
SaysOpen(t, r) == r.action = "support.ticket_updated" /\ r.status = "open"
AskedOpen(t) ==
  \/ \E r \in auditLog: r.target = t /\ SaysOpen(t, r)
  \/ \E c \in Calls: At(c, "audit") /\ calls[c].on = t /\ SaysOpen(t, calls[c])
OffThePile(t) == tickets[t].status # "open" \/ AskedOpen(t)

\* A ticket that was found off the pile of open ones is still off it; one that
\* is answered leaves it when the call that answered goes on.
IsAnswered(t) == \E i \in 1..Len(threads[t]): threads[t][i] = "admin"
FoundOff(x, t) == x.at \in {"message", "afterMessage"} /\ x.on = t /\ x.row.status # "open"
Answering(x, t) == x.at = "afterMessage" /\ x.on = t /\ x.arg = "admin"
AnsweredLeaves ==
  \A t \in Tickets \ (died \cup overwritten): tickets[t] # None =>
    /\ \A c \in Calls: FoundOff(calls[c], t) => OffThePile(t)
    /\ IsAnswered(t) => OffThePile(t) \/ \E c \in Calls: Answering(calls[c], t)
NoThreadYet == \A t \in Tickets: tickets[t] = None => threads[t] = <<>>

SupportInv == TicketsHaveTheirText /\ AnsweredLeaves /\ NoThreadYet

\* What the first query of a reconciliation found is the wallets' total unless
\* money has moved since.
FloatsInv ==
  /\ QuietBooksReconcile
  /\ \A c \in Calls: At(c, "float") =>
       calls[c].arg <= moves /\ (calls[c].arg = moves => calls[c].row = walletTotal)

\* One call judges a debit, and a rule it has still to check has no flag.
OneJudge ==
  /\ \A c, d \in Calls: At(c, "evaluate") /\ At(d, "evaluate") /\ calls[c].on = calls[d].on => c = d
  /\ \A c \in Calls: At(c, "evaluate") => \A rule \in calls[c].arg: flags[<<calls[c].on[1], rule>>] = None
  /\ \A f \in FlagIds: flags[f] # None => f[1] \in DOMAIN debits

\* The verdict on a debit: it is on its way, or its call died, or it is given.
Earlier(i) == {j \in DebitsOf(debits[i].user): j < i}
Breaks(i, rule) ==
  CASE rule = "high_velocity" -> Cardinality(Earlier(i)) + 1 >= VelocityCount
    [] rule = "amount_anomaly" -> /\ DebitsOf(debits[i].user) = Earlier(i) \cup {i}
                                  /\ Unusual(debits[i].amount, Earlier(i))
    [] rule = "frequent_new_beneficiaries" ->
         debits[i].to # None /\ Cardinality(RecipientsOf(Earlier(i) \cup {i})) >= NewBeneficiaries
VerdictsInv ==
  \A i \in DOMAIN debits, rule \in Rules:
    \/ DebitId(i) \in died
    \/ \E c \in Calls: At(c, "evaluate") /\ calls[c].on = DebitId(i) /\ rule \in calls[c].arg
    \/ Breaks(i, rule) => flags[<<i, rule>>] # None

JudgesInv == OneJudge /\ VerdictsInv


-----------------------------------------------------------------------------
(* Types. *)

\* What a slot holds at each stage.
LEMMA CallAt ==
  ASSUME CallsType, NEW c \in Calls
  PROVE  /\ calls[c] \in CallState
         /\ At(c, "idle") => calls[c] = Idle
         /\ calls[c].at \in {"firstMessage", "message", "afterMessage", "update"} => calls[c] \in TicketCalls
         /\ At(c, "firstMessage") => calls[c].on \in Tickets /\ calls[c].row = None
         /\ calls[c].at \in {"message", "afterMessage"} =>
              calls[c].on \in Tickets /\ calls[c].row \in TicketRow /\ calls[c].arg \in {"user", "admin"}
         /\ At(c, "update") => calls[c].on \in Tickets /\ calls[c].row \in TicketRow /\ calls[c].arg \in Fields
         /\ calls[c].at \in {"saveFaq", "deleteFaq"} =>
              /\ calls[c].on \in Faqs /\ calls[c].row \in {"draft", "published", None}
              /\ calls[c].arg \in {"draft", "published", None}
         /\ At(c, "evaluate") => calls[c].on \in DebitIds /\ calls[c].row = None /\ calls[c].arg \in SUBSET Rules
         /\ At(c, "resolve") => calls[c].on \in FlagIds /\ calls[c].row \in FlagRow /\ calls[c].arg \in FlagVerdicts
         /\ At(c, "float") => calls[c].row \in Int /\ calls[c].arg \in Nat
         /\ At(c, "dispute") =>
              calls[c].on \in Disputes /\ calls[c].row \in DisputeRow /\ calls[c].arg \in FieldChanges
         /\ At(c, "audit") => calls[c].on \in Targets
  <1>1. calls[c] \in CallState
    BY DEF CallsType
  <1>. QED
    BY <1>1 DEF CallState, TicketCalls, FaqCalls, OversightCalls, Audits, Idle, At

\* A step of one slot, whose content stays of the right form.
Slot(c, x) == calls' = [calls EXCEPT ![c] = x]

LEMMA SlotType ==
  ASSUME CallsType, NEW c \in Calls, NEW x \in CallState', Slot(c, x), DebitIds \subseteq DebitIds'
  PROVE  CallsType'
  <1>1. CallState \subseteq CallState'
    BY DEF CallState, TicketCalls, FaqCalls, OversightCalls, Audits
  <1>. QED
    BY <1>1 DEF CallsType, Slot

\* What the handlers put into a slot.
LEMMA CallForms ==
  /\ Idle \in CallState
  /\ \A t \in Tickets: Call("firstMessage", t, None, None) \in CallState
  /\ \A at \in {"message", "afterMessage"}, t \in Tickets, row \in TicketRow, who \in {"user", "admin"}:
       Call(at, t, row, who) \in CallState
  /\ \A t \in Tickets, row \in TicketRow, fields \in Fields: Call("update", t, row, fields) \in CallState
  /\ \A at \in {"saveFaq", "deleteFaq"}, f \in Faqs, row, state \in {"draft", "published", None}:
       Call(at, f, row, state) \in CallState
  /\ \A i \in DebitIds, rules \in SUBSET Rules: Call("evaluate", i, None, rules) \in CallState
  /\ \A f \in FlagIds, row \in FlagRow, verdict \in FlagVerdicts: Call("resolve", f, row, verdict) \in CallState
  /\ \A total \in Int, n \in Nat: Call("float", None, total, n) \in CallState
  /\ \A d \in Disputes, row \in DisputeRow, change \in FieldChanges: Call("dispute", d, row, change) \in CallState
  /\ \A on \in Targets, action \in AuditActions, status \in AuditStatus: ToAudit(on, action, status) \in CallState
  BY DEF CallState, TicketCalls, FaqCalls, OversightCalls, Audits, Call, ToAudit


\* Tickets stay, and a call about one found it.
KeepsTickets ==
  /\ tickets' \in [Tickets -> TicketRow \cup {None}]
  /\ \A t \in Tickets: tickets[t] # None => tickets'[t] # None
  /\ threads' \in [Tickets -> Seq({"user", "admin"})]
  /\ faqs' \in [Faqs -> {"draft", "published", None}]
TicketStages == {"firstMessage", "message", "afterMessage", "update"}
FoundTicket(x) == x.at \in TicketStages => tickets'[x.on] # None

\* A step of a support call, slot and tables.
SupportDoes(c) ==
  /\ KeepsTickets
  /\ \E x \in CallState: /\ Slot(c, x) /\ FoundTicket(x)
                         /\ x.at \notin {"evaluate", "resolve", "float", "dispute"}

LEMMA TicketForms ==
  /\ NewTicket \in TicketRow
  /\ \A row \in TicketRow: [row EXCEPT !.status = "in_progress"] \in TicketRow
  /\ \A row \in TicketRow, fields \in Fields: Updated(row, fields) \in TicketRow
  BY SupportAssumption DEF NewTicket, TicketRow, Updated, Fields, TicketStatus

LEMMA TicketRowNotNone == None \notin TicketRow
  BY SupportAssumption

LEMMA SaysTyped ==
  ASSUME TablesType, NEW t \in Tickets, NEW who \in {"user", "admin"}, Say(t, who)
  PROVE  /\ threads' \in [Tickets -> Seq({"user", "admin"})]
         /\ \A u \in Tickets: u # t => threads'[u] = threads[u]
         /\ threads'[t] = Append(threads[t], who)
  BY DEF TablesType, Say

LEMMA KeepTyped ==
  ASSUME TablesType, NEW t \in Tickets, NEW row \in TicketRow, Keep(t, row)
  PROVE  /\ tickets' \in [Tickets -> TicketRow \cup {None}]
         /\ \A u \in Tickets: u # t => tickets'[u] = tickets[u]
         /\ tickets'[t] = row /\ tickets'[t] # None
  BY TicketRowNotNone DEF TablesType, Keep

LEMMA TicketCallsDo ==
  ASSUME TypesInv, NEW c \in Calls, NEW t \in Tickets,
         \/ SaveTicket(c, t)
         \/ \E who \in {"user", "admin"}: LoadForReply(c, t, who)
         \/ \E fields \in Fields: LoadForUpdate(c, t, fields)
  PROVE  SupportDoes(c)
  <1>1. CASE SaveTicket(c, t)
    <2> DEFINE x == Call("firstMessage", t, None, None)
    <2>1. x \in CallState /\ Slot(c, x) /\ x.at = "firstMessage" /\ x.on = t
      BY <1>1, CallForms DEF SaveTicket, Begin, Slot, Call
    <2>2. KeepsTickets /\ tickets'[t] # None
      BY <1>1, KeepTyped, TicketForms DEF SaveTicket, KeepsTickets, TypesInv, TablesType
    <2> HIDE DEF x
    <2>. QED
      BY <2>1, <2>2 DEF SupportDoes, FoundTicket
  <1>2. ASSUME NEW who \in {"user", "admin"}, LoadForReply(c, t, who)
        PROVE  SupportDoes(c)
    <2> DEFINE x == Call("message", t, tickets[t], who)
    <2>1. tickets[t] \in TicketRow /\ tickets[t] # None
      BY <1>2 DEF LoadForReply, TypesInv, TablesType
    <2>2. x \in CallState /\ Slot(c, x) /\ x.at = "message" /\ x.on = t
      BY <1>2, <2>1, CallForms DEF LoadForReply, Begin, Slot, Call
    <2>3. KeepsTickets /\ tickets' = tickets
      BY <1>2 DEF LoadForReply, supportVars, KeepsTickets, TypesInv, TablesType
    <2> HIDE DEF x
    <2>. QED
      BY <2>1, <2>2, <2>3 DEF SupportDoes, FoundTicket
  <1>3. ASSUME NEW fields \in Fields, LoadForUpdate(c, t, fields)
        PROVE  SupportDoes(c)
    <2> DEFINE x == Call("update", t, tickets[t], fields)
    <2>1. tickets[t] \in TicketRow /\ tickets[t] # None
      BY <1>3 DEF LoadForUpdate, TypesInv, TablesType
    <2>2. x \in CallState /\ Slot(c, x) /\ x.at = "update" /\ x.on = t
      BY <1>3, <2>1, CallForms DEF LoadForUpdate, Begin, Slot, Call
    <2>3. KeepsTickets /\ tickets' = tickets
      BY <1>3 DEF LoadForUpdate, supportVars, KeepsTickets, TypesInv, TablesType
    <2> HIDE DEF x
    <2>. QED
      BY <2>1, <2>2, <2>3 DEF SupportDoes, FoundTicket
  <1>. QED
    BY <1>1, <1>2, <1>3

\* A save leaves the slot with its audit row to write.
LEMMA SaveOverSlot ==
  ASSUME CallsType, NEW c \in Calls, NEW current, NEW action, NEW status, SaveOver(c, current, action, status)
  PROVE  /\ Slot(c, ToAudit(calls[c].on, action, status))
         /\ overwritten \subseteq overwritten' /\ auditLog' = auditLog /\ died' = died
         /\ calls[c].row # current => calls[c].on \in overwritten'
  BY DEF SaveOver, Slot, CallsType

LEMMA AuditForm ==
  ASSUME NEW on \in Targets, NEW action \in AuditActions, NEW status \in AuditStatus
  PROVE  LET x == ToAudit(on, action, status) IN
         x \in CallState /\ x.at = "audit" /\ x.on = on /\ x.action = action /\ x.status = status
  BY CallForms DEF ToAudit

LEMMA TicketSavesDo ==
  ASSUME TypesInv, NEW c \in Calls, SaveFirstMessage(c) \/ SaveMessage(c) \/ SaveAfterMessage(c) \/ SaveUpdate(c)
  PROVE  SupportDoes(c)
  <1> USE DEF TypesInv
  <1>0. Tickets \subseteq Targets
    BY DEF Targets
  <1>10. /\ {"support.ticket_created", "support.message_added", "support.ticket_updated"} \subseteq AuditActions
         /\ TicketStatus \subseteq AuditStatus /\ {"open", "in_progress"} \subseteq TicketStatus
    BY DEF AuditActions, AuditStatus, TicketStatus
  <1>1. CASE SaveFirstMessage(c)
    <2> DEFINE x == ToAudit(calls[c].on, "support.ticket_created", "open")
    <2>1. calls[c].on \in Tickets /\ Slot(c, x) /\ x \in CallState /\ x.at = "audit"
      BY <1>10, <1>0, <1>1, CallAt, SaveOverSlot, AuditForm DEF SaveFirstMessage
    <2>2. KeepsTickets
      BY <1>1, <2>1, SaysTyped DEF SaveFirstMessage, KeepsTickets, TablesType
    <2> HIDE DEF x
    <2>. QED
      BY <2>1, <2>2 DEF SupportDoes, FoundTicket, TicketStages
  <1>2. CASE SaveMessage(c)
    <2> DEFINE x == [calls[c] EXCEPT !.at = "afterMessage"]
               y == Call("afterMessage", calls[c].on, calls[c].row, calls[c].arg)
    <2>1. calls[c].on \in Tickets /\ calls[c].row \in TicketRow /\ calls[c].arg \in {"user", "admin"}
          /\ tickets[calls[c].on] # None
      BY <1>2, CallAt DEF SaveMessage, RowsFound, At
    <2>2. x = y
      <3>1. calls[c] \in TicketCalls /\ calls[c].at = "message"
        BY <1>2, CallAt DEF SaveMessage, At
      <3>. QED
        BY <3>1 DEF TicketCalls, Call
    <2>3. Slot(c, x)
      BY <1>2 DEF SaveMessage, GoOn, Slot
    <2>4. y \in CallState /\ y.at = "afterMessage" /\ y.on = calls[c].on
      BY <2>1, CallForms DEF Call
    <2>5. KeepsTickets /\ tickets' = tickets
      BY <1>2, <2>1, SaysTyped DEF SaveMessage, KeepsTickets, TablesType
    <2> HIDE DEF x, y
    <2>. QED
      BY <2>1, <2>2, <2>3, <2>4, <2>5 DEF SupportDoes, FoundTicket
  <1>3. CASE SaveAfterMessage(c)
    <2>1. calls[c].on \in Tickets /\ calls[c].row \in TicketRow
      BY <1>3, CallAt DEF SaveAfterMessage, At
    <2>2. KeepsTickets
      BY <1>3, <2>1, KeepTyped, TicketForms DEF SaveAfterMessage, KeepsTickets, TablesType
    <2>3. \E status \in AuditStatus: Slot(c, ToAudit(calls[c].on, "support.message_added", status))
      <3>1. CASE Revives(calls[c].row.status, calls[c].arg)
        BY <1>10, <1>3, <3>1, SaveOverSlot DEF SaveAfterMessage
      <3>2. CASE ~Revives(calls[c].row.status, calls[c].arg)
        <4>1. tickets[calls[c].on].status \in TicketStatus
          BY <1>3, <2>1 DEF SaveAfterMessage, RowsFound, At, TablesType, TicketRow
        <4>. QED
          BY <1>10, <1>3, <3>2, <4>1, SaveOverSlot DEF SaveAfterMessage
      <3>. QED
        BY <3>1, <3>2
    <2>. QED
      BY <1>10, <1>0, <2>1, <2>2, <2>3, AuditForm DEF SupportDoes, FoundTicket, TicketStages
  <1>4. CASE SaveUpdate(c)
    <2> DEFINE row == Updated(calls[c].row, calls[c].arg)
               x == ToAudit(calls[c].on, "support.ticket_updated", row.status)
    <2>1. calls[c].on \in Tickets /\ row \in TicketRow
      BY <1>4, CallAt, TicketForms DEF SaveUpdate
    <2>2. KeepsTickets
      BY <1>4, <2>1, KeepTyped DEF SaveUpdate, KeepsTickets, TablesType
    <2>3. row.status \in TicketStatus
      BY <2>1 DEF TicketRow
    <2>4. Slot(c, x) /\ x \in CallState /\ x.at = "audit"
      BY <1>10, <1>0, <1>4, <2>1, <2>3, SaveOverSlot, AuditForm DEF SaveUpdate
    <2> HIDE DEF x
    <2>. QED
      BY <2>2, <2>4 DEF SupportDoes, FoundTicket, TicketStages
  <1>. QED
    BY <1>1, <1>2, <1>3, <1>4

LEMMA FaqCallsDo ==
  ASSUME TypesInv, NEW c \in Calls,
         \/ \E f \in Faqs: \/ \E state \in {"draft", "published"}: CreateFaq(c, f, state) \/ LoadFaq(c, f, "saveFaq", state)
                           \/ \E at \in {"saveFaq", "deleteFaq"}: LoadFaq(c, f, at, None)
         \/ SaveFaq(c) \/ DeleteFaq(c)
  PROVE  SupportDoes(c)
  <1> USE DEF TypesInv
  <1>0. Faqs \subseteq Targets
    BY DEF Targets
  <1>10. /\ {"support.faq_created", "support.faq_updated", "support.faq_deleted"} \subseteq AuditActions
         /\ {"draft", "published", "gone", None} \subseteq AuditStatus
    BY DEF AuditActions, AuditStatus
  <1>1. ASSUME NEW f \in Faqs, NEW state \in {"draft", "published"}, CreateFaq(c, f, state)
        PROVE  SupportDoes(c)
    <2> DEFINE x == ToAudit(f, "support.faq_created", state)
    <2>1. Slot(c, x) /\ x \in CallState /\ x.at = "audit"
      BY <1>10, <1>0, <1>1, AuditForm DEF CreateFaq, Begin, Slot
    <2>2. KeepsTickets
      BY <1>1 DEF CreateFaq, KeepsTickets, TablesType
    <2> HIDE DEF x
    <2>. QED
      BY <2>1, <2>2 DEF SupportDoes, FoundTicket, TicketStages
  <1>2. ASSUME NEW f \in Faqs, NEW at \in {"saveFaq", "deleteFaq"}, NEW state \in {"draft", "published", None},
               LoadFaq(c, f, at, state)
        PROVE  SupportDoes(c)
    <2> DEFINE x == Call(at, f, faqs[f], state)
    <2>1. Slot(c, x) /\ x \in CallState /\ x.at = at
      BY <1>2, CallForms DEF LoadFaq, Begin, Slot, Call, TablesType
    <2>2. KeepsTickets
      BY <1>2 DEF LoadFaq, supportVars, KeepsTickets, TablesType
    <2> HIDE DEF x
    <2>. QED
      BY <2>1, <2>2 DEF SupportDoes, FoundTicket, TicketStages
  <1>3. CASE SaveFaq(c) \/ DeleteFaq(c)
    <2>1. calls[c].on \in Faqs /\ {calls[c].arg, calls[c].row} \subseteq {"draft", "published", None}
      BY <1>3, CallAt DEF SaveFaq, DeleteFaq, At
    <2>2. \E action \in AuditActions, status \in AuditStatus: Slot(c, ToAudit(calls[c].on, action, status))
      BY <1>10, <1>3, <2>1, SaveOverSlot DEF SaveFaq, DeleteFaq
    <2>3. KeepsTickets
      BY <1>3, <2>1 DEF SaveFaq, DeleteFaq, KeepsTickets, TablesType
    <2>. QED
      BY <1>10, <1>0, <2>1, <2>2, <2>3, AuditForm DEF SupportDoes, FoundTicket, TicketStages
  <1>. QED
    BY <1>1, <1>2, <1>3

LEMMA SupportStepDoes ==
  ASSUME TypesInv, NEW c \in Calls, SupportStep(c)
  PROVE  SupportDoes(c)
  BY TicketCallsDo, TicketSavesDo, FaqCallsDo DEF SupportStep


DebitRow == [user: Senders, amount: Amounts, to: Recipients \cup {None}]

\* Debits are only added, flags and disputes stay, and a call about one of
\* these found it.
KeepsPapers ==
  /\ debits' \in Seq(DebitRow) /\ DOMAIN debits \subseteq DOMAIN debits'
  /\ moves' \in Nat /\ Len(debits') <= MaxMoves
  /\ Len(debits') + moves' <= 2 * MaxMoves /\ moves' <= MaxMoves
  /\ flags' \in [FlagIds -> FlagRow \cup {None}]
  /\ \A f \in FlagIds: flags[f] # None => flags'[f] # None
  /\ walletTotal' \in Int /\ floatBalance' \in Int
  /\ reports' \subseteq [isBalanced: BOOLEAN, moved: BOOLEAN]
  /\ disputes' \in [Disputes -> DisputeRow \cup {None}]
  /\ \A d \in Disputes: disputes[d] # None => disputes'[d] # None
  /\ sars' \subseteq Sars
FoundPaper(x) ==
  /\ x.at = "resolve" => flags'[x.on] # None
  /\ x.at = "dispute" => disputes'[x.on] # None

OversightDoes(c) ==
  /\ KeepsPapers
  /\ \E x \in CallState': Slot(c, x) /\ FoundPaper(x) /\ x.at \notin TicketStages

LEMMA PapersStand ==
  ASSUME TablesType, oversightVars' = oversightVars
  PROVE  KeepsPapers /\ CallState' = CallState
  BY DEF TablesType, oversightVars, KeepsPapers, DebitRow, CallState, OversightCalls, DebitIds,
         TicketCalls, FaqCalls, Audits

\* Steps that leave the debits alone.
LEMMA SameCallState ==
  ASSUME debits' = debits
  PROVE  CallState' = CallState
  BY DEF CallState, OversightCalls, DebitIds, TicketCalls, FaqCalls, Audits

LEMMA CrossTyped ==
  ASSUME TablesType, NEW amount \in Int, Cross(amount)
  PROVE  walletTotal' \in Int /\ floatBalance' \in Int /\ moves' = moves + 1
  BY DEF TablesType, Cross

LEMMA PaperRows ==
  /\ None \notin FlagRow /\ None \notin DisputeRow /\ FlagVerdicts \subseteq FlagRow
  /\ [status |-> "open", resolvedBy |-> None] \in FlagRow
  /\ [status |-> "open", internalNotes |-> None, assignedTo |-> None] \in DisputeRow
  BY OversightAssumption DEF FlagVerdicts, FlagRow, DisputeRow, DisputeStatus, Resolutions

LEMMA PostDebitDoes ==
  ASSUME TypesInv, NEW c \in Calls, NEW u \in Senders, NEW a \in Amounts, NEW to \in Recipients \cup {None},
         PostDebit(c, u, a, to)
  PROVE  /\ OversightDoes(c)
         /\ debits' = Append(debits, [user |-> u, amount |-> a, to |-> to])
         /\ \E rules \in SUBSET Rules:
              /\ Slot(c, Call("evaluate", DebitId(Len(debits) + 1), None, rules))
              /\ rules = IF to = None THEN Rules \ {"frequent_new_beneficiaries"} ELSE Rules
  <1> DEFINE row == [user |-> u, amount |-> a, to |-> to]
             rules == IF to = None THEN Rules \ {"frequent_new_beneficiaries"} ELSE Rules
             i == DebitId(Len(debits) + 1)
             x == Call("evaluate", i, None, rules)
  <1>0. /\ debits \in Seq(DebitRow) /\ row \in DebitRow /\ moves \in Nat /\ MaxMoves \in Nat
        /\ a \in Int /\ -a \in Int
    BY OversightAssumption DEF TypesInv, TablesType, DebitRow
  <1>1. /\ debits' = Append(debits, row) /\ Len(debits) + moves < MaxMoves
        /\ UNCHANGED <<flags, disputes, sars, reports>>
    BY DEF PostDebit, files
  <1>2. /\ debits' \in Seq(DebitRow) /\ DOMAIN debits \subseteq DOMAIN debits' /\ Len(debits') = Len(debits) + 1
        /\ Len(debits) + 1 \in DOMAIN debits'
    <2> HIDE DEF row
    <2>. QED
      BY <1>0, <1>1
  <1>3. /\ walletTotal' \in Int /\ floatBalance' \in Int
        /\ moves' = moves \/ moves' = moves + 1
    BY <1>0, CrossTyped DEF PostDebit, TypesInv, TablesType
  <1>4. /\ moves' \in Nat /\ Len(debits') <= MaxMoves
        /\ Len(debits') + moves' <= 2 * MaxMoves /\ moves' <= MaxMoves
    BY <1>0, <1>1, <1>2, <1>3
  <1>5. KeepsPapers
    BY <1>1, <1>2, <1>3, <1>4 DEF KeepsPapers, TypesInv, TablesType
  <1>6. i \in DebitIds' /\ rules \in SUBSET Rules
    BY <1>2 DEF DebitIds
  <1>7. x \in CallState' /\ x.at = "evaluate"
    <2>1. x \in [at: {"evaluate"}, on: DebitIds', row: {None}, arg: SUBSET Rules] /\ x.at = "evaluate"
      BY <1>6 DEF Call
    <2> HIDE DEF x
    <2>. QED
      BY <2>1 DEF CallState, OversightCalls
  <1>8. Slot(c, x)
    BY DEF PostDebit, Begin, Slot
  <1>9. OversightDoes(c)
    <2> HIDE DEF x
    <2>. QED
      BY <1>5, <1>7, <1>8 DEF OversightDoes, FoundPaper, TicketStages
  <1>. QED
    BY <1>1, <1>6, <1>8, <1>9

LEMMA CheckDoes ==
  ASSUME TypesInv, NEW c \in Calls, NEW rule \in Rules, Check(c, rule) \/ CheckFails(c, rule)
  PROVE  OversightDoes(c) /\ debits' = debits
  <1> USE DEF TypesInv
  <1>1. debits' = debits
    BY DEF Check, CheckFails, books, oversightVars
  <1>2. At(c, "evaluate") /\ calls[c].on \in DebitIds /\ calls[c].arg \in SUBSET Rules
    BY CallAt DEF Check, CheckFails
  <1>3. \E x \in CallState: Slot(c, x) /\ x.at \in {"idle", "evaluate"}
    <2>1. Checked(c, rule) /\ calls[c].row = None
      BY <1>2, CallAt DEF Check, CheckFails
    <2>2. Slot(c, Idle) \/ Slot(c, Call("evaluate", calls[c].on, None, calls[c].arg \ {rule}))
      BY <2>1 DEF Checked, Slot
    <2>3. Idle \in CallState /\ Idle.at = "idle"
      BY CallForms DEF Idle
    <2>4. /\ Call("evaluate", calls[c].on, None, calls[c].arg \ {rule}) \in CallState
          /\ Call("evaluate", calls[c].on, None, calls[c].arg \ {rule}).at = "evaluate"
      BY <1>2, CallForms DEF Call
    <2>. QED
      BY <2>1, <2>2, <2>3, <2>4
  <1>4. KeepsPapers
    <2>1. CASE flags' = flags
      BY <1>1, <2>1 DEF Check, CheckFails, books, files, oversightVars, KeepsPapers, TablesType, DebitRow
    <2>2. CASE flags' = [flags EXCEPT ![<<calls[c].on[1], rule>>] = [status |-> "open", resolvedBy |-> None]]
      <3>1. flags' \in [FlagIds -> FlagRow \cup {None}] /\ \A f \in FlagIds: flags[f] # None => flags'[f] # None
        BY <2>2, PaperRows DEF TablesType
      <3>2. Check(c, rule) \/ flags' = flags
        BY DEF CheckFails, oversightVars
      <3>. QED
        BY <1>1, <2>1, <3>1, <3>2 DEF Check, books, files, KeepsPapers, TablesType, DebitRow
    <2>. QED
      BY <2>1, <2>2 DEF Check, CheckFails, oversightVars
  <1>5. CallState' = CallState
    BY <1>1, SameCallState
  <1>. QED
    BY <1>1, <1>3, <1>4, <1>5 DEF OversightDoes, FoundPaper, TicketStages

LEMMA FlagCallsDo ==
  ASSUME TypesInv, NEW c \in Calls,
         (\E f \in FlagIds, s \in Verdicts, a \in Admins: LoadFlag(c, f, s, a)) \/ SaveFlag(c)
  PROVE  OversightDoes(c) /\ debits' = debits
  <1> USE DEF TypesInv
  <1>1. ASSUME NEW f \in FlagIds, NEW s \in Verdicts, NEW a \in Admins, LoadFlag(c, f, s, a)
        PROVE  OversightDoes(c) /\ debits' = debits
    <2> DEFINE verdict == [status |-> s, resolvedBy |-> a]
               x == Call("resolve", f, flags[f], verdict)
    <2>1. verdict \in FlagVerdicts /\ flags[f] \in FlagRow /\ flags[f] # None
      BY <1>1 DEF FlagVerdicts, LoadFlag, TablesType
    <2>2. x \in CallState /\ Slot(c, x) /\ x.at = "resolve" /\ x.on = f
      BY <1>1, <2>1, CallForms DEF LoadFlag, Begin, Slot, Call
    <2>3. KeepsPapers /\ CallState' = CallState /\ flags' = flags /\ debits' = debits
      BY <1>1, PapersStand DEF LoadFlag, oversightVars
    <2> HIDE DEF x, verdict
    <2>. QED
      BY <2>1, <2>2, <2>3 DEF OversightDoes, FoundPaper, TicketStages
  <1>2. CASE SaveFlag(c)
    <2> DEFINE x == ToAudit(calls[c].on, "fraud.flag_resolved", calls[c].arg.status)
    <2>1. calls[c].on \in FlagIds /\ calls[c].arg \in FlagVerdicts
      BY <1>2, CallAt DEF SaveFlag
    <2>2. calls[c].on \in Targets /\ calls[c].arg.status \in AuditStatus /\ "fraud.flag_resolved" \in AuditActions
      BY <2>1, OversightAssumption DEF Targets, FlagVerdicts, AuditStatus, AuditActions
    <2>3. Slot(c, x) /\ x \in CallState /\ x.at = "audit"
      BY <1>2, <2>2, SaveOverSlot, AuditForm DEF SaveFlag
    <2>4. flags' \in [FlagIds -> FlagRow \cup {None}] /\ \A f \in FlagIds: flags[f] # None => flags'[f] # None
      BY <1>2, <2>1, PaperRows DEF SaveFlag, TablesType
    <2>5. KeepsPapers /\ debits' = debits
      BY <1>2, <2>4 DEF SaveFlag, books, files, KeepsPapers, TablesType, DebitRow
    <2> HIDE DEF x
    <2>. QED
      BY <2>3, <2>5, SameCallState DEF OversightDoes, FoundPaper, TicketStages
  <1>. QED
    BY <1>1, <1>2


LEMMA ReconciliationDoes ==
  ASSUME TypesInv, NEW c \in Calls, SumWallets(c) \/ ReadFloat(c)
  PROVE  OversightDoes(c) /\ debits' = debits
  <1> USE DEF TypesInv
  <1>1. CASE SumWallets(c)
    <2> DEFINE x == Call("float", None, walletTotal, moves)
    <2>1. x \in CallState /\ Slot(c, x) /\ x.at = "float"
      BY <1>1, CallForms DEF SumWallets, Begin, Slot, Call, TablesType
    <2>2. KeepsPapers /\ CallState' = CallState /\ debits' = debits
      BY <1>1, PapersStand DEF SumWallets, oversightVars
    <2> HIDE DEF x
    <2>. QED
      BY <2>1, <2>2 DEF OversightDoes, FoundPaper, TicketStages
  <1>2. CASE ReadFloat(c)
    <2> DEFINE report == [isBalanced |-> calls[c].row + floatBalance = 0, moved |-> moves # calls[c].arg]
    <2>1. report \in [isBalanced: BOOLEAN, moved: BOOLEAN]
      OBVIOUS
    <2>2. reports' = reports \cup {report} /\ Slot(c, Idle)
      BY <1>2 DEF ReadFloat, Slot
    <2> HIDE DEF report
    <2>3. KeepsPapers /\ debits' = debits
      BY <1>2, <2>1, <2>2 DEF ReadFloat, books, KeepsPapers, TablesType, DebitRow
    <2>4. Idle \in CallState /\ Idle.at = "idle"
      BY CallForms DEF Idle
    <2>. QED
      BY <2>2, <2>3, <2>4, SameCallState DEF OversightDoes, FoundPaper, TicketStages
  <1>. QED
    BY <1>1, <1>2

\* The row an update of a dispute saves.
Changed(row, change) == [row EXCEPT ![change.field] = change.value]

LEMMA ChangedRow ==
  ASSUME NEW row \in DisputeRow, NEW change \in FieldChanges
  PROVE  /\ Changed(row, change) \in DisputeRow /\ Changed(row, change).status \in DisputeStatus
         /\ \A k \in {"status", "internalNotes", "assignedTo"}:
              k # change.field => Changed(row, change)[k] = row[k]
  <1>1. CASE change \in [field: {"status"}, value: Marks]
    <2>1. Changed(row, change) = [row EXCEPT !.status = change.value] /\ change.field = "status"
      BY <1>1 DEF Changed
    <2>2. change.value \in DisputeStatus
      BY <1>1, OversightAssumption
    <2>. QED
      BY <2>1, <2>2 DEF DisputeRow
  <1>2. CASE change \in [field: {"internalNotes"}, value: Notes]
    <2>1. Changed(row, change) = [row EXCEPT !.internalNotes = change.value] /\ change.field = "internalNotes"
      BY <1>2 DEF Changed
    <2>. QED
      BY <1>2, <2>1 DEF DisputeRow
  <1>3. CASE change \in [field: {"assignedTo"}, value: Admins]
    <2>1. Changed(row, change) = [row EXCEPT !.assignedTo = change.value] /\ change.field = "assignedTo"
      BY <1>3 DEF Changed
    <2>. QED
      BY <1>3, <2>1 DEF DisputeRow
  <1>. QED
    BY <1>1, <1>2, <1>3 DEF FieldChanges

LEMMA DisputeCallsDo ==
  ASSUME TypesInv, NEW c \in Calls,
         \/ \E d \in Disputes: \/ CreateDispute(c, d)
                               \/ \E s \in Marks: LoadDispute(c, d, "status", s)
                               \/ \E n \in Notes: LoadDispute(c, d, "internalNotes", n)
                               \/ \E a \in Admins: LoadDispute(c, d, "assignedTo", a)
         \/ SaveDispute(c)
         \/ \E s \in Sars: CreateSar(c, s)
  PROVE  OversightDoes(c) /\ debits' = debits
  <1> USE DEF TypesInv
  <1>0. /\ Disputes \subseteq Targets /\ Sars \subseteq Targets
        /\ {"compliance.dispute_created", "compliance.dispute_updated", "compliance.sar_documented"} \subseteq AuditActions
        /\ DisputeStatus \subseteq AuditStatus /\ {"open", "filed"} \subseteq AuditStatus
    BY DEF Targets, AuditActions, AuditStatus, DisputeStatus
  <1>1. ASSUME NEW d \in Disputes, CreateDispute(c, d) PROVE OversightDoes(c) /\ debits' = debits
    <2> DEFINE x == ToAudit(d, "compliance.dispute_created", "open")
    <2>1. Slot(c, x) /\ x \in CallState /\ x.at = "audit"
      BY <1>0, <1>1, AuditForm DEF CreateDispute, Begin, Slot
    <2>2. disputes' \in [Disputes -> DisputeRow \cup {None}] /\ \A e \in Disputes: disputes[e] # None => disputes'[e] # None
      BY <1>1, PaperRows DEF CreateDispute, TablesType
    <2>3. KeepsPapers /\ debits' = debits
      BY <1>1, <2>2 DEF CreateDispute, books, KeepsPapers, TablesType, DebitRow
    <2> HIDE DEF x
    <2>. QED
      BY <2>1, <2>3, SameCallState DEF OversightDoes, FoundPaper, TicketStages
  <1>2. ASSUME NEW d \in Disputes, NEW field, NEW value, [field |-> field, value |-> value] \in FieldChanges,
               LoadDispute(c, d, field, value)
        PROVE  OversightDoes(c) /\ debits' = debits
    <2> DEFINE x == Call("dispute", d, disputes[d], [field |-> field, value |-> value])
    <2>1. disputes[d] \in DisputeRow /\ disputes[d] # None
      BY <1>2 DEF LoadDispute, TablesType
    <2>2. x \in CallState /\ Slot(c, x) /\ x.at = "dispute" /\ x.on = d
      BY <1>2, <2>1, CallForms DEF LoadDispute, Begin, Slot, Call
    <2>3. KeepsPapers /\ CallState' = CallState /\ disputes' = disputes /\ debits' = debits
      BY <1>2, PapersStand DEF LoadDispute, oversightVars
    <2> HIDE DEF x
    <2>. QED
      BY <2>1, <2>2, <2>3 DEF OversightDoes, FoundPaper, TicketStages
  <1>3. CASE SaveDispute(c)
    <2> DEFINE row == Changed(calls[c].row, calls[c].arg)
               x == ToAudit(calls[c].on, "compliance.dispute_updated", row.status)
    <2>1. calls[c].on \in Disputes /\ row \in DisputeRow /\ row.status \in DisputeStatus
      BY <1>3, CallAt, ChangedRow DEF SaveDispute
    <2>2. /\ disputes' = [disputes EXCEPT ![calls[c].on] = row]
          /\ SaveOver(c, disputes[calls[c].on], "compliance.dispute_updated", row.status)
      BY <1>3 DEF SaveDispute, Changed
    <2> HIDE DEF row
    <2>3. Slot(c, x) /\ x \in CallState /\ x.at = "audit"
      BY <1>0, <2>1, <2>2, SaveOverSlot, AuditForm
    <2>4. disputes' \in [Disputes -> DisputeRow \cup {None}] /\ \A e \in Disputes: disputes[e] # None => disputes'[e] # None
      BY <2>1, <2>2, PaperRows DEF TablesType
    <2>5. KeepsPapers /\ debits' = debits
      BY <1>3, <2>4 DEF SaveDispute, books, KeepsPapers, TablesType, DebitRow
    <2> HIDE DEF x
    <2>. QED
      BY <2>3, <2>5, SameCallState DEF OversightDoes, FoundPaper, TicketStages
  <1>4. ASSUME NEW s \in Sars, CreateSar(c, s) PROVE OversightDoes(c) /\ debits' = debits
    <2> DEFINE x == ToAudit(s, "compliance.sar_documented", "filed")
    <2>1. Slot(c, x) /\ x \in CallState /\ x.at = "audit"
      BY <1>0, <1>4, AuditForm DEF CreateSar, Begin, Slot
    <2>2. KeepsPapers /\ debits' = debits
      BY <1>4 DEF CreateSar, books, KeepsPapers, TablesType, DebitRow
    <2> HIDE DEF x
    <2>. QED
      BY <2>1, <2>2, SameCallState DEF OversightDoes, FoundPaper, TicketStages
  <1>5. /\ \A s \in Marks: [field |-> "status", value |-> s] \in FieldChanges
        /\ \A n \in Notes: [field |-> "internalNotes", value |-> n] \in FieldChanges
        /\ \A a \in Admins: [field |-> "assignedTo", value |-> a] \in FieldChanges
    BY DEF FieldChanges
  <1>. QED
    BY <1>1, <1>2, <1>3, <1>4, <1>5

LEMMA OversightStepDoes ==
  ASSUME TypesInv, NEW c \in Calls, OversightStep(c)
  PROVE  OversightDoes(c)
  BY PostDebitDoes, CheckDoes, FlagCallsDo, ReconciliationDoes, DisputeCallsDo DEF OversightStep

\* What a step of the process is, slot by slot.
LEMMA TypesStep ==
  ASSUME TypesInv, [BackOfficeNext]_backOfficeVars
  PROVE  TypesInv'
  <1> USE DEF TypesInv
  <1>0. ASSUME NEW x \in CallState', NEW c \in Calls, Slot(c, x), KeepsTickets, KeepsPapers,
               FoundTicket(x), FoundPaper(x)
        PROVE  TypesInv'
    <2>1. CallsType'
      BY <1>0, SlotType DEF KeepsPapers, DebitIds
    <2>2. TablesType'
      BY <1>0 DEF KeepsTickets, KeepsPapers, TablesType, DebitRow
    <2>3. RowsFound'
      <3> SUFFICES ASSUME NEW d \in Calls
                   PROVE  /\ calls'[d].at \in TicketStages => tickets'[calls'[d].on] # None
                          /\ calls'[d].at = "resolve" => flags'[calls'[d].on] # None
                          /\ calls'[d].at = "dispute" => disputes'[calls'[d].on] # None
        BY DEF RowsFound, At, TicketStages
      <3>1. CASE d = c
        BY <1>0, <3>1 DEF Slot, CallsType, FoundTicket, FoundPaper
      <3>2. CASE d # c
        <4>1. calls'[d] = calls[d]
          BY <1>0, <3>2 DEF Slot, CallsType
        <4>. QED
          BY <1>0, <4>1, CallAt DEF RowsFound, KeepsTickets, KeepsPapers, At, TicketStages
      <3>. QED
        BY <3>1, <3>2
    <2>. QED
      BY <2>1, <2>2, <2>3
  <1>1. oversightVars' = oversightVars => KeepsPapers /\ CallState' = CallState
    BY PapersStand
  <1>2. supportVars' = supportVars => KeepsTickets
    BY DEF supportVars, KeepsTickets, TablesType
  <1>3. ASSUME NEW c \in Calls, SupportStep(c), UNCHANGED oversightVars PROVE TypesInv'
    BY <1>0, <1>1, <1>3, SupportStepDoes DEF SupportDoes, FoundPaper
  <1>4. ASSUME NEW c \in Calls, OversightStep(c), UNCHANGED supportVars PROVE TypesInv'
    BY <1>0, <1>2, <1>4, OversightStepDoes DEF OversightDoes, FoundTicket
  <1>5. ASSUME NEW c \in Calls, Record(c) \/ Die(c), UNCHANGED <<supportVars, oversightVars>> PROVE TypesInv'
    <2>1. Slot(c, Idle) /\ Idle \in CallState /\ Idle.at = "idle"
      BY <1>5, CallForms DEF Record, Die, Slot, Idle
    <2>. QED
      BY <1>0, <1>1, <1>2, <1>5, <2>1 DEF FoundTicket, FoundPaper, TicketStages
  <1>6. ASSUME NEW a \in Amounts, PostTopup(a), UNCHANGED supportVars PROVE TypesInv'
    <2>1. a \in Int
      BY OversightAssumption
    <2>2. /\ walletTotal' \in Int /\ floatBalance' \in Int /\ moves' = moves + 1
          /\ Len(debits) + moves < MaxMoves /\ calls' = calls /\ UNCHANGED <<debits, flags, disputes, sars, reports>>
      BY <1>6, <2>1, CrossTyped DEF PostTopup, files, handlerVars
    <2>3. moves \in Nat /\ Len(debits) \in Nat /\ MaxMoves \in Nat
      BY OversightAssumption DEF TablesType
    <2>4. TablesType'
      BY <1>2, <1>6, <2>2, <2>3 DEF TablesType, KeepsTickets
    <2>5. CallsType'
      BY <2>2, SameCallState DEF CallsType
    <2>6. RowsFound'
      BY <1>6, <2>2 DEF RowsFound, At, supportVars
    <2>. QED
      BY <2>4, <2>5, <2>6
  <1>7. CASE UNCHANGED backOfficeVars
    <2>1. supportVars' = supportVars /\ oversightVars' = oversightVars /\ calls' = calls
      BY <1>7 DEF backOfficeVars, handlerVars
    <2>2. TablesType'
      BY <1>1, <1>2, <2>1 DEF TablesType, KeepsTickets, KeepsPapers, DebitRow
    <2>. QED
      BY <1>1, <2>1, <2>2 DEF CallsType, RowsFound, At, supportVars, oversightVars
  <1>. QED
    BY <1>3, <1>4, <1>5, <1>6, <1>7 DEF BackOfficeNext

LEMMA TypesInit == BackOfficeInit => TypesInv
  <1> SUFFICES ASSUME BackOfficeInit PROVE TypesInv
    OBVIOUS
  <1>1. CallsType /\ \A c \in Calls: calls[c].at = "idle"
    BY CallForms DEF BackOfficeInit, HandlersInit, CallsType, Idle
  <1>2. TablesType
    BY OversightAssumption DEF BackOfficeInit, SupportInit, OversightInit, TablesType
  <1>. QED
    BY <1>1, <1>2 DEF TypesInv, RowsFound, At

LEMMA TypesHold == BackOfficeSpec => []TypesInv
  BY TypesInit, TypesStep, PTL DEF BackOfficeSpec


-----------------------------------------------------------------------------
(* Type correctness and the reconciliation.                                 *)

\* The float and the wallets move against each other, and count it.
LEMMA CrossBalances ==
  ASSUME TablesType, NEW amount \in Int, Cross(amount), walletTotal + floatBalance = 0
  PROVE  /\ walletTotal' + floatBalance' = 0
         /\ moves' = moves + 1
  BY DEF Cross, TablesType

\* A reading of the wallets stays good while no money crosses.
FloatFits(x) == x.at = "float" => x.arg <= moves /\ (x.arg = moves => x.row = walletTotal)
MoneyStands == walletTotal' = walletTotal /\ floatBalance' = floatBalance /\ moves' = moves

LEMMA FloatsStep ==
  ASSUME TypesInv, FloatsInv, [BackOfficeNext]_backOfficeVars
  PROVE  FloatsInv'
  <1> USE DEF TypesInv
  <1>0. /\ moves \in Nat /\ walletTotal \in Int /\ floatBalance \in Int /\ walletTotal + floatBalance = 0
        /\ \A c \in Calls: FloatFits(calls[c]) /\ (calls[c].at = "float" => calls[c].row \in Int /\ calls[c].arg \in Nat)
    BY CallAt DEF TablesType, FloatsInv, QuietBooksReconcile, FloatFits, At
  <1>1. ASSUME NEW c \in Calls, NEW x, Slot(c, x), MoneyStands, reports' = reports, FloatFits(x)
        PROVE  FloatsInv'
    BY <1>1 DEF FloatsInv, QuietBooksReconcile, FloatFits, MoneyStands, Slot, CallsType, At
  <1>2. ASSUME calls' = calls, MoneyStands, reports' = reports PROVE FloatsInv'
    BY <1>2 DEF FloatsInv, QuietBooksReconcile, MoneyStands, At
  <1>3. ASSUME NEW amount \in Int, Cross(amount), reports' = reports,
               \A d \in Calls: calls'[d] = calls[d] \/ calls'[d].at # "float"
        PROVE  FloatsInv'
    <2>1. walletTotal' + floatBalance' = 0 /\ moves' = moves + 1
      BY <1>0, <1>3, CrossBalances
    <2>2. \A d \in Calls: calls'[d].at = "float" => calls'[d].arg <= moves' /\ calls'[d].arg # moves'
      BY <1>0, <1>3, <2>1 DEF FloatFits
    <2>. QED
      BY <1>3, <2>1, <2>2 DEF FloatsInv, QuietBooksReconcile, At
  <1>4. ASSUME NEW c \in Calls, SupportStep(c), oversightVars' = oversightVars PROVE FloatsInv'
    <2>1. PICK x \in CallState: Slot(c, x) /\ x.at \notin {"evaluate", "resolve", "float", "dispute"}
      BY <1>4, SupportStepDoes DEF SupportDoes
    <2>2. MoneyStands /\ reports' = reports
      BY <1>4 DEF oversightVars, MoneyStands
    <2>. QED
      BY <1>1, <2>1, <2>2 DEF FloatFits
  <1>5. ASSUME NEW c \in Calls, OversightStep(c) PROVE FloatsInv'
    <2>1. ASSUME NEW u \in Senders, NEW a \in Amounts, NEW to \in Recipients \cup {None}, PostDebit(c, u, a, to)
          PROVE  FloatsInv'
      <3>1. PICK rules \in SUBSET Rules: Slot(c, Call("evaluate", DebitId(Len(debits) + 1), None, rules))
        BY <2>1, PostDebitDoes
      <3>2. reports' = reports /\ -a \in Int
        BY <2>1, OversightAssumption DEF PostDebit, files
      <3>3. CASE to = None
        <4>1. Cross(-a)
          BY <2>1, <3>3 DEF PostDebit
        <4>2. \A d \in Calls: calls'[d] = calls[d] \/ calls'[d].at # "float"
          BY <3>1 DEF Slot, Call, CallsType
        <4>. QED
          BY <1>3, <3>2, <4>1, <4>2
      <3>4. CASE to # None
        <4>1. MoneyStands
          BY <2>1, <3>4 DEF PostDebit, MoneyStands
        <4>2. FloatFits(Call("evaluate", DebitId(Len(debits) + 1), None, rules))
          BY DEF FloatFits, Call
        <4>. QED
          BY <1>1, <3>1, <3>2, <4>1, <4>2
      <3>. QED
        BY <3>3, <3>4
    <2>2. CASE SumWallets(c)
      <3>1. Slot(c, Call("float", None, walletTotal, moves)) /\ MoneyStands /\ reports' = reports
        BY <2>2 DEF SumWallets, Begin, Slot, oversightVars, MoneyStands
      <3>2. FloatFits(Call("float", None, walletTotal, moves))
        BY <1>0 DEF FloatFits, Call
      <3>. QED
        BY <1>1, <3>1, <3>2
    <2>3. CASE ReadFloat(c)
      <3>1. /\ Slot(c, Idle) /\ MoneyStands /\ Idle.at = "idle" /\ calls[c].at = "float"
            /\ reports' = reports \cup {[isBalanced |-> calls[c].row + floatBalance = 0, moved |-> moves # calls[c].arg]}
        BY <2>3 DEF ReadFloat, Slot, books, MoneyStands, Idle, At
      <3>2. moves = calls[c].arg => calls[c].row + floatBalance = 0
        BY <1>0, <3>1 DEF FloatFits
      <3>3. \A r \in reports': ~r.moved => r.isBalanced
        <4> DEFINE report == [isBalanced |-> calls[c].row + floatBalance = 0, moved |-> moves # calls[c].arg]
        <4>1. reports' = reports \cup {report}
          BY <3>1
        <4>2. ~report.moved => report.isBalanced
          BY <3>2
        <4> HIDE DEF report
        <4>. QED
          BY <4>1, <4>2 DEF FloatsInv, QuietBooksReconcile
      <3>4. \A d \in Calls: calls'[d].at = "float" => FloatFits(calls[d]) /\ calls'[d] = calls[d]
        BY <1>0, <3>1 DEF Slot, CallsType
      <3>. QED
        BY <1>0, <3>1, <3>3, <3>4 DEF FloatsInv, QuietBooksReconcile, MoneyStands, FloatFits, At
    <2>4. ASSUME NEW rule \in Rules, Check(c, rule) \/ CheckFails(c, rule) PROVE FloatsInv'
      <3>1. MoneyStands /\ reports' = reports /\ At(c, "evaluate")
        BY <2>4 DEF Check, CheckFails, books, files, oversightVars, MoneyStands
      <3>2. Slot(c, Idle) \/ Slot(c, Call("evaluate", calls[c].on, calls[c].row, calls[c].arg \ {rule}))
        BY <2>4 DEF Check, CheckFails, Checked, Slot
      <3>3. FloatFits(Idle) /\ FloatFits(Call("evaluate", calls[c].on, calls[c].row, calls[c].arg \ {rule}))
        BY DEF FloatFits, Idle, Call
      <3>. QED
        BY <1>1, <3>1, <3>2, <3>3
    <2>5. CASE \/ \E f \in FlagIds, s \in Verdicts, a \in Admins: LoadFlag(c, f, s, a)
               \/ SaveFlag(c)
               \/ \E d \in Disputes: \/ CreateDispute(c, d)
                                     \/ \E s \in Marks: LoadDispute(c, d, "status", s)
                                     \/ \E n \in Notes: LoadDispute(c, d, "internalNotes", n)
                                     \/ \E a \in Admins: LoadDispute(c, d, "assignedTo", a)
               \/ SaveDispute(c)
               \/ \E s \in Sars: CreateSar(c, s)
      <3>1. MoneyStands /\ reports' = reports
        BY <2>5 DEF LoadFlag, SaveFlag, CreateDispute, LoadDispute, SaveDispute, CreateSar, books, files,
                    oversightVars, MoneyStands
      <3>2. \E x: Slot(c, x) /\ x.at \in {"resolve", "dispute", "audit"}
        <4>1. ASSUME NEW on, NEW action, NEW status
              PROVE  /\ Begin(c, ToAudit(on, action, status)) => Slot(c, ToAudit(on, action, status))
                     /\ ToAudit(on, action, status).at = "audit"
          BY DEF Begin, Slot, ToAudit
        <4>2. ASSUME NEW at, NEW on, NEW row, NEW arg
              PROVE  /\ Begin(c, Call(at, on, row, arg)) => Slot(c, Call(at, on, row, arg))
                     /\ Call(at, on, row, arg).at = at
          BY DEF Begin, Slot, Call
        <4>3. CASE SaveFlag(c) \/ SaveDispute(c)
          BY <4>1, <4>3, SaveOverSlot DEF SaveFlag, SaveDispute
        <4>4. ASSUME NEW f, NEW s, NEW a, LoadFlag(c, f, s, a)
              PROVE  \E x: Slot(c, x) /\ x.at \in {"resolve", "dispute", "audit"}
          BY <4>2, <4>4 DEF LoadFlag
        <4>5. ASSUME NEW d, NEW field, NEW value, LoadDispute(c, d, field, value)
              PROVE  \E x: Slot(c, x) /\ x.at \in {"resolve", "dispute", "audit"}
          BY <4>2, <4>5 DEF LoadDispute
        <4>6. ASSUME NEW d, CreateDispute(c, d)
              PROVE  \E x: Slot(c, x) /\ x.at \in {"resolve", "dispute", "audit"}
          BY <4>1, <4>6 DEF CreateDispute
        <4>7. ASSUME NEW s, CreateSar(c, s)
              PROVE  \E x: Slot(c, x) /\ x.at \in {"resolve", "dispute", "audit"}
          BY <4>1, <4>7 DEF CreateSar
        <4>. QED
          BY <2>5, <4>3, <4>4, <4>5, <4>6, <4>7
      <3>. QED
        BY <1>1, <3>1, <3>2 DEF FloatFits
    <2>. QED
      BY <1>5, <2>1, <2>2, <2>3, <2>4, <2>5 DEF OversightStep
  <1>6. ASSUME NEW c \in Calls, Record(c) \/ Die(c), oversightVars' = oversightVars PROVE FloatsInv'
    <2>1. Slot(c, Idle) /\ FloatFits(Idle) /\ MoneyStands /\ reports' = reports
      BY <1>6 DEF Record, Die, Slot, Idle, FloatFits, oversightVars, MoneyStands
    <2>. QED
      BY <1>1, <2>1
  <1>7. ASSUME NEW a \in Amounts, PostTopup(a) PROVE FloatsInv'
    <2>1. a \in Int /\ Cross(a) /\ reports' = reports /\ calls' = calls
      BY <1>7, OversightAssumption DEF PostTopup, files, handlerVars
    <2>. QED
      BY <1>3, <2>1
  <1>8. CASE UNCHANGED backOfficeVars
    BY <1>2, <1>8 DEF backOfficeVars, oversightVars, handlerVars, MoneyStands
  <1>. QED
    BY <1>4, <1>5, <1>6, <1>7, <1>8 DEF BackOfficeNext

\* A reconciliation that no money crossed between its two queries finds the
\* books balanced, however many calls, top-ups and payouts overlap with it.
THEOREM QuietBooksAreBalanced == BackOfficeSpec => []QuietBooksReconcile
  <1>1. BackOfficeInit => FloatsInv
    <2> SUFFICES ASSUME BackOfficeInit PROVE FloatsInv
      OBVIOUS
    <2>1. \A c \in Calls: calls[c].at = "idle"
      BY DEF BackOfficeInit, HandlersInit, Idle
    <2>. QED
      BY <2>1 DEF BackOfficeInit, OversightInit, FloatsInv, QuietBooksReconcile, At
  <1>2. TypesInv /\ FloatsInv /\ [BackOfficeNext]_backOfficeVars => FloatsInv'
    BY FloatsStep
  <1>3. FloatsInv => QuietBooksReconcile
    BY DEF FloatsInv
  <1>. QED
    BY <1>1, <1>2, <1>3, TypesHold, PTL DEF BackOfficeSpec


-----------------------------------------------------------------------------
(* Tickets: the customer's text, and the pile of open ones.                 *)

\* A step of slot c, which holds x after it, that keeps the tickets, the texts
\* and what is said of them: it may load a ticket, write an audit row or die.
Aside(c, x) ==
  /\ tickets' = tickets /\ threads' = threads
  /\ overwritten \subseteq overwritten' /\ died \subseteq died' /\ auditLog \subseteq auditLog'
  /\ Slot(c, x) /\ x.at \notin {"firstMessage", "afterMessage"}
  /\ x.at = "message" => x.on \in Tickets /\ x.row = tickets[x.on]
  /\ calls[c].at \in TicketStages => calls[c].on \in died'
  /\ At(c, "audit") => \/ calls[c].on \in died'
                       \/ \E r \in auditLog': /\ r.action = calls[c].action /\ r.target = calls[c].on
                                              /\ r.status = calls[c].status

\* What was asked for stays asked for.
LEMMA AskedStays ==
  ASSUME CallsType, NEW c \in Calls, NEW x, Slot(c, x), auditLog \subseteq auditLog', NEW t, AskedOpen(t),
         At(c, "audit") /\ calls[c].on = t =>
           \/ t \in died'
           \/ \E r \in auditLog': /\ r.action = calls[c].action /\ r.target = t /\ r.status = calls[c].status
  PROVE  AskedOpen(t)' \/ t \in died'
  <1>1. CASE \E r \in auditLog: r.target = t /\ SaysOpen(t, r)
    BY <1>1 DEF AskedOpen, SaysOpen
  <1>2. ASSUME NEW d \in Calls, At(d, "audit"), calls[d].on = t, SaysOpen(t, calls[d])
        PROVE  AskedOpen(t)' \/ t \in died'
    <2>1. CASE d = c
      BY <1>2, <2>1 DEF AskedOpen, SaysOpen
    <2>2. CASE d # c
      <3>1. calls'[d] = calls[d]
        BY <2>2 DEF Slot, CallsType
      <3>. QED
        BY <1>2, <3>1 DEF AskedOpen, SaysOpen, At
    <2>. QED
      BY <2>1, <2>2
  <1>. QED
    BY <1>1, <1>2 DEF AskedOpen

LEMMA AsideKeeps ==
  ASSUME TypesInv, SupportInv, NEW c \in Calls, NEW x, Aside(c, x)
  PROVE  SupportInv'
  <1> USE DEF TypesInv
  <1>1. calls'[c] = x /\ \A d \in Calls: d # c => calls'[d] = calls[d]
    BY DEF Aside, Slot, CallsType
  <1>2. TicketsHaveTheirText'
    <2> SUFFICES ASSUME NEW t \in Tickets \ died', tickets'[t] # None, ~(\E d \in Calls: calls'[d].at = "firstMessage" /\ calls'[d].on = t)
                 PROVE  \E i \in 1..Len(threads'[t]): threads'[t][i] = "user"
      BY DEF TicketsHaveTheirText, At
    <2>1. \A d \in Calls: ~(calls[d].at = "firstMessage" /\ calls[d].on = t)
      BY <1>1 DEF Aside, TicketStages
    <2>. QED
      BY <2>1 DEF Aside, SupportInv, TicketsHaveTheirText, At
  <1>3. AnsweredLeaves'
    <2> SUFFICES ASSUME NEW t \in Tickets, t \notin died', t \notin overwritten', tickets'[t] # None
                 PROVE  /\ \A d \in Calls: FoundOff(calls'[d], t) => OffThePile(t)'
                        /\ IsAnswered(t)' => OffThePile(t)' \/ \E d \in Calls: Answering(calls'[d], t)
      BY DEF AnsweredLeaves, FoundOff, Answering
    <2>1. /\ \A d \in Calls: FoundOff(calls[d], t) => OffThePile(t)
          /\ IsAnswered(t) => OffThePile(t) \/ \E d \in Calls: Answering(calls[d], t)
      BY DEF Aside, SupportInv, AnsweredLeaves
    <2>2. OffThePile(t) => OffThePile(t)'
      <3>1. AskedOpen(t) => AskedOpen(t)'
        BY AskedStays DEF Aside
      <3>. QED
        BY <3>1 DEF OffThePile, Aside
    <2>3. FoundOff(x, t) => OffThePile(t)'
      BY DEF FoundOff, Aside, OffThePile
    <2>4. \A d \in Calls: Answering(calls[d], t) => Answering(calls'[d], t)
      BY <1>1 DEF Answering, Aside, TicketStages
    <2>5. IsAnswered(t)' = IsAnswered(t)
      BY DEF IsAnswered, Aside
    <2>. QED
      BY <1>1, <2>1, <2>2, <2>3, <2>4, <2>5
  <1>. QED
    BY <1>2, <1>3 DEF SupportInv, NoThreadYet, Aside


\* The same, one ticket at a time.
HasItsText(t) ==
  t \notin died /\ tickets[t] # None /\ ~(\E c \in Calls: At(c, "firstMessage") /\ calls[c].on = t)
  => \E i \in 1..Len(threads[t]): threads[t][i] = "user"
Leaves(t) ==
  t \notin died \cup overwritten /\ tickets[t] # None =>
    /\ \A c \in Calls: FoundOff(calls[c], t) => OffThePile(t)
    /\ IsAnswered(t) => OffThePile(t) \/ \E c \in Calls: Answering(calls[c], t)
TicketInv(t) == HasItsText(t) /\ Leaves(t) /\ (tickets[t] = None => threads[t] = <<>>)

LEMMA ByTicket ==
  /\ SupportInv <=> \A t \in Tickets: TicketInv(t)
  /\ SupportInv' <=> \A t \in Tickets: TicketInv(t)'
  BY DEF SupportInv, TicketsHaveTheirText, AnsweredLeaves, NoThreadYet, TicketInv, HasItsText, Leaves

\* A step about another ticket.
Elsewhere(c, x, t) ==
  /\ Slot(c, x) /\ tickets'[t] = tickets[t] /\ threads'[t] = threads[t]
  /\ overwritten \subseteq overwritten' /\ died \subseteq died' /\ auditLog \subseteq auditLog'
  /\ calls[c] = Idle \/ calls[c].on # t
  /\ x.on # t

LEMMA ElsewhereKeeps ==
  ASSUME CallsType, NEW t \in Tickets, TicketInv(t), NEW c \in Calls, NEW x, Elsewhere(c, x, t)
  PROVE  TicketInv(t)'
  <1>1. calls'[c] = x /\ \A d \in Calls: d # c => calls'[d] = calls[d]
    BY DEF Elsewhere, Slot, CallsType
  <1>3. \A d \in Calls: calls[d].at # "idle" /\ calls[d].on = t => calls'[d] = calls[d]
    BY <1>1 DEF Elsewhere, Idle
  <1>4. \A d \in Calls: calls'[d].on = t => calls'[d] = calls[d]
    BY <1>1 DEF Elsewhere
  <1>5. HasItsText(t)'
    BY <1>3, <1>4 DEF Elsewhere, TicketInv, HasItsText, At
  <1>6. OffThePile(t) => OffThePile(t)'
    BY <1>3 DEF Elsewhere, OffThePile, AskedOpen, SaysOpen, At
  <1>7. Leaves(t)'
    <2> SUFFICES ASSUME t \notin died', t \notin overwritten', tickets'[t] # None
                 PROVE  /\ \A d \in Calls: FoundOff(calls'[d], t) => OffThePile(t)'
                        /\ IsAnswered(t)' => OffThePile(t)' \/ \E d \in Calls: Answering(calls'[d], t)
      BY DEF Leaves, FoundOff, Answering
    <2>1. /\ \A d \in Calls: FoundOff(calls[d], t) => OffThePile(t)
          /\ IsAnswered(t) => OffThePile(t) \/ \E d \in Calls: Answering(calls[d], t)
      BY DEF Elsewhere, TicketInv, Leaves
    <2>2. IsAnswered(t)' = IsAnswered(t)
      BY DEF IsAnswered, Elsewhere
    <2>3. \A d \in Calls: FoundOff(calls'[d], t) => FoundOff(calls[d], t)
      BY <1>4 DEF FoundOff
    <2>4. \A d \in Calls: Answering(calls[d], t) => Answering(calls'[d], t)
      BY <1>3 DEF Answering
    <2>. QED
      BY <1>6, <2>1, <2>2, <2>3, <2>4
  <1>. QED
    BY <1>5, <1>7 DEF TicketInv, Elsewhere

\* A save about a ticket leaves the others alone.
LEMMA OthersKeep ==
  ASSUME TypesInv, SupportInv, NEW c \in Calls, NEW t \in Tickets, NEW x, Slot(c, x), x.on = t,
         calls[c] = Idle \/ calls[c].on = t,
         \A u \in Tickets: u # t => tickets'[u] = tickets[u] /\ threads'[u] = threads[u],
         overwritten \subseteq overwritten', died' = died, auditLog' = auditLog,
         TicketInv(t)'
  PROVE  SupportInv'
  <1>1. \A u \in Tickets: u # t => Elsewhere(c, x, u)
    BY DEF Elsewhere
  <1>. QED
    BY <1>1, ElsewhereKeeps, ByTicket DEF TypesInv


\* What a save does to its own ticket.
LEMMA SaveTicketKeeps ==
  ASSUME TypesInv, SupportInv, NEW c \in Calls, NEW t \in Tickets, SaveTicket(c, t)
  PROVE  SupportInv'
  <1> USE DEF TypesInv
  <1> DEFINE x == Call("firstMessage", t, None, None)
  <1>1. /\ tickets[t] = None /\ calls[c] = Idle /\ Slot(c, x) /\ x.on = t /\ x.at = "firstMessage"
        /\ UNCHANGED <<threads, overwritten, died, auditLog>>
    BY CallAt DEF SaveTicket, Begin, Slot, Call
  <1>2. /\ tickets'[t] # None /\ \A u \in Tickets: u # t => tickets'[u] = tickets[u] /\ threads'[u] = threads[u]
    BY <1>1, KeepTyped, TicketForms DEF SaveTicket
  <1> HIDE DEF x
  <1>3. calls'[c] = x /\ \A d \in Calls: d # c => calls'[d] = calls[d]
    BY <1>1 DEF Slot, CallsType
  <1>4. HasItsText(t)'
    BY <1>1, <1>3 DEF HasItsText, At
  <1>5. ~IsAnswered(t)'
    BY <1>1 DEF IsAnswered, SupportInv, NoThreadYet
  <1>6. \A d \in Calls: ~FoundOff(calls'[d], t)
    BY <1>1, <1>3 DEF FoundOff, RowsFound
  <1>7. TicketInv(t)'
    BY <1>2, <1>4, <1>5, <1>6 DEF TicketInv, Leaves, FoundOff
  <1>. QED
    BY <1>1, <1>2, <1>7, OthersKeep

\* A message leaves the earlier ones in the thread.
LEMMA SaidStays ==
  ASSUME TablesType, NEW t \in Tickets, NEW who \in {"user", "admin"}, Say(t, who)
  PROVE  \A m \in {"user", "admin"}:
           (\E i \in 1..Len(threads'[t]): threads'[t][i] = m)
           <=> m = who \/ \E i \in 1..Len(threads[t]): threads[t][i] = m
  <1>1. threads[t] \in Seq({"user", "admin"}) /\ threads'[t] = Append(threads[t], who)
    BY SaysTyped DEF TablesType
  <1>2. /\ Len(threads'[t]) = Len(threads[t]) + 1 /\ threads'[t][Len(threads[t]) + 1] = who
        /\ \A i \in 1..Len(threads[t]): threads'[t][i] = threads[t][i]
        /\ Len(threads[t]) \in Nat
    BY <1>1
  <1>3. \A i \in 1..Len(threads'[t]): i \in 1..Len(threads[t]) \/ i = Len(threads[t]) + 1
    BY <1>2
  <1>4. Len(threads[t]) + 1 \in 1..Len(threads'[t]) /\ 1..Len(threads[t]) \subseteq 1..Len(threads'[t])
    BY <1>2
  <1>. QED
    BY <1>2, <1>3, <1>4

LEMMA SaveFirstMessageKeeps ==
  ASSUME TypesInv, SupportInv, NEW c \in Calls, SaveFirstMessage(c)
  PROVE  SupportInv'
  <1> USE DEF TypesInv
  <1>0. PICK t \in Tickets: t = calls[c].on
    BY CallAt DEF SaveFirstMessage
  <1> DEFINE x == ToAudit(t, "support.ticket_created", "open")
  <1>1. /\ tickets[t] # None /\ calls[c].at = "firstMessage" /\ Slot(c, x)
        /\ x.on = t /\ x.at = "audit" /\ Say(t, "user") /\ tickets' = tickets
        /\ UNCHANGED <<overwritten, died, auditLog>>
    <2>1. At(c, "firstMessage") /\ Say(t, "user") /\ tickets' = tickets
      BY <1>0 DEF SaveFirstMessage
    <2>2. calls[c].row = None /\ tickets[t] # None
      BY <1>0, <2>1, CallAt DEF RowsFound, At
    <2>3. SaveOver(c, None, "support.ticket_created", "open")
      BY DEF SaveFirstMessage
    <2>4. UNCHANGED <<overwritten, died, auditLog>>
      BY <2>2, <2>3 DEF SaveOver
    <2>. QED
      BY <1>0, <2>1, <2>2, <2>3, <2>4, SaveOverSlot DEF ToAudit, At
  <1> HIDE DEF x
  <1>2. \A u \in Tickets: u # t => tickets'[u] = tickets[u] /\ threads'[u] = threads[u]
    BY <1>1, SaysTyped
  <1>3. calls'[c] = x /\ \A d \in Calls: d # c => calls'[d] = calls[d]
    BY <1>1 DEF Slot, CallsType
  <1>4. HasItsText(t)' /\ (IsAnswered(t)' => IsAnswered(t))
    BY <1>1, SaidStays DEF HasItsText, IsAnswered
  <1>5. t \notin died' /\ OffThePile(t) => OffThePile(t)'
    BY <1>1, AskedStays DEF OffThePile, At
  <1>6. /\ \A d \in Calls: FoundOff(calls'[d], t) => FoundOff(calls[d], t)
        /\ \A d \in Calls: Answering(calls[d], t) => Answering(calls'[d], t)
    BY <1>1, <1>3 DEF FoundOff, Answering
  <1>7. Leaves(t)'
    BY <1>1, <1>4, <1>5, <1>6, ByTicket DEF Leaves, TicketInv, FoundOff, Answering
  <1>8. TicketInv(t)'
    BY <1>1, <1>4, <1>7 DEF TicketInv
  <1>. QED
    BY <1>0, <1>1, <1>2, <1>8, OthersKeep


LEMMA SaveMessageKeeps ==
  ASSUME TypesInv, SupportInv, NEW c \in Calls, SaveMessage(c)
  PROVE  SupportInv'
  <1> USE DEF TypesInv
  <1>0. PICK t \in Tickets, who \in {"user", "admin"}: t = calls[c].on /\ who = calls[c].arg
    BY CallAt DEF SaveMessage, At
  <1> DEFINE x == [calls[c] EXCEPT !.at = "afterMessage"]
  <1>1. /\ calls[c] \in TicketCalls /\ calls[c].at = "message" /\ tickets[t] # None
        /\ tickets' = tickets /\ UNCHANGED <<overwritten, died, auditLog>>
        /\ Say(t, who) /\ Slot(c, x)
    BY <1>0, CallAt DEF SaveMessage, GoOn, Slot, At, RowsFound
  <1>2. x.at = "afterMessage" /\ x.on = t /\ x.row = calls[c].row /\ x.arg = who
    BY <1>0, <1>1 DEF TicketCalls
  <1> HIDE DEF x
  <1>3. \A u \in Tickets: u # t => tickets'[u] = tickets[u] /\ threads'[u] = threads[u]
    BY <1>1, SaysTyped
  <1>4. calls'[c] = x /\ \A d \in Calls: d # c => calls'[d] = calls[d]
    BY <1>1 DEF Slot, CallsType
  <1>5. HasItsText(t)'
    <2>1. \A d \in Calls: calls[d].at = "firstMessage" /\ calls[d].on = t => calls'[d] = calls[d]
      BY <1>1, <1>4
    <2>2. HasItsText(t)
      BY ByTicket DEF TicketInv
    <2>. QED
      BY <1>1, <2>1, <2>2, SaidStays DEF HasItsText, At
  <1>6. IsAnswered(t)' => IsAnswered(t) \/ who = "admin"
    BY <1>1, SaidStays DEF IsAnswered
  <1>7. t \notin died' /\ OffThePile(t) => OffThePile(t)'
    BY <1>1, AskedStays DEF OffThePile, At
  <1>8. \A d \in Calls: FoundOff(calls'[d], t) => FoundOff(calls[d], t)
    BY <1>0, <1>1, <1>2, <1>4 DEF FoundOff
  <1>9. \A d \in Calls: Answering(calls[d], t) => Answering(calls'[d], t)
    BY <1>1, <1>4 DEF Answering
  <1>10. who = "admin" => Answering(calls'[c], t)
    BY <1>2, <1>4 DEF Answering
  <1>11. Leaves(t)'
    BY <1>1, <1>6, <1>7, <1>8, <1>9, <1>10, ByTicket DEF Leaves, TicketInv, FoundOff, Answering
  <1>12. TicketInv(t)'
    BY <1>1, <1>5, <1>11 DEF TicketInv
  <1>. QED
    BY <1>0, <1>1, <1>2, <1>3, <1>12, OthersKeep

\* A save over a ticket's row leaves its text.
LEMMA TextKept ==
  ASSUME TypesInv, SupportInv, NEW c \in Calls, NEW t \in Tickets, NEW x, Slot(c, x), x.at = "audit",
         calls[c].at # "firstMessage", tickets[t] # None, threads' = threads, died' = died
  PROVE  HasItsText(t)'
  <1>1. calls'[c] = x /\ \A d \in Calls: d # c => calls'[d] = calls[d]
    BY DEF Slot, CallsType, TypesInv
  <1>2. \A d \in Calls: calls[d].at = "firstMessage" /\ calls[d].on = t => calls'[d] = calls[d]
    BY <1>1
  <1>. QED
    BY <1>2, ByTicket DEF TicketInv, HasItsText, At

LEMMA SaveUpdateKeeps ==
  ASSUME TypesInv, SupportInv, NEW c \in Calls, SaveUpdate(c)
  PROVE  SupportInv'
  <1> USE DEF TypesInv
  <1>0. PICK t \in Tickets, row \in TicketRow: t = calls[c].on /\ row = Updated(calls[c].row, calls[c].arg)
    BY CallAt, TicketForms DEF SaveUpdate
  <1> DEFINE x == ToAudit(t, "support.ticket_updated", row.status)
  <1>1. /\ calls[c].at = "update" /\ tickets[t] # None /\ Keep(t, row) /\ threads' = threads
        /\ SaveOver(c, tickets[t], "support.ticket_updated", row.status)
    BY <1>0 DEF SaveUpdate, At, RowsFound
  <1>2. /\ Slot(c, x) /\ x.at = "audit" /\ x.on = t /\ x.action = "support.ticket_updated" /\ x.status = row.status
        /\ overwritten \subseteq overwritten' /\ died' = died /\ auditLog' = auditLog
    BY <1>0, <1>1, SaveOverSlot DEF ToAudit
  <1> HIDE DEF x
  <1>3. /\ \A u \in Tickets: u # t => tickets'[u] = tickets[u] /\ threads'[u] = threads[u]
        /\ tickets'[t] = row /\ tickets'[t] # None
    BY <1>1, KeepTyped
  <1>4. calls'[c] = x
    BY <1>2 DEF Slot, CallsType
  <1>5. OffThePile(t)'
    <2>1. CASE row.status = "open"
      BY <1>2, <1>4, <2>1 DEF OffThePile, AskedOpen, SaysOpen, At
    <2>2. CASE row.status # "open"
      BY <1>3, <2>2 DEF OffThePile
    <2>. QED
      BY <2>1, <2>2
  <1>6. TicketInv(t)'
    BY <1>1, <1>2, <1>3, <1>5, TextKept DEF TicketInv, Leaves
  <1>. QED
    BY <1>0, <1>2, <1>3, <1>6, OthersKeep

LEMMA SaveAfterMessageKeeps ==
  ASSUME TypesInv, SupportInv, NEW c \in Calls, SaveAfterMessage(c)
  PROVE  SupportInv'
  <1> USE DEF TypesInv
  <1>0. PICK t \in Tickets: t = calls[c].on
    BY CallAt DEF SaveAfterMessage, At
  <1>1. /\ calls[c].at = "afterMessage" /\ tickets[t] # None /\ threads' = threads
        /\ calls[c].row \in TicketRow /\ calls[c].arg \in {"user", "admin"}
    BY <1>0, CallAt DEF SaveAfterMessage, At, RowsFound
  <1>2. CASE Revives(calls[c].row.status, calls[c].arg)
    <2> DEFINE x == ToAudit(t, "support.message_added", "in_progress")
               row == [calls[c].row EXCEPT !.status = "in_progress"]
    <2>1. Keep(t, row) /\ SaveOver(c, tickets[t], "support.message_added", "in_progress")
      BY <1>0, <1>2 DEF SaveAfterMessage
    <2>2. /\ Slot(c, x) /\ x.at = "audit" /\ x.on = t
          /\ overwritten \subseteq overwritten' /\ died' = died /\ auditLog' = auditLog
      BY <1>0, <2>1, SaveOverSlot DEF ToAudit
    <2>3. row \in TicketRow /\ row.status = "in_progress"
      BY <1>1, TicketForms DEF TicketRow
    <2> HIDE DEF x, row
    <2>4. /\ \A u \in Tickets: u # t => tickets'[u] = tickets[u] /\ threads'[u] = threads[u]
          /\ tickets'[t] = row /\ tickets'[t] # None
      BY <1>1, <2>1, <2>3, KeepTyped
    <2>5. OffThePile(t)'
      BY <2>3, <2>4 DEF OffThePile
    <2>6. TicketInv(t)'
      BY <1>1, <2>2, <2>4, <2>5, TextKept DEF TicketInv, Leaves
    <2>. QED
      BY <1>0, <2>2, <2>4, <2>6, OthersKeep
  <1>3. CASE ~Revives(calls[c].row.status, calls[c].arg)
    <2>0. PICK status: SaveOver(c, calls[c].row, "support.message_added", status) /\ tickets' = tickets
      BY <1>0, <1>3 DEF SaveAfterMessage
    <2> DEFINE x == ToAudit(t, "support.message_added", status)
    <2>1. /\ Slot(c, x) /\ x.at = "audit" /\ x.on = t /\ UNCHANGED <<overwritten, died, auditLog>>
      BY <1>0, <2>0 DEF SaveOver, ToAudit, Slot, CallsType
    <2> HIDE DEF x
    <2>2. calls'[c] = x /\ \A d \in Calls: d # c => calls'[d] = calls[d]
      BY <2>1 DEF Slot, CallsType
    <2>3. t \notin died' /\ OffThePile(t) => OffThePile(t)'
      BY <1>1, <2>0, <2>1, AskedStays DEF OffThePile, At
    <2>4. /\ \A d \in Calls: FoundOff(calls'[d], t) => FoundOff(calls[d], t)
          /\ \A d \in Calls: Answering(calls[d], t) => Answering(calls'[d], t) \/ FoundOff(calls[c], t)
      BY <1>0, <1>1, <1>3, <2>1, <2>2 DEF FoundOff, Answering, Revives
    <2>5. Leaves(t)'
      <3> SUFFICES ASSUME t \notin died', t \notin overwritten'
                   PROVE  /\ \A d \in Calls: FoundOff(calls'[d], t) => OffThePile(t)'
                          /\ IsAnswered(t)' => OffThePile(t)' \/ \E d \in Calls: Answering(calls'[d], t)
        BY DEF Leaves, FoundOff, Answering
      <3>1. /\ \A d \in Calls: FoundOff(calls[d], t) => OffThePile(t)
            /\ IsAnswered(t) => OffThePile(t) \/ \E d \in Calls: Answering(calls[d], t)
        BY <1>1, <2>1, ByTicket DEF TicketInv, Leaves
      <3>2. IsAnswered(t)' = IsAnswered(t)
        BY <1>1 DEF IsAnswered
      <3>. QED
        BY <2>3, <2>4, <3>1, <3>2
    <2>6. TicketInv(t)'
      BY <1>1, <2>0, <2>1, <2>5, TextKept DEF TicketInv
    <2>. QED
      BY <1>0, <1>1, <2>0, <2>1, <2>6, OthersKeep
  <1>. QED
    BY <1>2, <1>3


\* The steps that stand aside: what begins a call other than createTicket, and
\* what saves a row that is not a ticket.
LEMMA BeginAside ==
  ASSUME CallsType, NEW c \in Calls, NEW x, Begin(c, x), tickets' = tickets, threads' = threads,
         x.at \notin {"firstMessage", "afterMessage"},
         x.at = "message" => x.on \in Tickets /\ x.row = tickets[x.on]
  PROVE  Aside(c, x)
  BY DEF Begin, Aside, Slot, At, TicketStages

LEMMA SaveAside ==
  ASSUME CallsType, NEW c \in Calls, NEW current, NEW action, NEW status, SaveOver(c, current, action, status),
         tickets' = tickets, threads' = threads, calls[c].at \notin TicketStages \cup {"audit"}
  PROVE  \E x: Aside(c, x)
  <1> DEFINE x == ToAudit(calls[c].on, action, status)
  <1>1. /\ Slot(c, x) /\ x.at = "audit" /\ overwritten \subseteq overwritten'
        /\ auditLog' = auditLog /\ died' = died
    BY SaveOverSlot DEF ToAudit
  <1> HIDE DEF x
  <1>2. Aside(c, x)
    BY <1>1 DEF Aside, At
  <1>. QED
    BY <1>2

LEMMA FaqStepsAside ==
  ASSUME CallsType, NEW c \in Calls,
         \/ \E f \in Faqs: \/ \E state \in {"draft", "published"}: CreateFaq(c, f, state) \/ LoadFaq(c, f, "saveFaq", state)
                           \/ \E at \in {"saveFaq", "deleteFaq"}: LoadFaq(c, f, at, None)
         \/ SaveFaq(c) \/ DeleteFaq(c)
  PROVE  \E x: Aside(c, x)
  <1>1. ASSUME NEW f, NEW state, CreateFaq(c, f, state) PROVE \E x: Aside(c, x)
    BY <1>1, BeginAside DEF CreateFaq, ToAudit
  <1>2. ASSUME NEW f, NEW at \in {"saveFaq", "deleteFaq"}, NEW state, LoadFaq(c, f, at, state) PROVE \E x: Aside(c, x)
    BY <1>2, BeginAside DEF LoadFaq, supportVars, Call
  <1>3. CASE SaveFaq(c) \/ DeleteFaq(c)
    BY <1>3, SaveAside DEF SaveFaq, DeleteFaq, At, TicketStages
  <1>. QED
    BY <1>1, <1>2, <1>3

LEMMA LoadsAside ==
  ASSUME CallsType, NEW c \in Calls, NEW t \in Tickets,
         \/ \E who \in {"user", "admin"}: LoadForReply(c, t, who)
         \/ \E fields \in Fields: LoadForUpdate(c, t, fields)
  PROVE  \E x: Aside(c, x)
  <1>1. ASSUME NEW who, LoadForReply(c, t, who) PROVE \E x: Aside(c, x)
    BY <1>1, BeginAside DEF LoadForReply, supportVars, Call
  <1>2. ASSUME NEW fields, LoadForUpdate(c, t, fields) PROVE \E x: Aside(c, x)
    BY <1>2, BeginAside DEF LoadForUpdate, supportVars, Call
  <1>. QED
    BY <1>1, <1>2

LEMMA OversightStepsAside ==
  ASSUME CallsType, NEW c \in Calls, OversightStep(c), UNCHANGED supportVars
  PROVE  \E x: Aside(c, x)
  <1>0. tickets' = tickets /\ threads' = threads
    BY DEF supportVars
  <1>1. ASSUME NEW u, NEW a, NEW to, PostDebit(c, u, a, to) PROVE \E x: Aside(c, x)
    BY <1>0, <1>1, BeginAside DEF PostDebit, Call
  <1>2. ASSUME NEW rule \in Rules, Check(c, rule) \/ CheckFails(c, rule) PROVE \E x: Aside(c, x)
    <2>1. \E x: Slot(c, x) /\ x.at \in {"idle", "evaluate"}
      <3> DEFINE next == Call("evaluate", calls[c].on, calls[c].row, calls[c].arg \ {rule})
      <3>1. Slot(c, Idle) \/ Slot(c, next)
        BY <1>2 DEF Check, CheckFails, Checked, Slot
      <3>2. Idle.at = "idle" /\ next.at = "evaluate"
        BY DEF Idle, Call
      <3> HIDE DEF next
      <3>. QED
        BY <3>1, <3>2
    <2>2. /\ calls[c].at = "evaluate" /\ overwritten' = overwritten
          /\ died \subseteq died' /\ auditLog \subseteq auditLog'
      BY <1>2 DEF Check, CheckFails, Checked, At
    <2>. QED
      BY <1>0, <2>1, <2>2 DEF Aside, At, TicketStages
  <1>3. ASSUME NEW f, NEW s, NEW a, LoadFlag(c, f, s, a) PROVE \E x: Aside(c, x)
    BY <1>0, <1>3, BeginAside DEF LoadFlag, Call
  <1>4. CASE SaveFlag(c) \/ SaveDispute(c)
    BY <1>0, <1>4, SaveAside DEF SaveFlag, SaveDispute, At, TicketStages
  <1>5. CASE SumWallets(c)
    BY <1>0, <1>5, BeginAside DEF SumWallets, Call
  <1>6. CASE ReadFloat(c)
    <2>1. Slot(c, Idle) /\ Idle.at = "idle" /\ calls[c].at = "float" /\ UNCHANGED <<overwritten, died, auditLog>>
      BY <1>6 DEF ReadFloat, Slot, Idle, At
    <2>. QED
      BY <1>0, <2>1 DEF Aside, At, TicketStages
  <1>7. ASSUME NEW d, CreateDispute(c, d) PROVE \E x: Aside(c, x)
    BY <1>0, <1>7, BeginAside DEF CreateDispute, ToAudit
  <1>8. ASSUME NEW d, NEW field, NEW value, LoadDispute(c, d, field, value) PROVE \E x: Aside(c, x)
    BY <1>0, <1>8, BeginAside DEF LoadDispute, Call
  <1>9. ASSUME NEW s, CreateSar(c, s) PROVE \E x: Aside(c, x)
    BY <1>0, <1>9, BeginAside DEF CreateSar, ToAudit
  <1>. QED
    BY <1>1, <1>2, <1>3, <1>4, <1>5, <1>6, <1>7, <1>8, <1>9 DEF OversightStep

LEMMA EndsAside ==
  ASSUME CallsType, NEW c \in Calls, Record(c) \/ Die(c), UNCHANGED supportVars
  PROVE  Aside(c, Idle)
  <1>0. tickets' = tickets /\ threads' = threads /\ Slot(c, Idle) /\ Idle.at = "idle" /\ overwritten' = overwritten
    BY DEF supportVars, Record, Die, Slot, Idle
  <1>1. CASE Record(c)
    <2> DEFINE r == [action |-> calls[c].action, target |-> calls[c].on, status |-> calls[c].status]
    <2>1. /\ r.action = calls[c].action /\ r.target = calls[c].on /\ r.status = calls[c].status
          /\ auditLog' = auditLog \cup {r} /\ calls[c].at = "audit" /\ died' = died
      BY <1>1 DEF Record, At
    <2> HIDE DEF r
    <2>. QED
      BY <1>0, <2>1 DEF Aside, TicketStages
  <1>2. CASE Die(c)
    BY <1>0, <1>2 DEF Die, Aside
  <1>. QED
    BY <1>1, <1>2

LEMMA SupportInvStep ==
  ASSUME TypesInv, SupportInv, [BackOfficeNext]_backOfficeVars
  PROVE  SupportInv'
  <1> USE DEF TypesInv
  <1>1. ASSUME NEW c \in Calls, SupportStep(c) PROVE SupportInv'
    <2>1. CASE \E t \in Tickets: SaveTicket(c, t)
      BY <2>1, SaveTicketKeeps
    <2>2. CASE SaveFirstMessage(c) \/ SaveMessage(c) \/ SaveAfterMessage(c) \/ SaveUpdate(c)
      BY <2>2, SaveFirstMessageKeeps, SaveMessageKeeps, SaveAfterMessageKeeps, SaveUpdateKeeps
    <2>3. CASE \E t \in Tickets: \/ \E who \in {"user", "admin"}: LoadForReply(c, t, who)
                                 \/ \E fields \in Fields: LoadForUpdate(c, t, fields)
      BY <2>3, LoadsAside, AsideKeeps
    <2>4. CASE \/ \E f \in Faqs: \/ \E state \in {"draft", "published"}:
                                      CreateFaq(c, f, state) \/ LoadFaq(c, f, "saveFaq", state)
                                 \/ \E at \in {"saveFaq", "deleteFaq"}: LoadFaq(c, f, at, None)
               \/ SaveFaq(c) \/ DeleteFaq(c)
      BY <2>4, FaqStepsAside, AsideKeeps
    <2>. QED
      BY <1>1, <2>1, <2>2, <2>3, <2>4 DEF SupportStep
  <1>2. ASSUME NEW c \in Calls, OversightStep(c), UNCHANGED supportVars PROVE SupportInv'
    BY <1>2, OversightStepsAside, AsideKeeps
  <1>3. ASSUME NEW c \in Calls, Record(c) \/ Die(c), UNCHANGED supportVars PROVE SupportInv'
    BY <1>3, EndsAside, AsideKeeps
  <1>4. CASE UNCHANGED <<supportVars, handlerVars>>
    BY <1>4 DEF SupportInv, TicketsHaveTheirText, AnsweredLeaves, NoThreadYet, FoundOff, Answering, OffThePile,
                IsAnswered, AskedOpen, SaysOpen, At, supportVars, handlerVars
  <1>5. ASSUME NEW a \in Amounts, PostTopup(a), UNCHANGED supportVars PROVE SupportInv'
    BY <1>4, <1>5 DEF PostTopup
  <1>6. CASE UNCHANGED backOfficeVars
    BY <1>4, <1>6 DEF backOfficeVars
  <1>. QED
    BY <1>1, <1>2, <1>3, <1>5, <1>6 DEF BackOfficeNext


LEMMA SupportInvInit == BackOfficeInit => SupportInv
  <1> SUFFICES ASSUME BackOfficeInit PROVE SupportInv
    OBVIOUS
  <1>1. \A c \in Calls: calls[c].at = "idle"
    BY DEF BackOfficeInit, HandlersInit, Idle
  <1>2. \A t \in Tickets: tickets[t] = None /\ threads[t] = <<>>
    BY DEF BackOfficeInit, SupportInit
  <1>. QED
    BY <1>1, <1>2 DEF SupportInv, TicketsHaveTheirText, AnsweredLeaves, NoThreadYet

LEMMA PileHolds ==
  ASSUME TypesInv, SupportInv
  PROVE  BackOfficeInv
  <1>1. SupportTypeOK
    BY DEF SupportTypeOK, TypesInv, TablesType
  <1>2. OversightTypeOK
    BY OversightAssumption DEF OversightTypeOK, TypesInv, TablesType
  <1>3. AnsweredIsNotOpen
    <2> SUFFICES ASSUME NEW t \in Tickets \ (died \cup overwritten), tickets[t] # None, ~Working(t), IsAnswered(t),
                        \A r \in auditLog: ~(r.target = t /\ r.action = "support.ticket_updated" /\ r.status = "open")
                 PROVE  tickets[t].status # "open"
      BY DEF AnsweredIsNotOpen, IsAnswered
    <2>1. \A c \in Calls: calls[c] = Idle \/ calls[c].on # t
      BY DEF Working
    <2>2. \A c \in Calls: ~Answering(calls[c], t)
      BY <2>1 DEF Answering, Idle
    <2>3. ~AskedOpen(t)
      BY <2>1 DEF AskedOpen, SaysOpen, At, Idle
    <2>. QED
      BY <2>2, <2>3 DEF SupportInv, AnsweredLeaves, OffThePile
  <1>. QED
    BY <1>1, <1>2, <1>3 DEF BackOfficeInv, SupportInv

\* Every row keeps the columns of its table; every ticket has its customer's
\* text unless the process died while it was made; and a ticket an operator
\* answered is off the pile of open ones when no call is left to move it, but
\* for the calls that died, the stale rows and the requests by name.
THEOREM TicketsAreAnswered == BackOfficeSpec => []BackOfficeInv
  <1>1. BackOfficeInit => SupportInv
    BY SupportInvInit
  <1>2. TypesInv /\ SupportInv /\ [BackOfficeNext]_backOfficeVars => SupportInv'
    BY SupportInvStep
  <1>3. TypesInv /\ SupportInv => BackOfficeInv
    BY PileHolds
  <1>. QED
    BY <1>1, <1>2, <1>3, TypesHold, PTL DEF BackOfficeSpec



-----------------------------------------------------------------------------
(* The fraud rules: every debit is judged, and judged late enough.          *)

\* A debit that breaks a rule with the ones before it breaks it, all the more,
\* with all that are posted when the rule reads the ledger.
LEMMA BreaksHits ==
  ASSUME TablesType, NEW i \in DOMAIN debits, NEW rule \in Rules, Breaks(i, rule)
  PROVE  Hits(rule, i)
  <1> DEFINE all == DebitsOf(debits[i].user)
             upto == Earlier(i) \cup {i}
  <1>1. /\ all \subseteq 1..Len(debits) /\ Len(debits) \in Nat /\ i \in 1..Len(debits)
        /\ Earlier(i) \subseteq all /\ upto \subseteq all /\ i \notin Earlier(i)
    BY DEF TablesType, DebitsOf, Earlier
  <1>2. IsFiniteSet(all) /\ IsFiniteSet(upto) /\ IsFiniteSet(Earlier(i))
    <2>1. IsFiniteSet(1..Len(debits))
      BY <1>1, FS_Interval
    <2>. QED
      BY <1>1, <2>1, FS_Subset
  <1>3. CASE rule = "high_velocity"
    <2>1. Cardinality(upto) = Cardinality(Earlier(i)) + 1
      BY <1>1, <1>2, FS_AddElement
    <2>2. Cardinality(upto) <= Cardinality(all) /\ Cardinality(upto) \in Nat /\ Cardinality(all) \in Nat
      BY <1>1, <1>2, FS_Subset, FS_CardinalityType
    <2>3. Cardinality(Earlier(i)) + 1 >= VelocityCount
      BY <1>3 DEF Breaks
    <2>4. VelocityCount \in Nat
      BY OversightAssumption
    <2>5. Cardinality(all) >= VelocityCount
      <3> HIDE DEF all, upto
      <3>. QED
        BY <2>1, <2>2, <2>3, <2>4
    <2>. QED
      BY <1>3, <2>5 DEF Hits
  <1>4. CASE rule = "amount_anomaly"
    <2>1. all = upto /\ Unusual(debits[i].amount, Earlier(i))
      BY <1>4 DEF Breaks
    <2>2. all \ {i} = Earlier(i)
      BY <1>1, <2>1
    <2>. QED
      BY <1>4, <2>1, <2>2 DEF Hits
  <1>5. CASE rule = "frequent_new_beneficiaries"
    <2>1. RecipientsOf(upto) \subseteq RecipientsOf(all)
      BY <1>1 DEF RecipientsOf
    <2>2. IsFiniteSet(RecipientsOf(all))
      <3>1. IsFiniteSet({debits[j].to: j \in all})
        <4> DEFINE T == {debits[j].to: j \in all}
                   to == [j \in all |-> debits[j].to]
        <4>1. to \in Surjection(all, T)
          BY DEF Surjection
        <4>. QED
          BY <1>2, <4>1, FS_Surjection
      <3>. QED
        BY <3>1, FS_Subset DEF RecipientsOf
    <2>3. Cardinality(RecipientsOf(upto)) >= NewBeneficiaries
      BY <1>5 DEF Breaks
    <2>4. NewBeneficiaries \in Nat
      BY OversightAssumption
    <2>5. Cardinality(RecipientsOf(all)) >= NewBeneficiaries
      <3>1. /\ Cardinality(RecipientsOf(upto)) <= Cardinality(RecipientsOf(all))
            /\ Cardinality(RecipientsOf(upto)) \in Nat /\ Cardinality(RecipientsOf(all)) \in Nat
        BY <2>1, <2>2, FS_Subset, FS_CardinalityType
      <3> HIDE DEF all, upto
      <3>. QED
        BY <2>3, <2>4, <3>1
    <2>. QED
      BY <1>5, <2>5 DEF Hits
  <1>. QED
    BY <1>3, <1>4, <1>5 DEF Rules

\* What a debit breaks does not grow with the debits posted after it.
LEMMA VerdictStays ==
  ASSUME TablesType, NEW row \in DebitRow, debits' = Append(debits, row),
         NEW i \in DOMAIN debits, NEW rule \in Rules, Breaks(i, rule)'
  PROVE  Breaks(i, rule)
  <1>0. /\ debits \in Seq(DebitRow) /\ Len(debits) \in Nat /\ i \in 1..Len(debits)
        /\ \A j \in 1..Len(debits): debits'[j] = debits[j]
        /\ DOMAIN debits = 1..Len(debits) /\ DOMAIN debits' = 1..(Len(debits) + 1)
    BY DEF TablesType, DebitRow
  <1>1. Earlier(i)' = Earlier(i) /\ Earlier(i) \subseteq 1..Len(debits)
    <2>1. \A j \in DOMAIN debits': j < i => j \in DOMAIN debits
      BY <1>0
    <2>. QED
      BY <1>0, <2>1 DEF Earlier, DebitsOf
  <1>2. debits'[i] = debits[i] /\ \A u: DebitsOf(u) \subseteq DebitsOf(u)'
    BY <1>0 DEF DebitsOf
  <1>3. CASE rule = "high_velocity"
    BY <1>1, <1>3 DEF Breaks
  <1>4. CASE rule = "amount_anomaly"
    <2>0. PICK u, amount, before: u = debits[i].user /\ amount = debits[i].amount /\ before = Earlier(i)
      OBVIOUS
    <2>1. DebitsOf(u)' = before \cup {i} /\ Unusual(amount, before)'
      BY <1>1, <1>2, <1>4, <2>0 DEF Breaks
    <2>2. DebitsOf(u) = before \cup {i}
      BY <1>0, <1>2, <2>0, <2>1 DEF DebitsOf, Earlier
    <2>3. [j \in before |-> debits'[j].amount] = [j \in before |-> debits[j].amount]
      BY <1>0, <1>1, <2>0
    <2>4. Unusual(amount, before)
      BY <2>1, <2>3 DEF Unusual
    <2>. QED
      BY <1>4, <2>0, <2>2, <2>4 DEF Breaks
  <1>5. CASE rule = "frequent_new_beneficiaries"
    <2>1. RecipientsOf(Earlier(i) \cup {i})' = RecipientsOf(Earlier(i) \cup {i})
      BY <1>0, <1>1 DEF RecipientsOf
    <2>. QED
      BY <1>1, <1>2, <1>5, <2>1 DEF Breaks
  <1>. QED
    BY <1>3, <1>4, <1>5 DEF Rules


\* A step of slot c, which holds x after it, that judges nothing: no debit is
\* posted and no flag is raised; the call may die while it judges one.
NotJudging(c, x) ==
  /\ Slot(c, x) /\ debits' = debits /\ died \subseteq died'
  /\ \A f \in FlagIds: flags'[f] = None <=> flags[f] = None
  /\ x.at # "evaluate"
  /\ At(c, "evaluate") => calls[c].on \in died'

LEMMA DebitsAreFlaggable ==
  ASSUME TablesType
  PROVE  \A i \in DOMAIN debits, rule \in Rules: <<i, rule>> \in FlagIds /\ <<i, rule>>[1] = i
  BY OversightAssumption DEF TablesType, FlagIds

LEMMA NotJudgingKeeps ==
  ASSUME TypesInv, JudgesInv, NEW c \in Calls, NEW x, NotJudging(c, x)
  PROVE  JudgesInv'
  <1> USE DEF TypesInv
  <1>1. calls'[c] = x /\ \A d \in Calls: d # c => calls'[d] = calls[d]
    BY DEF NotJudging, Slot, CallsType
  <1>2. \A d \in Calls: calls'[d].at = "evaluate" => calls'[d] = calls[d]
    BY <1>1 DEF NotJudging
  <1>3. \A d \in Calls: calls[d].at = "evaluate" =>
          /\ \A rule \in calls[d].arg: rule \in Rules /\ <<calls[d].on[1], rule>> \in FlagIds
          /\ calls[d] = calls'[d] \/ calls[d].on \in died'
    <2> SUFFICES ASSUME NEW d \in Calls, calls[d].at = "evaluate"
                 PROVE  /\ \A rule \in calls[d].arg: rule \in Rules /\ <<calls[d].on[1], rule>> \in FlagIds
                        /\ calls[d] = calls'[d] \/ calls[d].on \in died'
      OBVIOUS
    <2>1. calls[d].on \in DebitIds /\ calls[d].arg \subseteq Rules
      BY CallAt DEF At
    <2>2. PICK i \in DOMAIN debits: calls[d].on = <<i>>
      BY <2>1 DEF DebitIds, DebitId
    <2>. QED
      BY <1>1, <2>1, <2>2, DebitsAreFlaggable DEF NotJudging, At
  <1>4. OneJudge'
    <2>1. \A d \in Calls: calls'[d].at = "evaluate" =>
            \A rule \in calls'[d].arg: flags'[<<calls'[d].on[1], rule>>] = None
      BY <1>2, <1>3 DEF JudgesInv, OneJudge, NotJudging, At
    <2>. QED
      BY <1>2, <2>1 DEF JudgesInv, OneJudge, NotJudging, At
  <1>5. VerdictsInv'
    <2> SUFFICES ASSUME NEW i \in DOMAIN debits, NEW rule \in Rules, DebitId(i) \notin died'
                 PROVE  \/ \E d \in Calls: /\ calls'[d].at = "evaluate" /\ calls'[d].on = DebitId(i)
                                           /\ rule \in calls'[d].arg
                        \/ Breaks(i, rule)' => flags'[<<i, rule>>] # None
      BY DEF VerdictsInv, NotJudging, At, DebitId
    <2>1. Breaks(i, rule)' = Breaks(i, rule)
      BY DEF NotJudging, Breaks, Earlier, DebitsOf, RecipientsOf, Unusual
    <2>2. <<i, rule>> \in FlagIds
      BY DebitsAreFlaggable
    <2>. QED
      BY <1>3, <2>1, <2>2 DEF JudgesInv, VerdictsInv, NotJudging, At
  <1>. QED
    BY <1>4, <1>5 DEF JudgesInv

LEMMA PostDebitJudges ==
  ASSUME TypesInv, JudgesInv, NEW c \in Calls, NEW u \in Senders, NEW a \in Amounts,
         NEW to \in Recipients \cup {None}, PostDebit(c, u, a, to)
  PROVE  JudgesInv'
  <1> USE DEF TypesInv
  <1> DEFINE row == [user |-> u, amount |-> a, to |-> to]
             n == Len(debits) + 1
  <1>1. /\ debits' = Append(debits, row) /\ row \in DebitRow /\ row.to = to
        /\ flags' = flags /\ died' = died /\ n <= MaxMoves /\ n \in Nat
    <2>1. debits' = Append(debits, row) /\ flags' = flags /\ died' = died /\ Len(debits) + moves < MaxMoves
      BY DEF PostDebit, Begin
    <2>. QED
      BY <2>1, OversightAssumption DEF DebitRow, TablesType
  <1> HIDE DEF row
  <1>2. DOMAIN debits = 1..Len(debits) /\ DOMAIN debits' = 1..n /\ Len(debits) \in Nat /\ debits'[n] = row
    BY <1>1 DEF TablesType, DebitRow
  <1>3. PICK rules \in SUBSET Rules:
          /\ Slot(c, Call("evaluate", <<n>>, None, rules))
          /\ rules = IF to = None THEN Rules \ {"frequent_new_beneficiaries"} ELSE Rules
    BY PostDebitDoes DEF DebitId
  <1>4. PICK x: /\ calls'[c] = x /\ x.at = "evaluate" /\ x.on = <<n>> /\ x.arg = rules
                /\ \A d \in Calls: d # c => calls'[d] = calls[d]
    <2> DEFINE next == Call("evaluate", <<n>>, None, rules)
    <2>1. next.at = "evaluate" /\ next.on = <<n>> /\ next.arg = rules
      BY DEF Call
    <2>2. Slot(c, next)
      BY <1>3
    <2> HIDE DEF next, n
    <2>. QED
      BY <2>1, <2>2 DEF Slot, CallsType
  <1>5. calls[c].at = "idle"
    BY DEF PostDebit, Begin, At
  <1>6. \A d \in Calls: calls[d].at = "evaluate" => d # c /\ \E i \in DOMAIN debits: calls[d].on = <<i>>
    BY <1>5, CallAt DEF At, DebitIds, DebitId
  <1>7. OneJudge'
    <2>1. \A d, e \in Calls: calls'[d].at = "evaluate" /\ calls'[e].at = "evaluate" /\ calls'[d].on = calls'[e].on => d = e
      <3>1. \A d \in Calls: d # c /\ calls'[d].at = "evaluate" => calls'[d].on # <<n>>
        BY <1>2, <1>4, <1>6
      <3>. QED
        BY <1>4, <3>1 DEF JudgesInv, OneJudge, At
    <2>2. \A rule \in Rules: flags[<<n, rule>>] = None
      <3>1. \A rule \in Rules: <<n, rule>> \in FlagIds /\ <<n, rule>>[1] = n /\ n \notin DOMAIN debits
        BY <1>1, <1>2 DEF FlagIds
      <3>. QED
        BY <3>1 DEF JudgesInv, OneJudge
    <2>3. \A d \in Calls: calls'[d].at = "evaluate" => \A rule \in calls'[d].arg: flags'[<<calls'[d].on[1], rule>>] = None
      BY <1>1, <1>4, <2>2 DEF JudgesInv, OneJudge, At
    <2>4. \A f \in FlagIds: flags'[f] # None => f[1] \in DOMAIN debits'
      BY <1>1, <1>2 DEF JudgesInv, OneJudge
    <2>. QED
      BY <2>1, <2>3, <2>4 DEF OneJudge, At
  <1>8. VerdictsInv'
    <2> SUFFICES ASSUME NEW i \in DOMAIN debits', NEW rule \in Rules, <<i>> \notin died', Breaks(i, rule)'
                 PROVE  \/ \E d \in Calls: /\ calls'[d].at = "evaluate" /\ calls'[d].on = <<i>>
                                           /\ rule \in calls'[d].arg
                        \/ flags'[<<i, rule>>] # None
      BY DEF VerdictsInv, At, DebitId
    <2>1. CASE i \in DOMAIN debits
      <3>1. Breaks(i, rule)
        BY <1>1, <2>1, VerdictStays
      <3>2. \A d \in Calls: calls[d].at = "evaluate" => calls'[d] = calls[d]
        BY <1>4, <1>6
      <3>. QED
        BY <1>1, <2>1, <3>1, <3>2 DEF JudgesInv, VerdictsInv, At, DebitId
    <2>2. CASE i = n
      <3>1. ~(to = None /\ rule = "frequent_new_beneficiaries")
        BY <1>1, <1>2, <2>2 DEF Breaks
      <3>2. rule \in rules
        BY <1>3, <3>1
      <3>. QED
        BY <1>4, <2>2, <3>2
    <2>. QED
      BY <1>2, <2>1, <2>2
  <1>. QED
    BY <1>7, <1>8 DEF JudgesInv

LEMMA CheckJudges ==
  ASSUME TypesInv, JudgesInv, NEW c \in Calls, NEW rule \in Rules, Check(c, rule) \/ CheckFails(c, rule)
  PROVE  JudgesInv'
  <1> USE DEF TypesInv
  <1>0. PICK i \in DOMAIN debits: calls[c].on = <<i>> /\ calls[c].at = "evaluate" /\ rule \in calls[c].arg
    BY CallAt DEF Check, CheckFails, At, DebitIds, DebitId
  <1>1. /\ debits' = debits /\ calls[c].arg \subseteq Rules /\ <<i, rule>> \in FlagIds
        /\ \A r \in Rules: <<i, r>> \in FlagIds
    <2>1. calls[c].arg \subseteq Rules
      BY <1>0, CallAt DEF At
    <2>2. debits' = debits
      BY CheckDoes
    <2>. QED
      BY <2>1, <2>2, DebitsAreFlaggable
  <1>2. \A d \in Calls: d # c => calls'[d] = calls[d]
    BY DEF Check, CheckFails, Checked, CallsType
  <1>3. PICK x: /\ calls'[c] = x
                /\ x.at = "evaluate" => x.on = <<i>> /\ x.arg = calls[c].arg \ {rule}
                /\ \A r \in calls[c].arg: r # rule => x.at = "evaluate"
    <2> DEFINE next == Call("evaluate", calls[c].on, calls[c].row, calls[c].arg \ {rule})
    <2>1. calls'[c] = IF calls[c].arg = {rule} THEN Idle ELSE next
      BY DEF Check, CheckFails, Checked, CallsType
    <2>2. Idle.at = "idle" /\ next.at = "evaluate" /\ next.on = <<i>> /\ next.arg = calls[c].arg \ {rule}
      BY <1>0 DEF Idle, Call
    <2> HIDE DEF next
    <2>. QED
      BY <2>1, <2>2
  <1>4. /\ \A f \in FlagIds: f # <<i, rule>> => flags'[f] = flags[f]
        /\ flags[<<i, rule>>] # None => flags'[<<i, rule>>] # None
        /\ died \subseteq died'
        /\ <<i>> \in died' \/ (Hits(rule, i) => flags'[<<i, rule>>] # None)
    <2>1. CASE Check(c, rule)
      <3>1. <<i>>[1] = i
        OBVIOUS
      <3>. QED
        BY <1>0, <1>1, <2>1, <3>1, PaperRows DEF Check, TablesType
    <2>2. CASE CheckFails(c, rule)
      BY <1>0, <2>2 DEF CheckFails, oversightVars
    <2>. QED
      BY <2>1, <2>2
  <1>5. OneJudge'
    <2>1. \A d, e \in Calls: calls'[d].at = "evaluate" /\ calls'[e].at = "evaluate" /\ calls'[d].on = calls'[e].on => d = e
      BY <1>0, <1>2, <1>3 DEF JudgesInv, OneJudge, At
    <2>2. ASSUME NEW d \in Calls, calls'[d].at = "evaluate", NEW r \in calls'[d].arg
          PROVE  flags'[<<calls'[d].on[1], r>>] = None
      <3>1. CASE d = c
        <4>1. r \in calls[c].arg /\ r # rule /\ calls'[d].on = <<i>> /\ <<i>>[1] = i
          BY <1>3, <2>2, <3>1
        <4>2. flags[<<i, r>>] = None /\ <<i, r>> # <<i, rule>> /\ <<i, r>> \in FlagIds
          BY <1>0, <1>1, <4>1 DEF JudgesInv, OneJudge, At
        <4>. QED
          BY <1>4, <4>1, <4>2
      <3>2. CASE d # c
        <4>1. calls'[d] = calls[d] /\ calls[d].at = "evaluate" /\ r \in calls[d].arg
          BY <1>2, <2>2, <3>2
        <4>2. PICK j \in DOMAIN debits: calls[d].on = <<j>>
          BY <4>1, CallAt DEF At, DebitIds, DebitId
        <4>3. j # i
          BY <1>0, <3>2, <4>1, <4>2 DEF JudgesInv, OneJudge, At
        <4>4. <<j, r>> \in FlagIds /\ <<j, r>> # <<i, rule>> /\ <<j>>[1] = j
          BY <4>1, <4>2, <4>3, CallAt, DebitsAreFlaggable DEF At
        <4>5. flags[<<j, r>>] = None
          BY <4>1, <4>2, <4>4 DEF JudgesInv, OneJudge, At
        <4>. QED
          BY <1>4, <4>1, <4>2, <4>4, <4>5
      <3>. QED
        BY <3>1, <3>2
    <2>3. \A f \in FlagIds: flags'[f] # None => f[1] \in DOMAIN debits'
      BY <1>1, <1>4, DebitsAreFlaggable DEF JudgesInv, OneJudge
    <2>. QED
      BY <2>1, <2>2, <2>3 DEF OneJudge, At
  <1>6. VerdictsInv'
    <2> SUFFICES ASSUME NEW j \in DOMAIN debits, NEW r \in Rules, <<j>> \notin died', Breaks(j, r)'
                 PROVE  \/ \E d \in Calls: /\ calls'[d].at = "evaluate" /\ calls'[d].on = <<j>>
                                           /\ r \in calls'[d].arg
                        \/ flags'[<<j, r>>] # None
      BY <1>1 DEF VerdictsInv, At, DebitId
    <2>1. Breaks(j, r) /\ <<j, r>> \in FlagIds
      <3>1. Breaks(j, r)' = Breaks(j, r)
        BY <1>1 DEF Breaks, Earlier, DebitsOf, RecipientsOf, Unusual
      <3>. QED
        BY <3>1, DebitsAreFlaggable
    <2>2. CASE j = i /\ r = rule
      BY <1>4, <2>1, <2>2, BreaksHits
    <2>3. CASE ~(j = i /\ r = rule)
      <3>1. <<j, r>> # <<i, rule>>
        BY <2>3
      <3>2. CASE flags[<<j, r>>] # None
        BY <1>4, <2>1, <3>1, <3>2
      <3>3. CASE flags[<<j, r>>] = None
        <4>1. PICK d \in Calls: calls[d].at = "evaluate" /\ calls[d].on = <<j>> /\ r \in calls[d].arg
          BY <1>4, <2>1, <3>3 DEF JudgesInv, VerdictsInv, At, DebitId
        <4>2. CASE d = c
          <5>1. j = i
            BY <1>0, <4>1, <4>2
          <5>2. r # rule
            BY <2>3, <5>1
          <5>. QED
            BY <1>3, <4>1, <4>2, <5>1, <5>2
        <4>3. CASE d # c
          BY <1>2, <4>1, <4>3
        <4>. QED
          BY <4>2, <4>3
      <3>. QED
        BY <3>2, <3>3
    <2>. QED
      BY <2>2, <2>3
  <1>. QED
    BY <1>5, <1>6 DEF JudgesInv


\* The steps that judge nothing.
LEMMA SupportJudgesNothing ==
  ASSUME TypesInv, NEW c \in Calls, SupportStep(c), UNCHANGED oversightVars
  PROVE  \E x: NotJudging(c, x)
  <1>1. PICK x: Slot(c, x) /\ x.at # "evaluate"
    BY SupportStepDoes DEF SupportDoes
  <1>2. calls[c].at # "evaluate" /\ died' = died
    <2>1. ASSUME NEW t, NEW fields, SaveTicket(c, t) \/ LoadForReply(c, t, fields) \/ LoadForUpdate(c, t, fields)
          PROVE  calls[c].at # "evaluate" /\ died' = died
      BY <2>1 DEF SaveTicket, LoadForReply, LoadForUpdate, Begin, At
    <2>2. CASE \/ SaveFirstMessage(c) \/ SaveMessage(c) \/ SaveAfterMessage(c) \/ SaveUpdate(c)
               \/ SaveFaq(c) \/ DeleteFaq(c)
      BY <2>2 DEF SaveFirstMessage, SaveMessage, SaveAfterMessage, SaveUpdate, SaveFaq, DeleteFaq, SaveOver, GoOn, At
    <2>3. ASSUME NEW f, NEW at, NEW state, CreateFaq(c, f, state) \/ LoadFaq(c, f, at, state)
          PROVE  calls[c].at # "evaluate" /\ died' = died
      BY <2>3 DEF CreateFaq, LoadFaq, Begin, At
    <2>. QED
      BY <2>1, <2>2, <2>3 DEF SupportStep
  <1>. QED
    BY <1>1, <1>2 DEF NotJudging, oversightVars, At

LEMMA PapersJudgeNothing ==
  ASSUME TypesInv, NEW c \in Calls, OversightStep(c),
         \A u \in Senders, a \in Amounts, to \in Recipients \cup {None}: ~PostDebit(c, u, a, to),
         \A rule \in Rules: ~Check(c, rule) /\ ~CheckFails(c, rule)
  PROVE  \E x: NotJudging(c, x)
  <1>1. ASSUME NEW x, Begin(c, x), x.at # "evaluate", debits' = debits, flags' = flags
        PROVE  NotJudging(c, x)
    BY <1>1 DEF Begin, NotJudging, Slot, At
  <1>2. ASSUME NEW f \in FlagIds, NEW s, NEW a, LoadFlag(c, f, s, a) PROVE \E x: NotJudging(c, x)
    BY <1>1, <1>2 DEF LoadFlag, oversightVars, Call
  <1>3. CASE SaveFlag(c)
    <2>1. PICK status: SaveOver(c, flags[calls[c].on], "fraud.flag_resolved", status)
      BY <1>3 DEF SaveFlag
    <2>2. PICK x: Slot(c, x) /\ x.at = "audit" /\ died' = died
      BY <2>1, SaveOverSlot DEF TypesInv, ToAudit
    <2>3. /\ calls[c].at = "resolve" /\ calls[c].on \in FlagIds /\ calls[c].arg \in FlagRow
          /\ flags[calls[c].on] # None
      BY <1>3, CallAt, PaperRows DEF SaveFlag, At, TypesInv, RowsFound
    <2>4. debits' = debits /\ flags' = [flags EXCEPT ![calls[c].on] = calls[c].arg] /\ calls[c].arg # None
      BY <1>3, <2>3, PaperRows DEF SaveFlag, books
    <2>5. \A f \in FlagIds: flags'[f] = None <=> flags[f] = None
      BY <2>3, <2>4 DEF TypesInv, TablesType
    <2>. QED
      BY <2>2, <2>3, <2>4, <2>5 DEF NotJudging, At
  <1>4. CASE SumWallets(c)
    BY <1>1, <1>4 DEF SumWallets, oversightVars, Call
  <1>5. CASE ReadFloat(c)
    <2>1. Slot(c, Idle) /\ Idle.at = "idle" /\ calls[c].at = "float" /\ UNCHANGED <<debits, flags, died>>
      BY <1>5 DEF ReadFloat, books, Slot, Idle, At
    <2>. QED
      BY <2>1 DEF NotJudging, At
  <1>6. ASSUME NEW d, CreateDispute(c, d) PROVE \E x: NotJudging(c, x)
    BY <1>1, <1>6 DEF CreateDispute, books, ToAudit
  <1>7. ASSUME NEW d, NEW field, NEW value, LoadDispute(c, d, field, value) PROVE \E x: NotJudging(c, x)
    BY <1>1, <1>7 DEF LoadDispute, oversightVars, Call
  <1>8. CASE SaveDispute(c)
    <2>1. PICK status: SaveOver(c, disputes[calls[c].on], "compliance.dispute_updated", status)
      BY <1>8 DEF SaveDispute
    <2>2. PICK x: Slot(c, x) /\ x.at = "audit" /\ died' = died
      BY <2>1, SaveOverSlot DEF TypesInv, ToAudit
    <2>3. calls[c].at = "dispute" /\ UNCHANGED <<debits, flags>>
      BY <1>8 DEF SaveDispute, books, At
    <2>. QED
      BY <2>2, <2>3 DEF NotJudging, At
  <1>9. ASSUME NEW s, CreateSar(c, s) PROVE \E x: NotJudging(c, x)
    BY <1>1, <1>9 DEF CreateSar, books, ToAudit
  <1>. QED
    BY <1>2, <1>3, <1>4, <1>5, <1>6, <1>7, <1>8, <1>9 DEF OversightStep

LEMMA JudgesStep ==
  ASSUME TypesInv, JudgesInv, [BackOfficeNext]_backOfficeVars
  PROVE  JudgesInv'
  <1>1. ASSUME NEW c \in Calls, SupportStep(c), UNCHANGED oversightVars PROVE JudgesInv'
    BY <1>1, SupportJudgesNothing, NotJudgingKeeps
  <1>2. ASSUME NEW c \in Calls, OversightStep(c) PROVE JudgesInv'
    BY <1>2, PapersJudgeNothing, NotJudgingKeeps, PostDebitJudges, CheckJudges
  <1>3. ASSUME NEW c \in Calls, Record(c) \/ Die(c), UNCHANGED oversightVars PROVE JudgesInv'
    <2>1. /\ Slot(c, Idle) /\ Idle.at = "idle" /\ died \subseteq died'
          /\ At(c, "evaluate") => calls[c].on \in died'
      BY <1>3 DEF Record, Die, Slot, Idle, At
    <2>2. NotJudging(c, Idle)
      BY <1>3, <2>1 DEF NotJudging, oversightVars
    <2>. QED
      BY <2>2, NotJudgingKeeps
  <1>4. CASE UNCHANGED <<debits, flags, calls, died>>
    <2>1. \A i \in DOMAIN debits, rule \in Rules: Breaks(i, rule)' = Breaks(i, rule)
      BY <1>4 DEF Breaks, Earlier, DebitsOf, RecipientsOf, Unusual
    <2>2. OneJudge'
      BY <1>4 DEF JudgesInv, OneJudge, At
    <2>3. VerdictsInv'
      BY <1>4, <2>1 DEF JudgesInv, VerdictsInv, At, DebitId
    <2>. QED
      BY <2>2, <2>3 DEF JudgesInv
  <1>5. ASSUME NEW a \in Amounts, PostTopup(a) PROVE JudgesInv'
    BY <1>4, <1>5 DEF PostTopup, handlerVars
  <1>6. CASE UNCHANGED backOfficeVars
    BY <1>4, <1>6 DEF backOfficeVars, oversightVars, handlerVars
  <1>. QED
    BY <1>1, <1>2, <1>3, <1>5, <1>6 DEF BackOfficeNext

LEMMA JudgesInit == BackOfficeInit => JudgesInv
  <1> SUFFICES ASSUME BackOfficeInit PROVE JudgesInv
    OBVIOUS
  <1>1. \A c \in Calls: calls[c].at = "idle"
    BY DEF BackOfficeInit, HandlersInit, Idle
  <1>2. DOMAIN debits = {} /\ \A f \in FlagIds: flags[f] = None
    BY DEF BackOfficeInit, OversightInit
  <1>. QED
    BY <1>1, <1>2 DEF JudgesInv, OneJudge, VerdictsInv, At

LEMMA JudgesHold == BackOfficeSpec => []JudgesInv
  BY JudgesInit, JudgesStep, TypesHold, PTL DEF BackOfficeSpec

\* A verdict that is given is on file.
LEMMA VerdictsAreFiled ==
  ASSUME TypesInv, JudgesInv
  PROVE  DebitsAreJudged
  <1> SUFFICES ASSUME NEW i \in DOMAIN debits, ~Working(DebitId(i)), DebitId(i) \notin died,
                      NEW before, before = {j \in DebitsOf(debits[i].user): j < i}
               PROVE  /\ Cardinality(before) + 1 >= VelocityCount => flags[<<i, "high_velocity">>] # None
                      /\ debits[i].to # None /\ Cardinality(RecipientsOf(before \cup {i})) >= NewBeneficiaries
                         => flags[<<i, "frequent_new_beneficiaries">>] # None
                      /\ DebitsOf(debits[i].user) = before \cup {i} /\ Unusual(debits[i].amount, before)
                         => flags[<<i, "amount_anomaly">>] # None
    BY DEF DebitsAreJudged
  <1>1. \A rule \in Rules: Breaks(i, rule) => flags[<<i, rule>>] # None
    BY DEF JudgesInv, VerdictsInv, Working, Idle, At
  <1>2. before = Earlier(i)
    BY DEF Earlier
  <1>3. {"high_velocity", "amount_anomaly", "frequent_new_beneficiaries"} \subseteq Rules
    BY DEF Rules
  <1>4. Cardinality(before) + 1 >= VelocityCount => flags[<<i, "high_velocity">>] # None
    BY <1>1, <1>2, <1>3 DEF Breaks
  <1>5. debits[i].to # None /\ Cardinality(RecipientsOf(before \cup {i})) >= NewBeneficiaries
        => flags[<<i, "frequent_new_beneficiaries">>] # None
    BY <1>1, <1>2, <1>3 DEF Breaks
  <1>6. DebitsOf(debits[i].user) = before \cup {i} /\ Unusual(debits[i].amount, before)
        => flags[<<i, "amount_anomaly">>] # None
    BY <1>1, <1>2, <1>3 DEF Breaks
  <1>. QED
    BY <1>4, <1>5, <1>6

\* However many calls overlap, a debit whose rules have run is flagged for
\* every rule it breaks together with the debits before it.
THEOREM NoDebitSlipsThrough == BackOfficeSpec => []DebitsAreJudged
  BY TypesHold, JudgesHold, VerdictsAreFiled, PTL



-----------------------------------------------------------------------------
(* What no step may do.                                                     *)

\* A call that moves on shows it in its slot.
LEMMA SlotChanges ==
  ASSUME CallsType, NEW c \in Calls, NEW x, Slot(c, x), x.at # calls[c].at
  PROVE  calls[c] # calls'[c]
  BY DEF Slot, CallsType

LEMMA SavesChange ==
  ASSUME CallsType, NEW c \in Calls, NEW current, NEW action, NEW status, SaveOver(c, current, action, status),
         ~At(c, "audit")
  PROVE  /\ calls[c] # calls'[c] /\ calls'[c].on = calls[c].on
         /\ calls[c].row # current => calls[c].on \in overwritten'
  <1> DEFINE x == ToAudit(calls[c].on, action, status)
  <1>1. /\ Slot(c, x) /\ x.at = "audit" /\ x.on = calls[c].on
        /\ calls[c].row # current => calls[c].on \in overwritten'
    BY SaveOverSlot DEF ToAudit
  <1> HIDE DEF x
  <1>. QED
    BY <1>1, SlotChanges DEF At, Slot, CallsType

Reopened(t) == tickets[t] # None /\ tickets[t].status = "closed" /\ tickets'[t].status # "closed"
ReopenedBy(c, t) ==
  /\ calls[c] # calls'[c] /\ calls[c].on = t
  /\ \/ At(c, "update") /\ calls[c].arg.status # None
     \/ calls[c].row.status # "closed"

LEMMA TicketsStayAway ==
  ASSUME TypesInv, NEW c \in Calls, SupportStep(c), NEW t \in Tickets, Reopened(t)
  PROVE  ReopenedBy(c, t)
  <1> USE DEF TypesInv
  <1>1. CASE \E u \in Tickets: SaveTicket(c, u)
    <2>1. PICK u \in Tickets: SaveTicket(c, u)
      BY <1>1
    <2>2. u # t
      BY <2>1 DEF SaveTicket, Reopened
    <2>3. tickets'[t] = tickets[t]
      BY <2>1, <2>2, KeepTyped, TicketForms DEF SaveTicket
    <2>. QED
      BY <2>3 DEF Reopened
  <1>2. CASE SaveAfterMessage(c)
    <2>0. PICK u \in Tickets: /\ u = calls[c].on /\ calls[c].row \in TicketRow
                              /\ calls[c].at = "afterMessage"
      BY <1>2, CallAt DEF SaveAfterMessage, At
    <2>1. CASE Revives(calls[c].row.status, calls[c].arg)
      <3>1. /\ Keep(u, [calls[c].row EXCEPT !.status = "in_progress"])
            /\ SaveOver(c, tickets[u], "support.message_added", "in_progress")
        BY <1>2, <2>0, <2>1 DEF SaveAfterMessage
      <3>2. u = t
        BY <2>0, <3>1, KeepTyped, TicketForms DEF Reopened
      <3>3. calls[c] # calls'[c]
        BY <2>0, <3>1, SavesChange DEF At
      <3>4. calls[c].row.status # "closed"
        BY <2>1 DEF Revives
      <3>. QED
        BY <2>0, <3>2, <3>3, <3>4 DEF ReopenedBy
    <2>2. CASE ~Revives(calls[c].row.status, calls[c].arg)
      BY <1>2, <2>2 DEF SaveAfterMessage, Reopened
    <2>. QED
      BY <2>1, <2>2
  <1>3. CASE SaveUpdate(c)
    <2>0. PICK u \in Tickets, row \in TicketRow:
            u = calls[c].on /\ row = Updated(calls[c].row, calls[c].arg) /\ calls[c].at = "update"
      BY <1>3, CallAt, TicketForms DEF SaveUpdate, At
    <2>1. Keep(u, row) /\ SaveOver(c, tickets[u], "support.ticket_updated", row.status)
      BY <1>3, <2>0 DEF SaveUpdate
    <2>2. u = t /\ row.status # "closed"
      BY <2>1, KeepTyped DEF Reopened
    <2>3. calls[c] # calls'[c]
      BY <2>0, <2>1, SavesChange DEF At
    <2>4. calls[c].arg.status # None \/ calls[c].row.status # "closed"
      BY <2>0, <2>2 DEF Updated
    <2>. QED
      BY <2>0, <2>2, <2>3, <2>4 DEF ReopenedBy, At
  <1>4. CASE tickets' = tickets
    BY <1>4 DEF Reopened
  <1>5. \/ \E u \in Tickets: SaveTicket(c, u)
        \/ SaveAfterMessage(c) \/ SaveUpdate(c) \/ tickets' = tickets
    <2>1. ASSUME NEW u, NEW who, LoadForReply(c, u, who) \/ LoadForUpdate(c, u, who) PROVE tickets' = tickets
      BY <2>1 DEF LoadForReply, LoadForUpdate, supportVars
    <2>2. ASSUME NEW f, NEW at, NEW state, CreateFaq(c, f, state) \/ LoadFaq(c, f, at, state) PROVE tickets' = tickets
      BY <2>2 DEF CreateFaq, LoadFaq, supportVars
    <2>3. CASE SaveFirstMessage(c) \/ SaveMessage(c) \/ SaveFaq(c) \/ DeleteFaq(c)
      BY <2>3 DEF SaveFirstMessage, SaveMessage, SaveFaq, DeleteFaq
    <2>. QED
      BY <2>1, <2>2, <2>3 DEF SupportStep
  <1>. QED
    BY <1>1, <1>2, <1>3, <1>4, <1>5

Republished(f) == faqs[f] # "published" /\ faqs'[f] = "published"
RepublishedBy(c, f) ==
  /\ calls[c] # calls'[c] /\ calls'[c].on = f
  /\ At(c, "saveFaq") => "published" \in {calls[c].arg, calls[c].row}

LEMMA FaqsStayAway ==
  ASSUME TypesInv, NEW c \in Calls, SupportStep(c), NEW f \in Faqs, Republished(f)
  PROVE  RepublishedBy(c, f)
  <1> USE DEF TypesInv
  <1>1. ASSUME NEW g \in Faqs, NEW state, CreateFaq(c, g, state) PROVE RepublishedBy(c, f)
    <2> DEFINE x == ToAudit(g, "support.faq_created", state)
    <2>1. g = f
      BY <1>1 DEF CreateFaq, Republished
    <2>2. Slot(c, x) /\ x.at = "audit" /\ x.on = g /\ calls[c].at = "idle"
      BY <1>1 DEF CreateFaq, Begin, Slot, At, ToAudit
    <2> HIDE DEF x
    <2>3. calls[c] # calls'[c] /\ calls'[c] = x
      BY <2>2, SlotChanges DEF Slot, CallsType
    <2>. QED
      BY <2>1, <2>2, <2>3 DEF RepublishedBy, At
  <1>2. CASE SaveFaq(c) \/ DeleteFaq(c)
    <2>1. PICK current, action, status: SaveOver(c, current, action, status)
      BY <1>2 DEF SaveFaq, DeleteFaq
    <2>2. calls[c].on \in Faqs /\ calls[c].at \in {"saveFaq", "deleteFaq"}
      BY <1>2, CallAt DEF SaveFaq, DeleteFaq, At
    <2>3. calls[c] # calls'[c] /\ calls'[c].on = calls[c].on
      BY <2>1, <2>2, SavesChange DEF At
    <2>4. calls[c].on = f
      BY <1>2, <2>2 DEF SaveFaq, DeleteFaq, Republished, TablesType
    <2>5. At(c, "saveFaq") => "published" \in {calls[c].arg, calls[c].row}
      BY <1>2, <2>4 DEF SaveFaq, DeleteFaq, Republished, TablesType, At
    <2>. QED
      BY <2>3, <2>4, <2>5 DEF RepublishedBy
  <1>3. CASE faqs' = faqs
    BY <1>3 DEF Republished
  <1>4. \/ \E g \in Faqs, state \in {"draft", "published"}: CreateFaq(c, g, state)
        \/ SaveFaq(c) \/ DeleteFaq(c) \/ faqs' = faqs
    <2>1. ASSUME NEW u, NEW who, LoadForReply(c, u, who) \/ LoadForUpdate(c, u, who) \/ SaveTicket(c, u) PROVE faqs' = faqs
      BY <2>1 DEF LoadForReply, LoadForUpdate, SaveTicket, supportVars
    <2>2. ASSUME NEW g, NEW at, NEW state, LoadFaq(c, g, at, state) PROVE faqs' = faqs
      BY <2>2 DEF LoadFaq, supportVars
    <2>3. CASE SaveFirstMessage(c) \/ SaveMessage(c) \/ SaveAfterMessage(c) \/ SaveUpdate(c)
      BY <2>3 DEF SaveFirstMessage, SaveMessage, SaveAfterMessage, SaveUpdate
    <2>. QED
      BY <2>1, <2>2, <2>3 DEF SupportStep
  <1>. QED
    BY <1>1, <1>2, <1>3, <1>4


DisputeUpdatedBy(c, d) ==
  /\ At(c, "dispute") /\ calls[c].on = d /\ calls'[c] # calls[c]
  /\ \A k \in {"status", "internalNotes", "assignedTo"}:
       disputes'[d][k] # disputes[d][k] => k = calls[c].arg.field \/ d \in overwritten'

LEMMA DisputesAreKept ==
  ASSUME TypesInv, NEW c \in Calls, OversightStep(c),
         NEW d \in Disputes, disputes[d] # None, disputes'[d] # disputes[d]
  PROVE  DisputeUpdatedBy(c, d)
  <1> USE DEF TypesInv
  <1>1. ASSUME NEW e \in Disputes, CreateDispute(c, e) PROVE DisputeUpdatedBy(c, d)
    BY <1>1 DEF CreateDispute, TablesType
  <1>2. CASE SaveDispute(c)
    <2>0. PICK e \in Disputes, row \in DisputeRow:
            /\ e = calls[c].on /\ row = Changed(calls[c].row, calls[c].arg)
            /\ disputes' = [disputes EXCEPT ![e] = row]
            /\ \E status: SaveOver(c, disputes[e], "compliance.dispute_updated", status)
      <3>1. calls[c].on \in Disputes /\ calls[c].row \in DisputeRow /\ calls[c].arg \in FieldChanges
        BY <1>2, CallAt DEF SaveDispute
      <3>. QED
        BY <1>2, <3>1, ChangedRow DEF SaveDispute, Changed
    <2>1. At(c, "dispute") /\ calls[c].row \in DisputeRow /\ calls[c].arg \in FieldChanges
      BY <1>2, CallAt DEF SaveDispute
    <2>2. e = d /\ disputes'[d] = row
      BY <2>0 DEF TablesType
    <2>3. calls'[c] # calls[c] /\ (calls[c].row # disputes[d] => d \in overwritten')
      BY <2>0, <2>1, <2>2, SavesChange DEF At
    <2>4. ASSUME NEW k \in {"status", "internalNotes", "assignedTo"}, disputes'[d][k] # disputes[d][k],
                 k # calls[c].arg.field
          PROVE  d \in overwritten'
      <3>1. disputes'[d][k] = calls[c].row[k]
        BY <2>0, <2>1, <2>2, <2>4, ChangedRow
      <3>. QED
        BY <2>3, <2>4, <3>1
    <2>. QED
      BY <2>0, <2>1, <2>2, <2>3, <2>4 DEF DisputeUpdatedBy
  <1>3. \/ \E e \in Disputes: CreateDispute(c, e)
        \/ SaveDispute(c) \/ disputes' = disputes
    <2>1. ASSUME NEW u, NEW a, NEW to, NEW f, NEW field,
                 \/ PostDebit(c, u, a, to) \/ LoadFlag(c, f, u, a) \/ LoadDispute(c, u, field, a)
                 \/ CreateSar(c, u)
          PROVE  disputes' = disputes
      BY <2>1 DEF PostDebit, LoadFlag, LoadDispute, CreateSar, files, oversightVars
    <2>2. ASSUME NEW rule, Check(c, rule) \/ CheckFails(c, rule) PROVE disputes' = disputes
      BY <2>2 DEF Check, CheckFails, files, oversightVars
    <2>3. CASE SaveFlag(c) \/ SumWallets(c) \/ ReadFloat(c)
      BY <2>3 DEF SaveFlag, SumWallets, ReadFloat, files, oversightVars
    <2>. QED
      BY <2>1, <2>2, <2>3 DEF OversightStep
  <1>. QED
    BY <1>1, <1>2, <1>3

LEMMA FlagsAreKept ==
  ASSUME TypesInv, JudgesInv, NEW c \in Calls, OversightStep(c),
         NEW f \in FlagIds, flags[f] # None, flags[f].status # "open"
  PROVE  flags'[f] # None /\ flags'[f].status # "open"
  <1> USE DEF TypesInv
  <1>1. ASSUME NEW rule \in Rules, Check(c, rule) PROVE flags'[f] # None /\ flags'[f].status # "open"
    <2>1. flags[<<calls[c].on[1], rule>>] = None
      BY <1>1 DEF Check, JudgesInv, OneJudge
    <2>2. flags'[f] = flags[f]
      BY <1>1, <2>1 DEF Check, TablesType
    <2>. QED
      BY <2>2
  <1>2. CASE SaveFlag(c)
    <2>1. calls[c].on \in FlagIds /\ calls[c].arg \in FlagRow /\ calls[c].arg.status # "open"
      BY <1>2, CallAt, PaperRows, OversightAssumption DEF SaveFlag, FlagVerdicts, Resolutions
    <2>2. flags' = [flags EXCEPT ![calls[c].on] = calls[c].arg]
      BY <1>2 DEF SaveFlag
    <2>. QED
      BY <2>1, <2>2, PaperRows DEF TablesType
  <1>3. \/ \E rule \in Rules: Check(c, rule)
        \/ SaveFlag(c) \/ flags' = flags
    <2>1. ASSUME NEW u, NEW a, NEW to, NEW g, NEW field,
                 \/ PostDebit(c, u, a, to) \/ LoadFlag(c, g, u, a) \/ LoadDispute(c, u, field, a)
                 \/ CreateSar(c, u) \/ CreateDispute(c, u)
          PROVE  flags' = flags
      BY <2>1 DEF PostDebit, LoadFlag, LoadDispute, CreateSar, CreateDispute, oversightVars
    <2>2. ASSUME NEW rule, CheckFails(c, rule) PROVE flags' = flags
      BY <2>2 DEF CheckFails, oversightVars
    <2>3. CASE SaveDispute(c) \/ SumWallets(c) \/ ReadFloat(c)
      BY <2>3 DEF SaveDispute, SumWallets, ReadFloat, oversightVars
    <2>. QED
      BY <2>1, <2>2, <2>3 DEF OversightStep
  <1>. QED
    BY <1>1, <1>2, <1>3

\* No step brings back a ticket or an entry that was put away, or loses a
\* column another call filed, but for what is asked by name and the stale
\* rows; and no flag an operator resolved opens again.
THEOREM NothingComesBack == BackOfficeSpec => RecordsAreKept
  <1>1. ASSUME TypesInv, JudgesInv, BackOfficeNext
        PROVE  PutAwayStaysAway /\ FilesAreKept
    <2>1. ASSUME NEW t \in Tickets, Reopened(t) PROVE \E c \in Calls: ReopenedBy(c, t)
      <3>1. tickets' # tickets
        BY <2>1 DEF Reopened
      <3>2. \E c \in Calls: SupportStep(c)
        BY <1>1, <3>1 DEF BackOfficeNext, supportVars
      <3>. QED
        BY <1>1, <2>1, <3>2, TicketsStayAway
    <2>2. ASSUME NEW f \in Faqs, Republished(f) PROVE \E c \in Calls: RepublishedBy(c, f)
      <3>1. faqs' # faqs
        BY <2>2 DEF Republished
      <3>2. \E c \in Calls: SupportStep(c)
        BY <1>1, <3>1 DEF BackOfficeNext, supportVars
      <3>. QED
        BY <1>1, <2>2, <3>2, FaqsStayAway
    <2>3. ASSUME NEW d \in Disputes, disputes[d] # None, disputes'[d] # disputes[d]
          PROVE  \E c \in Calls: DisputeUpdatedBy(c, d)
      <3>1. disputes' # disputes
        BY <2>3
      <3>2. \E c \in Calls: OversightStep(c)
        BY <1>1, <3>1 DEF BackOfficeNext, oversightVars, PostTopup, files
      <3>. QED
        BY <1>1, <2>3, <3>2, DisputesAreKept
    <2>4. ASSUME NEW f \in FlagIds, flags[f] # None, flags[f].status # "open"
          PROVE  flags'[f] # None /\ flags'[f].status # "open"
      <3>1. flags' = flags \/ \E c \in Calls: OversightStep(c)
        BY <1>1 DEF BackOfficeNext, oversightVars, PostTopup
      <3>. QED
        BY <1>1, <2>4, <3>1, FlagsAreKept
    <2>5. PutAwayStaysAway
      BY <2>1, <2>2 DEF PutAwayStaysAway, Reopened, ReopenedBy, Republished, RepublishedBy
    <2>6. FilesAreKept
      BY <2>3, <2>4 DEF FilesAreKept, DisputeUpdatedBy
    <2>. QED
      BY <2>5, <2>6
  <1>. QED
    BY <1>1, TypesHold, JudgesHold, PTL DEF BackOfficeSpec, RecordsAreKept
=============================================================================
