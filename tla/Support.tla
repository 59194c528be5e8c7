------------------------------ MODULE Support -------------------------------
(***************************************************************************)
(* SupportService (modules/support/support.service.ts): tickets, their     *)
(* threads and the FAQ, one step per await. A message is reduced to who    *)
(* wrote it; subjects, categories, bodies and the FAQ's texts are left     *)
(* out. updatedAt, which only orders the lists, is in Desk.                *)
(***************************************************************************)
EXTENDS Handlers, Sequences

CONSTANTS Tickets,      \* ids of tickets
          Operators,    \* back-office staff a ticket can be assigned to
          Asked,        \* statuses an operator asks for
          Faqs,         \* ids of FAQ entries
          MaxMessages   \* bound: messages in a thread

TicketStatus == {"open", "in_progress", "resolved", "closed"}

TicketRow == [status: TicketStatus, assignedTo: Operators \cup {None}]

ASSUME SupportAssumption ==
  Asked \subseteq TicketStatus /\ MaxMessages \in Nat /\ None \notin TicketRow

NewTicket == [status |-> "open", assignedTo |-> None]

VARIABLES tickets,   \* ticket -> its row, or None
          threads,   \* ticket -> who wrote each message, oldest first
          faqs       \* FAQ entry -> "draft", "published" or None

supportVars == <<tickets, threads, faqs>>

SupportInit ==
  /\ tickets = [t \in Tickets |-> None]
  /\ threads = [t \in Tickets |-> <<>>]
  /\ faqs = [f \in Faqs |-> None]

Say(t, who) == threads' = [threads EXCEPT ![t] = Append(@, who)]
Keep(t, row) == tickets' = [tickets EXCEPT ![t] = row]

-----------------------------------------------------------------------------
(* createTicket *)

\* Another call with the same id cannot be under way: the database makes ids.
SaveTicket(c, t) ==
  /\ tickets[t] = None
  /\ Begin(c, Call("firstMessage", t, None, None))
  /\ Keep(t, NewTicket)
  /\ UNCHANGED <<threads, faqs>>

\* Mutant of SaveFirstMessage: the text is left to a later call.
SaveFirstMessageLater(c) ==
  /\ At(c, "firstMessage")
  /\ SaveOver(c, None, "support.ticket_created", "open")
  /\ UNCHANGED supportVars

SaveFirstMessage(c) ==
  /\ At(c, "firstMessage")
  /\ Say(calls[c].on, "user")
  /\ SaveOver(c, None, "support.ticket_created", "open")
  /\ UNCHANGED <<tickets, faqs>>

-----------------------------------------------------------------------------
(* addMessage *)

\* getTicket, then the check of the status that was read: a customer may not
\* write to a closed ticket, an operator may. Another customer's ticket is a
\* 404 and changes nothing.
LoadForReply(c, t, who) ==
  /\ tickets[t] # None /\ Len(threads[t]) < MaxMessages
  /\ who = "admin" \/ tickets[t].status # "closed"
  /\ Begin(c, Call("message", t, tickets[t], who))
  /\ UNCHANGED supportVars

SaveMessage(c) ==
  /\ At(c, "message")
  /\ Say(calls[c].on, calls[c].arg)
  /\ GoOn(c, "afterMessage")
  /\ UNCHANGED <<tickets, faqs>>

\* Mutants of Revives: a thread is live again when the customer writes; when
\* anybody does.
RevivesForUser(status, who) == who = "user" /\ status = "resolved"
RevivesForAll(status, who) == status # "in_progress"

\* The ticket as it was read decides whether the thread is live again.
Revives(status, who) ==
  \/ who = "admin" /\ status = "open"
  \/ who = "user" /\ status = "resolved"

SaveAfterMessage(c) ==
  /\ At(c, "afterMessage")
  /\ LET t == calls[c].on IN
     IF Revives(calls[c].row.status, calls[c].arg)
     THEN /\ Keep(t, [calls[c].row EXCEPT !.status = "in_progress"])
          /\ SaveOver(c, tickets[t], "support.message_added", "in_progress")
     ELSE /\ UNCHANGED tickets
          /\ SaveOver(c, calls[c].row, "support.message_added", tickets[t].status)
  /\ UNCHANGED <<threads, faqs>>

-----------------------------------------------------------------------------
(* updateTicket: a new status, a new assignee, or both *)

LoadForUpdate(c, t, fields) ==
  /\ tickets[t] # None
  /\ Begin(c, Call("update", t, tickets[t], fields))
  /\ UNCHANGED supportVars

Updated(row, fields) ==
  [status |-> IF fields.status = None THEN row.status ELSE fields.status,
   assignedTo |-> IF fields.assignedTo = None THEN row.assignedTo ELSE fields.assignedTo]

SaveUpdate(c) ==
  /\ At(c, "update")
  /\ LET t == calls[c].on
         row == Updated(calls[c].row, calls[c].arg)
     IN  Keep(t, row) /\ SaveOver(c, tickets[t], "support.ticket_updated", row.status)
  /\ UNCHANGED <<threads, faqs>>

-----------------------------------------------------------------------------
(* The FAQ *)

CreateFaq(c, f, state) ==
  /\ faqs[f] = None /\ ~Working(f) /\ f \notin died
  /\ \A r \in auditLog: r.target # f
  /\ Begin(c, ToAudit(f, "support.faq_created", state))
  /\ faqs' = [faqs EXCEPT ![f] = state]
  /\ UNCHANGED <<tickets, threads>>

LoadFaq(c, f, at, state) ==
  /\ faqs[f] # None
  /\ Begin(c, Call(at, f, faqs[f], state))
  /\ UNCHANGED supportVars

\* An update that leaves isPublished out (None) saves it as it was read; saving
\* an entry whose row is gone inserts it again.
SaveFaq(c) ==
  /\ At(c, "saveFaq")
  /\ LET f == calls[c].on
         state == IF calls[c].arg = None THEN calls[c].row ELSE calls[c].arg
     IN  /\ faqs' = [faqs EXCEPT ![f] = state]
         /\ SaveOver(c, faqs[f], "support.faq_updated", state)
  /\ UNCHANGED <<tickets, threads>>

DeleteFaq(c) ==
  /\ At(c, "deleteFaq")
  /\ faqs' = [faqs EXCEPT ![calls[c].on] = None]
  /\ SaveOver(c, calls[c].row, "support.faq_deleted", "gone")
  /\ UNCHANGED <<tickets, threads>>

-----------------------------------------------------------------------------

\* What an operator's update names; at least one of the two.
Fields ==
  {f \in [status: Asked \cup {None}, assignedTo: Operators \cup {None}]:
     f.status # None \/ f.assignedTo # None}

SupportStep(c) ==
  \/ \E t \in Tickets:
       \/ SaveTicket(c, t)
       \/ \E who \in {"user", "admin"}: LoadForReply(c, t, who)
       \/ \E fields \in Fields: LoadForUpdate(c, t, fields)
  \/ SaveFirstMessage(c) \/ SaveMessage(c) \/ SaveAfterMessage(c) \/ SaveUpdate(c)
  \/ \E f \in Faqs:
       \/ \E state \in {"draft", "published"}:
            CreateFaq(c, f, state) \/ LoadFaq(c, f, "saveFaq", state)
       \/ \E at \in {"saveFaq", "deleteFaq"}: LoadFaq(c, f, at, None)
  \/ SaveFaq(c) \/ DeleteFaq(c)

SupportTypeOK ==
  /\ tickets \in [Tickets -> TicketRow \cup {None}]
  /\ \A t \in Tickets: \A i \in 1..Len(threads[t]): threads[t][i] \in {"user", "admin"}
  /\ faqs \in [Faqs -> {"draft", "published", None}]

-----------------------------------------------------------------------------
(* Properties *)

\* Unless the process died inside createTicket, a ticket no call is creating
\* has a text of its customer in the thread, whatever was answered
\* meanwhile (support.service.ts:33-37, two awaits).
TicketsHaveTheirText ==
  \A t \in Tickets \ died:
    tickets[t] # None /\ ~(\E c \in Calls: At(c, "firstMessage") /\ calls[c].on = t)
    => \E i \in 1..Len(threads[t]): threads[t][i] = "user"

\* An answered ticket leaves the pile of open ones: once no call is working on
\* it, a ticket with an operator's message is not open, unless a call died on
\* it, a stale row was saved over it, or an operator asked for "open".
AnsweredIsNotOpen ==
  \A t \in Tickets \ (died \cup overwritten):
    /\ tickets[t] # None /\ ~Working(t)
    /\ \E i \in 1..Len(threads[t]): threads[t][i] = "admin"
    /\ \A r \in auditLog: ~(r.target = t /\ r.action = "support.ticket_updated" /\ r.status = "open")
    => tickets[t].status # "open"

\* What was put away comes back only when it is asked for or out of a row that
\* a call read before: a closed ticket is reopened by an update that names a
\* status or by a call that found it not closed; an FAQ entry is published by
\* a call that names it or that found it published. A customer's reply alone
\* never reopens a closed ticket (support.service.ts:104-106).
PutAwayStaysAway ==
  /\ \A t \in Tickets:
       tickets[t] # None /\ tickets[t].status = "closed" /\ tickets'[t].status # "closed" =>
         \E c \in Calls: /\ calls[c] # calls'[c] /\ calls[c].on = t
                         /\ \/ At(c, "update") /\ calls[c].arg.status # None
                            \/ calls[c].row.status # "closed"
  /\ \A f \in Faqs:
       faqs[f] # "published" /\ faqs'[f] = "published" =>
         \E c \in Calls: /\ calls[c] # calls'[c] /\ calls'[c].on = f
                         /\ At(c, "saveFaq") => "published" \in {calls[c].arg, calls[c].row}
=============================================================================
