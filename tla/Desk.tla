-------------------------------- MODULE Desk --------------------------------
(***************************************************************************)
(* The lists of the back office (apps/admin-web/src/app): the ticket page, *)
(* which pages and filters, and the queues of one page (KYC submissions,   *)
(* fraud flags). The rows on the server are moved by others meanwhile.     *)
(***************************************************************************)
EXTENDS ApiClient, SequencesExt

CONSTANTS Rows,       \* ids of rows
          RowStatus,  \* statuses of a ticket
          PageSize,   \* TICKET_PAGE_SIZE (25)
          ListSize,   \* the API's default page (20), all a queue's page asks for
          MaxTouches  \* bound: rows moved by others

ASSUME DeskAssumption ==
  /\ IsFiniteSet(Rows) /\ None \notin Rows
  /\ {"open", "in_progress"} \subseteq RowStatus
  /\ {PageSize, ListSize} \subseteq Nat \ {0} /\ MaxTouches \in Nat

VARIABLES queue,    \* the server's rows, as its list orders them: [id, status]
          touches,  \* how often others moved it
          page,     \* TicketsPage: its useStates, and whether its list was disturbed
          list      \* a page of one queue: its useStates

deskVars == <<queue, touches, page, list>>

All == "all"

\* A behaviour about the ticket page begins when it is opened, or ("threads")
\* when its list is there and stays as it is.
DeskInit ==
  /\ \E s \in [Rows -> RowStatus]:
       LET ids == SetToSeq(Rows) IN
       queue = [k \in DOMAIN ids |-> [id |-> ids[k], status |-> s[ids[k]]]]
  /\ touches = 0
  /\ page = [tickets |-> IF screen = "threads" THEN queue ELSE <<>>, filter |-> All, openId |-> None, thread |-> None, draft |-> None,
             loading |-> FALSE, busy |-> FALSE, hasMore |-> FALSE, disturbed |-> FALSE]
  /\ list = [rows |-> {}, busyId |-> None, loading |-> FALSE]

\* The rows of a filter in their order: the n-th is the one with n - 1 before it.
Passing(rows, filter) == {k \in DOMAIN rows: filter = All \/ rows[k].status = filter}
Nth(places, n) == CHOOSE k \in places: Cardinality({j \in places: j <= k}) = n
Filtered(rows, filter) ==
  LET places == Passing(rows, filter) IN
  [n \in 1..Cardinality(places) |-> rows[Nth(places, n)]]
\* What the server returns from an offset: one row more than the page shows.
Window(filter, offset) ==
  LET rows == Filtered(queue, filter)
      last == offset + PageSize + 1
  IN  SubSeq(rows, offset + 1, IF last < Len(rows) THEN last ELSE Len(rows))
\* getTicketQueue: the rows shown, and hasMore.
Shown(window) == IF Len(window) > PageSize THEN Front(window) ELSE window
\* Mutant of HasMore: a full page is taken for one that has more after it.
HasMoreWhenFull(window) == Len(window) >= PageSize
HasMore(window) == Len(window) > PageSize

\* updatedAt orders the list, the latest first: a row that is written moves up.
Raise(t, status) ==
  LET place == CHOOSE k \in DOMAIN queue: queue[k].id = t IN
  queue' = [k \in DOMAIN queue |->
              CASE k = 1 -> [id |-> t, status |-> status]
                [] k \in 2..place -> queue[k - 1]
                [] OTHER -> queue[k]]
StatusOf(t) == (CHOOSE r \in ToSet(queue): r.id = t).status

-----------------------------------------------------------------------------
(* TicketsPage *)

ListAsked == AwaitedAsks("load") \cup AwaitedAsks("more")
RowsAsked == ListAsked \cup AwaitedAsks("mark") \cup AwaitedAsks("replyTo") \cup AwaitedAsks("refetch")

\* load(): nothing stops a second one while the first is under way.
Load(filter) ==
  /\ Send(Ask("load", [filter |-> filter, offset |-> 0]))
  /\ page' = [page EXCEPT !.filter = filter, !.loading = TRUE, !.openId = None,
                          !.disturbed = RowsAsked # {}]

OpenPage == Asks("load") = {} /\ Room /\ Load(All) /\ UNCHANGED <<queue, touches, list>>

ApplyFilter(filter) ==
  /\ Asks("load") # {} /\ Room
  /\ Load(filter)
  /\ UNCHANGED <<queue, touches, list>>

\* The list is what the answer holds, whichever filter it was asked for.
HearLoad(i, outcome) ==
  /\ requests[i].ask.what = "load" /\ End(i, outcome)
  /\ page' = IF outcome = "done"
             THEN [page EXCEPT !.loading = FALSE, !.tickets = Shown(Data(i)), !.hasMore = HasMore(Data(i))]
             ELSE [page EXCEPT !.loading = FALSE, !.disturbed = TRUE]
  /\ UNCHANGED <<queue, touches, list>>

LoadMore ==
  /\ page.hasMore /\ ~page.busy /\ Room
  /\ Send(Ask("more", [filter |-> page.filter, offset |-> Len(page.tickets)]))
  /\ page' = [page EXCEPT !.busy = TRUE, !.disturbed = @ \/ ListAsked # {}]
  /\ UNCHANGED <<queue, touches, list>>

HearMore(i, outcome) ==
  /\ requests[i].ask.what = "more" /\ End(i, outcome)
  /\ page' = IF outcome = "done"
             THEN [page EXCEPT !.busy = FALSE, !.tickets = @ \o Shown(Data(i)), !.hasMore = HasMore(Data(i))]
             ELSE [page EXCEPT !.busy = FALSE]
  /\ UNCHANGED <<queue, touches, list>>

InList(t) == \E k \in DOMAIN page.tickets: page.tickets[k].id = t

OpenThread(t) ==
  /\ InList(t) /\ ~page.busy
  /\ IF page.openId = t
     THEN UNCHANGED requests /\ page' = [page EXCEPT !.openId = None]
     ELSE Room /\ Send(Ask("thread", t)) /\ page' = [page EXCEPT !.busy = TRUE]
  /\ UNCHANGED <<queue, touches, list>>

\* Mutant of HearThread: the draft stays.
HearThreadKeepingDraft(i, outcome) ==
  /\ requests[i].ask.what = "thread" /\ End(i, outcome)
  /\ page' = IF outcome = "done"
             THEN [page EXCEPT !.busy = FALSE, !.thread = Of(i), !.openId = Of(i)]
             ELSE [page EXCEPT !.busy = FALSE]
  /\ UNCHANGED <<queue, touches, list>>

HearThread(i, outcome) ==
  /\ requests[i].ask.what = "thread" /\ End(i, outcome)
  /\ page' = IF outcome = "done"
             THEN [page EXCEPT !.busy = FALSE, !.thread = Of(i), !.openId = Of(i), !.draft = None]
             ELSE [page EXCEPT !.busy = FALSE]
  /\ UNCHANGED <<queue, touches, list>>

\* The text area of the open ticket; a draft is known by the ticket under
\* which it was written.
TypeReply ==
  /\ page.openId # None /\ InList(page.openId) /\ page.draft = None
  /\ page' = [page EXCEPT !.draft = page.openId]
  /\ UNCHANGED <<requests, queue, touches, list>>

SendReply ==
  /\ page.openId # None /\ InList(page.openId) /\ page.draft # None /\ ~page.busy /\ Room
  /\ Send(Ask("replyTo", [ticket |-> page.openId, written |-> page.draft]))
  /\ page' = [page EXCEPT !.busy = TRUE]
  /\ UNCHANGED <<queue, touches, list>>

\* After the reply the thread and the row are fetched again, still busy.
HearReply(i, outcome) ==
  /\ requests[i].ask.what = "replyTo"
  /\ IF outcome = "done"
     THEN EndAnd(i, outcome, <<Ask("refetch", Of(i).ticket)>>) /\ page' = [page EXCEPT !.draft = None]
     ELSE End(i, outcome) /\ page' = [page EXCEPT !.busy = FALSE]
  /\ UNCHANGED <<queue, touches, list>>

SetRow(rows, row) == [k \in DOMAIN rows |-> IF rows[k].id = row.id THEN row ELSE rows[k]]

HearRefetch(i, outcome) ==
  /\ requests[i].ask.what = "refetch" /\ End(i, outcome)
  /\ page' = IF outcome = "done"
             THEN [page EXCEPT !.busy = FALSE, !.thread = Of(i), !.tickets = SetRow(@, Data(i))]
             ELSE [page EXCEPT !.busy = FALSE]
  /\ UNCHANGED <<queue, touches, list>>

ChangeStatus(t, status) ==
  /\ \E k \in DOMAIN page.tickets: page.tickets[k].id = t /\ page.tickets[k].status # status
  /\ ~page.busy /\ Room
  /\ Send(Ask("mark", [id |-> t, status |-> status]))
  /\ page' = [page EXCEPT !.busy = TRUE]
  /\ UNCHANGED <<queue, touches, list>>

HearMark(i, outcome) ==
  /\ requests[i].ask.what = "mark" /\ End(i, outcome)
  /\ page' = IF outcome = "done" THEN [page EXCEPT !.busy = FALSE, !.tickets = SetRow(@, Data(i))]
             ELSE [page EXCEPT !.busy = FALSE]
  /\ UNCHANGED <<queue, touches, list>>

-----------------------------------------------------------------------------
(* A page of one queue: an operator decides a row, whose buttons are dead  *)
(* while its decision is under way and no other row's is begun.            *)

OpenList ==
  /\ Asks("list") = {} /\ Room
  /\ Send(Ask("list", None))
  /\ list' = [list EXCEPT !.loading = TRUE]
  /\ UNCHANGED <<queue, touches, page>>

HearList(i, outcome) ==
  /\ requests[i].ask.what = "list" /\ End(i, outcome)
  /\ list' = [list EXCEPT !.loading = FALSE,
                !.rows = IF outcome = "done" THEN {Data(i)[k].id: k \in DOMAIN Data(i)} ELSE @]
  /\ UNCHANGED <<queue, touches, page>>

\* Mutant of DecideRow: the buttons of the row stay alive.
DecideRowAgain(r) ==
  /\ r \in list.rows /\ Room
  /\ Send(Ask("decide", r))
  /\ list' = [list EXCEPT !.busyId = r]
  /\ UNCHANGED <<queue, touches, page>>

DecideRow(r) ==
  /\ r \in list.rows /\ list.busyId # r /\ Room
  /\ Send(Ask("decide", r))
  /\ list' = [list EXCEPT !.busyId = r]
  /\ UNCHANGED <<queue, touches, page>>

HearDecision(i, outcome) ==
  /\ requests[i].ask.what = "decide" /\ End(i, outcome)
  /\ list' = [list EXCEPT !.busyId = None, !.rows = IF outcome = "done" THEN @ \ {Of(i)} ELSE @]
  /\ UNCHANGED <<queue, touches, page>>

-----------------------------------------------------------------------------
(* The server *)

\* Another operator or a customer writes a ticket.
Touch(t, status) ==
  /\ touches < MaxTouches
  /\ touches' = touches + 1
  /\ Raise(t, status)
  /\ page' = [page EXCEPT !.disturbed = TRUE]
  /\ UNCHANGED <<requests, list>>

\* A row answered from an update, a reply or a read of it.
DeskAnswer(i) ==
  LET what == requests[i].ask.what IN
  CASE what \in {"load", "more"} -> {Window(Of(i).filter, Of(i).offset)}
    [] what = "list" -> {SubSeq(queue, 1, IF ListSize < Len(queue) THEN ListSize ELSE Len(queue))}
    [] what \in {"thread", "refetch"} -> {[id |-> Of(i), status |-> StatusOf(Of(i))]}
    [] what = "mark" -> {Of(i)}
    [] what \in {"replyTo", "decide"} -> {None}
    [] OTHER -> {}

ServeDesk(i, answer) ==
  /\ Answer(i, answer)
  /\ LET what == requests[i].ask.what IN
     CASE what = "mark" -> Raise(Of(i).id, Of(i).status)
       [] what = "replyTo" -> Raise(Of(i).ticket, IF StatusOf(Of(i).ticket) = "open" THEN "in_progress"
                                                  ELSE StatusOf(Of(i).ticket))
       [] OTHER -> UNCHANGED queue
  /\ page' = [page EXCEPT !.disturbed = @ \/ requests[i].ask.what \in {"mark", "replyTo"}]
  /\ UNCHANGED <<touches, list>>

HearDesk(i, outcome) ==
  \/ HearLoad(i, outcome) \/ HearMore(i, outcome) \/ HearThread(i, outcome) \/ HearReply(i, outcome)
  \/ HearRefetch(i, outcome) \/ HearMark(i, outcome) \/ HearList(i, outcome) \/ HearDecision(i, outcome)

ThreadTaps ==
  \/ TypeReply \/ SendReply
  \/ \E t \in Rows: OpenThread(t) \/ \E s \in RowStatus: ChangeStatus(t, s)
PageTaps ==
  \/ OpenPage \/ LoadMore \/ ThreadTaps
  \/ \E f \in RowStatus \cup {All}: ApplyFilter(f)
  \/ \E t \in Rows, s \in RowStatus: Touch(t, s)
ListTaps == OpenList \/ \E r \in Rows: DecideRow(r)

DeskTypeOK ==
  /\ \A k \in DOMAIN page.tickets: page.tickets[k] \in [id: Rows, status: RowStatus]
  /\ page.openId \in Rows \cup {None} /\ list.rows \subseteq Rows

-----------------------------------------------------------------------------
(* Properties *)

\* While nobody writes a ticket and no load fails or begins while another
\* answer about rows is due, what the ticket page shows is the beginning of the
\* queue of its filter, without a gap or a row twice, and it offers more exactly
\* when there is more (adminApi.ts:161-167).
PagesTellTheQueue ==
  screen = "tickets" /\ ~page.disturbed /\ ListAsked = {} =>
    LET rows == Filtered(queue, page.filter) IN
    /\ IsPrefix(page.tickets, rows)
    /\ Asks("load") # {} => page.hasMore = (Len(rows) > Len(page.tickets))

\* The thread on the screen is the open ticket's, and a reply goes to the
\* ticket under which it was written, whatever was filtered, opened or hidden
\* meanwhile.
RepliesReachTheirTicket ==
  /\ page.openId # None => page.thread = page.openId
  /\ \A i \in Asks("replyTo"): Of(i).ticket = Of(i).written

\* A row is decided again only after a doubt, or when another row's decision
\* took over the one busy mark meanwhile, or cleared it when it ended.
RowsAreDecidedOnce ==
  \A r \in Rows:
    LET of == {i \in Asks("decide"): Of(i) = r}
        others == Asks("decide") \ of
    IN  Cardinality(of \cap Done("decide", {"done"}))
          <= 1 + Cardinality(of \cap Heard("decide", Doubtful))
               + Cardinality(others) + Cardinality({i \in others: ~Waiting(i)})
=============================================================================
