----------------------------- MODULE ApiClient ------------------------------
(***************************************************************************)
(* apiRequest, of the mobile app (apps/mobile/src/api/client.ts) and of    *)
(* the back office (apps/admin-web/src/lib/api.ts): requests, what the     *)
(* server did with each, and how the promise of each ended. The server may *)
(* act on a request the client has given up, or never get it.              *)
(***************************************************************************)
EXTENDS Naturals, Sequences, FiniteSets

CONSTANTS None,        \* nothing yet
          Explored,    \* the screens behaviours are about
          MaxRequests  \* bound: requests a screen begins, by screen

AdminScreens == {"tickets", "threads", "queue", "adminLogin", "faq", "sar"}
PhoneScreens == {"register", "login", "ticket", "reply", "device", "kycCapture",
                 "transfer", "payout", "topup", "home", "lock"}

\* How a promise ends besides the server's own answer: a gateway or a captive
\* portal answered instead, or the server with a 5xx (ApiError); no
\* answer came (NetworkError).
Doubtful == {"gateway", "none"}
\* What the server can have made of a request.
Verdicts == {"done", "refused", "found", "unknown", "otp", "completed", "failed", "accepted",
             "begun", "pending"}

ASSUME ApiClientAssumption ==
  /\ Explored \subseteq AdminScreens \cup PhoneScreens
  /\ MaxRequests \in [Explored -> Nat]
  /\ None \notin Verdicts \cup Doubtful

VARIABLES screen,   \* the screen a behaviour is about
          requests  \* the requests, in the order they were made

Ask(what, of) == [what |-> what, of |-> of]
Id(n) == <<n>>
NextId == Id(Len(requests) + 1)
Of(i) == requests[i].ask.of
Asks(what) == {i \in DOMAIN requests: requests[i].ask.what = what}
Heard(what, outcomes) == {i \in Asks(what): requests[i].heard \in outcomes}
Done(what, verdicts) == {i \in Asks(what): requests[i].did \in verdicts}
Waiting(i) == requests[i].heard = None
AwaitedAsks(what) == {i \in Asks(what): Waiting(i)}

\* A screen begins requests up to the bound; one that a handler makes on the
\* way is not counted against it.
Room == Len(requests) < MaxRequests[screen]

With(asks) ==
  requests \o [n \in DOMAIN asks |-> [ask |-> asks[n], did |-> None, data |-> None, heard |-> None]]
Send(ask) == requests' = With(<<ask>>)

\* The server deals with a request, at any time after it was sent.
Serve(i, verdict) ==
  /\ requests[i].did = None
  /\ requests' = [requests EXCEPT ![i].did = verdict]

\* The same, with what it answers.
Answer(i, data) ==
  /\ requests[i].did = None
  /\ requests' = [requests EXCEPT ![i].did = "done", ![i].data = data]
Data(i) == requests[i].data

\* What the handler that awaits request i can be given: the server's answer,
\* one made on the way, or none (the timer, an unreachable server).
Outcomes(i) == IF Waiting(i) THEN ({requests[i].did} \ {None}) \cup Doubtful ELSE {}

\* Request i is over, and its handler makes further requests.
EndAnd(i, outcome, asks) ==
  requests' = [With(asks) EXCEPT ![i].heard = outcome]
End(i, outcome) == EndAnd(i, outcome, <<>>)
=============================================================================
