------------------------------ MODULE Screens -------------------------------
(***************************************************************************)
(* One open screen of one client against the server: the user taps, the    *)
(* server deals with requests, answers come or do not. Each behaviour is   *)
(* about the screen it starts on; they share apiRequest.                   *)
(***************************************************************************)
EXTENDS MoneyScreens, FormScreens, Desk, Device

screenVars == <<screen, requests, moneyVars, formVars, deskVars, deviceVars>>

ScreensInit ==
  /\ screen \in Explored
  /\ requests = <<>>
  /\ MoneyInit /\ FormInit /\ DeskInit /\ DeviceInit
  /\ screen \notin {"tickets", "queue"} => \A k \in DOMAIN queue: queue[k].status = "open"
  /\ screen # "lock" => ~lock.enabled /\ ~lock.hardware

Tap ==
  \/ /\ \/ screen = "transfer" /\ TransferTaps
        \/ screen = "payout" /\ PayoutTaps
        \/ screen = "topup" /\ TopupTaps
     /\ UNCHANGED <<formVars, deskVars, deviceVars>>
  \/ /\ \/ screen = "kycCapture" /\ KycTaps
        \/ screen \in Forms /\ FormTaps
     /\ UNCHANGED <<moneyVars, deskVars, deviceVars>>
  \/ /\ \/ screen = "tickets" /\ PageTaps
        \/ screen = "threads" /\ ThreadTaps
        \/ screen = "queue" /\ ListTaps
     /\ UNCHANGED <<moneyVars, formVars, deviceVars>>
  \/ /\ \/ screen = "home" /\ HomeTaps
        \/ screen = "lock" /\ LockTaps
     /\ UNCHANGED <<moneyVars, formVars, deskVars>>

Served(i) ==
  \/ /\ \E v \in MoneyVerdicts(i): ServeMoney(i, v)
     /\ UNCHANGED <<formVars, deskVars, deviceVars>>
  \/ /\ requests[i].ask.what \in FormAsks
     /\ \E v \in FormVerdicts(i): Serve(i, v)
     /\ UNCHANGED <<moneyVars, formVars, deskVars, deviceVars>>
  \/ /\ \E a \in DeskAnswer(i): ServeDesk(i, a)
     /\ UNCHANGED <<moneyVars, formVars, deviceVars>>
  \/ /\ \E v \in DeviceVerdicts(i): Serve(i, v)
     /\ UNCHANGED <<moneyVars, formVars, deskVars, deviceVars>>

\* The handler that awaits request i goes on.
Goes(i, outcome) ==
  \/ HearMoney(i, outcome) /\ UNCHANGED <<formVars, deskVars, deviceVars>>
  \/ HearAForm(i, outcome) /\ UNCHANGED <<moneyVars, deskVars, deviceVars>>
  \/ HearDesk(i, outcome) /\ UNCHANGED <<moneyVars, formVars, deviceVars>>
  \/ HearDevice(i, outcome) /\ UNCHANGED <<moneyVars, formVars, deskVars>>

Hears(i) == \E outcome \in Outcomes(i): Goes(i, outcome)

ScreensNext ==
  /\ UNCHANGED screen
  /\ \/ Tap
     \/ \E i \in DOMAIN requests: Served(i) \/ Hears(i)

\* A request of the app ends: its timer sees to it when nothing else does.
Ends(i) == i \in DOMAIN requests /\ UNCHANGED screen /\ Hears(i)

\* A request that a screen begins is followed by at most one its handler makes.
Bound == 2 * CHOOSE n \in {MaxRequests[s]: s \in Explored}: \A s \in Explored: MaxRequests[s] <= n
ScreensSpec == ScreensInit /\ [][ScreensNext]_screenVars
FairSpec == ScreensSpec /\ \A i \in 1..Bound: WF_screenVars(screen \in PhoneScreens /\ Ends(i))

ScreensTypeOK ==
  /\ Len(requests) <= 2 * MaxRequests[screen]
  /\ MoneyTypeOK /\ FormTypeOK /\ DeskTypeOK /\ DeviceTypeOK

-----------------------------------------------------------------------------
(* Properties *)

\* What the phone keeps is its owner's: the balance shown, and the content
\* behind the lock.
ScreensInv == ScreensTypeOK /\ LiveBalanceIsOwn /\ AwayMeansAsked

\* Nothing is done twice that its user meant once, unless an answer left the
\* user in doubt: money, texts, decisions.
OnceUnlessInDoubt == MovedOnceUnlessInDoubt /\ DraftsAreTakenOnce /\ RowsAreDecidedOnce

\* What is sent is what its user saw: the recipient, the ticket, the photos.
SentAsShown == PaysTheOneShown /\ RepliesReachTheirTicket /\ SubmittedIsAccepted

\* No spinner for ever (client.ts:31-38): on every screen of the app a tap that
\* is being handled ends, whatever becomes of its requests.
Busy == MoneyBusy \/ FormBusy
BusyEnds == []<>(screen \in PhoneScreens => ~Busy)
=============================================================================
