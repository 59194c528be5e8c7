---------------------------- MODULE MoneyScreens ----------------------------
(***************************************************************************)
(* The three screens that move money: TransferScreen, PayoutScreen (with   *)
(* useOtpStep) and TopupScreen (apps/mobile/src/screens, hooks), and what  *)
(* the server may answer them. Amounts are reduced to what the screens     *)
(* tell apart: over the payout limit or not.                               *)
(***************************************************************************)
EXTENDS ApiClient

CONSTANTS Numbers,  \* what a user types as a recipient
          Known     \* the numbers among them that have an account

ASSUME MoneyScreensAssumption == Known \subseteq Numbers /\ {None, "unknown"} \cap Numbers = {}

VARIABLES transfer,  \* TransferScreen: its useStates, and whether the number was edited under a lookup
          payout,    \* PayoutScreen: its useStates
          topup,     \* TopupScreen: its useStates, its ref and the intervals that run
          deposits   \* top-up -> "pending", "completed" or "failed" on the server

moneyVars == <<transfer, payout, topup, deposits>>

\* useOtpStep and the submit button: submitting while a tap is handled, and
\* requesting while that tap asks for a code.
NoOtp == [submitting |-> FALSE, requesting |-> FALSE, needsOtp |-> FALSE]

MoneyInit ==
  /\ transfer = [phone |-> None, card |-> None, checking |-> FALSE, state |-> "form",
                 button |-> NoOtp, raced |-> FALSE]
  /\ payout = [state |-> "form", limitKnown |-> FALSE, button |-> NoOtp]
  /\ topup = [state |-> "form", submitting |-> FALSE, error |-> FALSE,
              current |-> None, pollRef |-> None, timers |-> {}]
  /\ deposits = <<>>

\* Mutant of Pressable: the spinner does not disable the button.
PressableTwice(button) == ~button.requesting
Pressable(button) == ~button.submitting /\ ~button.requesting
Pressed(button) == [button EXCEPT !.submitting = TRUE]
Released(button) == [button EXCEPT !.submitting = FALSE, !.requesting = FALSE]

\* A 400 about an OTP, on a tap made without one: ask for a code.
AsksForCode(button, outcome) == outcome = "otp" /\ ~button.needsOtp

\* beginOtpFlow is answered. When it throws, onSubmit throws: its finally runs
\* and nothing is shown.
AfterCode(button, outcome) ==
  [Released(button) EXCEPT !.needsOtp = outcome = "accepted" \/ @]

-----------------------------------------------------------------------------
(* TransferScreen *)

EditsNumber == transfer.state \in {"form", "error"} /\ ~transfer.button.needsOtp

\* Mutant of Type: the card stays.
TypeKeepingCard(n) ==
  /\ EditsNumber /\ n # transfer.phone
  /\ transfer' = [transfer EXCEPT !.phone = n, !.raced = @ \/ AwaitedAsks("lookup") # {}]
  /\ UNCHANGED <<requests, payout, topup, deposits>>

\* onChangeText: the card of the number before is taken off.
Type(n) ==
  /\ EditsNumber /\ n # transfer.phone
  /\ transfer' = [transfer EXCEPT !.phone = n, !.card = None,
                                  !.raced = @ \/ AwaitedAsks("lookup") # {}]
  /\ UNCHANGED <<requests, payout, topup, deposits>>

\* onBlur: checkRecipient.
LeaveField ==
  /\ EditsNumber /\ transfer.phone # None /\ Room
  /\ Send(Ask("lookup", transfer.phone))
  /\ transfer' = [transfer EXCEPT !.checking = TRUE]
  /\ UNCHANGED <<payout, topup, deposits>>

\* The answer is put on the card whatever the field holds by now; an error
\* empties the card.
HearLookup(i, outcome) ==
  /\ requests[i].ask.what = "lookup" /\ End(i, outcome)
  /\ transfer' = [transfer EXCEPT !.checking = FALSE,
                    !.card = CASE outcome = "found" -> Of(i)
                               [] outcome = "unknown" -> "unknown"
                               [] OTHER -> None]
  /\ UNCHANGED <<payout, topup, deposits>>

\* onSubmit goes on only when the card shows an account. The money goes to what
\* the field holds, and every tap is a clientRequestId of its own.
Ready == transfer.card \in Numbers
TapTransfer ==
  /\ transfer.state \in {"form", "error"} /\ Pressable(transfer.button)
  /\ Ready /\ Room
  /\ Send(Ask("transfer", [to |-> transfer.phone, shown |-> transfer.card]))
  /\ transfer' = [transfer EXCEPT !.button = Pressed(@)]
  /\ UNCHANGED <<payout, topup, deposits>>

TransferShows(outcome) ==
  CASE outcome = "done" -> "sent"
    [] outcome = "none" -> "offline"
    [] OTHER -> "error"

HearTransfer(i, outcome) ==
  /\ requests[i].ask.what = "transfer"
  /\ IF AsksForCode(transfer.button, outcome)
     THEN /\ EndAnd(i, outcome, <<Ask("transferCode", None)>>)
          /\ transfer' = [transfer EXCEPT !.button.requesting = TRUE]
     ELSE /\ End(i, outcome)
          /\ transfer' = [transfer EXCEPT !.state = TransferShows(outcome), !.button = Released(@)]
  /\ UNCHANGED <<payout, topup, deposits>>

\* Mutant of HearTransferCode: a code that cannot be asked for is not caught.
HearTransferCodeUncaught(i, outcome) ==
  /\ requests[i].ask.what = "transferCode" /\ End(i, outcome)
  /\ transfer' = IF outcome = "accepted" THEN [transfer EXCEPT !.button = AfterCode(@, outcome)] ELSE transfer
  /\ UNCHANGED <<payout, topup, deposits>>

HearTransferCode(i, outcome) ==
  /\ requests[i].ask.what = "transferCode" /\ End(i, outcome)
  /\ transfer' = [transfer EXCEPT !.button = AfterCode(@, outcome)]
  /\ UNCHANGED <<payout, topup, deposits>>

RetryTransfer ==
  /\ transfer.state = "offline"
  /\ transfer' = [transfer EXCEPT !.state = "form"]
  /\ UNCHANGED <<requests, payout, topup, deposits>>

-----------------------------------------------------------------------------
(* PayoutScreen *)

\* The limit is asked for when the screen opens; without it nothing is checked.
AskLimit ==
  /\ Asks("limit") = {} /\ Room
  /\ Send(Ask("limit", None))
  /\ UNCHANGED moneyVars

HearLimit(i, outcome) ==
  /\ requests[i].ask.what = "limit" /\ End(i, outcome)
  /\ payout' = [payout EXCEPT !.limitKnown = outcome = "accepted"]
  /\ UNCHANGED <<transfer, topup, deposits>>

TapPayout(overLimit) ==
  /\ payout.state = "form" /\ Pressable(payout.button)
  /\ ~(overLimit /\ payout.limitKnown) /\ Room
  /\ Send(Ask("payout", [overLimit |-> overLimit]))
  /\ payout' = [payout EXCEPT !.button = Pressed(@)]
  /\ UNCHANGED <<transfer, topup, deposits>>

\* Mutant of PayoutShows: no answer reads as a refusal too.
PayoutShowsRefusal(outcome) == IF outcome = "completed" THEN "completed" ELSE "failed"

\* Every answer that is an error reads as a refusal, the money being back.
PayoutShows(outcome) ==
  CASE outcome = "completed" -> "completed"
    [] outcome = "none" -> "unconfirmed"
    [] OTHER -> "failed"

HearPayout(i, outcome) ==
  /\ requests[i].ask.what = "payout"
  /\ IF AsksForCode(payout.button, outcome)
     THEN /\ EndAnd(i, outcome, <<Ask("payoutCode", None)>>)
          /\ payout' = [payout EXCEPT !.button.requesting = TRUE]
     ELSE /\ End(i, outcome)
          /\ payout' = [payout EXCEPT !.state = PayoutShows(outcome), !.button = Released(@)]
  /\ UNCHANGED <<transfer, topup, deposits>>

HearPayoutCode(i, outcome) ==
  /\ requests[i].ask.what = "payoutCode" /\ End(i, outcome)
  /\ payout' = [payout EXCEPT !.button = AfterCode(@, outcome)]
  /\ UNCHANGED <<transfer, topup, deposits>>

RetryPayout ==
  /\ payout.state \in {"failed", "unconfirmed"}
  /\ payout' = [payout EXCEPT !.state = "form"]
  /\ UNCHANGED <<requests, transfer, topup, deposits>>

-----------------------------------------------------------------------------
(* TopupScreen *)

TapTopup ==
  /\ topup.state = "form" /\ ~topup.submitting /\ Room
  /\ Send(Ask("topup", None))
  /\ topup' = [topup EXCEPT !.submitting = TRUE, !.error = FALSE]
  /\ UNCHANGED <<transfer, payout, deposits>>

\* The deposit begun has the id of its request; an interval polls it.
HearTopup(i, outcome) ==
  /\ requests[i].ask.what = "topup" /\ End(i, outcome)
  /\ topup' = IF outcome = "begun"
              THEN [topup EXCEPT !.submitting = FALSE, !.state = "pending", !.current = Id(i),
                                 !.pollRef = Id(i), !.timers = @ \cup {Id(i)}]
              ELSE [topup EXCEPT !.submitting = FALSE, !.error = TRUE]
  /\ UNCHANGED <<transfer, payout, deposits>>

\* The interval asks again whether or not it was answered.
Poll(id) ==
  /\ id \in topup.timers /\ Room
  /\ Send(Ask("status", id))
  /\ UNCHANGED moneyVars

\* Any poll that finds its deposit decided shows it and clears the interval the
\* ref holds, its own or not.
HearPoll(i, outcome) ==
  /\ requests[i].ask.what = "status" /\ End(i, outcome)
  /\ topup' = IF outcome \in {"completed", "failed"}
              THEN [topup EXCEPT !.state = outcome, !.timers = @ \ {topup.pollRef}]
              ELSE topup
  /\ UNCHANGED <<transfer, payout, deposits>>

RetryTopup ==
  /\ topup.state = "failed"
  /\ topup' = [topup EXCEPT !.state = "form", !.current = None]
  /\ UNCHANGED <<requests, transfer, payout, deposits>>

-----------------------------------------------------------------------------
(* The server *)

Decide(id, outcome) ==
  /\ id \in DOMAIN deposits /\ deposits[id] = "pending"
  /\ deposits' = [deposits EXCEPT ![id] = outcome]
  /\ UNCHANGED <<requests, transfer, payout, topup>>

\* What the server may make of a request.
MoneyVerdicts(i) ==
  LET what == requests[i].ask.what IN
  CASE what = "lookup" -> {IF Of(i) \in Known THEN "found" ELSE "unknown", "refused"}
    [] what = "transfer" -> {"refused"} \cup (IF Of(i).to \in Known THEN {"done", "otp"} ELSE {})
    [] what = "payout" -> {"refused"} \cup (IF Of(i).overLimit THEN {} ELSE {"completed", "failed", "otp"})
    [] what \in {"limit", "transferCode", "payoutCode"} -> {"accepted", "refused"}
    [] what = "topup" -> {"begun", "refused"}
    [] what = "status" -> {deposits[Of(i)]}
    [] OTHER -> {}

ServeMoney(i, verdict) ==
  /\ Serve(i, verdict)
  /\ deposits' = IF verdict = "begun" THEN [id \in DOMAIN deposits \cup {Id(i)} |->
                                               IF id = Id(i) THEN "pending" ELSE deposits[id]]
                 ELSE deposits
  /\ UNCHANGED <<transfer, payout, topup>>

HearMoney(i, outcome) ==
  \/ HearLookup(i, outcome) \/ HearTransfer(i, outcome) \/ HearTransferCode(i, outcome)
  \/ HearLimit(i, outcome) \/ HearPayout(i, outcome) \/ HearPayoutCode(i, outcome)
  \/ HearTopup(i, outcome) \/ HearPoll(i, outcome)

TransferTaps == (\E n \in Numbers: Type(n)) \/ LeaveField \/ TapTransfer \/ RetryTransfer
PayoutTaps == AskLimit \/ (\E overLimit \in BOOLEAN: TapPayout(overLimit)) \/ RetryPayout
TopupTaps ==
  \/ TapTopup \/ RetryTopup
  \/ \E id \in topup.timers: Poll(id)
  \/ \E id \in DOMAIN deposits, outcome \in {"completed", "failed"}: Decide(id, outcome)

MoneyTypeOK ==
  /\ transfer.card \in Numbers \cup {None, "unknown"}
  /\ transfer.state \in {"form", "sent", "offline", "error"}
  /\ payout.state \in {"form", "completed", "failed", "unconfirmed"}
  /\ topup.state \in {"form", "pending", "completed", "failed"}
  /\ topup.timers \subseteq DOMAIN deposits

-----------------------------------------------------------------------------
(* Properties *)

\* A stale poll can be about another deposit than the one on the screen: one
\* that was begun before it failed and was tried again.
Overtaken == \E i \in Asks("status"): Of(i) # topup.current

\* The screens claim what is so: "sent" and "completed" have a movement behind
\* them, "failed, your money is back" is about a tap for which nothing was paid
\* (a gateway's or a crashed call's 5xx apart, which the screen reads the same
\* way), and a deposit's outcome is the deposit's, unless a poll of an earlier
\* one is about.
Latest(what) == {i \in Asks(what): \A j \in Asks(what): j <= i}
ClaimsAreTrue ==
  /\ transfer.state = "sent" => Done("transfer", {"done"}) # {}
  /\ payout.state = "completed" => Done("payout", {"completed"}) # {}
  /\ payout.state = "failed" =>
       Latest("payout") \cap Done("payout", {"completed"}) \subseteq Heard("payout", {"gateway"})
  /\ topup.state \in {"completed", "failed"} =>
       Overtaken \/ deposits[topup.current] = topup.state

\* Money moves twice only when the user was left in doubt in between: while a
\* tap is handled the button is dead, and after a success the form is gone.
Repeats(what, verdicts) ==
  Cardinality(Done(what, verdicts)) <= 1 + Cardinality(Heard(what, Doubtful))
MovedOnceUnlessInDoubt == Repeats("transfer", {"done"}) /\ Repeats("payout", {"completed"})

\* TransferScreen.tsx:38-42, "only to a confirmed account": money goes to the
\* number whose account was shown, unless the number was edited while a lookup
\* was under way.
PaysTheOneShown ==
  \A i \in Asks("transfer"): transfer.raced \/ Of(i).to = Of(i).shown

\* The same without the exception: what the comments say.
PaysOnlyTheOneConfirmed == \A i \in Asks("transfer"): Of(i).to = Of(i).shown

MoneyBusy == transfer.button.submitting \/ payout.button.submitting \/ topup.submitting
=============================================================================
