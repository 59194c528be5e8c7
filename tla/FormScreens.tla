---------------------------- MODULE FormScreens -----------------------------
(***************************************************************************)
(* The screens that send a form: RegisterScreen, LoginScreen, NewTicket-   *)
(* Screen, TicketThreadScreen, DevicesScreen and KycCaptureScreen of the   *)
(* app, and the sign-in, FAQ and SAR forms of the back office. They share  *)
(* one shape; what differs is named below. What is typed is a draft, known *)
(* by its number.                                                          *)
(***************************************************************************)
EXTENDS ApiClient

VARIABLES form,  \* the open form
          kyc    \* KycCaptureScreen: its two slots and its useStates

formVars == <<form, kyc>>

Forms == {"register", "login", "adminLogin", "ticket", "reply", "device", "faq", "sar"}
Slots == {"idDocument", "selfie"}
EmptyCapture == [uri |-> None, fileId |-> None, uploading |-> FALSE]

FormInit ==
  /\ form = [draft |-> 1, busy |-> FALSE, error |-> FALSE, left |-> FALSE]
  /\ kyc = [slots |-> [s \in Slots |-> EmptyCapture], submitting |-> FALSE, status |-> "idle"]

\* Mutant of HasBusy: no form is disabled while it is sent.
HasNoBusy(kind) == FALSE

\* The device list has no busy state: its button stays as it was.
HasBusy(kind) == kind # "device"

\* What the handler asks next when the form was taken: signing in after a
\* registration, and reloading what the screen shows.
Follows(kind) ==
  CASE kind = "register" -> <<Ask("signIn", None)>>
    [] kind \in {"reply", "device", "sar"} -> <<Ask("reload", None)>>
    [] OTHER -> <<>>
\* Awaited by the handler, so that the form stays busy.
Awaits(kind) == kind \in {"register", "reply"}
\* The screen is left when all went well.
Leaves(kind) == kind \in {"register", "login", "adminLogin", "ticket"}
\* The fields are emptied, and the next text is another one.
Empties(kind) == kind \in {"reply", "faq", "sar"}

SubmitForm ==
  /\ screen \in Forms /\ ~form.left /\ ~form.busy /\ Room
  /\ Send(Ask(screen, Id(form.draft)))
  /\ form' = [form EXCEPT !.busy = HasBusy(screen), !.error = FALSE]
  /\ UNCHANGED kyc

HearForm(i, outcome) ==
  /\ screen \in Forms /\ requests[i].ask.what = screen
  /\ IF outcome = "done"
     THEN /\ EndAnd(i, outcome, Follows(screen))
          /\ form' = [form EXCEPT !.busy = Awaits(screen) /\ @,
                                  !.draft = IF Empties(screen) THEN @ + 1 ELSE @,
                                  !.left = Leaves(screen) /\ ~Awaits(screen)]
     ELSE /\ End(i, outcome)
          /\ form' = [form EXCEPT !.busy = FALSE, !.error = HasBusy(screen)]
  /\ UNCHANGED kyc

\* register() ends when its login does; a failed login shows as a failed form,
\* though the account is there.
HearSignIn(i, outcome) ==
  /\ requests[i].ask.what = "signIn" /\ End(i, outcome)
  /\ form' = [form EXCEPT !.busy = FALSE, !.error = outcome # "done", !.left = outcome = "done"]
  /\ UNCHANGED kyc

HearReload(i, outcome) ==
  /\ requests[i].ask.what = "reload" /\ End(i, outcome)
  /\ form' = [form EXCEPT !.busy = ~Awaits(screen) /\ @, !.error = @ \/ (screen # "device" /\ outcome # "done")]
  /\ UNCHANGED kyc

-----------------------------------------------------------------------------
(* KycCaptureScreen *)

BothAccepted == \A s \in Slots: kyc.slots[s].fileId # None

\* A photo is taken and uploaded at once; it is known by its upload. (Bound:
\* one request is left for the submission.)
TakePhoto(s) ==
  /\ kyc.status # "submitted" /\ ~kyc.slots[s].uploading /\ Len(requests) + 1 < MaxRequests[screen]
  /\ Send(Ask("upload", s))
  /\ kyc' = [kyc EXCEPT !.slots[s] = [uri |-> NextId, fileId |-> None, uploading |-> TRUE]]
  /\ UNCHANGED form

\* Mutant of HearUpload: the new photo is shown over the old id.
HearUploadKeepingId(i, outcome) ==
  /\ requests[i].ask.what = "upload" /\ End(i, outcome)
  /\ kyc' = [kyc EXCEPT !.slots[Of(i)].uploading = FALSE,
                        !.slots[Of(i)].fileId = Id(i)]
  /\ UNCHANGED form

HearUpload(i, outcome) ==
  /\ requests[i].ask.what = "upload" /\ End(i, outcome)
  /\ kyc' = [kyc EXCEPT !.slots[Of(i)] =
               IF outcome = "done" THEN [uri |-> Id(i), fileId |-> Id(i), uploading |-> FALSE]
               ELSE EmptyCapture]
  /\ UNCHANGED form

SubmitKyc ==
  /\ kyc.status # "submitted" /\ ~kyc.submitting /\ BothAccepted /\ Room
  /\ Send(Ask("kyc", [s \in Slots |-> kyc.slots[s].fileId]))
  /\ kyc' = [kyc EXCEPT !.submitting = TRUE]
  /\ UNCHANGED form

HearKyc(i, outcome) ==
  /\ requests[i].ask.what = "kyc" /\ End(i, outcome)
  /\ kyc' = [kyc EXCEPT !.submitting = FALSE, !.status = IF outcome = "done" THEN "submitted" ELSE "error"]
  /\ UNCHANGED form

-----------------------------------------------------------------------------

\* One registration per number, one pending submission per user.
FormVerdicts(i) ==
  IF requests[i].ask.what \in {"register", "kyc"} /\ Done(requests[i].ask.what, {"done"}) # {}
  THEN {"refused"}
  ELSE {"done", "refused"}

FormAsks == Forms \cup {"signIn", "reload", "upload", "kyc"}
HearAForm(i, outcome) ==
  \/ HearForm(i, outcome) \/ HearSignIn(i, outcome) \/ HearReload(i, outcome)
  \/ HearUpload(i, outcome) \/ HearKyc(i, outcome)

FormTaps == SubmitForm
KycTaps == SubmitKyc \/ \E s \in Slots: TakePhoto(s)

FormTypeOK ==
  /\ form.draft \in Nat \ {0}
  /\ kyc.status \in {"idle", "submitted", "error"}

-----------------------------------------------------------------------------
(* Properties *)

\* One text is taken once: a ticket, a message, an FAQ entry or a report
\* exists a second time only when its author was left in doubt and sent it
\* again.
Copies(n) == {i \in Done(screen, {"done"}): Of(i) = Id(n)}
DraftsAreTakenOnce ==
  screen \in Forms \ {"login", "adminLogin", "device"} =>
    \A n \in 1..form.draft:
      Cardinality(Copies(n)) <= 1 + Cardinality({i \in Heard(screen, Doubtful): Of(i) = Id(n)})

\* A screen that was left did what it is for, and a submitted file consists of
\* the two photos that the server had accepted and the screen showed.
SubmittedIsAccepted ==
  /\ form.left => /\ Done(screen, {"done"}) # {}
                  /\ screen = "register" => Done("signIn", {"done"}) # {}
  /\ \A s \in Slots: kyc.slots[s].fileId # None => kyc.slots[s].fileId = kyc.slots[s].uri
  /\ \A i \in Asks("kyc"), s \in Slots:
       \E u \in Done("upload", {"done"}): Id(u) = Of(i)[s] /\ Of(u) = s

FormBusy == form.busy \/ kyc.submitting \/ \E s \in Slots: kyc.slots[s].uploading
=============================================================================
