---------------------------- MODULE ScreensProofs ----------------------------
(***************************************************************************)
(* Theorems about every modelled screen of the app and of the back office, *)
(* for any numbers, rows, users and page sizes and any number of requests. *)
(* First what one step does to the requests, then one screen at a time.    *)
(***************************************************************************)
EXTENDS Screens, SumLemmas, FiniteSetTheorems, SequenceTheorems, TLAPS

-----------------------------------------------------------------------------
(* What one step does to the requests. *)

Row(ask, did, data, heard) == [ask |-> ask, did |-> did, data |-> data, heard |-> heard]
RequestsAre(s) ==
  /\ s \in Seq({s[i]: i \in DOMAIN s})
  /\ \A i \in DOMAIN s: s[i] = Row(s[i].ask, s[i].did, s[i].data, s[i].heard)

Others(i) ==
  /\ DOMAIN requests' = DOMAIN requests /\ Len(requests') = Len(requests)
  /\ \A j \in DOMAIN requests \ {i}: requests'[j] = requests[j]

\* A request is made,
Grows(ask) ==
  /\ Len(requests) \in Nat
  /\ DOMAIN requests = 1..Len(requests) /\ DOMAIN requests' = 1..(Len(requests) + 1)
  /\ Len(requests') = Len(requests) + 1
  /\ \A j \in DOMAIN requests: requests'[j] = requests[j]
  /\ requests'[Len(requests) + 1] = Row(ask, None, None, None)
\* is dealt with,
Deals(i, verdict, data) ==
  /\ i \in DOMAIN requests /\ requests[i].did = None /\ Others(i)
  /\ requests'[i] = Row(requests[i].ask, verdict, data, requests[i].heard)
\* ends,
Hushes(i, outcome) ==
  /\ i \in DOMAIN requests /\ Others(i)
  /\ requests'[i] = Row(requests[i].ask, requests[i].did, requests[i].data, outcome)
\* or ends and is followed by another.
GoesOn(i, outcome, ask) ==
  /\ Len(requests) \in Nat
  /\ DOMAIN requests = 1..Len(requests) /\ DOMAIN requests' = 1..(Len(requests) + 1)
  /\ Len(requests') = Len(requests) + 1
  /\ i \in DOMAIN requests
  /\ \A j \in DOMAIN requests \ {i}: requests'[j] = requests[j]
  /\ requests'[i] = Row(requests[i].ask, requests[i].did, requests[i].data, outcome)
  /\ requests'[Len(requests) + 1] = Row(ask, None, None, None)

LEMMA RequestsLen ==
  ASSUME NEW s, RequestsAre(s)
  PROVE  Len(s) \in Nat /\ DOMAIN s = 1..Len(s)
  BY LenProperties DEF RequestsAre

\* A sequence is one of its own elements.
LEMMA OwnRange ==
  ASSUME NEW S, NEW s \in Seq(S)
  PROVE  s \in Seq({s[i]: i \in DOMAIN s})
  <1>1. Len(s) \in Nat /\ DOMAIN s = 1..Len(s) /\ s \in [1..Len(s) -> S]
    BY LenProperties
  <1>2. s \in [1..Len(s) -> {s[i]: i \in DOMAIN s}]
    BY <1>1
  <1>. QED BY <1>1, <1>2, SMTT(30)

\* One element appended.
LEMMA ConcatOne ==
  ASSUME NEW S, NEW s \in Seq(S), NEW u \in Seq(S), Len(u) = 1, NEW t, t = s \o u
  PROVE  /\ t \in Seq(S) /\ Len(t) = Len(s) + 1
         /\ \A j \in 1..Len(s): t[j] = s[j]
         /\ t[Len(s) + 1] = u[1]
  <1>1. Len(s) \in Nat
    BY LenProperties
  <1>2. /\ t \in Seq(S) /\ Len(t) = Len(s) + Len(u)
        /\ \A i \in 1..(Len(s) + Len(u)): t[i] = IF i <= Len(s) THEN s[i] ELSE u[i - Len(s)]
    BY ConcatProperties
  <1>. QED BY <1>1, <1>2

\* One row appended to a sequence of rows.
Longer(s, ask) ==
  s \o [n \in DOMAIN <<ask>> |-> [ask |-> <<ask>>[n], did |-> None, data |-> None, heard |-> None]]
LEMMA OneMore ==
  ASSUME NEW s, RequestsAre(s), NEW ask, NEW t, t = Longer(s, ask)
  PROVE  /\ RequestsAre(t)
         /\ Len(t) = Len(s) + 1 /\ DOMAIN t = 1..(Len(s) + 1)
         /\ \A j \in DOMAIN s: t[j] = s[j]
         /\ t[Len(s) + 1] = Row(ask, None, None, None)
  <1> DEFINE r == Row(ask, None, None, None)
             S == {s[i]: i \in DOMAIN s} \cup {r}
             u == [n \in DOMAIN <<ask>> |-> [ask |-> <<ask>>[n], did |-> None, data |-> None, heard |-> None]]
  <1>1. s \in Seq(S)
    BY SeqMonotonic DEF RequestsAre
  <1>2. u = <<r>>
    BY DEF Row
  <1>3. u \in Seq(S) /\ Len(u) = 1 /\ u[1] = r
    BY <1>2
  <1>4. /\ t \in Seq(S) /\ Len(t) = Len(s) + 1
        /\ \A j \in 1..Len(s): t[j] = s[j]
        /\ t[Len(s) + 1] = u[1]
    <2>. HIDE DEF S, u, r
    <2>1. t = s \o u
      BY DEF Longer, u
    <2>2. s \in Seq(S) /\ u \in Seq(S) /\ Len(u) = 1
      BY <1>1, <1>3
    <2>3. t \in Seq(S) /\ Len(t) = Len(s) + 1
      BY <2>1, <2>2, ConcatOne, SMTT(30)
    <2>4. \A j \in 1..Len(s): t[j] = s[j]
      BY <2>1, <2>2, ConcatOne
    <2>5. t[Len(s) + 1] = u[1]
      BY <2>1, <2>2, ConcatOne
    <2>. QED BY <2>3, <2>4, <2>5
  <1>5. Len(s) \in Nat /\ DOMAIN s = 1..Len(s) /\ DOMAIN t = 1..Len(t)
    BY RequestsLen, <1>4, LenProperties
  <1>6. \A j \in DOMAIN s: t[j] = s[j]
    <2>. HIDE DEF S, u, r
    <2>. QED BY <1>4, <1>5
  <1>7. t[Len(s) + 1] = r
    <2>. HIDE DEF S, u, r
    <2>. QED BY <1>3, <1>4
  <1>8. \A i \in DOMAIN t: t[i] = Row(t[i].ask, t[i].did, t[i].data, t[i].heard)
    <2>. TAKE i \in DOMAIN t
    <2>1. CASE i \in DOMAIN s
      BY <2>1, <1>6 DEF RequestsAre
    <2>2. CASE i = Len(s) + 1
      BY <2>2, <1>7 DEF Row
    <2>. QED BY <2>1, <2>2, <1>4, <1>5
  <1>9. t \in Seq({t[i]: i \in DOMAIN t})
    BY <1>4, OwnRange
  <1>. QED BY <1>4, <1>5, <1>6, <1>7, <1>8, <1>9 DEF RequestsAre

\* One row of a sequence of rows changed.
LEMMA OneChanged ==
  ASSUME NEW s, RequestsAre(s), NEW i \in DOMAIN s, NEW t, DOMAIN t = DOMAIN s,
         t = [k \in DOMAIN t |-> t[k]],
         \A j \in DOMAIN s \ {i}: t[j] = s[j],
         NEW ask, NEW did, NEW data, NEW heard, t[i] = Row(ask, did, data, heard)
  PROVE  RequestsAre(t) /\ Len(t) = Len(s)
  <1>1. Len(s) \in Nat /\ DOMAIN s = 1..Len(s)
    BY RequestsLen
  <1>2. t \in [1..Len(s) -> {t[k]: k \in DOMAIN t}]
    BY <1>1
  <1>3. t \in Seq({t[k]: k \in DOMAIN t}) /\ Len(t) = Len(s)
    BY <1>1, <1>2
  <1>4. \A k \in DOMAIN t: t[k] = Row(t[k].ask, t[k].did, t[k].data, t[k].heard)
    <2>. TAKE k \in DOMAIN t
    <2>1. CASE k = i
      BY <2>1 DEF Row
    <2>2. CASE k # i
      BY <2>2 DEF RequestsAre
    <2>. QED BY <2>1, <2>2
  <1>. QED BY <1>3, <1>4 DEF RequestsAre

LEMMA SendGrows ==
  ASSUME RequestsAre(requests), NEW ask, Send(ask)
  PROVE  RequestsAre(requests') /\ Grows(ask)
  <1>1. requests' = Longer(requests, ask)
    BY DEF Send, With, Longer
  <1>. QED BY <1>1, OneMore, RequestsLen DEF Grows

LEMMA ServeDeals ==
  ASSUME RequestsAre(requests), NEW i \in DOMAIN requests, NEW verdict, Serve(i, verdict)
  PROVE  RequestsAre(requests') /\ Deals(i, verdict, requests[i].data)
  <1>1. requests[i] = Row(requests[i].ask, requests[i].did, requests[i].data, requests[i].heard)
    BY DEF RequestsAre
  <1>2. /\ DOMAIN requests' = DOMAIN requests
        /\ requests' = [k \in DOMAIN requests' |-> requests'[k]]
        /\ \A j \in DOMAIN requests \ {i}: requests'[j] = requests[j]
        /\ requests'[i] = [requests[i] EXCEPT !.did = verdict]
    BY DEF Serve
  <1>3. requests'[i] = Row(requests[i].ask, verdict, requests[i].data, requests[i].heard)
    BY <1>1, <1>2 DEF Row
  <1>. QED BY <1>2, <1>3, OneChanged DEF Deals, Others, Serve

LEMMA AnswerDeals ==
  ASSUME RequestsAre(requests), NEW i \in DOMAIN requests, NEW data, Answer(i, data)
  PROVE  RequestsAre(requests') /\ Deals(i, "done", data)
  <1>1. requests[i] = Row(requests[i].ask, requests[i].did, requests[i].data, requests[i].heard)
    BY DEF RequestsAre
  <1>2. /\ DOMAIN requests' = DOMAIN requests
        /\ requests' = [k \in DOMAIN requests' |-> requests'[k]]
        /\ \A j \in DOMAIN requests \ {i}: requests'[j] = requests[j]
        /\ requests'[i] = [requests[i] EXCEPT !.did = "done", !.data = data]
    BY DEF Answer
  <1>3. requests'[i] = Row(requests[i].ask, "done", data, requests[i].heard)
    BY <1>1, <1>2 DEF Row
  <1>. QED BY <1>2, <1>3, OneChanged DEF Deals, Others, Answer

LEMMA EndHushes ==
  ASSUME RequestsAre(requests), NEW i \in DOMAIN requests, NEW outcome, End(i, outcome)
  PROVE  RequestsAre(requests') /\ Hushes(i, outcome)
  <1>1. With(<<>>) = requests
    <2>1. [n \in DOMAIN <<>> |-> [ask |-> <<>>[n], did |-> None, data |-> None, heard |-> None]] = <<>>
      OBVIOUS
    <2>. QED BY <2>1, ConcatEmptySeq DEF With, RequestsAre
  <1>2. requests[i] = Row(requests[i].ask, requests[i].did, requests[i].data, requests[i].heard)
    BY DEF RequestsAre
  <1>3. /\ DOMAIN requests' = DOMAIN requests
        /\ requests' = [k \in DOMAIN requests' |-> requests'[k]]
        /\ \A j \in DOMAIN requests \ {i}: requests'[j] = requests[j]
        /\ requests'[i] = [requests[i] EXCEPT !.heard = outcome]
    BY <1>1 DEF End, EndAnd
  <1>4. requests'[i] = Row(requests[i].ask, requests[i].did, requests[i].data, outcome)
    BY <1>2, <1>3 DEF Row
  <1>. QED BY <1>3, <1>4, OneChanged DEF Hushes, Others

LEMMA EndAndFollows ==
  ASSUME RequestsAre(requests), NEW i \in DOMAIN requests, NEW outcome, NEW ask, EndAnd(i, outcome, <<ask>>)
  PROVE  RequestsAre(requests') /\ GoesOn(i, outcome, ask)
  <1> DEFINE w == With(<<ask>>)
  <1>1. /\ RequestsAre(w) /\ Len(w) = Len(requests) + 1 /\ DOMAIN w = 1..(Len(requests) + 1)
        /\ \A j \in DOMAIN requests: w[j] = requests[j]
        /\ w[Len(requests) + 1] = Row(ask, None, None, None)
    <2>1. w = Longer(requests, ask)
      BY DEF With, Longer
    <2>. QED BY <2>1, OneMore
  <1>2. Len(requests) \in Nat /\ DOMAIN requests = 1..Len(requests) /\ i \in DOMAIN w /\ i # Len(requests) + 1
    BY <1>1, RequestsLen
  <1>3. requests[i] = Row(requests[i].ask, requests[i].did, requests[i].data, requests[i].heard)
    BY DEF RequestsAre
  <1>4. /\ DOMAIN requests' = DOMAIN w
        /\ requests' = [k \in DOMAIN requests' |-> requests'[k]]
        /\ \A j \in DOMAIN w \ {i}: requests'[j] = w[j]
        /\ requests'[i] = [w[i] EXCEPT !.heard = outcome]
    <2>. HIDE DEF w
    <2>1. requests' = [w EXCEPT ![i].heard = outcome]
      BY DEF EndAnd, w
    <2>. QED BY <2>1, <1>2
  <1>5. requests'[i] = Row(requests[i].ask, requests[i].did, requests[i].data, outcome)
    BY <1>1, <1>3, <1>4 DEF Row
  <1>6. RequestsAre(requests') /\ Len(requests') = Len(w)
    <2>. HIDE DEF w
    <2>1. \A j \in DOMAIN w \ {i}: requests'[j] = w[j]
      BY <1>4
    <2>2. RequestsAre(w) /\ i \in DOMAIN w /\ DOMAIN requests' = DOMAIN w
      BY <1>1, <1>2, <1>4
    <2>3. requests' = [k \in DOMAIN requests' |-> requests'[k]]
      BY <1>4
    <2>. QED BY <2>1, <2>2, <2>3, <1>5, OneChanged
  <1>. QED
    <2>. HIDE DEF w
    <2>. QED BY <1>1, <1>2, <1>4, <1>5, <1>6, SMTT(30) DEF GoesOn

-----------------------------------------------------------------------------
(* What holds of the requests of every screen.                             *)

KindsOf(s) ==
  CASE s = "transfer" -> {"lookup", "transfer", "transferCode"}
    [] s = "payout" -> {"limit", "payout", "payoutCode"}
    [] s = "topup" -> {"topup", "status"}
    [] s \in Forms -> {s, "signIn", "reload"}
    [] s = "kycCapture" -> {"upload", "kyc"}
    [] s \in {"tickets", "threads"} -> {"load", "more", "thread", "replyTo", "refetch", "mark"}
    [] s = "queue" -> {"list", "decide"}
    [] s = "home" -> {"signInAs", "profile", "balance"}
    [] OTHER -> {}

\* Requests a handler may make on its way, and those on whose end it may.
Afters == {"transferCode", "payoutCode", "signIn", "reload", "refetch", "balance"}
Due == {i \in DOMAIN requests: Waiting(i) /\ requests[i].ask.what \notin Afters}

RowsInv ==
  /\ screen \in Explored
  /\ RequestsAre(requests)
  /\ \A i \in DOMAIN requests:
       /\ requests[i].ask.what \in KindsOf(screen)
       /\ requests[i].did \in Verdicts \cup {None}
       /\ requests[i].heard \in Doubtful \cup {None, requests[i].did}
RequestsInv == RowsInv /\ Len(requests) + Cardinality(Due) <= 2 * MaxRequests[screen]

\* One step of any screen, as the requests see it.
Requested(ask) == Room /\ ask.what \in KindsOf(screen) /\ Grows(ask)
Dealt(i, verdict, data) == verdict \in Verdicts /\ Deals(i, verdict, data)
Ended(i, outcome) == outcome \in Outcomes(i) /\ Hushes(i, outcome)
Followed(i, outcome, ask) ==
  /\ outcome \in Outcomes(i) /\ requests[i].ask.what \notin Afters
  /\ ask.what \in KindsOf(screen) \cap Afters /\ GoesOn(i, outcome, ask)
RequestStep ==
  /\ RequestsAre(requests') /\ UNCHANGED screen
  /\ \/ UNCHANGED requests
     \/ \E ask: Requested(ask)
     \/ \E i \in DOMAIN requests, verdict \in Verdicts: \E data: Dealt(i, verdict, data)
     \/ \E i \in DOMAIN requests: \E outcome \in Outcomes(i): Ended(i, outcome)
     \/ \E i \in DOMAIN requests: \E outcome \in Outcomes(i): \E ask: Followed(i, outcome, ask)

LEMMA NoneApart == None \notin Verdicts /\ None \notin Doubtful
  BY ApiClientAssumption

\* A handler that goes on was waiting; what it is given is the server's answer
\* or a doubt.
LEMMA OutcomeIs ==
  ASSUME RowsInv, NEW i \in DOMAIN requests, NEW outcome \in Outcomes(i)
  PROVE  /\ requests[i].heard = None /\ outcome # None
         /\ outcome = requests[i].did \/ outcome \in Doubtful
  BY NoneApart DEF Outcomes, Waiting

LEMMA FieldsOfRow ==
  ASSUME NEW ask, NEW did, NEW data, NEW heard
  PROVE  /\ Row(ask, did, data, heard).ask = ask /\ Row(ask, did, data, heard).did = did
         /\ Row(ask, did, data, heard).data = data /\ Row(ask, did, data, heard).heard = heard
  BY DEF Row

LEMMA RowsStep ==
  ASSUME RowsInv, RequestStep
  PROVE  RowsInv'
  <1> USE NoneApart, FieldsOfRow
  <1>1. CASE UNCHANGED requests
    BY <1>1 DEF RowsInv, RequestStep
  <1>2. ASSUME NEW ask, Requested(ask) PROVE RowsInv'
    BY <1>2 DEF RowsInv, RequestStep, Requested, Grows
  <1>3. ASSUME NEW i \in DOMAIN requests, NEW verdict, NEW data, Dealt(i, verdict, data) PROVE RowsInv'
    BY <1>3 DEF RowsInv, RequestStep, Dealt, Deals, Others
  <1>4. ASSUME NEW i \in DOMAIN requests, NEW outcome \in Outcomes(i), Ended(i, outcome) PROVE RowsInv'
    BY <1>4, OutcomeIs DEF RowsInv, RequestStep, Ended, Hushes, Others
  <1>5. ASSUME NEW i \in DOMAIN requests, NEW outcome \in Outcomes(i), NEW ask, Followed(i, outcome, ask)
        PROVE  RowsInv'
    BY <1>5, OutcomeIs DEF RowsInv, RequestStep, Followed, GoesOn
  <1>. QED BY <1>1, <1>2, <1>3, <1>4, <1>5 DEF RequestStep

\* A set of places of a sequence is finite, and no larger than the sequence.
LEMMA Places ==
  ASSUME NEW n \in Nat, NEW S, S \subseteq 1..n
  PROVE  IsFiniteSet(S) /\ Cardinality(S) \in Nat /\ Cardinality(S) <= n
  <1>1. IsFiniteSet(1..n) /\ Cardinality(1..n) = n
    BY FS_Interval
  <1>. QED BY <1>1, FS_Subset, FS_CardinalityType

\* Each request is followed by at most one that its handler makes.
LEMMA RequestsStep ==
  ASSUME RequestsInv, RequestStep
  PROVE  RequestsInv'
  <1> DEFINE max == MaxRequests[screen]
             n == Len(requests)
  <1>1. RowsInv' /\ screen' = screen
    BY RowsStep DEF RequestsInv, RequestStep
  <1>2. n \in Nat /\ DOMAIN requests = 1..n /\ Len(requests') \in Nat /\ DOMAIN requests' = 1..Len(requests')
    BY <1>1, RequestsLen DEF RequestsInv, RowsInv
  <1>3. max \in Nat
    BY ApiClientAssumption DEF RequestsInv, RowsInv
  <1>4. Due \subseteq 1..n /\ Due' \subseteq 1..Len(requests')
    BY <1>2 DEF Due
  <1>5. /\ IsFiniteSet(Due) /\ Cardinality(Due) \in Nat
        /\ Cardinality(Due') \in Nat /\ Cardinality(Due') <= Len(requests')
    BY <1>2, <1>4, Places
  <1>6. n + Cardinality(Due) <= 2 * max
    BY DEF RequestsInv
  <1>7. CASE Len(requests') <= max
    BY <1>1, <1>2, <1>3, <1>5, <1>7 DEF RequestsInv
  <1>8. CASE Len(requests') = n /\ Due' \subseteq Due
    <2>1. Cardinality(Due') <= Cardinality(Due)
      BY <1>5, <1>8, FS_Subset
    <2>. QED BY <1>1, <1>2, <1>3, <1>5, <1>6, <1>8, <2>1 DEF RequestsInv
  <1>9. ASSUME NEW i \in Due, Len(requests') = n + 1, Due' \subseteq Due \ {i} PROVE RequestsInv'
    <2>1. Cardinality(Due \ {i}) = Cardinality(Due) - 1 /\ IsFiniteSet(Due \ {i})
      BY <1>5, FS_RemoveElement
    <2>2. Cardinality(Due') <= Cardinality(Due) - 1
      BY <1>9, <2>1, FS_Subset
    <2>. QED BY <1>1, <1>2, <1>3, <1>5, <1>6, <1>9, <2>2 DEF RequestsInv
  <1> USE NoneApart, FieldsOfRow
  <1>10. CASE UNCHANGED requests
    BY <1>8, <1>10 DEF Due, Waiting
  <1>11. ASSUME NEW ask, Requested(ask) PROVE RequestsInv'
    BY <1>2, <1>3, <1>7, <1>11 DEF Requested, Grows, Room
  <1>12. ASSUME NEW i \in DOMAIN requests, NEW verdict, NEW data, Dealt(i, verdict, data) PROVE RequestsInv'
    BY <1>8, <1>12 DEF Dealt, Deals, Others, Due, Waiting
  <1>13. ASSUME NEW i \in DOMAIN requests, NEW outcome \in Outcomes(i), Ended(i, outcome) PROVE RequestsInv'
    <2>1. outcome # None
      BY OutcomeIs DEF RequestsInv
    <2>. QED BY <1>8, <1>13, <2>1 DEF Ended, Hushes, Others, Due, Waiting
  <1>14. ASSUME NEW i \in DOMAIN requests, NEW outcome \in Outcomes(i), NEW ask, Followed(i, outcome, ask)
         PROVE  RequestsInv'
    <2>1. outcome # None /\ requests[i].heard = None
      BY OutcomeIs DEF RequestsInv
    <2>2. i \in Due
      BY <1>14, <2>1 DEF Followed, Due, Waiting
    <2>3. Due' \subseteq Due \ {i}
      BY <1>2, <1>14, <2>1 DEF Followed, GoesOn, Due, Waiting
    <2>. QED BY <1>9, <1>14, <2>2, <2>3 DEF Followed, GoesOn
  <1>. QED BY <1>10, <1>11, <1>12, <1>13, <1>14 DEF RequestStep

-----------------------------------------------------------------------------
(* A button that moves money: one tap is handled at a time, with the code   *)
(* it asks for, and a success is the last of them.                          *)

Working(r, what, code) == {i \in DOMAIN r: r[i].heard = None /\ r[i].ask.what \in {what, code}}
\* The movements whose user was not left in doubt.
Clear(r, what, good) ==
  {i \in DOMAIN r: r[i].ask.what = what /\ r[i].did = good /\ r[i].heard \notin Doubtful}
OneTap(r, what, code, good, busy, over) ==
  /\ \A i, j \in Working(r, what, code): i = j
  /\ Working(r, what, code) # {} => busy /\ ~over
  /\ \A i \in DOMAIN r: r[i].ask.what = what /\ r[i].heard = good => over
  /\ \A i, j \in Clear(r, what, good): i = j

LEMMA TapElsewhere ==
  ASSUME RowsInv, NEW what, NEW code, NEW good \in Verdicts \ Doubtful, NEW busy, NEW over,
         OneTap(requests, what, code, good, busy, over),
         \/ UNCHANGED requests
         \/ \E ask: Requested(ask) /\ ask.what \notin {what, code}
         \/ \E i \in DOMAIN requests, verdict \in Verdicts: \E data: Dealt(i, verdict, data)
         \/ \E i \in DOMAIN requests: \E outcome \in Outcomes(i):
               Ended(i, outcome) /\ requests[i].ask.what \notin {what, code}
  PROVE  OneTap(requests', what, code, good, busy, over)
  <1> USE NoneApart, FieldsOfRow
  <1>1. CASE UNCHANGED requests
    BY <1>1
  <1>2. ASSUME NEW ask, Requested(ask), ask.what \notin {what, code}
        PROVE  OneTap(requests', what, code, good, busy, over)
    <2>1. Working(requests', what, code) = Working(requests, what, code)
      BY <1>2 DEF Requested, Grows, Working
    <2>2. Clear(requests', what, good) = Clear(requests, what, good)
      BY <1>2 DEF Requested, Grows, Clear
    <2>. QED BY <1>2, <2>1, <2>2 DEF OneTap, Requested, Grows
  <1>3. ASSUME NEW i \in DOMAIN requests, NEW verdict \in Verdicts, NEW data, Dealt(i, verdict, data)
        PROVE  OneTap(requests', what, code, good, busy, over)
    <2>1. Working(requests', what, code) = Working(requests, what, code)
      BY <1>3 DEF Dealt, Deals, Others, Working
    <2>2. \A j \in DOMAIN requests': /\ requests'[j].ask = requests[j].ask
                                     /\ requests'[j].heard = requests[j].heard
      BY <1>3 DEF Dealt, Deals, Others
    <2>3. Clear(requests', what, good) \subseteq Clear(requests, what, good) \cup {i}
      BY <1>3 DEF Dealt, Deals, Others, Clear
    <2>4. ASSUME i \in Clear(requests', what, good) PROVE i \in Working(requests, what, code)
      BY <1>3, <2>2, <2>4 DEF RowsInv, Dealt, Deals, Others, Clear, Working
    <2>5. \A j \in Clear(requests, what, good): j \in Working(requests, what, code) \/ over
      BY DEF RowsInv, OneTap, Clear, Working
    <2>6. \A j, k \in Clear(requests', what, good): j = k
      BY <2>3, <2>4, <2>5 DEF OneTap
    <2>. QED BY <1>3, <2>1, <2>2, <2>6 DEF OneTap, Dealt, Deals, Others
  <1>4. ASSUME NEW i \in DOMAIN requests, NEW outcome \in Outcomes(i), Ended(i, outcome),
               requests[i].ask.what \notin {what, code}
        PROVE  OneTap(requests', what, code, good, busy, over)
    <2>1. Working(requests', what, code) = Working(requests, what, code)
      BY <1>4 DEF Ended, Hushes, Others, Working
    <2>2. Clear(requests', what, good) = Clear(requests, what, good)
      BY <1>4 DEF Ended, Hushes, Others, Clear
    <2>. QED BY <1>4, <2>1, <2>2 DEF OneTap, Ended, Hushes, Others
  <1>. QED BY <1>1, <1>2, <1>3, <1>4

LEMMA TapTapped ==
  ASSUME RowsInv, NEW what, NEW code, NEW good \in Verdicts \ Doubtful,
         OneTap(requests, what, code, good, FALSE, FALSE), NEW ask, Requested(ask), ask.what = what
  PROVE  OneTap(requests', what, code, good, TRUE, FALSE)
  <1> USE NoneApart, FieldsOfRow
  <1>1. Working(requests', what, code) \subseteq {Len(requests) + 1}
    BY DEF Requested, Grows, Working, OneTap
  <1>2. Clear(requests', what, good) = Clear(requests, what, good)
    BY DEF Requested, Grows, Clear
  <1>. QED BY <1>1, <1>2 DEF OneTap, Requested, Grows

LEMMA TapHandled ==
  ASSUME RowsInv, NEW what, NEW code, NEW good \in Verdicts \ Doubtful, NEW busy, NEW over,
         OneTap(requests, what, code, good, busy, over), NEW busy2, NEW over2,
         NEW i \in DOMAIN requests, requests[i].ask.what \in {what, code},
         NEW outcome \in Outcomes(i), Ended(i, outcome),
         requests[i].ask.what = what /\ outcome = good => over2
  PROVE  OneTap(requests', what, code, good, busy2, over2)
  <1> USE NoneApart, FieldsOfRow
  <1>1. i \in Working(requests, what, code) /\ ~over
    BY OutcomeIs DEF Working, OneTap
  <1>2. Working(requests', what, code) = {}
    BY <1>1, OutcomeIs DEF OneTap, Ended, Hushes, Others, Working
  <1>3. Clear(requests', what, good) \subseteq Clear(requests, what, good)
    BY OutcomeIs DEF Ended, Hushes, Others, Clear
  <1>4. \A j \in DOMAIN requests': requests'[j].ask.what = what /\ requests'[j].heard = good => over2
    BY <1>1 DEF OneTap, Ended, Hushes, Others
  <1>. QED BY <1>2, <1>3, <1>4 DEF OneTap

LEMMA TapAsksForCode ==
  ASSUME RowsInv, NEW what, NEW code, NEW good \in Verdicts \ Doubtful, NEW busy, NEW over,
         OneTap(requests, what, code, good, busy, over), code # what,
         NEW i \in DOMAIN requests, requests[i].ask.what = what,
         NEW outcome \in Outcomes(i), outcome # good, NEW ask, ask.what = code, Followed(i, outcome, ask)
  PROVE  OneTap(requests', what, code, good, busy, over)
  <1> USE NoneApart, FieldsOfRow
  <1>1. i \in Working(requests, what, code) /\ ~over /\ busy
    BY OutcomeIs DEF Working, OneTap
  <1>2. Working(requests', what, code) \subseteq {Len(requests) + 1}
    BY <1>1, OutcomeIs DEF OneTap, Followed, GoesOn, Working
  <1>3. Clear(requests', what, good) \subseteq Clear(requests, what, good)
    BY OutcomeIs DEF Followed, GoesOn, Clear
  <1>4. \A j \in DOMAIN requests': requests'[j].ask.what = what /\ requests'[j].heard = good => over
    BY <1>1 DEF OneTap, Followed, GoesOn
  <1>. QED BY <1>1, <1>2, <1>3, <1>4 DEF OneTap

\* Money moves once and once more for each doubt.
LEMMA TapOnce ==
  ASSUME RowsInv, NEW what, NEW code, NEW good, NEW busy, NEW over,
         OneTap(requests, what, code, good, busy, over)
  PROVE  Repeats(what, {good})
  <1> DEFINE n == Len(requests)
             clear == Clear(requests, what, good)
             doubts == Heard(what, Doubtful)
             done == Done(what, {good})
  <1>1. n \in Nat /\ DOMAIN requests = 1..n
    BY RequestsLen DEF RowsInv
  <1>2. done \subseteq clear \cup doubts /\ clear \subseteq 1..n /\ doubts \subseteq 1..n /\ done \subseteq 1..n
    BY <1>1 DEF Done, Heard, Asks, Clear
  <1>3. /\ IsFiniteSet(doubts) /\ Cardinality(doubts) \in Nat
        /\ IsFiniteSet(done) /\ Cardinality(done) \in Nat
    BY <1>1, <1>2, Places
  <1>4. CASE clear = {}
    <2>1. Cardinality(done) <= Cardinality(doubts)
      BY <1>2, <1>3, <1>4, FS_Subset
    <2>. QED BY <1>3, <2>1 DEF Repeats
  <1>5. ASSUME NEW i \in clear PROVE Repeats(what, {good})
    <2>1. clear = {i}
      BY <1>5 DEF OneTap
    <2>2. /\ IsFiniteSet(doubts \cup {i}) /\ Cardinality(doubts \cup {i}) \in Nat
          /\ Cardinality(doubts \cup {i}) <= Cardinality(doubts) + 1
      <3>. HIDE DEF doubts
      <3>1. IsFiniteSet(doubts \cup {i})
        BY <1>3, FS_AddElement
      <3>2. Cardinality(doubts \cup {i}) = IF i \in doubts THEN Cardinality(doubts) ELSE Cardinality(doubts) + 1
        BY <1>3, FS_AddElement
      <3>. QED BY <1>3, <3>1, <3>2, FS_CardinalityType
    <2>3. Cardinality(done) <= Cardinality(doubts \cup {i})
      BY <1>2, <2>1, <2>2, FS_Subset
    <2>. QED BY <1>3, <2>2, <2>3 DEF Repeats
  <1>. QED BY <1>4, <1>5

-----------------------------------------------------------------------------
(* Which handler deals with which request.                                 *)

\* The answer of the server, and the handler, go by what was asked.
LEMMA ServedBy ==
  ASSUME NEW i \in DOMAIN requests, Served(i)
  PROVE  /\ requests[i].ask.what \in {"lookup", "transfer", "transferCode", "limit", "payout", "payoutCode",
                                      "topup", "status"}
              => (\E v \in MoneyVerdicts(i): ServeMoney(i, v)) /\ UNCHANGED <<formVars, deskVars, deviceVars>>
         /\ requests[i].ask.what \in FormAsks
              => (\E v \in FormVerdicts(i): Serve(i, v)) /\ UNCHANGED <<moneyVars, formVars, deskVars, deviceVars>>
         /\ requests[i].ask.what \in {"load", "more", "list", "thread", "refetch", "mark", "replyTo", "decide"}
              => (\E a \in DeskAnswer(i): ServeDesk(i, a)) /\ UNCHANGED <<moneyVars, formVars, deviceVars>>
         /\ requests[i].ask.what \in {"signInAs", "profile", "balance"}
              => (\E v \in DeviceVerdicts(i): Serve(i, v)) /\ UNCHANGED <<moneyVars, formVars, deskVars, deviceVars>>
  <1> DEFINE what == requests[i].ask.what
  <1>1. what \notin {"lookup", "transfer", "transferCode", "limit", "payout", "payoutCode", "topup", "status"}
          => MoneyVerdicts(i) = {}
    BY DEF MoneyVerdicts
  <1>2. what \notin {"load", "more", "list", "thread", "refetch", "mark", "replyTo", "decide"}
          => DeskAnswer(i) = {}
    BY DEF DeskAnswer
  <1>3. what \notin {"signInAs", "profile", "balance"} => DeviceVerdicts(i) = {}
    BY DEF DeviceVerdicts
  <1>4. /\ what \in {"lookup", "transfer", "transferCode", "limit", "payout", "payoutCode", "topup", "status"}
             => what \notin FormAsks \cup {"load", "more", "list", "thread", "refetch", "mark", "replyTo", "decide"}
                            \cup {"signInAs", "profile", "balance"}
        /\ what \in FormAsks
             => what \notin {"load", "more", "list", "thread", "refetch", "mark", "replyTo", "decide"}
                            \cup {"signInAs", "profile", "balance"}
        /\ what \in {"load", "more", "list", "thread", "refetch", "mark", "replyTo", "decide"}
             => what \notin {"signInAs", "profile", "balance"}
    BY DEF FormAsks, Forms
  <1>. QED BY <1>1, <1>2, <1>3, <1>4 DEF Served

MoneyHears(i, outcome) ==
  /\ requests[i].ask.what = "lookup" => HearLookup(i, outcome)
  /\ requests[i].ask.what = "transfer" => HearTransfer(i, outcome)
  /\ requests[i].ask.what = "transferCode" => HearTransferCode(i, outcome)
  /\ requests[i].ask.what = "limit" => HearLimit(i, outcome)
  /\ requests[i].ask.what = "payout" => HearPayout(i, outcome)
  /\ requests[i].ask.what = "payoutCode" => HearPayoutCode(i, outcome)
  /\ requests[i].ask.what = "topup" => HearTopup(i, outcome)
  /\ requests[i].ask.what = "status" => HearPoll(i, outcome)
LEMMA HeardByMoney ==
  ASSUME NEW i \in DOMAIN requests, NEW outcome, Goes(i, outcome),
         requests[i].ask.what \in {"lookup", "transfer", "transferCode", "limit", "payout", "payoutCode",
                                   "topup", "status"}
  PROVE  MoneyHears(i, outcome) /\ UNCHANGED <<formVars, deskVars, deviceVars>>
  <1>1. ~HearAForm(i, outcome)
    BY DEF HearAForm, HearForm, HearSignIn, HearReload, HearUpload, HearKyc, Forms
  <1>2. ~HearDesk(i, outcome)
    BY DEF HearDesk, HearLoad, HearMore, HearThread, HearReply, HearRefetch, HearMark, HearList, HearDecision
  <1>3. ~HearDevice(i, outcome)
    BY DEF HearDevice, HearLogIn, HearProfile, HearBalance
  <1>4. HearMoney(i, outcome) /\ UNCHANGED <<formVars, deskVars, deviceVars>>
    BY <1>1, <1>2, <1>3 DEF Goes
  <1>5. /\ HearLookup(i, outcome) => requests[i].ask.what = "lookup"
        /\ HearTransfer(i, outcome) => requests[i].ask.what = "transfer"
        /\ HearTransferCode(i, outcome) => requests[i].ask.what = "transferCode"
        /\ HearLimit(i, outcome) => requests[i].ask.what = "limit"
        /\ HearPayout(i, outcome) => requests[i].ask.what = "payout"
        /\ HearPayoutCode(i, outcome) => requests[i].ask.what = "payoutCode"
        /\ HearTopup(i, outcome) => requests[i].ask.what = "topup"
        /\ HearPoll(i, outcome) => requests[i].ask.what = "status"
    BY DEF HearLookup, HearTransfer, HearTransferCode, HearLimit, HearPayout, HearPayoutCode, HearTopup, HearPoll
  <1>. QED BY <1>4, <1>5 DEF HearMoney, MoneyHears

FormHears(i, outcome) ==
  /\ requests[i].ask.what \in Forms => HearForm(i, outcome)
  /\ requests[i].ask.what = "signIn" => HearSignIn(i, outcome)
  /\ requests[i].ask.what = "reload" => HearReload(i, outcome)
  /\ requests[i].ask.what = "upload" => HearUpload(i, outcome)
  /\ requests[i].ask.what = "kyc" => HearKyc(i, outcome)
LEMMA HeardByForm ==
  ASSUME NEW i \in DOMAIN requests, NEW outcome, Goes(i, outcome), requests[i].ask.what \in FormAsks
  PROVE  FormHears(i, outcome) /\ UNCHANGED <<moneyVars, deskVars, deviceVars>>
  <1> USE DEF FormAsks, Forms
  <1>1. ~HearMoney(i, outcome)
    BY DEF HearMoney, HearLookup, HearTransfer, HearTransferCode, HearLimit, HearPayout, HearPayoutCode,
           HearTopup, HearPoll
  <1>2. ~HearDesk(i, outcome)
    BY DEF HearDesk, HearLoad, HearMore, HearThread, HearReply, HearRefetch, HearMark, HearList, HearDecision
  <1>3. ~HearDevice(i, outcome)
    BY DEF HearDevice, HearLogIn, HearProfile, HearBalance
  <1>4. HearAForm(i, outcome) /\ UNCHANGED <<moneyVars, deskVars, deviceVars>>
    BY <1>1, <1>2, <1>3 DEF Goes
  <1>5. /\ HearForm(i, outcome) => requests[i].ask.what \in Forms
        /\ HearSignIn(i, outcome) => requests[i].ask.what = "signIn"
        /\ HearReload(i, outcome) => requests[i].ask.what = "reload"
        /\ HearUpload(i, outcome) => requests[i].ask.what = "upload"
        /\ HearKyc(i, outcome) => requests[i].ask.what = "kyc"
    BY DEF HearForm, HearSignIn, HearReload, HearUpload, HearKyc
  <1>. QED BY <1>4, <1>5 DEF HearAForm, FormHears

DeskHears(i, outcome) ==
  /\ requests[i].ask.what = "load" => HearLoad(i, outcome)
  /\ requests[i].ask.what = "more" => HearMore(i, outcome)
  /\ requests[i].ask.what = "thread" => HearThread(i, outcome)
  /\ requests[i].ask.what = "replyTo" => HearReply(i, outcome)
  /\ requests[i].ask.what = "refetch" => HearRefetch(i, outcome)
  /\ requests[i].ask.what = "mark" => HearMark(i, outcome)
  /\ requests[i].ask.what = "list" => HearList(i, outcome)
  /\ requests[i].ask.what = "decide" => HearDecision(i, outcome)
LEMMA HeardByDesk ==
  ASSUME NEW i \in DOMAIN requests, NEW outcome, Goes(i, outcome),
         requests[i].ask.what \in {"load", "more", "list", "thread", "refetch", "mark", "replyTo", "decide"}
  PROVE  DeskHears(i, outcome) /\ UNCHANGED <<moneyVars, formVars, deviceVars>>
  <1>1. ~HearMoney(i, outcome)
    BY DEF HearMoney, HearLookup, HearTransfer, HearTransferCode, HearLimit, HearPayout, HearPayoutCode,
           HearTopup, HearPoll
  <1>2. ~HearAForm(i, outcome)
    BY DEF HearAForm, HearForm, HearSignIn, HearReload, HearUpload, HearKyc, Forms
  <1>3. ~HearDevice(i, outcome)
    BY DEF HearDevice, HearLogIn, HearProfile, HearBalance
  <1>4. HearDesk(i, outcome) /\ UNCHANGED <<moneyVars, formVars, deviceVars>>
    BY <1>1, <1>2, <1>3 DEF Goes
  <1>5. /\ HearLoad(i, outcome) => requests[i].ask.what = "load"
        /\ HearMore(i, outcome) => requests[i].ask.what = "more"
        /\ HearThread(i, outcome) => requests[i].ask.what = "thread"
        /\ HearReply(i, outcome) => requests[i].ask.what = "replyTo"
        /\ HearRefetch(i, outcome) => requests[i].ask.what = "refetch"
        /\ HearMark(i, outcome) => requests[i].ask.what = "mark"
        /\ HearList(i, outcome) => requests[i].ask.what = "list"
        /\ HearDecision(i, outcome) => requests[i].ask.what = "decide"
    BY DEF HearLoad, HearMore, HearThread, HearReply, HearRefetch, HearMark, HearList, HearDecision
  <1>. QED BY <1>4, <1>5 DEF HearDesk, DeskHears

DeviceHears(i, outcome) ==
  /\ requests[i].ask.what = "signInAs" => HearLogIn(i, outcome)
  /\ requests[i].ask.what = "profile" => HearProfile(i, outcome)
  /\ requests[i].ask.what = "balance" => HearBalance(i, outcome)
LEMMA HeardByDevice ==
  ASSUME NEW i \in DOMAIN requests, NEW outcome, Goes(i, outcome),
         requests[i].ask.what \in {"signInAs", "profile", "balance"}
  PROVE  DeviceHears(i, outcome) /\ UNCHANGED <<moneyVars, formVars, deskVars>>
  <1>1. ~HearMoney(i, outcome)
    BY DEF HearMoney, HearLookup, HearTransfer, HearTransferCode, HearLimit, HearPayout, HearPayoutCode,
           HearTopup, HearPoll
  <1>2. ~HearAForm(i, outcome)
    BY DEF HearAForm, HearForm, HearSignIn, HearReload, HearUpload, HearKyc, Forms
  <1>3. ~HearDesk(i, outcome)
    BY DEF HearDesk, HearLoad, HearMore, HearThread, HearReply, HearRefetch, HearMark, HearList, HearDecision
  <1>4. HearDevice(i, outcome) /\ UNCHANGED <<moneyVars, formVars, deskVars>>
    BY <1>1, <1>2, <1>3 DEF Goes
  <1>5. /\ HearLogIn(i, outcome) => requests[i].ask.what = "signInAs"
        /\ HearProfile(i, outcome) => requests[i].ask.what = "profile"
        /\ HearBalance(i, outcome) => requests[i].ask.what = "balance"
    BY DEF HearLogIn, HearProfile, HearBalance
  <1>. QED BY <1>4, <1>5 DEF HearDevice, DeviceHears

\* The taps of a screen.
LEMMA TappedOn ==
  ASSUME Tap
  PROVE  /\ screen = "transfer" => TransferTaps /\ UNCHANGED <<formVars, deskVars, deviceVars>>
         /\ screen = "payout" => PayoutTaps /\ UNCHANGED <<formVars, deskVars, deviceVars>>
         /\ screen = "topup" => TopupTaps /\ UNCHANGED <<formVars, deskVars, deviceVars>>
         /\ screen = "kycCapture" => KycTaps /\ UNCHANGED <<moneyVars, deskVars, deviceVars>>
         /\ screen \in Forms => FormTaps /\ UNCHANGED <<moneyVars, deskVars, deviceVars>>
         /\ screen = "tickets" => PageTaps /\ UNCHANGED <<moneyVars, formVars, deviceVars>>
         /\ screen = "threads" => ThreadTaps /\ UNCHANGED <<moneyVars, formVars, deviceVars>>
         /\ screen = "queue" => ListTaps /\ UNCHANGED <<moneyVars, formVars, deviceVars>>
         /\ screen = "home" => HomeTaps /\ UNCHANGED <<moneyVars, formVars, deskVars>>
         /\ screen = "lock" => LockTaps /\ UNCHANGED <<moneyVars, formVars, deskVars>>
  BY DEF Tap, Forms

\* The kinds of request a screen makes.
LEMMA Kinds ==
  /\ screen = "transfer" => KindsOf(screen) = {"lookup", "transfer", "transferCode"}
  /\ screen = "payout" => KindsOf(screen) = {"limit", "payout", "payoutCode"}
  /\ screen = "topup" => KindsOf(screen) = {"topup", "status"}
  /\ screen \in Forms => KindsOf(screen) = {screen, "signIn", "reload"}
  /\ screen = "kycCapture" => KindsOf(screen) = {"upload", "kyc"}
  /\ screen \in {"tickets", "threads"} => KindsOf(screen) = {"load", "more", "thread", "replyTo", "refetch", "mark"}
  /\ screen = "queue" => KindsOf(screen) = {"list", "decide"}
  /\ screen = "home" => KindsOf(screen) = {"signInAs", "profile", "balance"}
  /\ screen = "lock" => KindsOf(screen) = {}
  BY DEF KindsOf, Forms

\* What each step does to the requests of one kind.
LEMMA WhenMade ==
  ASSUME RowsInv, NEW ask, Requested(ask), NEW what,
         NEW n, n = Len(requests) + 1
  PROVE  /\ Asks(what) \subseteq DOMAIN requests /\ n \notin DOMAIN requests
         /\ Asks(what)' = IF what = ask.what THEN Asks(what) \cup {n} ELSE Asks(what)
         /\ AwaitedAsks(what)' =
              IF what = ask.what THEN AwaitedAsks(what) \cup {n} ELSE AwaitedAsks(what)
         /\ \A j \in DOMAIN requests: requests'[j] = requests[j] /\ Of(j)' = Of(j)
         /\ Of(n)' = ask.of
         /\ requests'[n].did = None /\ requests'[n].heard = None
  <1>1. /\ n \in Nat /\ DOMAIN requests = 1..(n - 1) /\ DOMAIN requests' = 1..n
        /\ \A j \in DOMAIN requests: requests'[j] = requests[j]
        /\ requests'[n] = Row(ask, None, None, None)
    BY DEF Requested, Grows
  <1>2. /\ requests'[n].ask = ask /\ requests'[n].did = None /\ requests'[n].heard = None
        /\ DOMAIN requests' = DOMAIN requests \cup {n} /\ n \notin DOMAIN requests
    BY <1>1, FieldsOfRow
  <1>3. \A j \in DOMAIN requests: Of(j)' = Of(j)
    BY <1>1 DEF Of
  <1>4. Of(n)' = ask.of
    BY <1>2 DEF Of
  <1>5. Asks(what)' = IF what = ask.what THEN Asks(what) \cup {n} ELSE Asks(what)
    BY <1>1, <1>2 DEF Asks
  <1>6. AwaitedAsks(what)' = IF what = ask.what THEN AwaitedAsks(what) \cup {n} ELSE AwaitedAsks(what)
    BY <1>1, <1>2 DEF Asks, AwaitedAsks, Waiting
  <1>. QED BY <1>1, <1>2, <1>3, <1>4, <1>5, <1>6 DEF Asks

LEMMA WhenDealt ==
  ASSUME RowsInv, NEW i \in DOMAIN requests, NEW verdict, NEW data, Dealt(i, verdict, data), NEW what
  PROVE  /\ Asks(what)' = Asks(what) /\ Asks(what) \subseteq DOMAIN requests
         /\ AwaitedAsks(what)' = AwaitedAsks(what)
         /\ \A j \in DOMAIN requests: Of(j)' = Of(j)
         /\ \A j \in DOMAIN requests \ {i}: requests'[j] = requests[j]
         /\ requests[i].did = None /\ requests'[i].did = verdict /\ requests'[i].data = data
         /\ requests'[i].heard = requests[i].heard
  BY FieldsOfRow DEF Dealt, Deals, Others, Asks, AwaitedAsks, Waiting, Of

LEMMA WhenEnded ==
  ASSUME RowsInv, NEW i \in DOMAIN requests, NEW outcome \in Outcomes(i), Ended(i, outcome), NEW what
  PROVE  /\ Asks(what)' = Asks(what) /\ Asks(what) \subseteq DOMAIN requests
         /\ AwaitedAsks(what)' = AwaitedAsks(what) \ {i}
         /\ \A j \in DOMAIN requests: Of(j)' = Of(j)
         /\ \A j \in DOMAIN requests \ {i}: requests'[j] = requests[j]
         /\ requests'[i].did = requests[i].did /\ requests'[i].data = requests[i].data
         /\ requests[i].heard = None /\ requests'[i].heard = outcome
  BY FieldsOfRow, OutcomeIs DEF Ended, Hushes, Others, Asks, AwaitedAsks, Waiting, Of

LEMMA WhenFollowed ==
  ASSUME RowsInv, NEW i \in DOMAIN requests, NEW outcome \in Outcomes(i), NEW ask, Followed(i, outcome, ask), NEW what,
         NEW n, n = Len(requests) + 1
  PROVE  /\ Asks(what) \subseteq DOMAIN requests /\ n \notin DOMAIN requests
         /\ Asks(what)' = IF what = ask.what THEN Asks(what) \cup {n} ELSE Asks(what)
         /\ AwaitedAsks(what)' = IF what = ask.what THEN (AwaitedAsks(what) \ {i}) \cup {n}
                                 ELSE AwaitedAsks(what) \ {i}
         /\ \A j \in DOMAIN requests: Of(j)' = Of(j)
         /\ Of(n)' = ask.of
         /\ \A j \in DOMAIN requests \ {i}: requests'[j] = requests[j]
         /\ requests'[i].did = requests[i].did /\ requests'[i].data = requests[i].data
         /\ requests[i].heard = None /\ requests'[i].heard = outcome
         /\ requests'[n].did = None /\ requests'[n].heard = None
  <1>1. /\ n \in Nat /\ DOMAIN requests = 1..(n - 1) /\ DOMAIN requests' = 1..n
        /\ \A j \in DOMAIN requests \ {i}: requests'[j] = requests[j]
        /\ requests'[i] = Row(requests[i].ask, requests[i].did, requests[i].data, outcome)
        /\ requests'[n] = Row(ask, None, None, None)
    BY DEF Followed, GoesOn
  <1>2. /\ requests'[n].ask = ask /\ requests'[n].did = None /\ requests'[n].heard = None
        /\ DOMAIN requests' = DOMAIN requests \cup {n} /\ n \notin DOMAIN requests
        /\ requests'[i].ask = requests[i].ask /\ requests'[i].did = requests[i].did
        /\ requests'[i].data = requests[i].data /\ requests'[i].heard = outcome
        /\ requests[i].heard = None /\ outcome # None
    BY <1>1, FieldsOfRow, OutcomeIs
  <1>3. \A j \in DOMAIN requests: requests'[j].ask = requests[j].ask /\ Of(j)' = Of(j)
    BY <1>1, <1>2 DEF Of
  <1>4. Of(n)' = ask.of
    BY <1>2 DEF Of
  <1>5. Asks(what)' = IF what = ask.what THEN Asks(what) \cup {n} ELSE Asks(what)
    BY <1>2, <1>3 DEF Asks
  <1>6. AwaitedAsks(what)' = IF what = ask.what THEN (AwaitedAsks(what) \ {i}) \cup {n}
                             ELSE AwaitedAsks(what) \ {i}
    BY <1>1, <1>2, <1>3 DEF Asks, AwaitedAsks, Waiting
  <1>. QED BY <1>1, <1>2, <1>3, <1>4, <1>5, <1>6 DEF Asks

LEMMA WhenKept ==
  ASSUME UNCHANGED requests, NEW what
  PROVE  /\ Asks(what)' = Asks(what) /\ AwaitedAsks(what)' = AwaitedAsks(what)
         /\ \A j: Of(j)' = Of(j)
         /\ Asks(what) \subseteq DOMAIN requests
  BY DEF Asks, AwaitedAsks, Waiting, Of

-----------------------------------------------------------------------------
(* TransferScreen. *)

TransferForm ==
  [phone: Numbers \cup {None}, card: Numbers \cup {None, "unknown"}, checking: BOOLEAN,
   state: {"form", "sent", "offline", "error"},
   button: [submitting: BOOLEAN, requesting: BOOLEAN, needsOtp: BOOLEAN], raced: BOOLEAN]
\* Unless the number was edited under a lookup, every lookup on its way and the
\* card are about the number in the field.
CardIsOfField ==
  transfer.raced \/ /\ \A i \in AwaitedAsks("lookup"): Of(i) = transfer.phone
                    /\ transfer.card \in Numbers => transfer.card = transfer.phone
TransferOnce == OneTap(requests, "transfer", "transferCode", "done", transfer.button.submitting, transfer.state = "sent")
TransferPays == \A i \in Asks("transfer"): transfer.raced \/ Of(i).to = Of(i).shown
TransferInv ==
  /\ transfer \in TransferForm
  /\ \A i \in Asks("lookup"): Of(i) \in Numbers
  /\ CardIsOfField /\ TransferPays /\ TransferOnce
  /\ transfer.state = "sent" => Done("transfer", {"done"}) # {}

\* What the server and the handlers leave of the requests already made.
LEMMA OldRows ==
  ASSUME RowsInv, RequestStep
  PROVE  /\ DOMAIN requests \subseteq DOMAIN requests'
         /\ \A j \in DOMAIN requests:
              /\ requests'[j].ask = requests[j].ask
              /\ requests[j].did # None => requests'[j].did = requests[j].did /\ requests'[j].data = requests[j].data
              /\ requests[j].heard # None => requests'[j].heard = requests[j].heard
  <1> USE NoneApart, FieldsOfRow
  <1>1. CASE UNCHANGED requests
    BY <1>1
  <1>2. ASSUME NEW ask, Requested(ask)
        PROVE /\ DOMAIN requests \subseteq DOMAIN requests'
              /\ \A j \in DOMAIN requests: requests'[j] = requests[j]
    BY <1>2 DEF Requested, Grows
  <1>3. ASSUME NEW i \in DOMAIN requests, NEW verdict, NEW data, Dealt(i, verdict, data)
        PROVE /\ DOMAIN requests \subseteq DOMAIN requests'
              /\ \A j \in DOMAIN requests: j # i => requests'[j] = requests[j]
              /\ requests'[i].ask = requests[i].ask /\ requests[i].did = None /\ requests'[i].heard = requests[i].heard
    BY <1>3 DEF Dealt, Deals, Others
  <1>4. ASSUME NEW i \in DOMAIN requests, NEW outcome \in Outcomes(i),
               Ended(i, outcome) \/ \E ask: Followed(i, outcome, ask)
        PROVE /\ DOMAIN requests \subseteq DOMAIN requests'
              /\ \A j \in DOMAIN requests: j # i => requests'[j] = requests[j]
              /\ requests'[i].ask = requests[i].ask /\ requests[i].heard = None
              /\ requests'[i].did = requests[i].did /\ requests'[i].data = requests[i].data
    BY <1>4, OutcomeIs DEF Ended, Hushes, Others, Followed, GoesOn
  <1>5. ASSUME NEW i \in DOMAIN requests, NEW verdict, NEW data, Dealt(i, verdict, data), NEW j \in DOMAIN requests
        PROVE  /\ requests'[j].ask = requests[j].ask
               /\ requests[j].did # None => requests'[j].did = requests[j].did /\ requests'[j].data = requests[j].data
               /\ requests[j].heard # None => requests'[j].heard = requests[j].heard
    BY <1>3, <1>5
  <1>6. ASSUME NEW i \in DOMAIN requests, NEW outcome \in Outcomes(i),
               Ended(i, outcome) \/ \E ask: Followed(i, outcome, ask), NEW j \in DOMAIN requests
        PROVE  /\ requests'[j].ask = requests[j].ask
               /\ requests'[j].did = requests[j].did /\ requests'[j].data = requests[j].data
               /\ requests[j].heard # None => requests'[j].heard = requests[j].heard
    BY <1>4, <1>6
  <1>. QED BY <1>1, <1>2, <1>3, <1>4, <1>5, <1>6 DEF RequestStep

\* Something done stays done.
LEMMA DoneStays ==
  ASSUME RowsInv, RequestStep, NEW what, NEW verdict \in Verdicts
  PROVE  Done(what, {verdict}) \subseteq Done(what, {verdict})'
  BY OldRows, NoneApart DEF Done, Asks

\* A handler is given "done" only by the server.
LEMMA HeardIsDone ==
  ASSUME RowsInv, NEW i \in DOMAIN requests, NEW outcome \in Outcomes(i), outcome \notin Doubtful
  PROVE  requests[i].did = outcome /\ i \in Done(requests[i].ask.what, {outcome})
  BY OutcomeIs DEF Done, Asks

LEMMA TransferTapStep ==
  ASSUME RowsInv, screen = "transfer", TransferInv, TransferTaps, UNCHANGED screen
  PROVE  RequestStep /\ TransferInv' /\ UNCHANGED <<payout, topup, deposits>>
  <1>1. RequestsAre(requests) /\ KindsOf(screen) = {"lookup", "transfer", "transferCode"}
    BY Kinds DEF RowsInv
  <1>2. "done" \in Verdicts /\ "done" \in Verdicts \ Doubtful
    BY DEF Verdicts, Doubtful
  <1>3. ASSUME NEW n \in Numbers, Type(n) PROVE RequestStep /\ TransferInv' /\ UNCHANGED <<payout, topup, deposits>>
    <2>1. UNCHANGED requests /\ RequestStep
      BY <1>1, <1>3 DEF Type, RequestStep
    <2>2. transfer' \in TransferForm /\ transfer'.state = transfer.state /\ transfer'.button = transfer.button
          /\ transfer'.card = None /\ (transfer'.raced <=> transfer.raced \/ AwaitedAsks("lookup") # {})
          /\ transfer'.phone = n
      BY <1>3 DEF Type, TransferInv, TransferForm
    <2>3. CardIsOfField'
      BY <2>1, <2>2, WhenKept, MoneyScreensAssumption DEF CardIsOfField
    <2>4. TransferOnce'
      BY <1>2, <2>1, <2>2, TapElsewhere DEF TransferOnce, TransferInv
    <2>5. Done("transfer", {"done"})' = Done("transfer", {"done"})
      BY <2>1 DEF Done, Asks
    <2>. QED BY <1>3, <2>1, <2>2, <2>3, <2>4, <2>5, WhenKept DEF TransferInv, TransferPays, Type
  <1>4. CASE LeaveField
    <2> DEFINE ask == Ask("lookup", transfer.phone)
    <2>1. Requested(ask) /\ RequestStep /\ ask.what = "lookup" /\ ask.of = transfer.phone
      BY <1>1, <1>4, SendGrows DEF LeaveField, RequestStep, Requested, Ask
    <2>2. transfer' \in TransferForm /\ transfer'.state = transfer.state /\ transfer'.button = transfer.button
          /\ transfer'.card = transfer.card /\ transfer'.raced = transfer.raced
          /\ transfer'.phone = transfer.phone /\ transfer.phone \in Numbers
      BY <1>4 DEF LeaveField, TransferInv, TransferForm
    <2> HIDE DEF ask
    <2> PICK n: n = Len(requests) + 1
      OBVIOUS
    <2>a. /\ Asks("lookup")' = Asks("lookup") \cup {n} /\ Asks("lookup") \subseteq DOMAIN requests
          /\ AwaitedAsks("lookup")' = AwaitedAsks("lookup") \cup {n} /\ AwaitedAsks("lookup") \subseteq DOMAIN requests
          /\ \A j \in DOMAIN requests: Of(j)' = Of(j)
          /\ Of(n)' = transfer.phone
      BY <2>1, WhenMade DEF AwaitedAsks
    <2>b. Asks("transfer")' = Asks("transfer") /\ Asks("transfer") \subseteq DOMAIN requests
      BY <2>1, WhenMade
    <2>3. CardIsOfField'
      BY <2>2, <2>a DEF CardIsOfField, TransferInv
    <2>4. TransferOnce'
      BY <1>2, <2>1, <2>2, TapElsewhere DEF TransferOnce, TransferInv
    <2>5. \A i \in Asks("lookup")': Of(i)' \in Numbers
      BY <2>2, <2>a DEF TransferInv
    <2>6. TransferPays'
      BY <2>2, <2>a, <2>b DEF TransferInv, TransferPays
    <2>7. Done("transfer", {"done"}) \subseteq Done("transfer", {"done"})'
      BY <1>2, <2>1, DoneStays
    <2>. QED BY <1>4, <2>1, <2>2, <2>3, <2>4, <2>5, <2>6, <2>7 DEF TransferInv, LeaveField
  <1>5. CASE TapTransfer
    <2> DEFINE ask == Ask("transfer", [to |-> transfer.phone, shown |-> transfer.card])
    <2>1. Requested(ask) /\ RequestStep /\ ask.what = "transfer" /\ ask.of.to = transfer.phone /\ ask.of.shown = transfer.card
      BY <1>1, <1>5, SendGrows DEF TapTransfer, RequestStep, Requested, Ask
    <2>2. transfer' \in TransferForm /\ transfer'.state = transfer.state /\ transfer'.button.submitting = TRUE
          /\ transfer'.card = transfer.card /\ transfer'.raced = transfer.raced
          /\ transfer'.phone = transfer.phone /\ transfer.card \in Numbers
          /\ transfer.state # "sent" /\ transfer.button.submitting = FALSE
      BY <1>5 DEF TapTransfer, TransferInv, TransferForm, Pressable, Pressed, Ready
    <2> HIDE DEF ask
    <2> PICK n: n = Len(requests) + 1
      OBVIOUS
    <2>a. /\ Asks("lookup")' = Asks("lookup") /\ Asks("lookup") \subseteq DOMAIN requests
          /\ AwaitedAsks("lookup")' = AwaitedAsks("lookup") /\ AwaitedAsks("lookup") \subseteq DOMAIN requests
          /\ \A j \in DOMAIN requests: Of(j)' = Of(j)
          /\ Of(n)' = ask.of
      BY <2>1, WhenMade DEF AwaitedAsks
    <2>b. Asks("transfer")' = Asks("transfer") \cup {n} /\ Asks("transfer") \subseteq DOMAIN requests
      BY <2>1, WhenMade
    <2>3. CardIsOfField'
      BY <2>2, <2>a DEF CardIsOfField, TransferInv
    <2>4. TransferOnce'
      <3>1. OneTap(requests, "transfer", "transferCode", "done", FALSE, FALSE)
        BY <2>2 DEF TransferOnce, TransferInv
      <3>2. OneTap(requests', "transfer", "transferCode", "done", TRUE, FALSE)
        BY <1>2, <2>1, <3>1, TapTapped
      <3>. QED BY <2>2, <3>2 DEF TransferOnce
    <2>5. \A i \in Asks("lookup")': Of(i)' \in Numbers
      BY <2>a DEF TransferInv
    <2>6. TransferPays'
      BY <2>1, <2>2, <2>a, <2>b DEF TransferInv, TransferPays, CardIsOfField
    <2>. QED BY <1>5, <2>1, <2>2, <2>3, <2>4, <2>5, <2>6 DEF TransferInv, TapTransfer
  <1>6. CASE RetryTransfer
    <2>1. UNCHANGED requests /\ RequestStep
      BY <1>1, <1>6 DEF RetryTransfer, RequestStep
    <2>2. transfer' \in TransferForm /\ transfer'.button = transfer.button
          /\ transfer'.card = transfer.card /\ transfer'.raced = transfer.raced
          /\ transfer'.phone = transfer.phone
          /\ transfer.state # "sent" /\ transfer'.state # "sent"
      BY <1>6 DEF RetryTransfer, TransferInv, TransferForm
    <2>3. TransferOnce'
      BY <1>2, <2>1, <2>2, TapElsewhere DEF TransferOnce, TransferInv
    <2>. QED BY <1>6, <2>1, <2>2, <2>3, WhenKept DEF TransferInv, TransferPays, CardIsOfField, RetryTransfer
  <1>. QED BY <1>3, <1>4, <1>5, <1>6 DEF TransferTaps

LEMMA ServedRow ==
  ASSUME RowsInv, UNCHANGED screen, NEW i \in DOMAIN requests, NEW verdict \in Verdicts, Serve(i, verdict)
  PROVE  RequestStep /\ Dealt(i, verdict, requests[i].data)
  BY ServeDeals DEF RowsInv, RequestStep, Dealt

LEMMA EndedRow ==
  ASSUME RowsInv, UNCHANGED screen, NEW i \in DOMAIN requests, NEW outcome \in Outcomes(i), End(i, outcome)
  PROVE  RequestStep /\ Ended(i, outcome)
  BY EndHushes DEF RowsInv, RequestStep, Ended

LEMMA FollowedRow ==
  ASSUME RowsInv, UNCHANGED screen, NEW i \in DOMAIN requests, NEW outcome \in Outcomes(i),
         NEW ask, EndAnd(i, outcome, <<ask>>),
         requests[i].ask.what \notin Afters, ask.what \in KindsOf(screen) \cap Afters
  PROVE  RequestStep /\ Followed(i, outcome, ask)
  BY EndAndFollows DEF RowsInv, RequestStep, Followed

\* The server answers a request of this screen.
LEMMA TransferServed ==
  ASSUME RowsInv, screen = "transfer", TransferInv, NEW i \in DOMAIN requests, UNCHANGED screen,
         NEW verdict \in MoneyVerdicts(i), ServeMoney(i, verdict)
  PROVE  RequestStep /\ TransferInv' /\ UNCHANGED <<payout, topup, deposits>>
  <1>1. requests[i].ask.what \in {"lookup", "transfer", "transferCode"}
    BY Kinds DEF RowsInv
  <1>2. verdict \in Verdicts /\ verdict # "begun"
    BY <1>1 DEF MoneyVerdicts, Verdicts
  <1>3. RequestStep /\ Dealt(i, verdict, requests[i].data) /\ UNCHANGED <<transfer, payout, topup, deposits>>
    BY <1>2, ServedRow DEF ServeMoney
  <1>4. "done" \in Verdicts /\ "done" \in Verdicts \ Doubtful
    BY DEF Verdicts, Doubtful
  <1>5. /\ Asks("lookup")' = Asks("lookup") /\ Asks("lookup") \subseteq DOMAIN requests
        /\ Asks("transfer")' = Asks("transfer") /\ Asks("transfer") \subseteq DOMAIN requests
        /\ AwaitedAsks("lookup")' = AwaitedAsks("lookup") /\ AwaitedAsks("lookup") \subseteq DOMAIN requests
        /\ \A j \in DOMAIN requests: Of(j)' = Of(j)
    BY <1>3, WhenDealt DEF AwaitedAsks
  <1>6. TransferOnce'
    BY <1>2, <1>3, <1>4, TapElsewhere DEF TransferOnce, TransferInv
  <1>7. Done("transfer", {"done"}) \subseteq Done("transfer", {"done"})'
    BY <1>3, <1>4, DoneStays
  <1>. QED BY <1>3, <1>5, <1>6, <1>7 DEF TransferInv, CardIsOfField, TransferPays

\* An answer comes, or does not.
LEMMA TransferHeard ==
  ASSUME RowsInv, screen = "transfer", TransferInv, NEW i \in DOMAIN requests, UNCHANGED screen,
         NEW outcome \in Outcomes(i), MoneyHears(i, outcome)
  PROVE  RequestStep /\ TransferInv' /\ UNCHANGED <<payout, topup, deposits>>
  <1>1. requests[i].ask.what \in {"lookup", "transfer", "transferCode"}
        /\ KindsOf(screen) = {"lookup", "transfer", "transferCode"}
    BY Kinds DEF RowsInv
  <1>2. "done" \in Verdicts /\ "done" \in Verdicts \ Doubtful
    BY DEF Verdicts, Doubtful
  <1>a. Asks("lookup") \subseteq DOMAIN requests /\ AwaitedAsks("lookup") \subseteq DOMAIN requests
        /\ Asks("transfer") \subseteq DOMAIN requests
    BY DEF Asks, AwaitedAsks
  <1>b. ASSUME RequestStep PROVE Done("transfer", {"done"}) \subseteq Done("transfer", {"done"})'
    BY <1>b, <1>2, DoneStays
  <1>3. CASE requests[i].ask.what = "lookup"
    <2>1. HearLookup(i, outcome)
      BY <1>3 DEF MoneyHears
    <2>2. RequestStep /\ Ended(i, outcome) /\ UNCHANGED <<payout, topup, deposits>>
      BY <2>1, EndedRow DEF HearLookup
    <2>3. /\ Asks("lookup")' = Asks("lookup") /\ Asks("transfer")' = Asks("transfer")
          /\ AwaitedAsks("lookup")' = AwaitedAsks("lookup") \ {i}
          /\ \A j \in DOMAIN requests: Of(j)' = Of(j)
      BY <2>2, WhenEnded
    <2>4. i \in AwaitedAsks("lookup") /\ i \in Asks("lookup") /\ Of(i) \in Numbers
      BY <1>3, OutcomeIs DEF AwaitedAsks, Asks, Waiting, TransferInv
    <2>5. /\ transfer' \in TransferForm /\ transfer'.state = transfer.state /\ transfer'.button = transfer.button
          /\ transfer'.raced = transfer.raced /\ transfer'.phone = transfer.phone
          /\ transfer'.card \in Numbers => transfer'.card = Of(i)
      BY <2>1, <2>4, MoneyScreensAssumption DEF HearLookup, TransferInv, TransferForm
    <2>6. CardIsOfField'
      BY <2>3, <2>4, <2>5, <1>a DEF CardIsOfField, TransferInv
    <2>7. TransferOnce'
      BY <1>2, <1>3, <2>2, <2>5, TapElsewhere DEF TransferOnce, TransferInv
    <2>. QED BY <1>a, <1>b, <2>2, <2>3, <2>5, <2>6, <2>7 DEF TransferInv, TransferPays
  <1>4. ASSUME requests[i].ask.what \in {"transfer", "transferCode"}, RequestStep, Ended(i, outcome),
               transfer' \in TransferForm, transfer'.phone = transfer.phone, transfer'.raced = transfer.raced,
               transfer'.card = transfer.card,
               requests[i].ask.what = "transfer" /\ outcome = "done" => transfer'.state = "sent",
               transfer'.state = "sent" => Done("transfer", {"done"}) # {}
        PROVE  TransferInv'
    <2>1. /\ Asks("lookup")' = Asks("lookup") /\ Asks("transfer")' = Asks("transfer")
          /\ AwaitedAsks("lookup")' = AwaitedAsks("lookup") \ {i}
          /\ \A j \in DOMAIN requests: Of(j)' = Of(j)
      BY <1>4, WhenEnded
    <2>2. CardIsOfField'
      BY <2>1, <1>4, <1>a DEF CardIsOfField, TransferInv
    <2>3. TransferOnce'
      BY <1>2, <1>4, TapHandled DEF TransferOnce, TransferInv
    <2>. QED BY <1>a, <1>b, <1>4, <2>1, <2>2, <2>3 DEF TransferInv, TransferPays
  <1>5. CASE requests[i].ask.what = "transfer" /\ AsksForCode(transfer.button, outcome)
    <2> DEFINE ask == Ask("transferCode", None)
    <2>1. HearTransfer(i, outcome)
      BY <1>5 DEF MoneyHears
    <2>2. ask.what = "transferCode" /\ ask.what \in KindsOf(screen) \cap Afters /\ requests[i].ask.what \notin Afters
      BY <1>1, <1>5 DEF Ask, Afters
    <2>3. RequestStep /\ Followed(i, outcome, ask) /\ UNCHANGED <<payout, topup, deposits>>
      BY <1>5, <2>1, <2>2, FollowedRow DEF HearTransfer
    <2>4. /\ Asks("lookup")' = Asks("lookup") /\ Asks("transfer")' = Asks("transfer")
          /\ AwaitedAsks("lookup")' = AwaitedAsks("lookup") \ {i}
          /\ \A j \in DOMAIN requests: Of(j)' = Of(j)
      <3>1. \E n: n = Len(requests) + 1
        OBVIOUS
      <3>. HIDE DEF ask
      <3>. QED BY <2>2, <2>3, <3>1, WhenFollowed
    <2>5. /\ transfer' \in TransferForm /\ transfer'.state = transfer.state
          /\ transfer'.button.submitting = transfer.button.submitting
          /\ transfer'.raced = transfer.raced /\ transfer'.phone = transfer.phone /\ transfer'.card = transfer.card
      <3>1. transfer' = [transfer EXCEPT !.button.requesting = TRUE]
        BY <1>5, <2>1 DEF HearTransfer
      <3>2. transfer.button \in [submitting: BOOLEAN, requesting: BOOLEAN, needsOtp: BOOLEAN]
        BY DEF TransferInv, TransferForm
      <3>. QED BY <3>1, <3>2 DEF TransferInv, TransferForm
    <2>6. CardIsOfField'
      BY <2>4, <2>5, <1>a DEF CardIsOfField, TransferInv
    <2>7. TransferOnce'
      <3>1. outcome # "done" /\ "transferCode" # "transfer"
        BY <1>5 DEF AsksForCode
      <3>2. OneTap(requests', "transfer", "transferCode", "done", transfer.button.submitting, transfer.state = "sent")
        <4>. HIDE DEF ask
        <4>. QED BY <1>2, <1>5, <2>2, <2>3, <3>1, TapAsksForCode DEF TransferOnce, TransferInv
      <3>. QED BY <2>5, <3>2 DEF TransferOnce
    <2>. QED BY <1>a, <1>b, <2>3, <2>4, <2>5, <2>6, <2>7 DEF TransferInv, TransferPays
  <1>6. CASE requests[i].ask.what = "transfer" /\ ~AsksForCode(transfer.button, outcome)
    <2>1. HearTransfer(i, outcome)
      BY <1>6 DEF MoneyHears
    <2>2. RequestStep /\ Ended(i, outcome) /\ UNCHANGED <<payout, topup, deposits>>
      BY <1>6, <2>1, EndedRow DEF HearTransfer
    <2>3. /\ transfer' \in TransferForm /\ transfer'.phone = transfer.phone /\ transfer'.raced = transfer.raced
          /\ transfer'.card = transfer.card /\ transfer'.state = TransferShows(outcome)
      <3>1. transfer' = [transfer EXCEPT !.state = TransferShows(outcome), !.button = Released(@)]
        BY <1>6, <2>1 DEF HearTransfer
      <3>2. TransferShows(outcome) \in {"form", "sent", "offline", "error"}
        BY DEF TransferShows
      <3>3. Released(transfer.button) \in [submitting: BOOLEAN, requesting: BOOLEAN, needsOtp: BOOLEAN]
        BY DEF TransferInv, TransferForm, Released
      <3>. QED BY <3>1, <3>2, <3>3 DEF TransferInv, TransferForm
    <2>4. outcome = "done" => Done("transfer", {"done"}) # {}
      BY <1>2, <1>6, HeardIsDone
    <2>. QED BY <1>4, <1>6, <2>2, <2>3, <2>4 DEF TransferShows
  <1>7. CASE requests[i].ask.what = "transferCode"
    <2>1. HearTransferCode(i, outcome)
      BY <1>7 DEF MoneyHears
    <2>2. RequestStep /\ Ended(i, outcome) /\ UNCHANGED <<payout, topup, deposits>>
      BY <1>7, <2>1, EndedRow DEF HearTransferCode
    <2>3. /\ transfer' \in TransferForm /\ transfer'.phone = transfer.phone /\ transfer'.raced = transfer.raced
          /\ transfer'.card = transfer.card /\ transfer'.state = transfer.state
      BY <1>7, <2>1 DEF HearTransferCode, TransferInv, TransferForm, AfterCode, Released
    <2>. QED BY <1>4, <1>7, <2>2, <2>3 DEF TransferInv
  <1>. QED BY <1>1, <1>3, <1>5, <1>6, <1>7

LEMMA TransferStep ==
  ASSUME RowsInv, screen = "transfer", TransferInv, ScreensNext
  PROVE  RequestStep /\ TransferInv' /\ UNCHANGED <<payout, topup, deposits, formVars, deskVars, deviceVars>>
  <1>1. CASE Tap
    BY <1>1, TappedOn, TransferTapStep DEF ScreensNext
  <1>2. ASSUME NEW i \in DOMAIN requests, Served(i) \/ Hears(i)
        PROVE  RequestStep /\ TransferInv' /\ UNCHANGED <<payout, topup, deposits, formVars, deskVars, deviceVars>>
    <2>1. requests[i].ask.what \in {"lookup", "transfer", "transferCode"}
      BY Kinds DEF RowsInv
    <2>2. CASE Served(i)
      BY <2>1, <2>2, ServedBy, TransferServed DEF ScreensNext
    <2>3. CASE Hears(i)
      BY <2>1, <2>3, HeardByMoney, TransferHeard DEF ScreensNext, Hears
    <2>. QED BY <1>2, <2>2, <2>3
  <1>. QED BY <1>1, <1>2 DEF ScreensNext

-----------------------------------------------------------------------------
(* PayoutScreen. *)

PayoutForm ==
  [state: {"form", "completed", "failed", "unconfirmed"}, limitKnown: BOOLEAN,
   button: [submitting: BOOLEAN, requesting: BOOLEAN, needsOtp: BOOLEAN]]
PayoutOnce == OneTap(requests, "payout", "payoutCode", "completed", payout.button.submitting, payout.state = "completed")
\* The payout on its way is the last one; one that is shown as refused was
\* not paid and will not be, unless a gateway answered.
LastIsAwaited == \A i \in AwaitedAsks("payout"): i \in Latest("payout")
FailedIsOver ==
  payout.state = "failed" =>
    \A i \in Latest("payout"): requests[i].heard = "gateway" \/ requests[i].did \notin {None, "completed"}
PayoutInv ==
  /\ payout \in PayoutForm
  /\ PayoutOnce /\ LastIsAwaited /\ FailedIsOver
  /\ payout.state = "completed" => Done("payout", {"completed"}) # {}

\* While no payout is asked for, the last one stays the last.
LEMMA PayoutElsewhere ==
  ASSUME RowsInv, RequestStep, PayoutInv, payout' \in PayoutForm,
         payout'.state = payout.state \/ payout'.state = "form",
         payout.state = "completed" => payout'.state = "completed",
         payout'.button.submitting = payout.button.submitting,
         \/ UNCHANGED requests
         \/ \E ask: Requested(ask) /\ ask.what \notin {"payout", "payoutCode"}
         \/ \E i \in DOMAIN requests, verdict \in Verdicts: \E data: Dealt(i, verdict, data)
         \/ \E i \in DOMAIN requests: \E outcome \in Outcomes(i):
               Ended(i, outcome) /\ requests[i].ask.what \notin {"payout", "payoutCode"}
  PROVE  PayoutInv'
  <1>1. "completed" \in Verdicts /\ "completed" \in Verdicts \ Doubtful
    BY DEF Verdicts, Doubtful
  <1>2. PayoutOnce'
    BY <1>1, TapElsewhere DEF PayoutOnce, PayoutInv
  <1>3. Done("payout", {"completed"}) \subseteq Done("payout", {"completed"})'
    BY <1>1, DoneStays
  <1> DEFINE Same == /\ Asks("payout")' = Asks("payout") /\ Asks("payout") \subseteq DOMAIN requests
                     /\ AwaitedAsks("payout")' \subseteq AwaitedAsks("payout")
  <1>4. Same
    <2>1. CASE UNCHANGED requests
      BY <2>1, WhenKept
    <2>2. ASSUME NEW ask, Requested(ask), ask.what \notin {"payout", "payoutCode"} PROVE Same
      <3>1. \E n: n = Len(requests) + 1
        OBVIOUS
      <3>. QED BY <2>2, <3>1, WhenMade
    <2>3. ASSUME NEW i \in DOMAIN requests, NEW verdict \in Verdicts, NEW data, Dealt(i, verdict, data) PROVE Same
      BY <2>3, WhenDealt
    <2>4. ASSUME NEW i \in DOMAIN requests, NEW outcome \in Outcomes(i), Ended(i, outcome) PROVE Same
      BY <2>4, WhenEnded
    <2>. QED BY <2>1, <2>2, <2>3, <2>4
  <1>5. Latest("payout")' = Latest("payout") /\ Latest("payout") \subseteq DOMAIN requests
    BY <1>4 DEF Latest
  <1>6. FailedIsOver'
    BY <1>5, OldRows, NoneApart DEF FailedIsOver, PayoutInv, Doubtful
  <1>. QED BY <1>2, <1>3, <1>4, <1>5, <1>6 DEF PayoutInv, LastIsAwaited

LEMMA PayoutTapStep ==
  ASSUME RowsInv, screen = "payout", PayoutInv, PayoutTaps, UNCHANGED screen
  PROVE  RequestStep /\ PayoutInv' /\ UNCHANGED <<transfer, topup, deposits>>
  <1>1. RequestsAre(requests) /\ KindsOf(screen) = {"limit", "payout", "payoutCode"}
    BY Kinds DEF RowsInv
  <1>2. "completed" \in Verdicts /\ "completed" \in Verdicts \ Doubtful
    BY DEF Verdicts, Doubtful
  <1>3. CASE AskLimit
    <2> DEFINE ask == Ask("limit", None)
    <2>1. Requested(ask) /\ RequestStep /\ ask.what = "limit"
      BY <1>1, <1>3, SendGrows DEF AskLimit, RequestStep, Requested, Ask
    <2>2. UNCHANGED moneyVars
      BY <1>3 DEF AskLimit
    <2> HIDE DEF ask
    <2>. QED BY <2>1, <2>2, PayoutElsewhere DEF moneyVars, PayoutInv
  <1>4. ASSUME NEW overLimit \in BOOLEAN, TapPayout(overLimit)
        PROVE  RequestStep /\ PayoutInv' /\ UNCHANGED <<transfer, topup, deposits>>
    <2> DEFINE ask == Ask("payout", [overLimit |-> overLimit])
    <2>1. Requested(ask) /\ RequestStep /\ ask.what = "payout"
      BY <1>1, <1>4, SendGrows DEF TapPayout, RequestStep, Requested, Ask
    <2>2. payout' \in PayoutForm /\ payout'.state = "form" /\ payout'.button.submitting = TRUE
          /\ payout.state = "form" /\ payout.button.submitting = FALSE
      BY <1>4 DEF TapPayout, PayoutInv, PayoutForm, Pressable, Pressed
    <2> HIDE DEF ask
    <2>3. PayoutOnce'
      <3>1. OneTap(requests, "payout", "payoutCode", "completed", FALSE, FALSE)
        BY <2>2 DEF PayoutOnce, PayoutInv
      <3>2. OneTap(requests', "payout", "payoutCode", "completed", TRUE, FALSE)
        BY <1>2, <2>1, <3>1, TapTapped
      <3>. QED BY <2>2, <3>2 DEF PayoutOnce
    <2>4. PICK n: n = Len(requests) + 1
      OBVIOUS
    <2>5. /\ Asks("payout")' = Asks("payout") \cup {n} /\ Asks("payout") \subseteq DOMAIN requests
          /\ AwaitedAsks("payout")' = AwaitedAsks("payout") \cup {n}
      BY <2>1, <2>4, WhenMade
    <2>6. AwaitedAsks("payout") = {}
      BY <2>2 DEF PayoutInv, PayoutOnce, OneTap, Working, AwaitedAsks, Asks, Waiting
    <2>7. \A j \in Asks("payout"): j <= n
      BY <1>1, <2>4, <2>5, RequestsLen
    <2>8. n <= n
      BY <1>1, <2>4, RequestsLen
    <2>9. LastIsAwaited'
      BY <2>5, <2>6, <2>7, <2>8 DEF LastIsAwaited, Latest
    <2>. QED BY <1>4, <2>1, <2>2, <2>3, <2>9 DEF PayoutInv, FailedIsOver, TapPayout
  <1>5. CASE RetryPayout
    <2>1. UNCHANGED requests /\ RequestStep
      BY <1>1, <1>5 DEF RetryPayout, RequestStep
    <2>2. payout' \in PayoutForm /\ payout'.button = payout.button /\ payout.state # "completed"
          /\ payout'.state = "form"
      BY <1>5 DEF RetryPayout, PayoutInv, PayoutForm
    <2>. QED BY <1>5, <2>1, <2>2, PayoutElsewhere DEF RetryPayout
  <1>. QED BY <1>3, <1>4, <1>5 DEF PayoutTaps

LEMMA PayoutServed ==
  ASSUME RowsInv, screen = "payout", PayoutInv, NEW i \in DOMAIN requests, UNCHANGED screen,
         NEW verdict \in MoneyVerdicts(i), ServeMoney(i, verdict)
  PROVE  RequestStep /\ PayoutInv' /\ UNCHANGED <<transfer, topup, deposits>>
  <1>1. requests[i].ask.what \in {"limit", "payout", "payoutCode"}
    BY Kinds DEF RowsInv
  <1>2. verdict \in Verdicts /\ verdict # "begun"
    BY <1>1 DEF MoneyVerdicts, Verdicts
  <1>3. RequestStep /\ Dealt(i, verdict, requests[i].data) /\ UNCHANGED <<transfer, payout, topup, deposits>>
    BY <1>2, ServedRow DEF ServeMoney
  <1>. QED BY <1>2, <1>3, PayoutElsewhere DEF PayoutInv

LEMMA PayoutHeard ==
  ASSUME RowsInv, screen = "payout", PayoutInv, NEW i \in DOMAIN requests, UNCHANGED screen,
         NEW outcome \in Outcomes(i), MoneyHears(i, outcome)
  PROVE  RequestStep /\ PayoutInv' /\ UNCHANGED <<transfer, topup, deposits>>
  <1>1. requests[i].ask.what \in {"limit", "payout", "payoutCode"}
        /\ KindsOf(screen) = {"limit", "payout", "payoutCode"}
    BY Kinds DEF RowsInv
  <1>2. "completed" \in Verdicts /\ "completed" \in Verdicts \ Doubtful
    BY DEF Verdicts, Doubtful
  <1>a. Asks("payout") \subseteq DOMAIN requests
    BY DEF Asks
  <1>b. ASSUME RequestStep PROVE Done("payout", {"completed"}) \subseteq Done("payout", {"completed"})'
    BY <1>b, <1>2, DoneStays
  <1>3. CASE requests[i].ask.what = "limit"
    <2>1. HearLimit(i, outcome)
      BY <1>3 DEF MoneyHears
    <2>2. RequestStep /\ Ended(i, outcome) /\ UNCHANGED <<transfer, topup, deposits>>
      BY <2>1, EndedRow DEF HearLimit
    <2>3. payout' \in PayoutForm /\ payout'.state = payout.state /\ payout'.button = payout.button
      BY <2>1 DEF HearLimit, PayoutInv, PayoutForm
    <2>. QED BY <1>3, <2>2, <2>3, PayoutElsewhere
  <1>4. CASE requests[i].ask.what = "payout" /\ AsksForCode(payout.button, outcome)
    <2> DEFINE ask == Ask("payoutCode", None)
    <2>1. HearPayout(i, outcome)
      BY <1>4 DEF MoneyHears
    <2>2. ask.what = "payoutCode" /\ ask.what \in KindsOf(screen) \cap Afters /\ requests[i].ask.what \notin Afters
      BY <1>1, <1>4 DEF Ask, Afters
    <2>3. RequestStep /\ Followed(i, outcome, ask) /\ UNCHANGED <<transfer, topup, deposits>>
      BY <1>4, <2>1, <2>2, FollowedRow DEF HearPayout
    <2>4. /\ Asks("payout")' = Asks("payout")
          /\ AwaitedAsks("payout")' = AwaitedAsks("payout") \ {i}
      <3>1. \E n: n = Len(requests) + 1
        OBVIOUS
      <3>. HIDE DEF ask
      <3>. QED BY <2>2, <2>3, <3>1, WhenFollowed
    <2>5. /\ payout' \in PayoutForm /\ payout'.state = payout.state
          /\ payout'.button.submitting = payout.button.submitting
      <3>1. payout' = [payout EXCEPT !.button.requesting = TRUE]
        BY <1>4, <2>1 DEF HearPayout
      <3>2. payout.button \in [submitting: BOOLEAN, requesting: BOOLEAN, needsOtp: BOOLEAN]
        BY DEF PayoutInv, PayoutForm
      <3>. QED BY <3>1, <3>2 DEF PayoutInv, PayoutForm
    <2>6. Latest("payout")' = Latest("payout") /\ Latest("payout") \subseteq DOMAIN requests
      BY <2>4, <1>a DEF Latest
    <2>7. PayoutOnce'
      <3>1. outcome # "completed" /\ "payoutCode" # "payout"
        BY <1>4 DEF AsksForCode
      <3>2. OneTap(requests', "payout", "payoutCode", "completed", payout.button.submitting, payout.state = "completed")
        <4>. HIDE DEF ask
        <4>. QED BY <1>2, <1>4, <2>2, <2>3, <3>1, TapAsksForCode DEF PayoutOnce, PayoutInv
      <3>. QED BY <2>5, <3>2 DEF PayoutOnce
    <2>8. FailedIsOver'
      BY <2>3, <2>5, <2>6, OldRows, NoneApart DEF FailedIsOver, PayoutInv, Doubtful
    <2>. QED BY <1>b, <2>3, <2>4, <2>5, <2>6, <2>7, <2>8 DEF PayoutInv, LastIsAwaited
  <1>5. CASE requests[i].ask.what = "payout" /\ ~AsksForCode(payout.button, outcome)
    <2>1. HearPayout(i, outcome)
      BY <1>5 DEF MoneyHears
    <2>2. RequestStep /\ Ended(i, outcome) /\ UNCHANGED <<transfer, topup, deposits>>
      BY <1>5, <2>1, EndedRow DEF HearPayout
    <2>3. payout' \in PayoutForm /\ payout'.state = PayoutShows(outcome)
      <3>1. payout' = [payout EXCEPT !.state = PayoutShows(outcome), !.button = Released(@)]
        BY <1>5, <2>1 DEF HearPayout
      <3>2. PayoutShows(outcome) \in {"form", "completed", "failed", "unconfirmed"}
        BY DEF PayoutShows
      <3>3. Released(payout.button) \in [submitting: BOOLEAN, requesting: BOOLEAN, needsOtp: BOOLEAN]
        BY DEF PayoutInv, PayoutForm, Released
      <3>. QED BY <3>1, <3>2, <3>3 DEF PayoutInv, PayoutForm
    <2>4. PayoutOnce'
      BY <1>2, <1>5, <2>2, <2>3, TapHandled DEF PayoutOnce, PayoutInv, PayoutShows
    <2>5. outcome = "completed" => Done("payout", {"completed"}) # {}
      BY <1>2, <1>5, HeardIsDone
    <2>6. /\ Asks("payout")' = Asks("payout") /\ AwaitedAsks("payout")' = AwaitedAsks("payout") \ {i}
          /\ requests'[i].did = requests[i].did /\ requests'[i].heard = outcome
      BY <2>2, WhenEnded
    <2>7. i \in AwaitedAsks("payout") /\ i \in Latest("payout")
      BY <1>5, OutcomeIs DEF PayoutInv, LastIsAwaited, AwaitedAsks, Asks, Waiting
    <2>8. Latest("payout")' = Latest("payout") /\ Latest("payout") \subseteq {i}
      <3>1. \A j \in Latest("payout"): j = i
        <4>1. DOMAIN requests \subseteq Nat
          BY RequestsLen DEF RowsInv
        <4>2. \A j \in Latest("payout"): j <= i /\ i <= j /\ j \in Nat /\ i \in Nat
          BY <1>a, <2>7, <4>1 DEF Latest
        <4>. QED BY <4>2
      <3>. QED BY <2>6, <3>1 DEF Latest
    <2>9. FailedIsOver'
      <3>1. PayoutShows(outcome) = "failed" => outcome # "completed" /\ outcome # "none"
        BY DEF PayoutShows
      <3>2. outcome = "gateway" \/ outcome = "none" \/ requests[i].did = outcome
        BY OutcomeIs DEF Doubtful
      <3>. QED BY <2>3, <2>6, <2>8, <3>1, <3>2, OutcomeIs DEF FailedIsOver
    <2>. QED BY <1>b, <2>2, <2>3, <2>4, <2>5, <2>6, <2>8, <2>9 DEF PayoutInv, LastIsAwaited, PayoutShows
  <1>6. CASE requests[i].ask.what = "payoutCode"
    <2>1. HearPayoutCode(i, outcome)
      BY <1>6 DEF MoneyHears
    <2>2. RequestStep /\ Ended(i, outcome) /\ UNCHANGED <<transfer, topup, deposits>>
      BY <1>6, <2>1, EndedRow DEF HearPayoutCode
    <2>3. payout' \in PayoutForm /\ payout'.state = payout.state
      BY <1>6, <2>1 DEF HearPayoutCode, PayoutInv, PayoutForm, AfterCode, Released
    <2>4. PayoutOnce'
      BY <1>2, <1>6, <2>2, <2>3, TapHandled DEF PayoutOnce, PayoutInv
    <2>5. /\ Asks("payout")' = Asks("payout") /\ AwaitedAsks("payout")' = AwaitedAsks("payout") \ {i}
      BY <2>2, WhenEnded
    <2>6. Latest("payout")' = Latest("payout") /\ Latest("payout") \subseteq DOMAIN requests
      BY <2>5, <1>a DEF Latest
    <2>7. FailedIsOver'
      BY <2>2, <2>3, <2>6, OldRows, NoneApart DEF FailedIsOver, PayoutInv, Doubtful
    <2>. QED BY <1>b, <2>2, <2>3, <2>4, <2>5, <2>6, <2>7 DEF PayoutInv, LastIsAwaited
  <1>. QED BY <1>1, <1>3, <1>4, <1>5, <1>6

LEMMA PayoutStep ==
  ASSUME RowsInv, screen = "payout", PayoutInv, ScreensNext
  PROVE  RequestStep /\ PayoutInv' /\ UNCHANGED <<transfer, topup, deposits, formVars, deskVars, deviceVars>>
  <1>1. CASE Tap
    BY <1>1, TappedOn, PayoutTapStep DEF ScreensNext
  <1>2. ASSUME NEW i \in DOMAIN requests, Served(i) \/ Hears(i)
        PROVE  RequestStep /\ PayoutInv' /\ UNCHANGED <<transfer, topup, deposits, formVars, deskVars, deviceVars>>
    <2>1. requests[i].ask.what \in {"limit", "payout", "payoutCode"}
      BY Kinds DEF RowsInv
    <2>2. CASE Served(i)
      BY <2>1, <2>2, ServedBy, PayoutServed DEF ScreensNext
    <2>3. CASE Hears(i)
      BY <2>1, <2>3, HeardByMoney, PayoutHeard DEF ScreensNext, Hears
    <2>. QED BY <1>2, <2>2, <2>3
  <1>. QED BY <1>1, <1>2 DEF ScreensNext

\* What the server did, and what was heard, request by request.
LEMMA DoneKept ==
  ASSUME RowsInv, NEW what, NEW verdicts, None \notin verdicts,
         \/ UNCHANGED requests
         \/ \E ask: Requested(ask)
         \/ \E i \in DOMAIN requests: \E outcome \in Outcomes(i):
               Ended(i, outcome) \/ \E ask: Followed(i, outcome, ask)
  PROVE  Done(what, verdicts)' = Done(what, verdicts)
  <1> USE NoneApart, FieldsOfRow
  <1>1. CASE UNCHANGED requests
    BY <1>1 DEF Done, Asks
  <1>2. ASSUME NEW ask, Requested(ask) PROVE Done(what, verdicts)' = Done(what, verdicts)
    BY <1>2 DEF Requested, Grows, Done, Asks
  <1>3. ASSUME NEW i \in DOMAIN requests, NEW outcome \in Outcomes(i), Ended(i, outcome)
        PROVE  Done(what, verdicts)' = Done(what, verdicts)
    BY <1>3 DEF Ended, Hushes, Others, Done, Asks
  <1>4. ASSUME NEW i \in DOMAIN requests, NEW outcome \in Outcomes(i), NEW ask, Followed(i, outcome, ask)
        PROVE  Done(what, verdicts)' = Done(what, verdicts)
    BY <1>4 DEF Followed, GoesOn, Done, Asks
  <1>. QED BY <1>1, <1>2, <1>3, <1>4

LEMMA DoneDealt ==
  ASSUME RowsInv, NEW i \in DOMAIN requests, NEW verdict, NEW data, Dealt(i, verdict, data),
         NEW what, NEW verdicts, None \notin verdicts
  PROVE  Done(what, verdicts)' = IF requests[i].ask.what = what /\ verdict \in verdicts
                                 THEN Done(what, verdicts) \cup {i} ELSE Done(what, verdicts)
  BY FieldsOfRow DEF Dealt, Deals, Others, Done, Asks

LEMMA HeardKept ==
  ASSUME RowsInv, NEW what, NEW outcomes, None \notin outcomes,
         \/ UNCHANGED requests
         \/ \E ask: Requested(ask)
         \/ \E i \in DOMAIN requests: \E verdict, data: Dealt(i, verdict, data)
  PROVE  Heard(what, outcomes)' = Heard(what, outcomes)
  <1> USE NoneApart, FieldsOfRow
  <1>1. CASE UNCHANGED requests
    BY <1>1 DEF Heard, Asks
  <1>2. ASSUME NEW ask, Requested(ask) PROVE Heard(what, outcomes)' = Heard(what, outcomes)
    BY <1>2 DEF Requested, Grows, Heard, Asks
  <1>3. ASSUME NEW i \in DOMAIN requests, NEW verdict, NEW data, Dealt(i, verdict, data)
        PROVE  Heard(what, outcomes)' = Heard(what, outcomes)
    BY <1>3 DEF Dealt, Deals, Others, Heard, Asks
  <1>. QED BY <1>1, <1>2, <1>3

LEMMA HeardEnds ==
  ASSUME RowsInv, NEW what, NEW outcomes, NEW i \in DOMAIN requests, NEW outcome \in Outcomes(i),
         Ended(i, outcome) \/ \E ask: Followed(i, outcome, ask), None \notin outcomes
  PROVE  Heard(what, outcomes)' = IF requests[i].ask.what = what /\ outcome \in outcomes
                                  THEN Heard(what, outcomes) \cup {i} ELSE Heard(what, outcomes)
  <1> USE NoneApart, FieldsOfRow, OutcomeIs
  <1>1. CASE Ended(i, outcome)
    BY <1>1 DEF Ended, Hushes, Others, Heard, Asks
  <1>2. ASSUME NEW ask, Followed(i, outcome, ask)
        PROVE  Heard(what, outcomes)' = IF requests[i].ask.what = what /\ outcome \in outcomes
                                        THEN Heard(what, outcomes) \cup {i} ELSE Heard(what, outcomes)
    BY <1>2 DEF Followed, GoesOn, Heard, Asks
  <1>. QED BY <1>1, <1>2

-----------------------------------------------------------------------------
(* TopupScreen. *)

Begun == Done("topup", {"begun"})
TopupForm ==
  [state: {"form", "pending", "completed", "failed"}, submitting: BOOLEAN, error: BOOLEAN,
   current: {Id(n): n \in Nat} \cup {None}, pollRef: {Id(n): n \in Nat} \cup {None}, timers: SUBSET DOMAIN deposits]
\* A deposit is known by the request that began it.
DepositsAre ==
  /\ DOMAIN deposits = {Id(i): i \in Begun}
  /\ deposits \in [DOMAIN deposits -> {"pending", "completed", "failed"}]
\* A deposit that a poll found decided stays as it was found.
PollsTell ==
  /\ \A i \in Asks("status"): Of(i) \in DOMAIN deposits
  /\ \A i \in Done("status", {"completed", "failed"}): deposits[Of(i)] = requests[i].did
TopupShows ==
  topup.state \in {"completed", "failed"} =>
    Overtaken \/ (topup.current \in DOMAIN deposits /\ deposits[topup.current] = topup.state)
TopupInv == topup \in TopupForm /\ DepositsAre /\ PollsTell /\ TopupShows

LEMMA DepositVerdicts == {"pending", "completed", "failed", "begun"} \subseteq Verdicts
  BY DEF Verdicts

LEMMA TopupTapStep ==
  ASSUME RowsInv, screen = "topup", TopupInv, TopupTaps, UNCHANGED screen
  PROVE  RequestStep /\ TopupInv' /\ UNCHANGED <<transfer, payout>>
  <1>1. RequestsAre(requests) /\ KindsOf(screen) = {"topup", "status"}
    BY Kinds DEF RowsInv
  <1>2. None \notin {"begun"} /\ None \notin {"completed", "failed"}
    BY NoneApart, DepositVerdicts
  <1>3. CASE TapTopup
    <2> DEFINE ask == Ask("topup", None)
    <2>1. Requested(ask) /\ RequestStep /\ ask.what = "topup"
      BY <1>1, <1>3, SendGrows DEF TapTopup, RequestStep, Requested, Ask
    <2> HIDE DEF ask
    <2>2. topup' \in TopupForm /\ topup'.state = "form" /\ UNCHANGED <<transfer, payout, deposits>>
      BY <1>3 DEF TapTopup, TopupInv, TopupForm
    <2>3. Begun' = Begun /\ Done("status", {"completed", "failed"})' = Done("status", {"completed", "failed"})
      BY <1>2, <2>1, DoneKept DEF Begun
    <2> PICK n: n = Len(requests) + 1
      OBVIOUS
    <2>4. /\ Asks("status")' = Asks("status") /\ Asks("status") \subseteq DOMAIN requests
          /\ \A j \in DOMAIN requests: Of(j)' = Of(j) /\ requests'[j] = requests[j]
      BY <2>1, WhenMade
    <2>5. DepositsAre'
      BY <2>2, <2>3 DEF DepositsAre, TopupInv
    <2>6. PollsTell'
      BY <2>2, <2>3, <2>4 DEF PollsTell, TopupInv, Done
    <2>. QED BY <2>1, <2>2, <2>5, <2>6 DEF TopupInv, TopupShows, TopupForm
  <1>4. CASE RetryTopup
    <2>1. UNCHANGED requests /\ RequestStep
      BY <1>1, <1>4 DEF RetryTopup, RequestStep
    <2>2. topup' \in TopupForm /\ topup'.state = "form" /\ UNCHANGED <<transfer, payout, deposits>>
      BY <1>4 DEF RetryTopup, TopupInv, TopupForm
    <2>3. Begun' = Begun /\ Done("status", {"completed", "failed"})' = Done("status", {"completed", "failed"})
      BY <1>2, <2>1, DoneKept DEF Begun
    <2>4. Asks("status")' = Asks("status") /\ \A j: Of(j)' = Of(j)
      BY <2>1, WhenKept
    <2>5. DepositsAre'
      BY <2>2, <2>3 DEF DepositsAre, TopupInv
    <2>6. PollsTell'
      BY <2>1, <2>2, <2>3, <2>4 DEF PollsTell, TopupInv
    <2>. QED BY <2>1, <2>2, <2>5, <2>6 DEF TopupInv, TopupShows, TopupForm
  <1>5. ASSUME NEW id \in topup.timers, Poll(id)
        PROVE  RequestStep /\ TopupInv' /\ UNCHANGED <<transfer, payout>>
    <2> DEFINE ask == Ask("status", id)
    <2>1. Requested(ask) /\ RequestStep /\ ask.what = "status" /\ ask.of = id
      BY <1>1, <1>5, SendGrows DEF Poll, RequestStep, Requested, Ask
    <2> HIDE DEF ask
    <2>2. UNCHANGED <<transfer, payout, topup, deposits>> /\ id \in DOMAIN deposits
      BY <1>5 DEF Poll, moneyVars, TopupInv, TopupForm
    <2>3. Begun' = Begun /\ Done("status", {"completed", "failed"})' = Done("status", {"completed", "failed"})
      BY <1>2, <2>1, DoneKept DEF Begun
    <2> PICK n: n = Len(requests) + 1
      OBVIOUS
    <2>4. /\ Asks("status")' = Asks("status") \cup {n} /\ Asks("status") \subseteq DOMAIN requests
          /\ \A j \in DOMAIN requests: Of(j)' = Of(j) /\ requests'[j] = requests[j]
          /\ Of(n)' = id
      BY <2>1, WhenMade
    <2>5. DepositsAre'
      BY <2>2, <2>3 DEF DepositsAre, TopupInv
    <2>6. PollsTell'
      BY <2>2, <2>3, <2>4 DEF PollsTell, TopupInv, Done
    <2>7. TopupShows'
      BY <2>2, <2>4 DEF TopupInv, TopupShows, Overtaken
    <2>. QED BY <2>1, <2>2, <2>5, <2>6, <2>7 DEF TopupInv, TopupForm
  <1>6. ASSUME NEW id \in DOMAIN deposits, NEW outcome \in {"completed", "failed"}, Decide(id, outcome)
        PROVE  RequestStep /\ TopupInv' /\ UNCHANGED <<transfer, payout>>
    <2>1. UNCHANGED requests /\ RequestStep
      BY <1>1, <1>6 DEF Decide, RequestStep
    <2>2. /\ UNCHANGED <<transfer, payout, topup>> /\ DOMAIN deposits' = DOMAIN deposits
          /\ deposits[id] = "pending" /\ deposits'[id] = outcome
          /\ \A d \in DOMAIN deposits \ {id}: deposits'[d] = deposits[d]
          /\ deposits' \in [DOMAIN deposits -> {"pending", "completed", "failed"}]
      BY <1>6 DEF Decide, TopupInv, DepositsAre
    <2>3. Begun' = Begun /\ Done("status", {"completed", "failed"})' = Done("status", {"completed", "failed"})
      BY <1>2, <2>1, DoneKept DEF Begun
    <2>4. Asks("status")' = Asks("status") /\ \A j: Of(j)' = Of(j)
      BY <2>1, WhenKept
    <2>5. DepositsAre'
      BY <2>2, <2>3 DEF DepositsAre, TopupInv
    <2>6. PollsTell'
      BY <2>1, <2>2, <2>3, <2>4 DEF PollsTell, TopupInv, Done
    <2>7. TopupShows'
      BY <2>2, <2>4 DEF TopupInv, TopupShows, Overtaken
    <2>. QED BY <2>1, <2>2, <2>5, <2>6, <2>7 DEF TopupInv, TopupForm
  <1>. QED BY <1>3, <1>4, <1>5, <1>6 DEF TopupTaps

LEMMA TopupServed ==
  ASSUME RowsInv, screen = "topup", TopupInv, NEW i \in DOMAIN requests, UNCHANGED screen,
         NEW verdict \in MoneyVerdicts(i), ServeMoney(i, verdict)
  PROVE  RequestStep /\ TopupInv' /\ UNCHANGED <<transfer, payout>>
  <1>1. requests[i].ask.what \in {"topup", "status"}
    BY Kinds DEF RowsInv
  <1>2. /\ verdict \in Verdicts
        /\ requests[i].ask.what = "status" =>
             i \in Asks("status") /\ verdict = deposits[Of(i)] /\ verdict \in {"pending", "completed", "failed"}
        /\ requests[i].ask.what = "topup" => verdict \in {"begun", "refused"}
    BY <1>1, DepositVerdicts DEF MoneyVerdicts, Verdicts, TopupInv, PollsTell, DepositsAre, Asks
  <1>3. RequestStep /\ Dealt(i, verdict, requests[i].data) /\ UNCHANGED <<transfer, payout, topup>>
    BY <1>2, ServedRow DEF ServeMoney
  <1>4. None \notin {"begun"} /\ None \notin {"completed", "failed"}
    BY NoneApart, DepositVerdicts
  <1>5. /\ Asks("status")' = Asks("status") /\ Asks("status") \subseteq DOMAIN requests
        /\ \A j \in DOMAIN requests: Of(j)' = Of(j)
        /\ \A j \in DOMAIN requests \ {i}: requests'[j] = requests[j]
        /\ requests[i].did = None /\ requests'[i].did = verdict
    BY <1>3, WhenDealt
  <1>6. /\ Begun' = IF requests[i].ask.what = "topup" /\ verdict = "begun" THEN Begun \cup {i} ELSE Begun
        /\ Done("status", {"completed", "failed"})' =
             IF requests[i].ask.what = "status" /\ verdict \in {"completed", "failed"}
             THEN Done("status", {"completed", "failed"}) \cup {i} ELSE Done("status", {"completed", "failed"})
    BY <1>3, <1>4, DoneDealt, SMTT(30) DEF Begun
  <1>7. Done("status", {"completed", "failed"}) \subseteq Asks("status")
    BY DEF Done
  <1>8. CASE verdict = "begun"
    <2>1. requests[i].ask.what = "topup"
      BY <1>1, <1>2, <1>8
    <2>2. Id(i) \notin DOMAIN deposits
      BY <1>4, <1>5 DEF TopupInv, DepositsAre, Begun, Done, Id
    <2>3. /\ DOMAIN deposits' = DOMAIN deposits \cup {Id(i)} /\ deposits'[Id(i)] = "pending"
          /\ \A d \in DOMAIN deposits: deposits'[d] = deposits[d]
          /\ deposits' \in [DOMAIN deposits' -> {"pending", "completed", "failed"}]
      BY <1>8, <2>2 DEF ServeMoney, TopupInv, DepositsAre
    <2>4. DepositsAre'
      <3>1. {Id(j): j \in Begun \cup {i}} = {Id(j): j \in Begun} \cup {Id(i)}
        OBVIOUS
      <3>. QED BY <1>6, <1>8, <2>1, <2>3, <3>1 DEF TopupInv, DepositsAre
    <2>5. PollsTell'
      BY <1>4, <1>5, <1>6, <1>7, <2>1, <2>3 DEF TopupInv, PollsTell, Done
    <2>6. TopupShows'
      BY <1>3, <1>5, <2>3 DEF TopupInv, TopupShows, Overtaken
    <2>. QED BY <1>3, <2>3, <2>4, <2>5, <2>6 DEF TopupInv, TopupForm
  <1>9. CASE verdict # "begun"
    <2>1. deposits' = deposits
      BY <1>9 DEF ServeMoney
    <2>2. DepositsAre'
      BY <1>6, <1>9, <2>1 DEF TopupInv, DepositsAre
    <2>3. PollsTell'
      <3>1. ASSUME NEW j \in Done("status", {"completed", "failed"})' PROVE deposits'[Of(j)'] = requests'[j].did
        <4>1. CASE j = i
          <5>1. i \notin Done("status", {"completed", "failed"})
            BY <1>4, <1>5 DEF Done
          <5>2. requests[i].ask.what = "status"
            BY <1>6, <3>1, <4>1, <5>1
          <5>. QED BY <1>2, <1>5, <2>1, <4>1, <5>2
        <4>2. CASE j # i
          BY <1>5, <1>6, <1>7, <2>1, <3>1, <4>2 DEF TopupInv, PollsTell
        <4>. QED BY <4>1, <4>2
      <3>. QED BY <1>5, <2>1, <3>1 DEF TopupInv, PollsTell
    <2>4. TopupShows'
      BY <1>3, <1>5, <2>1 DEF TopupInv, TopupShows, Overtaken
    <2>. QED BY <1>3, <2>1, <2>2, <2>3, <2>4 DEF TopupInv, TopupForm
  <1>. QED BY <1>8, <1>9

LEMMA TopupHeard ==
  ASSUME RowsInv, screen = "topup", TopupInv, NEW i \in DOMAIN requests, UNCHANGED screen,
         NEW outcome \in Outcomes(i), MoneyHears(i, outcome)
  PROVE  RequestStep /\ TopupInv' /\ UNCHANGED <<transfer, payout>>
  <1>1. requests[i].ask.what \in {"topup", "status"}
    BY Kinds DEF RowsInv
  <1>2. RequestStep /\ Ended(i, outcome) /\ UNCHANGED <<transfer, payout, deposits>>
    BY <1>1, EndedRow DEF MoneyHears, HearTopup, HearPoll
  <1>3. None \notin {"begun"} /\ None \notin {"completed", "failed"}
    BY NoneApart, DepositVerdicts
  <1>4. Begun' = Begun /\ Done("status", {"completed", "failed"})' = Done("status", {"completed", "failed"})
    BY <1>2, <1>3, DoneKept DEF Begun
  <1>5. /\ Asks("status")' = Asks("status") /\ Asks("status") \subseteq DOMAIN requests
        /\ \A j \in DOMAIN requests: Of(j)' = Of(j) /\ requests'[j].did = requests[j].did
    BY <1>2, WhenEnded
  <1>6. DepositsAre' /\ PollsTell'
    BY <1>2, <1>4, <1>5 DEF TopupInv, DepositsAre, PollsTell, Done
  <1>7. CASE requests[i].ask.what = "topup"
    <2>1. HearTopup(i, outcome)
      BY <1>7 DEF MoneyHears
    <2>2. CASE outcome = "begun"
      <3>1. Id(i) \in DOMAIN deposits /\ i \in Nat
        <4>1. i \in Begun
          BY <1>7, <2>2, HeardIsDone DEF Begun, Doubtful
        <4>. QED BY <4>1, RequestsLen DEF TopupInv, DepositsAre, RowsInv
      <3>2. topup' \in TopupForm /\ topup'.state = "pending"
        BY <2>1, <2>2, <3>1 DEF HearTopup, TopupInv, TopupForm
      <3>. QED BY <1>2, <1>6, <3>2 DEF TopupInv, TopupShows, TopupForm
    <2>3. CASE outcome # "begun"
      <3>1. topup' \in TopupForm /\ topup'.state = topup.state /\ topup'.current = topup.current
        BY <2>1, <2>3 DEF HearTopup, TopupInv, TopupForm
      <3>2. TopupShows'
        BY <1>2, <1>5, <3>1 DEF TopupInv, TopupShows, Overtaken
      <3>. QED BY <1>2, <1>6, <3>1, <3>2 DEF TopupInv, TopupForm
    <2>. QED BY <2>2, <2>3
  <1>8. CASE requests[i].ask.what = "status"
    <2>1. HearPoll(i, outcome)
      BY <1>8 DEF MoneyHears
    <2>2. CASE outcome \in {"completed", "failed"}
      <3>1. topup' \in TopupForm /\ topup'.state = outcome /\ topup'.current = topup.current
        BY <2>1, <2>2 DEF HearPoll, TopupInv, TopupForm
      <3>2. i \in Asks("status") /\ Of(i) \in DOMAIN deposits /\ deposits[Of(i)] = outcome
        BY <1>8, <2>2, HeardIsDone DEF Doubtful, TopupInv, PollsTell, Done, Asks
      <3>3. TopupShows'
        BY <1>2, <1>5, <3>1, <3>2 DEF TopupShows, Overtaken
      <3>. QED BY <1>2, <1>6, <3>1, <3>3 DEF TopupInv, TopupForm
    <2>3. CASE outcome \notin {"completed", "failed"}
      <3>1. topup' = topup
        BY <2>1, <2>3 DEF HearPoll
      <3>2. TopupShows'
        BY <1>2, <1>5, <3>1 DEF TopupInv, TopupShows, Overtaken
      <3>. QED BY <1>2, <1>6, <3>1, <3>2 DEF TopupInv, TopupForm
    <2>. QED BY <2>2, <2>3
  <1>. QED BY <1>1, <1>7, <1>8

LEMMA TopupStep ==
  ASSUME RowsInv, screen = "topup", TopupInv, ScreensNext
  PROVE  RequestStep /\ TopupInv' /\ UNCHANGED <<transfer, payout, formVars, deskVars, deviceVars>>
  <1>1. CASE Tap
    BY <1>1, TappedOn, TopupTapStep DEF ScreensNext
  <1>2. ASSUME NEW i \in DOMAIN requests, Served(i) \/ Hears(i)
        PROVE  RequestStep /\ TopupInv' /\ UNCHANGED <<transfer, payout, formVars, deskVars, deviceVars>>
    <2>1. requests[i].ask.what \in {"topup", "status"}
      BY Kinds DEF RowsInv
    <2>2. CASE Served(i)
      BY <2>1, <2>2, ServedBy, TopupServed DEF ScreensNext
    <2>3. CASE Hears(i)
      BY <2>1, <2>3, HeardByMoney, TopupHeard DEF ScreensNext, Hears
    <2>. QED BY <1>2, <2>2, <2>3
  <1>. QED BY <1>1, <1>2 DEF ScreensNext

-----------------------------------------------------------------------------
(* The forms. *)

\* Those whose text counts, and what a handler awaits while it is busy.
Texts == Forms \ {"login", "adminLogin", "device"}
FormWork(kind) ==
  AwaitedAsks(kind) \cup (IF Awaits(kind) THEN AwaitedAsks("signIn") \cup AwaitedAsks("reload") ELSE {})
FormIsDead(kind) ==
  kind # "device" =>
    /\ \A i, j \in FormWork(kind): i = j
    /\ FormWork(kind) # {} => form.busy /\ ~form.left
    /\ \A i \in AwaitedAsks(kind): Of(i) = Id(form.draft)
\* A text that was taken is not in the form any more.
TakenIsGone(kind) ==
  kind \in Texts \ {"register"} =>
    \A i \in Heard(kind, {"done"}): form.left \/ \E n \in Nat: n < form.draft /\ Of(i) = Id(n)
ClearIsOnce(kind) ==
  kind \in Texts => \A i, j \in Clear(requests, kind, "done"): Of(i) = Of(j) => i = j
SignsInAfter(kind) ==
  Asks("signIn") # {} => kind = "register" /\ Done(kind, {"done"}) # {}
LeftIsTaken(kind) ==
  form.left => /\ Done(kind, {"done"}) # {}
               /\ kind = "register" => Done("signIn", {"done"}) # {}
FormsForm == [draft: Nat \ {0}, busy: BOOLEAN, error: BOOLEAN, left: BOOLEAN]
FormInv(kind) ==
  /\ form \in FormsForm
  /\ FormIsDead(kind) /\ TakenIsGone(kind) /\ ClearIsOnce(kind) /\ SignsInAfter(kind) /\ LeftIsTaken(kind)

LEMMA DoneIsClear == "done" \in Verdicts /\ "done" \notin Doubtful /\ "done" # None /\ None \notin {"done"}
  BY NoneApart DEF Verdicts, Doubtful

LEMMA ClearKept ==
  ASSUME RowsInv, NEW what, NEW good \in Verdicts,
         \/ UNCHANGED requests
         \/ \E ask: Requested(ask)
         \/ \E i \in DOMAIN requests: \E outcome \in Outcomes(i):
               Ended(i, outcome) \/ \E ask: Followed(i, outcome, ask)
  PROVE  /\ Clear(requests', what, good) \subseteq Clear(requests, what, good)
         /\ \A j \in Clear(requests, what, good): Of(j)' = Of(j)
  <1> USE NoneApart, FieldsOfRow
  <1>1. CASE UNCHANGED requests
    BY <1>1 DEF Of
  <1>2. ASSUME NEW ask, Requested(ask)
        PROVE  /\ Clear(requests', what, good) \subseteq Clear(requests, what, good)
               /\ \A j \in Clear(requests, what, good): Of(j)' = Of(j)
    BY <1>2 DEF Requested, Grows, Clear, Of
  <1>3. ASSUME NEW i \in DOMAIN requests, NEW outcome \in Outcomes(i), Ended(i, outcome)
        PROVE  /\ Clear(requests', what, good) \subseteq Clear(requests, what, good)
               /\ \A j \in Clear(requests, what, good): Of(j)' = Of(j)
    BY <1>3, OutcomeIs DEF Ended, Hushes, Others, Clear, Of
  <1>4. ASSUME NEW i \in DOMAIN requests, NEW outcome \in Outcomes(i), NEW ask, Followed(i, outcome, ask)
        PROVE  /\ Clear(requests', what, good) \subseteq Clear(requests, what, good)
               /\ \A j \in Clear(requests, what, good): Of(j)' = Of(j)
    BY <1>4, OutcomeIs DEF Followed, GoesOn, Clear, Of
  <1>. QED BY <1>1, <1>2, <1>3, <1>4

LEMMA FormKinds ==
  ASSUME NEW kind \in Forms, screen = kind
  PROVE  /\ KindsOf(screen) = {kind, "signIn", "reload"} /\ kind \notin {"signIn", "reload"} \cup Afters
         /\ kind \in FormAsks /\ {"signIn", "reload"} \subseteq Afters \cap FormAsks
         /\ Awaits("register") /\ ~Awaits("device")
  BY Kinds DEF Forms, Afters, FormAsks, Awaits

LEMMA FormTapStep ==
  ASSUME RowsInv, NEW kind \in Forms, screen = kind, FormInv(kind), FormTaps, UNCHANGED screen
  PROVE  RequestStep /\ FormInv(kind)' /\ UNCHANGED kyc
  <1> DEFINE ask == Ask(kind, Id(form.draft))
  <1>1. Requested(ask) /\ RequestStep /\ ask.what = kind /\ ask.of = Id(form.draft) /\ UNCHANGED kyc
    BY FormKinds, SendGrows DEF FormTaps, SubmitForm, RequestStep, Requested, Ask, RowsInv
  <1> HIDE DEF ask
  <1>2. /\ form' \in FormsForm /\ form.left = FALSE /\ form'.left = FALSE /\ form.busy = FALSE
        /\ form'.draft = form.draft
    BY DEF FormTaps, SubmitForm, FormInv, FormsForm, HasBusy
  <1>3. kind # "device" => form'.busy
    BY DEF FormTaps, SubmitForm, FormInv, FormsForm, HasBusy
  <1> PICK n: n = Len(requests) + 1
    OBVIOUS
  <1>4. /\ AwaitedAsks(kind)' = AwaitedAsks(kind) \cup {n} /\ Of(n)' = Id(form.draft)
        /\ Asks(kind) \subseteq DOMAIN requests
        /\ \A j \in DOMAIN requests: Of(j)' = Of(j)
    BY <1>1, WhenMade
  <1>5. /\ AwaitedAsks("signIn")' = AwaitedAsks("signIn") /\ AwaitedAsks("reload")' = AwaitedAsks("reload")
        /\ Asks("signIn")' = Asks("signIn")
    BY <1>1, FormKinds, WhenMade
  <1>6. Heard(kind, {"done"})' = Heard(kind, {"done"}) /\ Heard(kind, {"done"}) \subseteq DOMAIN requests
    <2>1. Heard(kind, {"done"})' = Heard(kind, {"done"})
      BY <1>1, DoneIsClear, HeardKept
    <2>. QED BY <2>1 DEF Heard, Asks
  <1>7. /\ Done(kind, {"done"})' = Done(kind, {"done"}) /\ Done("signIn", {"done"})' = Done("signIn", {"done"})
    BY <1>1, DoneIsClear, DoneKept
  <1>8. FormIsDead(kind)'
    <2>1. kind # "device" => FormWork(kind) = {}
      BY <1>2 DEF FormInv, FormIsDead
    <2>2. kind # "device" => FormWork(kind)' = {n} /\ AwaitedAsks(kind)' = {n}
      BY <1>4, <1>5, <2>1 DEF FormWork
    <2>. QED BY <1>2, <1>3, <1>4, <2>2 DEF FormIsDead
  <1>9. ClearIsOnce(kind)'
    BY <1>1, DoneIsClear, ClearKept DEF ClearIsOnce, FormInv
  <1>10. TakenIsGone(kind)'
    BY <1>2, <1>4, <1>6 DEF TakenIsGone, FormInv
  <1>. QED BY <1>1, <1>2, <1>5, <1>7, <1>8, <1>9, <1>10 DEF FormInv, SignsInAfter, LeftIsTaken

LEMMA FormServed ==
  ASSUME RowsInv, NEW kind \in Forms, screen = kind, FormInv(kind), NEW i \in DOMAIN requests, UNCHANGED screen,
         NEW verdict \in FormVerdicts(i), Serve(i, verdict), UNCHANGED form
  PROVE  RequestStep /\ FormInv(kind)'
  <1>1. verdict \in Verdicts
    BY DEF FormVerdicts, Verdicts
  <1>2. RequestStep /\ Dealt(i, verdict, requests[i].data)
    BY <1>1, ServedRow
  <1>3. /\ AwaitedAsks(kind)' = AwaitedAsks(kind) /\ Asks(kind) \subseteq DOMAIN requests
        /\ AwaitedAsks("signIn")' = AwaitedAsks("signIn") /\ AwaitedAsks("reload")' = AwaitedAsks("reload")
        /\ Asks("signIn")' = Asks("signIn") /\ AwaitedAsks(kind) \subseteq DOMAIN requests
        /\ \A j \in DOMAIN requests: Of(j)' = Of(j)
    BY <1>2, WhenDealt DEF AwaitedAsks
  <1>4. Heard(kind, {"done"})' = Heard(kind, {"done"}) /\ Heard(kind, {"done"}) \subseteq DOMAIN requests
    BY <1>2, DoneIsClear, HeardKept DEF Heard, Asks
  <1>5. /\ Done(kind, {"done"}) \subseteq Done(kind, {"done"})'
        /\ Done("signIn", {"done"}) \subseteq Done("signIn", {"done"})'
    BY <1>2, DoneIsClear, DoneStays
  <1>6. FormIsDead(kind)'
    BY <1>3 DEF FormIsDead, FormWork, FormInv
  <1>7. TakenIsGone(kind)'
    BY <1>3, <1>4 DEF TakenIsGone, FormInv
  <1>8. ClearIsOnce(kind)'
    <2>1. Clear(requests', kind, "done") \subseteq Clear(requests, kind, "done") \cup {i}
      BY <1>2 DEF Dealt, Deals, Others, Clear
    <2>2. Clear(requests, kind, "done") \subseteq DOMAIN requests
      BY DEF Clear
    <2>3. ASSUME kind \in Texts, i \in Clear(requests', kind, "done"), NEW j \in Clear(requests, kind, "done"),
                 j # i, Of(j) = Of(i)
          PROVE  FALSE
      <3>1. requests[i].ask.what = kind /\ verdict = "done" /\ requests[i].did = None
            /\ requests[i].heard \notin Doubtful
        BY <1>2, <2>3, FieldsOfRow DEF Dealt, Deals, Clear
      <3>2. i \in AwaitedAsks(kind)
        BY <3>1 DEF RowsInv, AwaitedAsks, Asks, Waiting
      <3>3. i \in FormWork(kind) /\ ~form.left /\ Of(i) = Id(form.draft)
        BY <2>3, <3>2 DEF FormInv, FormIsDead, FormWork, Texts
      <3>4. CASE kind = "register"
        <4>1. j \in Done(kind, {"done"})
          BY <2>3 DEF Clear, Done, Asks
        <4>. QED BY <3>1, <3>4, <4>1 DEF FormVerdicts
      <3>5. CASE kind # "register"
        <4>1. j \notin AwaitedAsks(kind)
          BY <2>3, <3>3 DEF FormInv, FormIsDead, FormWork, Texts
        <4>2. j \in Heard(kind, {"done"})
          BY <2>3, <4>1 DEF RowsInv, Clear, Heard, Asks, AwaitedAsks, Waiting
        <4>3. PICK n \in Nat: n < form.draft /\ Of(j) = Id(n)
          BY <2>3, <3>3, <3>5, <4>2 DEF FormInv, TakenIsGone
        <4>. QED BY <2>3, <3>3, <4>3 DEF Id, FormInv, FormsForm
      <3>. QED BY <3>4, <3>5
    <2>. QED BY <1>3, <2>1, <2>2, <2>3 DEF ClearIsOnce, FormInv
  <1>. QED BY <1>2, <1>3, <1>5, <1>6, <1>7, <1>8 DEF FormInv, SignsInAfter, LeftIsTaken

\* The handler of the form goes on: with nothing more, or with the request
\* that follows.
LEMMA FormHeard ==
  ASSUME RowsInv, NEW kind \in Forms, screen = kind, FormInv(kind), NEW i \in DOMAIN requests, UNCHANGED screen,
         requests[i].ask.what = kind, NEW outcome \in Outcomes(i), HearForm(i, outcome)
  PROVE  RequestStep /\ FormInv(kind)' /\ UNCHANGED kyc
  <1>1. i \in AwaitedAsks(kind) /\ i \in FormWork(kind) /\ outcome # None
    BY OutcomeIs DEF AwaitedAsks, Asks, Waiting, FormWork
  <1>2. kind # "device" => /\ FormWork(kind) = {i} /\ AwaitedAsks(kind) = {i} /\ form.busy = TRUE /\ form.left = FALSE
                           /\ Of(i) = Id(form.draft)
    BY <1>1 DEF FormInv, FormIsDead, FormWork, FormsForm
  <1>3. form.draft \in Nat \ {0} /\ form \in FormsForm
    BY DEF FormInv, FormsForm
  <1>4. kind \notin Afters /\ KindsOf(screen) = {kind, "signIn", "reload"} /\ "signIn" \in Afters /\ "reload" \in Afters
        /\ kind \notin {"signIn", "reload"}
    BY FormKinds
  <1>a. ASSUME NEW ask, ask.what \in {"signIn", "reload"}, EndAnd(i, outcome, <<ask>>)
        PROVE  RequestStep /\ Followed(i, outcome, ask)
    BY <1>a, <1>4, FollowedRow
  <1>b. ASSUME End(i, outcome) PROVE RequestStep /\ Ended(i, outcome)
    BY <1>b, EndedRow
  <1>5. outcome = "done" => i \in Done(kind, {"done"})
    BY DoneIsClear, HeardIsDone
  <1>6. CASE outcome # "done"
    <2>1. RequestStep /\ Ended(i, outcome) /\ UNCHANGED kyc
      BY <1>b, <1>6 DEF HearForm
    <2>2. /\ form' \in FormsForm /\ form'.draft = form.draft /\ form'.left = form.left
      BY <1>3, <1>6 DEF HearForm, FormsForm, HasBusy
    <2>3. /\ AwaitedAsks(kind)' = AwaitedAsks(kind) \ {i} /\ Asks(kind) \subseteq DOMAIN requests
          /\ \A j \in DOMAIN requests: Of(j)' = Of(j)
      BY <2>1, WhenEnded
    <2>4. /\ AwaitedAsks("signIn")' \subseteq AwaitedAsks("signIn")
          /\ AwaitedAsks("reload")' \subseteq AwaitedAsks("reload") /\ Asks("signIn")' = Asks("signIn")
          /\ i \notin AwaitedAsks("signIn")'  /\ i \notin AwaitedAsks("reload")'
      BY <2>1, WhenEnded
    <2>5. FormIsDead(kind)'
      <3>1. kind # "device" => FormWork(kind)' = {} /\ AwaitedAsks(kind)' = {}
        BY <1>2, <2>3, <2>4 DEF FormWork
      <3>. QED BY <3>1 DEF FormIsDead
    <2>6. Heard(kind, {"done"})' = Heard(kind, {"done"}) /\ Heard(kind, {"done"}) \subseteq DOMAIN requests
      <3>1. Heard(kind, {"done"})' = Heard(kind, {"done"})
        BY <1>6, <2>1, DoneIsClear, HeardEnds
      <3>. QED BY <3>1 DEF Heard, Asks
    <2>7. TakenIsGone(kind)'
      BY <2>2, <2>3, <2>6 DEF TakenIsGone, FormInv
    <2>8. ClearIsOnce(kind)'
      BY <2>1, DoneIsClear, ClearKept DEF ClearIsOnce, FormInv
    <2>9. /\ Done(kind, {"done"}) \subseteq Done(kind, {"done"})'
          /\ Done("signIn", {"done"}) \subseteq Done("signIn", {"done"})'
      BY <2>1, DoneIsClear, DoneStays
    <2>. QED BY <2>1, <2>2, <2>4, <2>5, <2>7, <2>8, <2>9 DEF FormInv, SignsInAfter, LeftIsTaken
  <1>7. CASE outcome = "done"
    <2>1. /\ EndAnd(i, outcome, Follows(kind)) /\ UNCHANGED kyc
          /\ form' = [form EXCEPT !.busy = Awaits(kind) /\ @,
                                  !.draft = IF Empties(kind) THEN @ + 1 ELSE @,
                                  !.left = Leaves(kind) /\ ~Awaits(kind)]
      BY <1>7 DEF HearForm
    <2>2. \/ Follows(kind) = <<>> /\ kind \notin {"register", "reply", "device", "sar"}
          \/ Follows(kind) = <<Ask("signIn", None)>> /\ kind = "register"
          \/ Follows(kind) = <<Ask("reload", None)>> /\ kind \in {"reply", "device", "sar"}
      BY DEF Follows
    <2> DEFINE Fact ==
          /\ RequestStep
          /\ Ended(i, outcome) \/ \E ask: Followed(i, outcome, ask)
          /\ \A j \in DOMAIN requests: Of(j)' = Of(j)
          /\ Asks(kind) \subseteq DOMAIN requests
          /\ AwaitedAsks(kind)' = AwaitedAsks(kind) \ {i}
          /\ \/ FormWork(kind)' \subseteq FormWork(kind) \ {i}
             \/ Awaits(kind) /\ \E n: FormWork(kind)' \subseteq (FormWork(kind) \ {i}) \cup {n}
          /\ Asks("signIn")' # {} => Asks("signIn") # {} \/ kind = "register"
    <2>3. ASSUME Follows(kind) = <<>> PROVE Fact
      <3>1. RequestStep /\ Ended(i, outcome)
        BY <1>b, <2>1, <2>3 DEF End
      <3>2. /\ AwaitedAsks(kind)' = AwaitedAsks(kind) \ {i} /\ Asks(kind) \subseteq DOMAIN requests
            /\ \A j \in DOMAIN requests: Of(j)' = Of(j)
        BY <3>1, WhenEnded
      <3>3. /\ AwaitedAsks("signIn")' = AwaitedAsks("signIn") \ {i}
            /\ AwaitedAsks("reload")' = AwaitedAsks("reload") \ {i} /\ Asks("signIn")' = Asks("signIn")
        BY <3>1, WhenEnded
      <3>4. FormWork(kind)' \subseteq FormWork(kind) \ {i}
        BY <3>2, <3>3 DEF FormWork
      <3>. QED BY <3>1, <3>2, <3>3, <3>4
    <2>4. ASSUME NEW ask, Follows(kind) = <<ask>>, ask.what \in {"signIn", "reload"},
                 kind = "register" <=> ask.what = "signIn", kind \in {"register", "reply", "device", "sar"}
          PROVE  Fact
      <3>1. RequestStep /\ Followed(i, outcome, ask)
        BY <1>a, <2>1, <2>4
      <3>. PICK n: n = Len(requests) + 1
        OBVIOUS
      <3>2. /\ AwaitedAsks(kind)' = AwaitedAsks(kind) \ {i} /\ Asks(kind) \subseteq DOMAIN requests
            /\ \A j \in DOMAIN requests: Of(j)' = Of(j)
        BY <1>4, <2>4, <3>1, WhenFollowed
      <3>3. /\ AwaitedAsks("signIn")' \subseteq (AwaitedAsks("signIn") \ {i}) \cup {n}
            /\ Asks("signIn")' = IF ask.what = "signIn" THEN Asks("signIn") \cup {n} ELSE Asks("signIn")
        BY <3>1, WhenFollowed
      <3>4. AwaitedAsks("reload")' \subseteq (AwaitedAsks("reload") \ {i}) \cup {n}
        BY <3>1, WhenFollowed
      <3>5. CASE Awaits(kind)
        <4>1. FormWork(kind)' \subseteq (FormWork(kind) \ {i}) \cup {n}
          BY <3>2, <3>3, <3>4 DEF FormWork
        <4>. QED BY <2>4, <3>1, <3>2, <3>3, <3>5, <4>1
      <3>6. CASE ~Awaits(kind)
        <4>1. FormWork(kind)' \subseteq FormWork(kind) \ {i}
          BY <3>2, <3>6 DEF FormWork
        <4>. QED BY <2>4, <3>1, <3>2, <3>3, <3>6, <4>1
      <3>. QED BY <3>5, <3>6
    <2>5. Fact
      <3>1. CASE Follows(kind) = <<Ask("signIn", None)>> /\ kind = "register"
        <4>. DEFINE ask == Ask("signIn", None)
        <4>1. ask.what = "signIn"
          BY DEF Ask
        <4>. HIDE DEF ask
        <4>2. Follows(kind) = <<ask>>
          BY <3>1 DEF ask
        <4>. HIDE DEF Fact
        <4>. QED BY <2>4, <3>1, <4>1, <4>2
      <3>2. CASE Follows(kind) = <<Ask("reload", None)>> /\ kind \in {"reply", "device", "sar"}
        <4>. DEFINE ask == Ask("reload", None)
        <4>1. ask.what = "reload"
          BY DEF Ask
        <4>. HIDE DEF ask
        <4>2. Follows(kind) = <<ask>>
          BY <3>2 DEF ask
        <4>. HIDE DEF Fact
        <4>. QED BY <2>4, <3>2, <4>1, <4>2
      <3>. HIDE DEF Fact
      <3>. QED BY <2>2, <2>3, <3>1, <3>2
    <2>6. /\ form' \in FormsForm /\ form'.left = (Leaves(kind) /\ ~Awaits(kind))
          /\ form'.busy = (Awaits(kind) /\ form.busy)
          /\ form'.draft = IF Empties(kind) THEN form.draft + 1 ELSE form.draft
      <3>. DEFINE busy == Awaits(kind) /\ form.busy
                  draft == IF Empties(kind) THEN form.draft + 1 ELSE form.draft
                  left == Leaves(kind) /\ ~Awaits(kind)
      <3>1. busy \in BOOLEAN /\ left \in BOOLEAN
        BY <1>3 DEF FormsForm, Leaves, Awaits
      <3>2. draft \in Nat \ {0}
        BY <1>3
      <3>3. form' = [form EXCEPT !.busy = busy, !.draft = draft, !.left = left]
        BY <2>1
      <3>. HIDE DEF busy, draft, left
      <3>4. form' \in FormsForm /\ form'.busy = busy /\ form'.draft = draft /\ form'.left = left
        BY <1>3, <3>1, <3>2, <3>3 DEF FormsForm
      <3>. QED BY <3>4 DEF busy, draft, left
    <2>7. FormIsDead(kind)'
      <3>1. kind # "device" => AwaitedAsks(kind)' = {} /\ \A j, k \in FormWork(kind)': j = k
        BY <1>2, <2>5
      <3>2. kind # "device" /\ FormWork(kind)' # {} => Awaits(kind)
        BY <1>2, <2>5
      <3>. QED BY <1>2, <2>6, <3>1, <3>2 DEF FormIsDead
    <2>8. Heard(kind, {"done"})' = Heard(kind, {"done"}) \cup {i} /\ Heard(kind, {"done"}) \subseteq DOMAIN requests
      <3>1. Heard(kind, {"done"})' = Heard(kind, {"done"}) \cup {i}
        BY <1>7, <2>5, DoneIsClear, HeardEnds
      <3>. QED BY <3>1 DEF Heard, Asks
    <2>9. TakenIsGone(kind)'
      <3>1. ASSUME kind \in Texts \ {"register"}, NEW j \in Heard(kind, {"done"})'
            PROVE  form'.left \/ \E n \in Nat: n < form'.draft /\ Of(j)' = Id(n)
        <4>1. CASE kind = "ticket"
          BY <2>6, <4>1 DEF Leaves, Awaits
        <4>2. CASE kind # "ticket"
          <5>1. form'.draft = form.draft + 1 /\ form.draft \in Nat
            BY <1>3, <2>6, <3>1, <4>2 DEF Empties, Texts, Forms
          <5>2. \E n \in Nat: n < form.draft + 1 /\ Of(j) = Id(n)
            <6>1. CASE j = i
              BY <1>2, <3>1, <5>1, <6>1 DEF Texts
            <6>2. CASE j # i
              <7>1. PICK n \in Nat: n < form.draft /\ Of(j) = Id(n)
                BY <1>2, <2>8, <3>1, <6>2 DEF FormInv, TakenIsGone, Texts
              <7>. QED BY <5>1, <7>1
            <6>. QED BY <6>1, <6>2
          <5>3. Of(j)' = Of(j)
            BY <2>5, <2>8, <3>1
          <5>. QED BY <5>1, <5>2, <5>3
        <4>. QED BY <4>1, <4>2
      <3>. QED BY <3>1 DEF TakenIsGone
    <2>10. ClearIsOnce(kind)'
      BY <2>5, DoneIsClear, ClearKept DEF ClearIsOnce, FormInv
    <2>11. Done(kind, {"done"}) \subseteq Done(kind, {"done"})'
      BY <2>5, DoneIsClear, DoneStays
    <2>. QED BY <1>5, <1>7, <2>1, <2>5, <2>6, <2>7, <2>9, <2>10, <2>11
             DEF FormInv, SignsInAfter, LeftIsTaken, Awaits
  <1>. QED BY <1>6, <1>7

\* The request that follows ends.
LEMMA FormFollowed ==
  ASSUME RowsInv, NEW kind \in Forms, screen = kind, FormInv(kind), NEW i \in DOMAIN requests, UNCHANGED screen,
         NEW outcome \in Outcomes(i),
         \/ requests[i].ask.what = "signIn" /\ HearSignIn(i, outcome)
         \/ requests[i].ask.what = "reload" /\ HearReload(i, outcome)
  PROVE  RequestStep /\ FormInv(kind)' /\ UNCHANGED kyc
  <1>1. RequestStep /\ Ended(i, outcome) /\ UNCHANGED kyc
    BY EndedRow DEF HearSignIn, HearReload
  <1>2. kind \notin {"signIn", "reload"}
    BY FormKinds
  <1>3. /\ AwaitedAsks(kind)' = AwaitedAsks(kind) \ {i} /\ Asks(kind) \subseteq DOMAIN requests
        /\ AwaitedAsks(kind) \subseteq DOMAIN requests
        /\ \A j \in DOMAIN requests: Of(j)' = Of(j)
    BY <1>1, WhenEnded DEF AwaitedAsks
  <1>4. /\ AwaitedAsks("signIn")' = AwaitedAsks("signIn") \ {i}
        /\ AwaitedAsks("reload")' = AwaitedAsks("reload") \ {i} /\ Asks("signIn")' = Asks("signIn")
    BY <1>1, WhenEnded
  <1>5. FormWork(kind)' \subseteq FormWork(kind) \ {i}
    BY <1>3, <1>4 DEF FormWork
  <1>6. Heard(kind, {"done"})' = Heard(kind, {"done"}) /\ Heard(kind, {"done"}) \subseteq DOMAIN requests
    <2>1. Heard(kind, {"done"})' = Heard(kind, {"done"})
      BY <1>1, <1>2, DoneIsClear, HeardEnds
    <2>. QED BY <2>1 DEF Heard, Asks
  <1>7. ClearIsOnce(kind)'
    BY <1>1, DoneIsClear, ClearKept DEF ClearIsOnce, FormInv
  <1>8. /\ Done(kind, {"done"}) \subseteq Done(kind, {"done"})'
        /\ Done("signIn", {"done"}) \subseteq Done("signIn", {"done"})'
    BY <1>1, DoneIsClear, DoneStays
  <1>9. form.draft \in Nat \ {0} /\ form \in FormsForm
    BY DEF FormInv, FormsForm
  <1>10. CASE requests[i].ask.what = "signIn" /\ HearSignIn(i, outcome)
    <2>1. i \in AwaitedAsks("signIn") /\ i \in Asks("signIn")
      BY <1>10, OutcomeIs DEF AwaitedAsks, Asks, Waiting
    <2>2. kind = "register" /\ Done(kind, {"done"}) # {} /\ Awaits(kind)
      BY <2>1 DEF FormInv, SignsInAfter, Awaits
    <2>3. FormWork(kind) = {i}
      BY <2>1, <2>2 DEF FormInv, FormIsDead, FormWork
    <2>4. form' \in FormsForm /\ form'.left = (outcome = "done") /\ form'.draft = form.draft
      BY <1>9, <1>10 DEF HearSignIn, FormsForm
    <2>5. FormIsDead(kind)'
      <3>1. FormWork(kind)' = {} /\ AwaitedAsks(kind)' = {}
        BY <1>3, <1>5, <2>3 DEF FormWork
      <3>. QED BY <3>1 DEF FormIsDead
    <2>6. outcome = "done" => i \in Done("signIn", {"done"})
      BY <1>10, DoneIsClear, HeardIsDone
    <2>. QED BY <1>1, <1>4, <1>7, <1>8, <2>2, <2>4, <2>5, <2>6
             DEF FormInv, TakenIsGone, SignsInAfter, LeftIsTaken
  <1>11. CASE requests[i].ask.what = "reload" /\ HearReload(i, outcome)
    <2>1. i \in AwaitedAsks("reload")
      BY <1>11, OutcomeIs DEF AwaitedAsks, Asks, Waiting
    <2>2. /\ form' \in FormsForm /\ form'.left = form.left /\ form'.draft = form.draft
          /\ form'.busy = (~Awaits(kind) /\ form.busy)
      BY <1>9, <1>11 DEF HearReload, FormsForm, Awaits
    <2>3. FormIsDead(kind)'
      <3>1. CASE Awaits(kind) /\ kind # "device"
        <4>1. FormWork(kind) = {i}
          BY <2>1, <3>1 DEF FormInv, FormIsDead, FormWork
        <4>2. FormWork(kind)' = {} /\ AwaitedAsks(kind)' = {}
          BY <1>3, <1>5, <4>1 DEF FormWork
        <4>. QED BY <4>2 DEF FormIsDead
      <3>2. CASE ~Awaits(kind)
        BY <1>3, <1>5, <2>2, <3>2 DEF FormInv, FormIsDead
      <3>. QED BY <3>1, <3>2 DEF FormIsDead
    <2>4. TakenIsGone(kind)'
      BY <1>3, <1>6, <2>2 DEF TakenIsGone, FormInv
    <2>. QED BY <1>1, <1>4, <1>7, <1>8, <2>2, <2>3, <2>4 DEF FormInv, SignsInAfter, LeftIsTaken
  <1>. QED BY <1>10, <1>11

LEMMA FormStep ==
  ASSUME RowsInv, NEW kind \in Forms, screen = kind, FormInv(kind), ScreensNext
  PROVE  RequestStep /\ FormInv(kind)' /\ UNCHANGED <<kyc, moneyVars, deskVars, deviceVars>>
  <1>1. CASE Tap
    BY <1>1, TappedOn, FormTapStep DEF ScreensNext
  <1>2. ASSUME NEW i \in DOMAIN requests, Served(i) \/ Hears(i)
        PROVE  RequestStep /\ FormInv(kind)' /\ UNCHANGED <<kyc, moneyVars, deskVars, deviceVars>>
    <2>1. requests[i].ask.what \in {kind, "signIn", "reload"} /\ requests[i].ask.what \in FormAsks
      BY FormKinds DEF RowsInv
    <2>2. CASE Served(i)
      BY <2>1, <2>2, ServedBy, FormServed DEF ScreensNext, formVars
    <2>3. CASE Hears(i)
      <3>1. PICK outcome \in Outcomes(i): Goes(i, outcome)
        BY <2>3 DEF Hears
      <3>2. FormHears(i, outcome) /\ UNCHANGED <<moneyVars, deskVars, deviceVars>>
        BY <2>1, <3>1, HeardByForm
      <3>3. RequestStep /\ FormInv(kind)' /\ UNCHANGED kyc
        BY <2>1, <3>2, FormHeard, FormFollowed DEF ScreensNext, FormHears
      <3>. QED BY <3>2, <3>3
    <2>. QED BY <1>2, <2>2, <2>3
  <1>. QED BY <1>1, <1>2 DEF ScreensNext

\* One text, one copy, and one more for each doubt about it.
LEMMA OnceAndDoubts ==
  ASSUME NEW n \in Nat, NEW done, NEW clear, NEW doubts, doubts \subseteq 1..n, clear \subseteq 1..n,
         done \subseteq clear \cup doubts, \A i, j \in clear: i = j
  PROVE  Cardinality(done) <= 1 + Cardinality(doubts)
  <1>1. /\ IsFiniteSet(doubts) /\ Cardinality(doubts) \in Nat /\ done \subseteq 1..n
        /\ IsFiniteSet(done) /\ Cardinality(done) \in Nat
    BY Places
  <1>2. CASE clear = {}
    <2>1. Cardinality(done) <= Cardinality(doubts)
      BY <1>1, <1>2, FS_Subset
    <2>. QED BY <1>1, <2>1
  <1>3. ASSUME NEW i \in clear PROVE Cardinality(done) <= 1 + Cardinality(doubts)
    <2>1. IsFiniteSet(doubts \cup {i})
      BY <1>1, FS_AddElement
    <2>2. Cardinality(doubts \cup {i}) = IF i \in doubts THEN Cardinality(doubts) ELSE Cardinality(doubts) + 1
      BY <1>1, FS_AddElement
    <2>3. done \subseteq doubts \cup {i}
      BY <1>3
    <2>4. Cardinality(done) <= Cardinality(doubts \cup {i})
      BY <2>1, <2>3, FS_Subset
    <2>. QED BY <1>1, <2>2, <2>4
  <1>. QED BY <1>2, <1>3

LEMMA FormKeeps ==
  ASSUME RowsInv, NEW kind \in Forms, screen = kind, FormInv(kind)
  PROVE  /\ DraftsAreTakenOnce /\ form.draft \in Nat \ {0}
         /\ form.left => /\ Done(screen, {"done"}) # {}
                         /\ screen = "register" => Done("signIn", {"done"}) # {}
  <1>1. ASSUME NEW n \in 1..form.draft, kind \in Texts
        PROVE  Cardinality(Copies(n)) <= 1 + Cardinality({i \in Heard(kind, Doubtful): Of(i) = Id(n)})
    <2> DEFINE clear == {i \in Clear(requests, kind, "done"): Of(i) = Id(n)}
               doubts == {i \in Heard(kind, Doubtful): Of(i) = Id(n)}
    <2>1. Len(requests) \in Nat /\ DOMAIN requests = 1..Len(requests)
      BY RequestsLen DEF RowsInv
    <2>2. clear \subseteq 1..Len(requests) /\ doubts \subseteq 1..Len(requests)
      BY <2>1 DEF Clear, Heard, Asks
    <2>3. Copies(n) \subseteq clear \cup doubts
      BY DEF Copies, Done, Asks, Clear, Heard
    <2>4. \A i, j \in clear: i = j
      BY <1>1 DEF FormInv, ClearIsOnce
    <2>. HIDE DEF clear, doubts
    <2>5. Cardinality(Copies(n)) <= 1 + Cardinality(doubts)
      BY <2>1, <2>2, <2>3, <2>4, OnceAndDoubts
    <2>. QED BY <2>5 DEF doubts
  <1>2. DraftsAreTakenOnce
    BY <1>1 DEF DraftsAreTakenOnce, Texts
  <1>3. form.draft \in Nat \ {0}
    BY DEF FormInv, FormsForm
  <1>. QED BY <1>2, <1>3 DEF FormInv, LeftIsTaken

-----------------------------------------------------------------------------
(* KycCaptureScreen. *)

Accepted(id, s) == \E u \in Done("upload", {"done"}): Id(u) = id /\ Of(u) = s
KycForm ==
  /\ kyc = [slots |-> kyc.slots, submitting |-> kyc.submitting, status |-> kyc.status]
  /\ DOMAIN kyc.slots = Slots /\ kyc.slots = [s \in Slots |-> kyc.slots[s]]
  /\ \A s \in Slots: kyc.slots[s] = [uri |-> kyc.slots[s].uri, fileId |-> kyc.slots[s].fileId,
                                     uploading |-> kyc.slots[s].uploading]
  /\ kyc.status \in {"idle", "submitted", "error"}
SlotIsAccepted(s) ==
  kyc.slots[s].fileId # None =>
    kyc.slots[s].fileId = kyc.slots[s].uri /\ Accepted(kyc.slots[s].fileId, s)
SlotsAreAccepted == \A s \in Slots: SlotIsAccepted(s)
FilesAreAccepted == \A i \in Asks("kyc"), s \in Slots: Accepted(Of(i)[s], s)
UploadsAreOfSlots == \A i \in Asks("upload"): Of(i) \in Slots
KycInv == KycForm /\ SlotsAreAccepted /\ FilesAreAccepted /\ UploadsAreOfSlots

\* What was accepted stays so.
LEMMA AcceptedStays ==
  ASSUME RowsInv, RequestStep, NEW id, NEW s, Accepted(id, s)
  PROVE  Accepted(id, s)'
  <1>1. PICK u \in Done("upload", {"done"}): Id(u) = id /\ Of(u) = s
    BY DEF Accepted
  <1>2. u \in Done("upload", {"done"})' /\ u \in DOMAIN requests
    BY <1>1, DoneIsClear, DoneStays DEF Done, Asks
  <1>3. Of(u)' = Of(u)
    BY <1>2, OldRows DEF Of
  <1>. QED BY <1>1, <1>2, <1>3 DEF Accepted, Id

\* The slots change only where said.
LEMMA KycSlots ==
  ASSUME RowsInv, RequestStep, KycInv,
         \A s \in Slots: kyc'.slots[s] = kyc.slots[s] \/ SlotIsAccepted(s)'
  PROVE  SlotsAreAccepted'
  <1>1. ASSUME NEW s \in Slots, kyc'.slots[s] = kyc.slots[s], kyc'.slots[s].fileId # None PROVE SlotIsAccepted(s)'
    <2>1. PICK id: id = kyc.slots[s].fileId
      OBVIOUS
    <2>2. kyc'.slots[s] = kyc.slots[s] /\ id = kyc.slots[s].uri /\ Accepted(id, s)
      BY <1>1, <2>1 DEF KycInv, SlotsAreAccepted, SlotIsAccepted
    <2>3. Accepted(id, s)'
      BY <2>2, AcceptedStays
    <2>4. kyc'.slots[s].fileId = id
      BY <2>1, <2>2
    <2>. QED BY <2>2, <2>3, <2>4 DEF Accepted, SlotIsAccepted
  <1>2. ASSUME NEW s \in Slots, kyc'.slots[s].fileId = None PROVE SlotIsAccepted(s)'
    BY <1>2 DEF SlotIsAccepted
  <1>. QED BY <1>1, <1>2 DEF SlotsAreAccepted

\* The files of the submissions made so far stay accepted.
LEMMA KycFiles ==
  ASSUME RowsInv, RequestStep, KycInv, NEW i \in Asks("kyc"), NEW s \in Slots
  PROVE  Accepted(Of(i)[s], s)'
  <1>1. PICK id: id = Of(i)[s]
    OBVIOUS
  <1>2. Accepted(id, s)'
    BY <1>1, AcceptedStays DEF KycInv, FilesAreAccepted
  <1>3. Of(i)' = Of(i)
    BY OldRows DEF Of, Asks
  <1>. QED BY <1>1, <1>2, <1>3 DEF Accepted

\* One slot is written.
LEMMA SlotChanged ==
  ASSUME KycForm, NEW s \in Slots, NEW slot,
         slot = [uri |-> slot.uri, fileId |-> slot.fileId, uploading |-> slot.uploading],
         kyc'.slots = [kyc.slots EXCEPT ![s] = slot], kyc'.status = kyc.status,
         kyc' = [slots |-> kyc'.slots, submitting |-> kyc'.submitting, status |-> kyc'.status]
  PROVE  /\ KycForm' /\ kyc'.slots[s] = slot
         /\ \A t \in Slots \ {s}: kyc'.slots[t] = kyc.slots[t]
  <1>1. DOMAIN kyc.slots = Slots
    BY DEF KycForm
  <1>2. /\ DOMAIN kyc'.slots = Slots /\ kyc'.slots = [t \in Slots |-> kyc'.slots[t]]
        /\ kyc'.slots[s] = slot
        /\ \A t \in Slots \ {s}: kyc'.slots[t] = kyc.slots[t]
    BY <1>1
  <1>3. \A t \in Slots: kyc'.slots[t] = [uri |-> kyc'.slots[t].uri, fileId |-> kyc'.slots[t].fileId,
                                         uploading |-> kyc'.slots[t].uploading]
    BY <1>2 DEF KycForm
  <1>. QED BY <1>2, <1>3 DEF KycForm

LEMMA KycTapStep ==
  ASSUME RowsInv, screen = "kycCapture", KycInv, KycTaps, UNCHANGED screen
  PROVE  RequestStep /\ KycInv' /\ UNCHANGED form
  <1>1. RequestsAre(requests) /\ KindsOf(screen) = {"upload", "kyc"} /\ Len(requests) \in Nat
        /\ MaxRequests[screen] \in Nat
    BY Kinds, RequestsLen, ApiClientAssumption DEF RowsInv
  <1>2. ASSUME NEW s \in Slots, TakePhoto(s) PROVE RequestStep /\ KycInv' /\ UNCHANGED form
    <2> DEFINE ask == Ask("upload", s)
    <2>1. Requested(ask) /\ RequestStep /\ ask.what = "upload" /\ ask.of = s /\ UNCHANGED form
      BY <1>1, <1>2, SendGrows DEF TakePhoto, RequestStep, Requested, Ask, Room
    <2> HIDE DEF ask
    <2> PICK n: n = Len(requests) + 1
      OBVIOUS
    <2>2. /\ Asks("upload")' = Asks("upload") \cup {n} /\ Asks("upload") \subseteq DOMAIN requests
          /\ \A j \in DOMAIN requests: Of(j)' = Of(j)
          /\ Of(n)' = s
      BY <2>1, WhenMade
    <2>3. Asks("kyc")' = Asks("kyc")
      BY <2>1, WhenMade
    <2> DEFINE slot == [uri |-> NextId, fileId |-> None, uploading |-> TRUE]
    <2>4. kyc' = [kyc EXCEPT !.slots = [kyc.slots EXCEPT ![s] = slot]]
      BY <1>2 DEF TakePhoto
    <2>5. /\ kyc'.slots = [kyc.slots EXCEPT ![s] = slot] /\ kyc'.status = kyc.status
          /\ kyc' = [slots |-> kyc'.slots, submitting |-> kyc'.submitting, status |-> kyc'.status]
      BY <2>4 DEF KycInv, KycForm
    <2>6. /\ KycForm' /\ kyc'.slots[s].fileId = None
          /\ \A t \in Slots \ {s}: kyc'.slots[t] = kyc.slots[t]
      BY <1>2, <2>5, SlotChanged DEF KycInv
    <2>7. SlotsAreAccepted'
      <3>1. SlotIsAccepted(s)'
        BY <2>6 DEF SlotIsAccepted
      <3>. QED BY <2>1, <2>6, <3>1, KycSlots
    <2>8. FilesAreAccepted'
      BY <2>1, <2>3, KycFiles DEF FilesAreAccepted
    <2>9. UploadsAreOfSlots'
      BY <2>2 DEF KycInv, UploadsAreOfSlots
    <2>. QED BY <2>1, <2>6, <2>7, <2>8, <2>9 DEF KycInv
  <1>3. CASE SubmitKyc
    <2> DEFINE ask == Ask("kyc", [s \in Slots |-> kyc.slots[s].fileId])
    <2>1. Requested(ask) /\ RequestStep /\ ask.what = "kyc" /\ UNCHANGED form
          /\ \A s \in Slots: ask.of[s] = kyc.slots[s].fileId
      BY <1>1, <1>3, SendGrows DEF SubmitKyc, RequestStep, Requested, Ask
    <2> HIDE DEF ask
    <2> PICK n: n = Len(requests) + 1
      OBVIOUS
    <2>2. /\ Asks("kyc")' = Asks("kyc") \cup {n} /\ Asks("kyc") \subseteq DOMAIN requests
          /\ \A j \in DOMAIN requests: Of(j)' = Of(j)
          /\ Of(n)' = ask.of
      BY <2>1, WhenMade
    <2>3. Asks("upload")' = Asks("upload") /\ Asks("upload") \subseteq DOMAIN requests
      BY <2>1, WhenMade
    <2>4. KycForm' /\ kyc'.slots = kyc.slots
      BY <1>3 DEF SubmitKyc, KycInv, KycForm
    <2>5. SlotsAreAccepted'
      <3>1. \A s \in Slots: kyc'.slots[s] = kyc.slots[s]
        BY <2>4
      <3>. QED BY <2>1, <3>1, KycSlots
    <2>6. FilesAreAccepted'
      <3>1. ASSUME NEW s \in Slots PROVE Accepted(Of(n)[s], s)'
        <4>1. PICK id: id = kyc.slots[s].fileId
          OBVIOUS
        <4>2. Accepted(id, s)
          BY <1>3, <4>1 DEF SubmitKyc, BothAccepted, KycInv, SlotsAreAccepted, SlotIsAccepted
        <4>3. Accepted(id, s)'
          BY <2>1, <4>2, AcceptedStays
        <4>4. Of(n)'[s] = id
          BY <2>1, <2>2, <4>1
        <4>. QED BY <4>3, <4>4 DEF Accepted
      <3>. QED BY <2>1, <2>2, <3>1, KycFiles DEF FilesAreAccepted
    <2>7. UploadsAreOfSlots'
      BY <2>2, <2>3 DEF KycInv, UploadsAreOfSlots
    <2>. QED BY <2>1, <2>4, <2>5, <2>6, <2>7 DEF KycInv
  <1>. QED BY <1>2, <1>3 DEF KycTaps

LEMMA KycHeard ==
  ASSUME RowsInv, screen = "kycCapture", KycInv, NEW i \in DOMAIN requests, UNCHANGED screen,
         NEW outcome \in Outcomes(i),
         \/ requests[i].ask.what = "upload" /\ HearUpload(i, outcome)
         \/ requests[i].ask.what = "kyc" /\ HearKyc(i, outcome)
  PROVE  RequestStep /\ KycInv' /\ UNCHANGED form
  <1>1. RequestStep /\ Ended(i, outcome) /\ UNCHANGED form
    BY EndedRow DEF HearUpload, HearKyc
  <1>2. /\ Asks("upload")' = Asks("upload") /\ Asks("upload") \subseteq DOMAIN requests
        /\ Asks("kyc")' = Asks("kyc")
        /\ \A j \in DOMAIN requests: Of(j)' = Of(j)
    BY <1>1, WhenEnded
  <1>3. FilesAreAccepted' /\ UploadsAreOfSlots'
    BY <1>1, <1>2, KycFiles DEF FilesAreAccepted, UploadsAreOfSlots, KycInv
  <1>4. CASE requests[i].ask.what = "upload" /\ HearUpload(i, outcome)
    <2> DEFINE slot == IF outcome = "done" THEN [uri |-> Id(i), fileId |-> Id(i), uploading |-> FALSE]
                       ELSE EmptyCapture
    <2>1. PICK s: s = Of(i)
      OBVIOUS
    <2>2. s \in Slots
      BY <1>4, <2>1 DEF KycInv, UploadsAreOfSlots, Asks
    <2>3. kyc' = [kyc EXCEPT !.slots = [kyc.slots EXCEPT ![s] = slot]]
      BY <1>4, <2>1 DEF HearUpload
    <2>4. /\ slot = [uri |-> slot.uri, fileId |-> slot.fileId, uploading |-> slot.uploading]
          /\ slot.fileId # None => /\ slot.fileId = slot.uri /\ slot.fileId = Id(i)
                                   /\ outcome = "done"
      BY DEF EmptyCapture
    <2>. HIDE DEF slot
    <2>5. /\ kyc'.slots = [kyc.slots EXCEPT ![s] = slot] /\ kyc'.status = kyc.status
          /\ kyc' = [slots |-> kyc'.slots, submitting |-> kyc'.submitting, status |-> kyc'.status]
      BY <2>3 DEF KycInv, KycForm
    <2>6. /\ KycForm' /\ kyc'.slots[s] = slot
          /\ \A t \in Slots \ {s}: kyc'.slots[t] = kyc.slots[t]
      BY <2>2, <2>4, <2>5, SlotChanged DEF KycInv
    <2>7. SlotIsAccepted(s)'
      <3>1. CASE slot.fileId = None
        BY <2>6, <3>1 DEF SlotIsAccepted
      <3>2. CASE slot.fileId # None
        <4>1. i \in Done("upload", {"done"})
          BY <1>4, <2>4, <3>2, DoneIsClear, HeardIsDone
        <4>2. Accepted(Id(i), s)
          BY <2>1, <4>1 DEF Accepted
        <4>3. Accepted(Id(i), s)'
          BY <1>1, <4>2, AcceptedStays
        <4>. QED BY <2>4, <2>6, <3>2, <4>3 DEF SlotIsAccepted, Accepted
      <3>. QED BY <3>1, <3>2
    <2>8. SlotsAreAccepted'
      BY <1>1, <2>6, <2>7, KycSlots
    <2>. QED BY <1>1, <1>3, <2>6, <2>8 DEF KycInv
  <1>5. CASE requests[i].ask.what = "kyc" /\ HearKyc(i, outcome)
    <2>1. KycForm' /\ kyc'.slots = kyc.slots
      BY <1>5 DEF HearKyc, KycInv, KycForm
    <2>2. SlotsAreAccepted'
      <3>1. \A s \in Slots: kyc'.slots[s] = kyc.slots[s]
        BY <2>1
      <3>. QED BY <1>1, <3>1, KycSlots
    <2>. QED BY <1>1, <1>3, <2>1, <2>2 DEF KycInv
  <1>. QED BY <1>4, <1>5

LEMMA KycServed ==
  ASSUME RowsInv, screen = "kycCapture", KycInv, NEW i \in DOMAIN requests, UNCHANGED screen,
         NEW verdict \in FormVerdicts(i), Serve(i, verdict), UNCHANGED formVars
  PROVE  RequestStep /\ KycInv'
  <1>1. verdict \in Verdicts /\ UNCHANGED kyc
    BY DEF FormVerdicts, Verdicts, formVars
  <1>2. RequestStep /\ Dealt(i, verdict, requests[i].data)
    BY <1>1, ServedRow
  <1>3. /\ Asks("upload")' = Asks("upload") /\ Asks("upload") \subseteq DOMAIN requests
        /\ Asks("kyc")' = Asks("kyc")
        /\ \A j \in DOMAIN requests: Of(j)' = Of(j)
    BY <1>2, WhenDealt
  <1>4. FilesAreAccepted' /\ UploadsAreOfSlots'
    BY <1>2, <1>3, KycFiles DEF FilesAreAccepted, UploadsAreOfSlots, KycInv
  <1>5. SlotsAreAccepted'
    <2>1. \A s \in Slots: kyc'.slots[s] = kyc.slots[s]
      BY <1>1
    <2>. QED BY <1>2, <2>1, KycSlots
  <1>6. KycForm'
    BY <1>1 DEF KycInv, KycForm
  <1>. QED BY <1>2, <1>4, <1>5, <1>6 DEF KycInv

LEMMA KycStep ==
  ASSUME RowsInv, screen = "kycCapture", KycInv, ScreensNext
  PROVE  RequestStep /\ KycInv' /\ UNCHANGED <<form, moneyVars, deskVars, deviceVars>>
  <1>1. CASE Tap
    BY <1>1, TappedOn, KycTapStep DEF ScreensNext
  <1>2. ASSUME NEW i \in DOMAIN requests, Served(i) \/ Hears(i)
        PROVE  RequestStep /\ KycInv' /\ UNCHANGED <<form, moneyVars, deskVars, deviceVars>>
    <2>1. requests[i].ask.what \in {"upload", "kyc"} /\ requests[i].ask.what \in FormAsks
      BY Kinds DEF RowsInv, FormAsks
    <2>2. CASE Served(i)
      BY <2>1, <2>2, ServedBy, KycServed DEF ScreensNext, formVars
    <2>3. CASE Hears(i)
      <3>1. PICK outcome \in Outcomes(i): Goes(i, outcome)
        BY <2>3 DEF Hears
      <3>2. FormHears(i, outcome) /\ UNCHANGED <<moneyVars, deskVars, deviceVars>>
        BY <2>1, <3>1, HeardByForm
      <3>3. RequestStep /\ KycInv' /\ UNCHANGED form
        BY <2>1, <3>2, KycHeard DEF ScreensNext, FormHears
      <3>. QED BY <3>2, <3>3
    <2>. QED BY <1>2, <2>2, <2>3
  <1>. QED BY <1>1, <1>2 DEF ScreensNext

-----------------------------------------------------------------------------
(* The lock. *)

LockForm ==
  [enabled: BOOLEAN, hardware: BOOLEAN, locked: BOOLEAN, checked: BOOLEAN, away: {"no", "short", "long"},
   prompts: Nat, begun: Nat, vouched: BOOLEAN]
LockInv ==
  /\ lock \in LockForm /\ lock.prompts <= lock.begun /\ lock.begun <= MaxPrompts
  /\ lock.enabled /\ lock.hardware /\ lock.checked /\ lock.prompts = 0 => lock.locked \/ lock.vouched

LEMMA LockStep ==
  ASSUME RowsInv, screen = "lock", LockInv, ScreensNext
  PROVE  RequestStep /\ LockInv' /\ UNCHANGED <<session, balance, cache, moneyVars, formVars, deskVars>>
  <1>1. DOMAIN requests = {}
    BY Kinds DEF RowsInv
  <1>2. LockTaps /\ UNCHANGED <<moneyVars, formVars, deskVars, screen>>
    BY <1>1, TappedOn DEF ScreensNext
  <1>3. UNCHANGED <<requests, session, balance, cache>>
    BY <1>2 DEF LockTaps, OpenApp, PressUnlock, GoAway, StayAway, ComeBack, AnswerPrompt
  <1>4. LockInv'
    <2>1. MaxPrompts \in Nat \ {0}
      BY DeviceAssumption
    <2>2. ASSUME NEW l, l = TryUnlock(lock), lock.begun < MaxPrompts
          PROVE  /\ l \in LockForm /\ l.prompts <= l.begun /\ l.begun <= MaxPrompts
                 /\ l.enabled /\ l.hardware => l.prompts # 0
      <3>1. CASE ~lock.enabled \/ ~lock.hardware
        <4>1. l = [lock EXCEPT !.locked = FALSE, !.checked = TRUE]
          BY <2>2, <3>1 DEF TryUnlock
        <4>. QED BY <2>2, <3>1, <4>1 DEF LockInv, LockForm
      <3>2. CASE lock.enabled /\ lock.hardware
        <4>1. l = [lock EXCEPT !.prompts = @ + 1, !.begun = @ + 1]
          BY <2>2, <3>2 DEF TryUnlock
        <4>2. lock \in LockForm /\ lock.prompts \in Nat /\ lock.begun \in Nat /\ MaxPrompts \in Nat
          BY <2>1 DEF LockInv, LockForm
        <4>3. l \in LockForm
          <5>1. PICK p, b: p = lock.prompts + 1 /\ b = lock.begun + 1
            OBVIOUS
          <5>2. l = [lock EXCEPT !.prompts = p, !.begun = b] /\ p \in Nat /\ b \in Nat
            BY <4>1, <4>2, <5>1
          <5>. QED BY <4>2, <5>2 DEF LockForm
        <4>4. l.prompts = lock.prompts + 1 /\ l.begun = lock.begun + 1
          BY <4>1, <4>2 DEF LockForm
        <4>5. l.prompts <= l.begun /\ l.begun <= MaxPrompts /\ l.prompts # 0
          BY <2>2, <4>2, <4>4 DEF LockInv
        <4>. QED BY <4>3, <4>5
      <3>. QED BY <3>1, <3>2
    <2>3. CASE OpenApp
      <3>1. lock' = TryUnlock(lock) /\ lock.begun < MaxPrompts
        BY <2>1, <2>3 DEF OpenApp
      <3>. QED BY <2>2, <3>1 DEF LockInv
    <2>4. CASE PressUnlock
      <3>1. lock' = TryUnlock(lock) /\ lock.begun < MaxPrompts
        BY <2>4 DEF PressUnlock
      <3>. QED BY <2>2, <3>1 DEF LockInv
    <2>5. CASE GoAway \/ StayAway
      BY <2>5 DEF GoAway, StayAway, LockInv, LockForm
    <2>6. CASE ComeBack
      <3>1. CASE AskedAgain(lock)
        <4>1. PICK l: l = TryUnlock(lock)
          OBVIOUS
        <4>2. lock' = [l EXCEPT !.away = "no", !.vouched = FALSE] /\ lock.begun < MaxPrompts
          BY <2>6, <3>1, <4>1 DEF ComeBack
        <4>3. /\ l \in LockForm /\ l.prompts <= l.begun /\ l.begun <= MaxPrompts
              /\ l.enabled /\ l.hardware => l.prompts # 0
          BY <2>2, <4>1, <4>2
        <4>4. /\ lock' \in LockForm /\ lock'.prompts = l.prompts /\ lock'.begun = l.begun
              /\ lock'.enabled = l.enabled /\ lock'.hardware = l.hardware
          BY <4>2, <4>3 DEF LockForm
        <4>. QED BY <4>3, <4>4 DEF LockInv
      <3>2. CASE ~AskedAgain(lock)
        BY <2>6, <3>2 DEF ComeBack, LockInv, LockForm
      <3>. QED BY <3>1, <3>2
    <2>7. ASSUME NEW success \in BOOLEAN, AnswerPrompt(success) PROVE LockInv'
      <3>1. /\ lock' \in LockForm /\ lock'.prompts = lock.prompts - 1 /\ lock'.begun = lock.begun
            /\ lock'.locked = ~success /\ lock'.vouched = (lock.vouched \/ success) /\ lock.prompts > 0
        <4>1. /\ lock' = [lock EXCEPT !.prompts = lock.prompts - 1, !.locked = ~success, !.checked = TRUE,
                                      !.vouched = lock.vouched \/ success]
              /\ lock \in LockForm /\ lock.prompts > 0 /\ lock.prompts \in Nat
          BY <2>7 DEF AnswerPrompt, LockInv, LockForm
        <4>2. lock.prompts - 1 \in Nat /\ (lock.vouched \/ success) \in BOOLEAN /\ (~success) \in BOOLEAN
          BY <4>1 DEF LockForm
        <4>3. lock' \in LockForm
          BY <4>1, <4>2 DEF LockForm
        <4>4. /\ lock'.prompts = lock.prompts - 1 /\ lock'.begun = lock.begun
              /\ lock'.locked = ~success
          BY <4>1 DEF LockForm
        <4>5. lock'.vouched = (lock.vouched \/ success)
          BY <4>1 DEF LockForm
        <4>. QED BY <4>1, <4>3, <4>4, <4>5
      <3>2. lock.prompts \in Nat /\ lock.begun \in Nat /\ MaxPrompts \in Nat
        BY <2>1 DEF LockInv, LockForm
      <3>3. lock'.prompts <= lock'.begun /\ lock'.begun <= MaxPrompts
        BY <3>1, <3>2 DEF LockInv
      <3>4. lock'.locked \/ lock'.vouched
        BY <3>1
      <3>. QED BY <3>1, <3>3, <3>4 DEF LockInv
    <2>. QED BY <1>2, <2>3, <2>4, <2>5, <2>6, <2>7 DEF LockTaps
  <1>. QED BY <1>2, <1>3, <1>4 DEF RequestStep, RowsInv

-----------------------------------------------------------------------------
(* The session and the balance. *)

People == Users \cup {None}
HomeForm ==
  /\ session \in [token: People, user: People, mount: Nat]
  /\ balance \in [of: People, live: BOOLEAN, loading: BOOLEAN] /\ cache \in People
\* Who is out holds no token and sees no balance; a live balance is of the
\* token.
OutOrOwn ==
  /\ ~SignedIn => session.token = None /\ ~balance.live
  /\ balance.live => balance.of = session.token /\ session.token # None
\* A balance was asked for by a mount that was, and by the present one with
\* its token or before it had one.
BalancesAreOfMounts ==
  \A i \in Asks("balance"): /\ Of(i).token \in People /\ Of(i).mount \in Nat /\ Of(i).mount <= session.mount
                            /\ SignedIn /\ Of(i).mount = session.mount => Of(i).token \in {session.token, None}
TokensAreKnown ==
  /\ \A i \in Asks("profile"): Of(i).token \in People
  /\ \A i \in Asks("signInAs"): Of(i) \in Users
  /\ \A i \in Done("profile", {"done"}) \cup Done("balance", {"done"}): Of(i).token # None
OneLogIn ==
  /\ \A i, j \in AwaitedAsks("signInAs"): i = j
  /\ SignedIn /\ session.token # None => AwaitedAsks("signInAs") = {}
UserIsKnown ==
  session.user = session.token \/ session.user \in {Of(i).token: i \in Heard("profile", {"done"})}
HomeInv ==
  HomeForm /\ OutOrOwn /\ BalancesAreOfMounts /\ TokensAreKnown /\ OneLogIn /\ UserIsKnown

\* The requests after a step, and the balances asked for by the mounts.
NewAsks ==
  \A i \in DOMAIN requests' \ DOMAIN requests:
    /\ requests'[i].did = None /\ requests'[i].heard = None
    /\ requests'[i].ask.what = "balance" =>
         /\ requests'[i].ask.of.token \in {session'.token, None}
         /\ requests'[i].ask.of.mount = session'.mount
    /\ requests'[i].ask.what = "profile" => requests'[i].ask.of.token \in People
    /\ requests'[i].ask.what = "signInAs" => requests'[i].ask.of \in Users
NewDone ==
  \A i \in DOMAIN requests:
    requests'[i].did = "done" /\ requests[i].did # "done" /\ requests[i].ask.what \in {"profile", "balance"}
      => Of(i).token # None
LEMMA HomeRequests ==
  ASSUME RowsInv, HomeInv, RequestStep, NewAsks, NewDone, HomeForm', session'.mount >= session.mount,
         SignedIn' /\ session'.mount = session.mount => SignedIn /\ session.token \in {session'.token, None}
  PROVE  /\ BalancesAreOfMounts' /\ TokensAreKnown'
         /\ {Of(i).token: i \in Heard("profile", {"done"})} \subseteq {Of(i).token: i \in Heard("profile", {"done"})}'
  <1>1. \A i \in DOMAIN requests: requests'[i].ask = requests[i].ask /\ Of(i)' = Of(i)
    BY OldRows DEF Of
  <1>2. BalancesAreOfMounts'
    <2>1. session.mount \in Nat /\ session'.mount \in Nat /\ session'.token \in People
      BY DEF HomeInv, HomeForm
    <2>2. ASSUME NEW i \in Asks("balance")'
          PROVE  /\ Of(i)'.token \in People /\ Of(i)'.mount \in Nat /\ Of(i)'.mount <= session'.mount
                 /\ SignedIn' /\ Of(i)'.mount = session'.mount => Of(i)'.token \in {session'.token, None}
      <3>1. CASE i \in DOMAIN requests
        <4>1. i \in Asks("balance") /\ Of(i)' = Of(i)
          BY <1>1, <2>2, <3>1 DEF Asks
        <4>2. /\ Of(i).token \in People /\ Of(i).mount \in Nat /\ Of(i).mount <= session.mount
              /\ SignedIn /\ Of(i).mount = session.mount => Of(i).token \in {session.token, None}
          BY <4>1 DEF HomeInv, BalancesAreOfMounts
        <4>. QED BY <2>1, <4>1, <4>2
      <3>2. CASE i \notin DOMAIN requests
        BY <2>1, <2>2, <3>2 DEF NewAsks, Asks, Of, People
      <3>. QED BY <3>1, <3>2
    <2>. QED BY <2>2 DEF BalancesAreOfMounts
  <1>3. TokensAreKnown'
    <2>1. \A i \in Asks("profile")': Of(i)'.token \in People
      BY <1>1 DEF HomeInv, TokensAreKnown, Asks, Of, NewAsks
    <2>2. \A i \in Asks("signInAs")': Of(i)' \in Users
      BY <1>1 DEF HomeInv, TokensAreKnown, Asks, Of, NewAsks
    <2>3. ASSUME NEW what \in {"profile", "balance"}, NEW i \in Done(what, {"done"})' PROVE Of(i)'.token # None
      <3>1. i \in DOMAIN requests' /\ requests'[i].did = "done" /\ requests'[i].ask.what = what
        BY <2>3 DEF Done, Asks
      <3>2. i \in DOMAIN requests /\ requests[i].ask.what = what /\ Of(i)' = Of(i)
        BY <1>1, <3>1, DoneIsClear DEF NewAsks
      <3>3. CASE requests[i].did = "done"
        BY <2>3, <3>2, <3>3 DEF HomeInv, TokensAreKnown, Done, Asks
      <3>4. CASE requests[i].did # "done"
        BY <2>3, <3>1, <3>2, <3>4 DEF NewDone
      <3>. QED BY <3>3, <3>4
    <2>. QED BY <2>1, <2>2, <2>3 DEF TokensAreKnown
  <1>4. ASSUME NEW i \in Heard("profile", {"done"}) PROVE i \in Heard("profile", {"done"})' /\ Of(i)' = Of(i)
    <2>1. i \in DOMAIN requests /\ requests[i].heard = "done" /\ requests[i].ask.what = "profile"
      BY <1>4 DEF Heard, Asks
    <2>2. requests'[i].heard = "done" /\ i \in DOMAIN requests'
      BY <2>1, OldRows, DoneIsClear
    <2>. QED BY <1>1, <2>1, <2>2 DEF Heard, Asks
  <1>. QED BY <1>2, <1>3, <1>4

LEMMA HomeTapStep ==
  ASSUME RowsInv, screen = "home", HomeInv, HomeTaps, UNCHANGED screen
  PROVE  RequestStep /\ HomeInv' /\ UNCHANGED lock
  <1>1. KindsOf(screen) = {"signInAs", "profile", "balance"}
    BY Kinds
  <1>2. ASSUME NEW ask, ask.what \in KindsOf(screen), Room, Send(ask), UNCHANGED deviceVars,
               /\ ask.what = "balance" =>
                    /\ ask.of.token \in {session.token, None}
                    /\ ask.of.mount = session.mount
               /\ ask.what = "profile" => ask.of.token \in People
               /\ ask.what = "signInAs" => ask.of \in Users /\ ~SignedIn /\ AwaitedAsks("signInAs") = {}
        PROVE  RequestStep /\ HomeInv' /\ UNCHANGED lock
    <2>1. Requested(ask) /\ RequestStep
      BY <1>2, SendGrows DEF RequestStep, Requested, RowsInv
    <2>2. UNCHANGED <<session, balance, cache, lock>>
      BY <1>2 DEF deviceVars
    <2>3. NewAsks
      BY <1>2, <2>1, <2>2, FieldsOfRow DEF Requested, Grows, NewAsks
    <2>4. NewDone
      BY <2>1 DEF Requested, Grows, NewDone
    <2>5. HomeForm' /\ OutOrOwn' /\ session'.mount >= session.mount /\ (SignedIn' <=> SignedIn)
      BY <2>2 DEF HomeInv, HomeForm, OutOrOwn, SignedIn
    <2>6. /\ BalancesAreOfMounts' /\ TokensAreKnown'
          /\ {Of(i).token: i \in Heard("profile", {"done"})} \subseteq {Of(i).token: i \in Heard("profile", {"done"})}'
      BY <2>1, <2>2, <2>3, <2>4, <2>5, HomeRequests
    <2>7. PICK n: n = Len(requests) + 1
      OBVIOUS
    <2>8. AwaitedAsks("signInAs")' = IF "signInAs" = ask.what THEN AwaitedAsks("signInAs") \cup {n}
                                     ELSE AwaitedAsks("signInAs")
      BY <2>1, <2>7, WhenMade
    <2>9. OneLogIn'
      BY <1>2, <2>2, <2>5, <2>8 DEF HomeInv, OneLogIn
    <2>. QED BY <2>1, <2>2, <2>5, <2>6, <2>9 DEF HomeInv, UserIsKnown
  <1>3. ASSUME NEW u \in Users, LogIn(u) PROVE RequestStep /\ HomeInv' /\ UNCHANGED lock
    <2>1. PICK ask: ask = Ask("signInAs", u)
      OBVIOUS
    <2>2. ask.what = "signInAs" /\ ask.of = u
      BY <2>1 DEF Ask
    <2>. QED BY <1>1, <1>2, <1>3, <2>1, <2>2 DEF LogIn
  <1>4. CASE SaveProfile
    <2>1. PICK ask: ask = Ask("profile", [token |-> session.token, mount |-> session.mount])
      OBVIOUS
    <2>2. ask.what = "profile" /\ ask.of.token = session.token
      BY <2>1 DEF Ask
    <2>. QED BY <1>1, <1>2, <1>4, <2>1, <2>2 DEF SaveProfile, HomeInv, HomeForm
  <1>5. CASE Refresh
    <2>1. PICK ask: ask = Ask("balance", [token |-> session.token, mount |-> session.mount])
      OBVIOUS
    <2>2. ask.what = "balance" /\ ask.of.token = session.token /\ ask.of.mount = session.mount
      BY <2>1 DEF Ask
    <2>. QED BY <1>1, <1>2, <1>5, <2>1, <2>2 DEF Refresh
  <1>6. CASE LogOut
    <2>1. UNCHANGED <<requests, cache, lock>> /\ RequestStep
      BY <1>6 DEF LogOut, RequestStep, RowsInv
    <2>2. /\ session'.token = None /\ session'.user = None /\ session'.mount = session.mount
          /\ session' \in [token: People, user: People, mount: Nat]
      BY <1>6 DEF LogOut, HomeInv, HomeForm, People
    <2>3. balance' = NoBalance /\ balance'.live = FALSE /\ balance' \in [of: People, live: BOOLEAN, loading: BOOLEAN]
      BY <1>6 DEF LogOut, NoBalance, People
    <2>4. HomeForm' /\ OutOrOwn' /\ ~SignedIn'
      BY <2>1, <2>2, <2>3 DEF HomeForm, OutOrOwn, SignedIn, HomeInv
    <2>5. NewAsks /\ NewDone
      BY <2>1 DEF NewAsks, NewDone
    <2>6. BalancesAreOfMounts' /\ TokensAreKnown'
      <3>1. session'.mount >= session.mount
        BY <2>2 DEF HomeInv, HomeForm
      <3>. QED BY <2>1, <2>4, <2>5, <3>1, HomeRequests
    <2>7. OneLogIn'
      BY <2>1, <2>4, WhenKept DEF HomeInv, OneLogIn
    <2>. QED BY <2>1, <2>2, <2>4, <2>6, <2>7 DEF HomeInv, UserIsKnown
  <1>. QED BY <1>3, <1>4, <1>5, <1>6 DEF HomeTaps

LEMMA HomeServed ==
  ASSUME RowsInv, screen = "home", HomeInv, NEW i \in DOMAIN requests, UNCHANGED screen,
         NEW verdict \in DeviceVerdicts(i), Serve(i, verdict), UNCHANGED deviceVars
  PROVE  RequestStep /\ HomeInv'
  <1>1. requests[i].ask.what \in {"signInAs", "profile", "balance"}
    BY Kinds DEF RowsInv
  <1>2. /\ verdict \in Verdicts
        /\ requests[i].ask.what \in {"profile", "balance"} /\ verdict = "done" => Of(i).token # None
    BY <1>1 DEF DeviceVerdicts, Verdicts
  <1>3. RequestStep /\ Dealt(i, verdict, requests[i].data)
    BY <1>2, ServedRow
  <1>4. UNCHANGED <<session, balance, cache>>
    BY DEF deviceVars
  <1>5. HomeForm' /\ OutOrOwn' /\ session'.mount >= session.mount /\ (SignedIn' <=> SignedIn)
    BY <1>4 DEF HomeInv, HomeForm, OutOrOwn, SignedIn
  <1>6. NewAsks /\ NewDone
    BY <1>2, <1>3, FieldsOfRow DEF Dealt, Deals, Others, NewAsks, NewDone
  <1>7. /\ BalancesAreOfMounts' /\ TokensAreKnown'
        /\ {Of(k).token: k \in Heard("profile", {"done"})} \subseteq {Of(k).token: k \in Heard("profile", {"done"})}'
    BY <1>3, <1>4, <1>5, <1>6, HomeRequests
  <1>8. OneLogIn'
    BY <1>3, <1>4, <1>5, WhenDealt DEF HomeInv, OneLogIn
  <1>. QED BY <1>3, <1>4, <1>5, <1>7, <1>8 DEF HomeInv, UserIsKnown

\* A user is shown: the app is mounted when there was none.
LEMMA UserShown ==
  ASSUME HomeInv, NEW u \in Users, NEW token \in People, ShowUser(u, token), UNCHANGED cache,
         SignedIn => token = session.token \/ session.token = None,
         ~SignedIn => token \in {u, None}
  PROVE  /\ session'.token = token /\ session'.user = u /\ HomeForm' /\ OutOrOwn' /\ SignedIn'
         /\ SignedIn => session'.mount = session.mount
         /\ ~SignedIn => session'.mount = session.mount + 1
  <1>1. /\ session.mount \in Nat /\ session \in [token: People, user: People, mount: Nat]
        /\ balance \in [of: People, live: BOOLEAN, loading: BOOLEAN] /\ cache \in People
    BY DEF HomeInv, HomeForm
  <1>2. PICK m: m = IF SignedIn THEN session.mount ELSE session.mount + 1
    OBVIOUS
  <1>3. session' = [session EXCEPT !.token = token, !.user = u, !.mount = m] /\ m \in Nat /\ u \in People
    BY <1>1, <1>2 DEF ShowUser, People
  <1>4. /\ session' \in [token: People, user: People, mount: Nat]
        /\ session'.token = token /\ session'.user = u /\ session'.mount = m
    BY <1>1, <1>3
  <1>5. SignedIn'
    BY <1>4, DeviceAssumption DEF SignedIn
  <1>6. CASE SignedIn
    <2>1. balance' = balance
      BY <1>6 DEF ShowUser
    <2>2. OutOrOwn'
      BY <1>4, <1>5, <1>6, <2>1 DEF HomeInv, OutOrOwn
    <2>. QED BY <1>1, <1>2, <1>4, <1>5, <1>6, <2>1, <2>2 DEF HomeForm
  <1>7. CASE ~SignedIn
    <2>1. balance' = [of |-> cache, live |-> FALSE, loading |-> TRUE]
      BY <1>7 DEF ShowUser
    <2>2. balance' \in [of: People, live: BOOLEAN, loading: BOOLEAN] /\ balance'.live = FALSE
      BY <1>1, <2>1
    <2>. QED BY <1>1, <1>2, <1>4, <1>5, <1>7, <2>2 DEF HomeForm, OutOrOwn
  <1>. QED BY <1>6, <1>7

\* What is left of the proof once a handler showed a user, or did not.
LEMMA UserShownNext ==
  ASSUME RowsInv, screen = "home", HomeInv, NEW i \in DOMAIN requests, UNCHANGED screen, NEW outcome \in Outcomes(i),
         NEW u \in Users, NEW token \in People, ShowUser(u, token), UNCHANGED cache,
         EndAnd(i, outcome, Mounting(token)), requests[i].ask.what \in {"signInAs", "profile"},
         SignedIn => token = session.token \/ session.token = None,
         ~SignedIn => token \in {u, None}
  PROVE  /\ RequestStep /\ HomeForm' /\ OutOrOwn' /\ BalancesAreOfMounts' /\ TokensAreKnown'
         /\ session'.token = token /\ session'.user = u
         /\ AwaitedAsks("signInAs")' = AwaitedAsks("signInAs") \ {i}
         /\ Of(i)' = Of(i)
         /\ Ended(i, outcome) \/ \E ask: Followed(i, outcome, ask)
  <1>1. /\ session'.token = token /\ session'.user = u /\ HomeForm' /\ OutOrOwn' /\ SignedIn'
        /\ SignedIn => session'.mount = session.mount
        /\ ~SignedIn => session'.mount = session.mount + 1
    BY UserShown
  <1>2. session.mount \in Nat
    BY DEF HomeInv, HomeForm
  <1>3. CASE SignedIn
    <2>1. RequestStep /\ Ended(i, outcome)
      BY <1>3, EndedRow DEF End, Mounting
    <2>2. NewAsks /\ NewDone
      BY <2>1, FieldsOfRow DEF Ended, Hushes, Others, NewAsks, NewDone
    <2>3. BalancesAreOfMounts' /\ TokensAreKnown'
      BY <1>1, <1>2, <1>3, <2>1, <2>2, HomeRequests
    <2>4. AwaitedAsks("signInAs")' = AwaitedAsks("signInAs") \ {i} /\ Of(i)' = Of(i)
      BY <2>1, WhenEnded
    <2>. QED BY <1>1, <2>1, <2>3, <2>4
  <1>4. CASE ~SignedIn
    <2>1. PICK ask: ask = BalanceAsk(token)
      OBVIOUS
    <2>2. ask.what = "balance" /\ ask.of.token = token /\ ask.of.mount = session'.mount
      BY <2>1 DEF BalanceAsk, Ask
    <2>3. EndAnd(i, outcome, <<ask>>)
      BY <1>4, <2>1 DEF Mounting
    <2>4. RequestStep /\ Followed(i, outcome, ask)
      <3>1. requests[i].ask.what \notin Afters /\ ask.what \in KindsOf(screen) \cap Afters
        BY <2>2, Kinds DEF Afters
      <3>. QED BY <2>3, <3>1, FollowedRow
    <2>5. NewAsks /\ NewDone
      BY <1>1, <2>2, <2>4, FieldsOfRow DEF Followed, GoesOn, NewAsks, NewDone
    <2>6. BalancesAreOfMounts' /\ TokensAreKnown'
      BY <1>1, <1>2, <1>4, <2>4, <2>5, HomeRequests
    <2>7. AwaitedAsks("signInAs")' = AwaitedAsks("signInAs") \ {i} /\ Of(i)' = Of(i)
      <3>1. \E n: n = Len(requests) + 1
        OBVIOUS
      <3>. QED BY <2>2, <2>4, <3>1, WhenFollowed
    <2>. QED BY <1>1, <2>4, <2>6, <2>7
  <1>. QED BY <1>3, <1>4

\* A handler that goes on with neither the session nor the user changed.
LEMMA SameUserNext ==
  ASSUME RowsInv, screen = "home", HomeInv, NEW i \in DOMAIN requests, UNCHANGED screen, NEW outcome \in Outcomes(i),
         End(i, outcome), UNCHANGED session, HomeForm', OutOrOwn'
  PROVE  RequestStep /\ HomeInv'
  <1>1. RequestStep /\ Ended(i, outcome)
    BY EndedRow
  <1>2. NewAsks /\ NewDone /\ (SignedIn' <=> SignedIn) /\ session'.mount >= session.mount
    BY <1>1, FieldsOfRow DEF Ended, Hushes, Others, NewAsks, NewDone, SignedIn, HomeInv, HomeForm
  <1>3. /\ BalancesAreOfMounts' /\ TokensAreKnown'
        /\ {Of(k).token: k \in Heard("profile", {"done"})} \subseteq {Of(k).token: k \in Heard("profile", {"done"})}'
    BY <1>1, <1>2, HomeRequests
  <1>4. AwaitedAsks("signInAs")' = AwaitedAsks("signInAs") \ {i}
    BY <1>1, WhenEnded
  <1>5. OneLogIn'
    BY <1>2, <1>4 DEF HomeInv, OneLogIn
  <1>. QED BY <1>1, <1>3, <1>5 DEF HomeInv, UserIsKnown

LEMMA HomeHeard ==
  ASSUME RowsInv, screen = "home", HomeInv, NEW i \in DOMAIN requests, UNCHANGED screen,
         NEW outcome \in Outcomes(i), DeviceHears(i, outcome)
  PROVE  RequestStep /\ HomeInv' /\ UNCHANGED lock
  <1>1. requests[i].ask.what \in {"signInAs", "profile", "balance"}
    BY Kinds DEF RowsInv
  <1>2. outcome = "done" => i \in Done(requests[i].ask.what, {"done"})
    BY DoneIsClear, HeardIsDone
  <1>3. CASE requests[i].ask.what = "signInAs" /\ outcome = "done"
    <2>1. i \in AwaitedAsks("signInAs") /\ Of(i) \in Users
      BY <1>3, OutcomeIs DEF AwaitedAsks, Asks, Waiting, HomeInv, TokensAreKnown
    <2>2. PICK u: u = Of(i)
      OBVIOUS
    <2>3. ShowUser(u, u) /\ EndAnd(i, outcome, Mounting(u)) /\ UNCHANGED <<cache, lock>>
      BY <1>3, <2>2 DEF DeviceHears, HearLogIn
    <2>4. AwaitedAsks("signInAs") = {i} /\ (SignedIn => session.token = None)
      BY <2>1 DEF HomeInv, OneLogIn
    <2>5. /\ RequestStep /\ HomeForm' /\ OutOrOwn' /\ BalancesAreOfMounts' /\ TokensAreKnown'
          /\ session'.token = u /\ session'.user = u
          /\ AwaitedAsks("signInAs")' = AwaitedAsks("signInAs") \ {i}
      BY <1>3, <2>1, <2>2, <2>3, <2>4, UserShownNext DEF People
    <2>6. OneLogIn'
      BY <2>4, <2>5 DEF OneLogIn
    <2>. QED BY <2>3, <2>5, <2>6 DEF HomeInv, UserIsKnown
  <1>4. CASE requests[i].ask.what = "profile" /\ outcome = "done"
    <2>1. Of(i).token \in Users
      BY <1>2, <1>4 DEF HomeInv, TokensAreKnown, People, Asks
    <2>2. PICK u, token: u = Of(i).token /\ token = session.token
      OBVIOUS
    <2>3. ShowUser(u, token) /\ EndAnd(i, outcome, Mounting(token)) /\ UNCHANGED <<cache, lock>>
      BY <1>4, <2>2 DEF DeviceHears, HearProfile
    <2>4. /\ token \in People
          /\ SignedIn => token = session.token \/ session.token = None
          /\ ~SignedIn => token = None
      BY <2>2 DEF HomeInv, HomeForm, OutOrOwn
    <2>5. /\ RequestStep /\ HomeForm' /\ OutOrOwn' /\ BalancesAreOfMounts' /\ TokensAreKnown'
          /\ session'.token = token /\ session'.user = u
          /\ AwaitedAsks("signInAs")' = AwaitedAsks("signInAs") \ {i}
          /\ Of(i)' = Of(i)
          /\ Ended(i, outcome) \/ \E ask: Followed(i, outcome, ask)
      BY <1>4, <2>1, <2>2, <2>3, <2>4, UserShownNext
    <2>6. OneLogIn'
      BY <2>2, <2>4, <2>5 DEF HomeInv, OneLogIn
    <2>7. i \in Heard("profile", {"done"})'
      <3>1. Heard("profile", {"done"})' = Heard("profile", {"done"}) \cup {i}
        BY <1>4, <2>5, DoneIsClear, HeardEnds
      <3>. QED BY <3>1
    <2>8. UserIsKnown'
      BY <2>2, <2>5, <2>7 DEF UserIsKnown
    <2>. QED BY <2>3, <2>5, <2>6, <2>8 DEF HomeInv
  <1>5. CASE requests[i].ask.what \in {"signInAs", "profile"} /\ outcome # "done"
    <2>1. End(i, outcome) /\ UNCHANGED <<session, balance, cache, lock>>
      BY <1>5 DEF DeviceHears, HearLogIn, HearProfile
    <2>2. HomeForm' /\ OutOrOwn'
      BY <2>1 DEF HomeInv, HomeForm, OutOrOwn, SignedIn
    <2>. QED BY <2>1, <2>2, SameUserNext
  <1>6. CASE requests[i].ask.what = "balance"
    <2>1. HearBalance(i, outcome)
      BY <1>6 DEF DeviceHears
    <2>2. End(i, outcome) /\ UNCHANGED <<session, lock>>
      BY <2>1 DEF HearBalance
    <2>3. /\ session \in [token: People, user: People, mount: Nat]
          /\ balance \in [of: People, live: BOOLEAN, loading: BOOLEAN] /\ cache \in People
      BY DEF HomeInv, HomeForm
    <2>4. i \in Asks("balance") /\ Of(i).token \in People
      BY <1>6 DEF Asks, HomeInv, BalancesAreOfMounts
    <2>5. CASE ~(SignedIn /\ Of(i).mount = session.mount)
      <3>1. balance' = balance /\ cache' \in People
        BY <2>1, <2>3, <2>4, <2>5 DEF HearBalance
      <3>2. HomeForm' /\ OutOrOwn'
        BY <2>2, <2>3, <3>1 DEF HomeInv, HomeForm, OutOrOwn, SignedIn
      <3>. QED BY <2>2, <3>2, SameUserNext
    <2>6. CASE SignedIn /\ Of(i).mount = session.mount /\ outcome = "done"
      <3>1. balance' = [of |-> Of(i).token, live |-> TRUE, loading |-> FALSE] /\ cache' = Of(i).token
        BY <2>1, <2>6 DEF HearBalance
      <3>2. Of(i).token = session.token /\ session.token # None
        <4>1. i \in Done("balance", {"done"})
          BY <1>2, <2>6, <1>6
        <4>2. Of(i).token # None
          BY <4>1 DEF HomeInv, TokensAreKnown
        <4>. QED BY <2>4, <2>6, <4>2 DEF HomeInv, BalancesAreOfMounts
      <3>3. HomeForm' /\ OutOrOwn'
        BY <2>2, <2>3, <2>4, <2>6, <3>1, <3>2 DEF HomeForm, OutOrOwn, SignedIn
      <3>. QED BY <2>2, <3>3, SameUserNext
    <2>7. CASE SignedIn /\ Of(i).mount = session.mount /\ outcome # "done"
      <3>1. balance' = [balance EXCEPT !.live = FALSE, !.loading = FALSE] /\ cache' = cache
        BY <2>1, <2>7 DEF HearBalance
      <3>2. HomeForm' /\ OutOrOwn'
        BY <2>2, <2>3, <2>7, <3>1 DEF HomeForm, OutOrOwn, SignedIn
      <3>. QED BY <2>2, <3>2, SameUserNext
    <2>. QED BY <2>5, <2>6, <2>7
  <1>. QED BY <1>1, <1>3, <1>4, <1>5, <1>6

LEMMA HomeStep ==
  ASSUME RowsInv, screen = "home", HomeInv, ScreensNext
  PROVE  RequestStep /\ HomeInv' /\ UNCHANGED <<lock, moneyVars, formVars, deskVars>>
  <1>1. CASE Tap
    BY <1>1, TappedOn, HomeTapStep DEF ScreensNext
  <1>2. ASSUME NEW i \in DOMAIN requests, Served(i) \/ Hears(i)
        PROVE  RequestStep /\ HomeInv' /\ UNCHANGED <<lock, moneyVars, formVars, deskVars>>
    <2>1. requests[i].ask.what \in {"signInAs", "profile", "balance"}
      BY Kinds DEF RowsInv
    <2>2. CASE Served(i)
      BY <2>1, <2>2, ServedBy, HomeServed DEF ScreensNext, deviceVars
    <2>3. CASE Hears(i)
      BY <2>1, <2>3, HeardByDevice, HomeHeard DEF ScreensNext, Hears
    <2>. QED BY <1>2, <2>2, <2>3
  <1>. QED BY <1>1, <1>2 DEF ScreensNext

-----------------------------------------------------------------------------
(* A page of one queue. *)

Line == [id: Rows, status: RowStatus]
IdlePage ==
  [tickets |-> <<>>, filter |-> All, openId |-> None, thread |-> None, draft |-> None,
   loading |-> FALSE, busy |-> FALSE, hasMore |-> FALSE, disturbed |-> FALSE]
IdleList == [rows |-> {}, busyId |-> None, loading |-> FALSE]

\* The decisions about a row, those about other rows, and what they leave room
\* for: a doubt, another row's decision that took the busy mark, or cleared it.
Mine(r) == {i \in Asks("decide"): Of(i) = r}
Theirs(r) == Asks("decide") \ Mine(r)
Doubted(r) == Mine(r) \cap Heard("decide", Doubtful)
Cleared(r) == {i \in Theirs(r): ~Waiting(i)}
Slack(r) == Cardinality(Doubted(r)) + Cardinality(Theirs(r)) + Cardinality(Cleared(r))
RowIsDecided(r) ==
  /\ Cardinality(Mine(r)) <= 1 + Slack(r)
  /\ r \in list.rows /\ list.busyId # r => Cardinality(Mine(r)) <= Slack(r)
ListForm == list = [rows |-> list.rows, busyId |-> list.busyId, loading |-> list.loading] /\ list.rows \subseteq Rows
ListIsFirst ==
  /\ AwaitedAsks("list") # {} \/ Asks("list") = {} => list.rows = {} /\ Asks("decide") = {}
  /\ \A i, j \in Asks("list"): i = j
  /\ \A i \in Done("list", {"done"}): {Data(i)[k].id: k \in DOMAIN Data(i)} \subseteq Rows
QueueInv ==
  /\ queue \in Seq(Line) /\ page = IdlePage
  /\ ListForm /\ ListIsFirst
  /\ \A i \in DOMAIN requests: requests[i].did \in {None, "done"}
  /\ \A r \in Rows: RowIsDecided(r)

LEMMA DecisionsCount ==
  ASSUME RowsInv, NEW r
  PROVE  /\ Mine(r) \subseteq DOMAIN requests /\ Theirs(r) \subseteq DOMAIN requests
         /\ IsFiniteSet(Mine(r)) /\ Cardinality(Mine(r)) \in Nat
         /\ IsFiniteSet(Theirs(r)) /\ Cardinality(Theirs(r)) \in Nat
         /\ IsFiniteSet(Doubted(r)) /\ Cardinality(Doubted(r)) \in Nat
         /\ IsFiniteSet(Cleared(r)) /\ Cardinality(Cleared(r)) \in Nat
         /\ Slack(r) \in Nat
  <1>1. Len(requests) \in Nat /\ DOMAIN requests = 1..Len(requests)
    BY RequestsLen DEF RowsInv
  <1>2. /\ Mine(r) \subseteq 1..Len(requests) /\ Theirs(r) \subseteq 1..Len(requests)
        /\ Doubted(r) \subseteq 1..Len(requests) /\ Cleared(r) \subseteq 1..Len(requests)
    BY <1>1 DEF Mine, Theirs, Doubted, Cleared, Asks
  <1>3. /\ IsFiniteSet(Mine(r)) /\ Cardinality(Mine(r)) \in Nat
        /\ IsFiniteSet(Theirs(r)) /\ Cardinality(Theirs(r)) \in Nat
        /\ IsFiniteSet(Doubted(r)) /\ Cardinality(Doubted(r)) \in Nat
        /\ IsFiniteSet(Cleared(r)) /\ Cardinality(Cleared(r)) \in Nat
    BY <1>1, <1>2, Places
  <1>4. Slack(r) \in Nat
    BY <1>3 DEF Slack
  <1>. QED BY <1>1, <1>2, <1>3, <1>4

\* The decisions stay when a step is about something else.
LEMMA SameDecisions ==
  ASSUME RowsInv, NEW r,
         \/ UNCHANGED requests
         \/ \E ask: Requested(ask) /\ ask.what # "decide"
         \/ \E i \in DOMAIN requests, verdict \in Verdicts: \E data: Dealt(i, verdict, data)
         \/ \E i \in DOMAIN requests: \E outcome \in Outcomes(i):
              Ended(i, outcome) /\ requests[i].ask.what # "decide"
  PROVE  Asks("decide")' = Asks("decide") /\ Mine(r)' = Mine(r) /\ Slack(r)' = Slack(r)
  <1> DEFINE P == /\ Asks("decide")' = Asks("decide") /\ Heard("decide", Doubtful)' = Heard("decide", Doubtful)
                  /\ \A j \in Asks("decide"): Of(j)' = Of(j) /\ (Waiting(j)' <=> Waiting(j))
  <1> USE NoneApart
  <1>1. P
    <2>1. CASE UNCHANGED requests
      BY <2>1 DEF Asks, Heard, Of, Waiting
    <2>2. ASSUME NEW ask, Requested(ask), ask.what # "decide" PROVE P
      BY <2>2, FieldsOfRow DEF Requested, Grows, Asks, Heard, Of, Waiting
    <2>3. ASSUME NEW i \in DOMAIN requests, NEW verdict \in Verdicts, NEW data, Dealt(i, verdict, data) PROVE P
      BY <2>3, FieldsOfRow DEF Dealt, Deals, Others, Asks, Heard, Of, Waiting
    <2>4. ASSUME NEW i \in DOMAIN requests, NEW outcome \in Outcomes(i), Ended(i, outcome),
                 requests[i].ask.what # "decide"
          PROVE  P
      BY <2>4, FieldsOfRow DEF Ended, Hushes, Others, Asks, Heard, Of, Waiting
    <2>. QED BY <2>1, <2>2, <2>3, <2>4
  <1>2. Mine(r)' = Mine(r)
    BY <1>1 DEF Mine
  <1>3. Theirs(r)' = Theirs(r) /\ Doubted(r)' = Doubted(r)
    BY <1>1, <1>2 DEF Theirs, Doubted
  <1>4. Cleared(r)' = Cleared(r)
    BY <1>1, <1>3 DEF Cleared, Theirs
  <1>. QED BY <1>1, <1>2, <1>3, <1>4 DEF Slack

\* One more decision, about row q.
LEMMA OneMoreDecision ==
  ASSUME RowsInv, RowsInv', NEW ask, Requested(ask), ask.what = "decide", NEW r
  PROVE  /\ ask.of = r => Cardinality(Mine(r))' = Cardinality(Mine(r)) + 1 /\ Slack(r)' = Slack(r)
         /\ ask.of # r => Mine(r)' = Mine(r) /\ Slack(r)' = Slack(r) + 1
  <1> PICK n: n = Len(requests) + 1
    OBVIOUS
  <1>1. /\ Asks("decide")' = Asks("decide") \cup {n} /\ Asks("decide") \subseteq DOMAIN requests
        /\ n \notin DOMAIN requests /\ Of(n)' = ask.of /\ requests'[n].heard = None
        /\ \A j \in DOMAIN requests: requests'[j] = requests[j] /\ Of(j)' = Of(j)
    BY WhenMade
  <1>2. Heard("decide", Doubtful)' = Heard("decide", Doubtful)
    BY NoneApart, HeardKept
  <1>3. /\ IsFiniteSet(Mine(r)) /\ Cardinality(Mine(r)) \in Nat
        /\ IsFiniteSet(Theirs(r)) /\ Cardinality(Theirs(r)) \in Nat
        /\ Cardinality(Doubted(r)) \in Nat /\ Cardinality(Cleared(r)) \in Nat
        /\ Mine(r) \subseteq DOMAIN requests /\ Theirs(r) \subseteq DOMAIN requests
    BY DecisionsCount
  <1>4. Mine(r)' = IF ask.of = r THEN Mine(r) \cup {n} ELSE Mine(r)
    BY <1>1 DEF Mine
  <1>5. Theirs(r)' = IF ask.of = r THEN Theirs(r) ELSE Theirs(r) \cup {n}
    BY <1>1, <1>3, <1>4 DEF Theirs
  <1>6. Doubted(r)' = Doubted(r)
    BY <1>1, <1>2, <1>4 DEF Doubted, Heard
  <1>7. Cleared(r)' = Cleared(r)
    BY <1>1, <1>3, <1>5 DEF Cleared, Waiting
  <1>8. CASE ask.of = r
    <2>1. Cardinality(Mine(r) \cup {n}) = Cardinality(Mine(r)) + 1
      BY <1>1, <1>3, FS_AddElement
    <2>. QED BY <1>4, <1>5, <1>6, <1>7, <1>8, <2>1 DEF Slack
  <1>9. CASE ask.of # r
    <2>1. Cardinality(Theirs(r) \cup {n}) = Cardinality(Theirs(r)) + 1
      BY <1>1, <1>3, FS_AddElement
    <2>2. Cardinality(Theirs(r))' = Cardinality(Theirs(r)) + 1
      BY <1>5, <1>9, <2>1
    <2>. QED BY <1>3, <1>4, <1>6, <1>7, <1>9, <2>2 DEF Slack
  <1>. QED BY <1>8, <1>9

\* A decision ends.
LEMMA OneDecisionEnds ==
  ASSUME RowsInv, NEW i \in DOMAIN requests, NEW outcome \in Outcomes(i), Ended(i, outcome),
         requests[i].ask.what = "decide", NEW r
  PROVE  /\ Asks("decide")' = Asks("decide") /\ Mine(r)' = Mine(r)
         /\ Slack(r)' = IF Of(i) # r \/ outcome \in Doubtful THEN Slack(r) + 1 ELSE Slack(r)
  <1>1. /\ Asks("decide")' = Asks("decide") /\ Asks("decide") \subseteq DOMAIN requests
        /\ \A j \in DOMAIN requests: Of(j)' = Of(j)
        /\ \A j \in DOMAIN requests \ {i}: requests'[j] = requests[j]
        /\ requests[i].heard = None /\ requests'[i].heard = outcome
    BY WhenEnded
  <1>2. /\ IsFiniteSet(Doubted(r)) /\ Cardinality(Doubted(r)) \in Nat
        /\ IsFiniteSet(Cleared(r)) /\ Cardinality(Cleared(r)) \in Nat /\ Cardinality(Theirs(r)) \in Nat
    BY DecisionsCount
  <1>3. Heard("decide", Doubtful)' = IF outcome \in Doubtful THEN Heard("decide", Doubtful) \cup {i}
                                     ELSE Heard("decide", Doubtful)
    BY NoneApart, HeardEnds
  <1>4. i \notin Heard("decide", Doubtful) /\ i \in Asks("decide") /\ outcome # None
    BY <1>1, NoneApart, OutcomeIs DEF Heard, Asks
  <1>5. Mine(r)' = Mine(r) /\ Theirs(r)' = Theirs(r)
    BY <1>1 DEF Mine, Theirs
  <1>6. CASE Of(i) = r
    <2>1. i \in Mine(r) /\ i \notin Theirs(r)
      BY <1>4, <1>6 DEF Mine, Theirs
    <2>2. Cleared(r)' = Cleared(r)
      BY <1>1, <1>5, <2>1 DEF Cleared, Waiting, Theirs
    <2>3. CASE outcome \in Doubtful
      <3>1. Doubted(r)' = Doubted(r) \cup {i} /\ i \notin Doubted(r)
        BY <1>3, <1>4, <1>5, <2>1, <2>3 DEF Doubted
      <3>2. Cardinality(Doubted(r) \cup {i}) = Cardinality(Doubted(r)) + 1
        BY <1>2, <3>1, FS_AddElement
      <3>3. Cardinality(Doubted(r))' = Cardinality(Doubted(r)) + 1
        BY <3>1, <3>2
      <3>. QED BY <1>1, <1>2, <1>5, <2>2, <2>3, <3>3 DEF Slack
    <2>4. CASE outcome \notin Doubtful
      <3>1. Doubted(r)' = Doubted(r)
        BY <1>3, <1>5, <2>4 DEF Doubted
      <3>. QED BY <1>1, <1>5, <1>6, <2>2, <2>4, <3>1 DEF Slack
    <2>. QED BY <2>3, <2>4
  <1>7. CASE Of(i) # r
    <2>1. i \notin Mine(r) /\ i \in Theirs(r)
      BY <1>4, <1>7 DEF Mine, Theirs
    <2>2. Doubted(r)' = Doubted(r)
      BY <1>3, <1>5, <2>1 DEF Doubted
    <2>3. Cleared(r)' = Cleared(r) \cup {i} /\ i \notin Cleared(r)
      BY <1>1, <1>4, <1>5, <2>1 DEF Cleared, Waiting, Theirs
    <2>4. Cardinality(Cleared(r) \cup {i}) = Cardinality(Cleared(r)) + 1
      BY <1>2, <2>3, FS_AddElement
    <2>5. Cardinality(Cleared(r))' = Cardinality(Cleared(r)) + 1
      BY <2>3, <2>4
    <2>. QED BY <1>1, <1>2, <1>5, <1>7, <2>2, <2>5 DEF Slack
  <1>. QED BY <1>6, <1>7

\* What a step leaves of the decisions of each row, given what it does to them.
LEMMA RowsStayDecided ==
  ASSUME RowsInv, QueueInv,
         \A r \in Rows: Mine(r)' = Mine(r) /\ Slack(r)' = Slack(r),
         \A r \in Rows: r \in list'.rows /\ list'.busyId # r => r \in list.rows /\ list.busyId # r
  PROVE  (\A r \in Rows: RowIsDecided(r))'
  BY DEF QueueInv, RowIsDecided

LEMMA QueueTapStep ==
  ASSUME RowsInv, RowsInv', screen = "queue", QueueInv, ListTaps, UNCHANGED screen
  PROVE  RequestStep /\ QueueInv' /\ UNCHANGED touches
  <1>1. KindsOf(screen) = {"list", "decide"}
    BY Kinds
  <1>2. CASE OpenList
    <2>1. PICK ask: ask = Ask("list", None)
      OBVIOUS
    <2>2. Requested(ask) /\ RequestStep /\ ask.what = "list"
      BY <1>1, <1>2, <2>1, SendGrows DEF OpenList, RequestStep, Requested, Ask, RowsInv
    <2>3. /\ ListForm' /\ list'.rows = list.rows /\ list'.busyId = list.busyId
          /\ UNCHANGED <<queue, touches, page>> /\ Asks("list") = {}
      BY <1>2 DEF OpenList, QueueInv, ListForm
    <2> PICK n: n = Len(requests) + 1
      OBVIOUS
    <2>4. Asks("list")' = Asks("list") \cup {n} /\ requests'[n].did = None
      BY <2>2, WhenMade
    <2>5. list.rows = {} /\ Asks("decide") = {}
      BY <2>3 DEF QueueInv, ListIsFirst
    <2>6. Asks("decide")' = Asks("decide")
      BY <2>2, WhenMade
    <2>7. Done("list", {"done"})' = Done("list", {"done"}) /\ Done("list", {"done"}) = {}
      <3>1. Done("list", {"done"})' = Done("list", {"done"})
        BY <2>2, DoneIsClear, DoneKept
      <3>. QED BY <2>3, <3>1 DEF Done
    <2>8. ListIsFirst'
      BY <2>3, <2>4, <2>5, <2>6, <2>7 DEF ListIsFirst
    <2>9. \A i \in DOMAIN requests': requests'[i].did \in {None, "done"}
      BY <2>2, FieldsOfRow DEF QueueInv, Requested, Grows
    <2>10. (\A r \in Rows: RowIsDecided(r))'
      <3>1. \A r \in Rows: Mine(r)' = Mine(r) /\ Slack(r)' = Slack(r)
        BY <2>2, SameDecisions
      <3>. QED BY <2>3, <3>1, RowsStayDecided
    <2>. QED BY <2>2, <2>3, <2>8, <2>9, <2>10 DEF QueueInv
  <1>3. ASSUME NEW q \in Rows, DecideRow(q) PROVE RequestStep /\ QueueInv' /\ UNCHANGED touches
    <2>1. PICK ask: ask = Ask("decide", q)
      OBVIOUS
    <2>2. Requested(ask) /\ RequestStep /\ ask.what = "decide" /\ ask.of = q
      BY <1>1, <1>3, <2>1, SendGrows DEF DecideRow, RequestStep, Requested, Ask, RowsInv
    <2>3. /\ ListForm' /\ list'.rows = list.rows /\ list'.busyId = q /\ q \in list.rows /\ list.busyId # q
          /\ UNCHANGED <<queue, touches, page>>
      BY <1>3 DEF DecideRow, QueueInv, ListForm
    <2>4. AwaitedAsks("list") = {} /\ Asks("list") # {}
      BY <2>3 DEF QueueInv, ListIsFirst
    <2>5. Asks("list")' = Asks("list") /\ AwaitedAsks("list")' = AwaitedAsks("list")
      <3>1. \E n: n = Len(requests) + 1
        OBVIOUS
      <3>. QED BY <2>2, <3>1, WhenMade
    <2>6. ASSUME NEW i \in Done("list", {"done"})' PROVE i \in Done("list", {"done"}) /\ Data(i)' = Data(i)
      <3>1. Done("list", {"done"})' = Done("list", {"done"})
        BY <2>2, DoneIsClear, DoneKept
      <3>. QED BY <2>2, <2>6, <3>1 DEF Data, Done, Asks, Requested, Grows
    <2>7. ListIsFirst'
      <3>1. \A i \in Done("list", {"done"})': {Data(i)'[k].id: k \in DOMAIN Data(i)'} \subseteq Rows
        BY <2>6 DEF QueueInv, ListIsFirst
      <3>2. AwaitedAsks("list")' = {} /\ Asks("list")' # {} /\ \A i, j \in Asks("list")': i = j
        BY <2>4, <2>5 DEF QueueInv, ListIsFirst
      <3>. QED BY <3>1, <3>2 DEF ListIsFirst
    <2>8. \A i \in DOMAIN requests': requests'[i].did \in {None, "done"}
      BY <2>2, FieldsOfRow DEF QueueInv, Requested, Grows
    <2>9. ASSUME NEW r \in Rows PROVE RowIsDecided(r)'
      <3>1. Cardinality(Mine(r)) \in Nat /\ Slack(r) \in Nat
        BY DecisionsCount
      <3>2. CASE r = q
        <4>1. Cardinality(Mine(r))' = Cardinality(Mine(r)) + 1 /\ Slack(r)' = Slack(r)
          BY <2>2, <3>2, OneMoreDecision
        <4>2. Cardinality(Mine(r)) <= Slack(r)
          BY <2>3, <3>2 DEF QueueInv, RowIsDecided
        <4>. QED BY <2>3, <3>1, <3>2, <4>1, <4>2 DEF RowIsDecided
      <3>3. CASE r # q
        <4>1. Mine(r)' = Mine(r) /\ Slack(r)' = Slack(r) + 1
          BY <2>2, <3>3, OneMoreDecision
        <4>2. Cardinality(Mine(r)) <= 1 + Slack(r)
          BY DEF QueueInv, RowIsDecided
        <4>. QED BY <3>1, <4>1, <4>2 DEF RowIsDecided
      <3>. QED BY <3>2, <3>3
    <2>. QED BY <2>2, <2>3, <2>7, <2>8, <2>9 DEF QueueInv
  <1>. QED BY <1>2, <1>3 DEF ListTaps

\* The page of a queue is never the ticket page.
LEMMA IdlePageStays ==
  ASSUME page = IdlePage, NEW b, b = (page.disturbed \/ FALSE), NEW p, p = [page EXCEPT !.disturbed = b]
  PROVE  p = page
  <1>1. b = FALSE
    BY DEF IdlePage
  <1>2. p = [page EXCEPT !.disturbed = FALSE]
    BY <1>1
  <1>3. PICK all, none, f: all = All /\ none = None /\ f = FALSE
    OBVIOUS
  <1>4. PICK q: q = [tickets |-> <<>>, filter |-> all, openId |-> none, thread |-> none, draft |-> none,
                     loading |-> f, busy |-> f, hasMore |-> f, disturbed |-> f]
    OBVIOUS
  <1>5. [q EXCEPT !.disturbed = f] = q
    BY <1>4
  <1>. QED BY <1>2, <1>3, <1>4, <1>5 DEF IdlePage

LEMMA QueueServed ==
  ASSUME RowsInv, screen = "queue", QueueInv, NEW i \in DOMAIN requests, UNCHANGED screen,
         NEW answer \in DeskAnswer(i), ServeDesk(i, answer)
  PROVE  RequestStep /\ QueueInv' /\ UNCHANGED touches
  <1>1. requests[i].ask.what \in {"list", "decide"}
    BY Kinds DEF RowsInv
  <1>2. RequestStep /\ Dealt(i, "done", answer)
    BY AnswerDeals, DoneIsClear DEF ServeDesk, RowsInv, RequestStep, Dealt
  <1>3. UNCHANGED <<queue, touches, list>> /\ page' = page
    <2>1. UNCHANGED <<queue, touches, list>>
      BY <1>1 DEF ServeDesk
    <2>2. page' = [page EXCEPT !.disturbed = page.disturbed \/ FALSE]
      BY <1>1 DEF ServeDesk, QueueInv, IdlePage
    <2>. QED BY <2>1, <2>2, IdlePageStays DEF QueueInv
  <1>4. /\ Asks("list")' = Asks("list") /\ Asks("list") \subseteq DOMAIN requests
        /\ AwaitedAsks("list")' = AwaitedAsks("list") /\ Asks("decide")' = Asks("decide")
        /\ \A j \in DOMAIN requests \ {i}: requests'[j] = requests[j]
        /\ requests'[i].did = "done" /\ requests'[i].data = answer
    BY <1>2, WhenDealt
  <1>5. ListIsFirst'
    <2>1. ASSUME NEW j \in Done("list", {"done"})' PROVE {Data(j)'[k].id: k \in DOMAIN Data(j)'} \subseteq Rows
      <3>1. CASE j = i
        <4>1. Data(j)' = answer /\ requests[i].ask.what = "list"
          BY <1>4, <2>1, <3>1 DEF Data, Done, Asks
        <4>2. PICK m: m = IF ListSize < Len(queue) THEN ListSize ELSE Len(queue)
          OBVIOUS
        <4>3. answer = SubSeq(queue, 1, m)
          BY <4>1, <4>2 DEF DeskAnswer
        <4>4. Len(queue) \in Nat /\ m \in Nat /\ m <= Len(queue) /\ \A k \in 1..m: queue[k] \in Line
          <5>1. Len(queue) \in Nat /\ \A k \in 1..Len(queue): queue[k] \in Line
            BY ElementOfSeq, LenProperties DEF QueueInv
          <5>2. m \in Nat /\ m <= Len(queue)
            BY <4>2, <5>1, DeskAssumption
          <5>. QED BY <5>1, <5>2
        <4>5. answer \in Seq(Line)
          BY <4>3, <4>4, SubSeqProperties
        <4>6. \A k \in DOMAIN answer: answer[k] \in Line
          BY <4>5, ElementOfSeq, LenProperties
        <4>. QED BY <4>1, <4>6 DEF Line
      <3>2. CASE j # i
        <4>1. j \in Done("list", {"done"}) /\ Data(j)' = Data(j)
          BY <1>4, <2>1, <3>2 DEF Data, Done, Asks
        <4>. QED BY <4>1 DEF QueueInv, ListIsFirst
      <3>. QED BY <3>1, <3>2
    <2>. QED BY <1>3, <1>4, <2>1 DEF QueueInv, ListIsFirst
  <1>6. (\A r \in Rows: RowIsDecided(r))'
    <2>1. \A r \in Rows: Mine(r)' = Mine(r) /\ Slack(r)' = Slack(r)
      BY <1>2, DoneIsClear, SameDecisions
    <2>. QED BY <1>3, <2>1, RowsStayDecided
  <1>7. \A j \in DOMAIN requests': requests'[j].did \in {None, "done"}
    BY <1>2, <1>4 DEF QueueInv, Dealt, Deals, Others
  <1>. QED BY <1>2, <1>3, <1>5, <1>6, <1>7 DEF QueueInv, ListForm

LEMMA QueueHeard ==
  ASSUME RowsInv, screen = "queue", QueueInv, NEW i \in DOMAIN requests, UNCHANGED screen,
         NEW outcome \in Outcomes(i), DeskHears(i, outcome)
  PROVE  RequestStep /\ QueueInv' /\ UNCHANGED touches
  <1>1. requests[i].ask.what \in {"list", "decide"}
    BY Kinds DEF RowsInv
  <1>2. RequestStep /\ Ended(i, outcome) /\ UNCHANGED <<queue, touches, page>>
    BY <1>1, EndedRow DEF DeskHears, HearList, HearDecision
  <1>3. /\ Asks("list")' = Asks("list") /\ AwaitedAsks("list")' = AwaitedAsks("list") \ {i}
        /\ Asks("decide")' = Asks("decide") /\ Asks("list") \subseteq DOMAIN requests
        /\ \A j \in DOMAIN requests: requests'[j].did = requests[j].did /\ requests'[j].data = requests[j].data
    BY <1>2, WhenEnded
  <1>4. outcome = "done" => requests[i].did = "done"
    BY DoneIsClear, HeardIsDone
  <1>5. \A j \in Done("list", {"done"})': {Data(j)'[k].id: k \in DOMAIN Data(j)'} \subseteq Rows
    <2>1. Done("list", {"done"})' = Done("list", {"done"})
      BY <1>2, DoneIsClear, DoneKept
    <2>2. \A j \in Done("list", {"done"}): Data(j)' = Data(j)
      BY <1>3 DEF Data, Done
    <2>. QED BY <2>1, <2>2 DEF QueueInv, ListIsFirst
  <1>6. \A j \in DOMAIN requests': requests'[j].did \in {None, "done"}
    BY <1>2, <1>3 DEF QueueInv, Ended, Hushes, Others
  <1>7. CASE requests[i].ask.what = "list"
    <2>1. HearList(i, outcome)
      BY <1>7 DEF DeskHears
    <2>2. i \in AwaitedAsks("list") /\ i \in Asks("list")
      BY <1>7, OutcomeIs DEF AwaitedAsks, Asks, Waiting
    <2>3. list.rows = {} /\ Asks("decide") = {} /\ Asks("list") = {i} /\ AwaitedAsks("list")' = {}
      <3>1. list.rows = {} /\ Asks("decide") = {}
        BY <2>2 DEF QueueInv, ListIsFirst
      <3>2. Asks("list") = {i}
        BY <2>2 DEF QueueInv, ListIsFirst
      <3>. QED BY <1>3, <3>1, <3>2 DEF AwaitedAsks
    <2>4. PICK rows: rows = IF outcome = "done" THEN {Data(i)[k].id: k \in DOMAIN Data(i)} ELSE list.rows
      OBVIOUS
    <2>5. rows \subseteq Rows
      BY <1>4, <1>7, <2>4 DEF QueueInv, ListIsFirst, ListForm, Done, Asks
    <2>6. list' = [list EXCEPT !.loading = FALSE, !.rows = rows]
      BY <2>1, <2>4 DEF HearList
    <2>7. ListForm' /\ list'.rows = rows
      BY <2>5, <2>6 DEF QueueInv, ListForm
    <2>8. ASSUME NEW r \in Rows PROVE RowIsDecided(r)'
      <3>1. Mine(r)' = Mine(r) /\ Slack(r)' = Slack(r)
        BY <1>2, <1>7, SameDecisions
      <3>2. Cardinality(Mine(r)) = 0 /\ Slack(r) \in Nat
        BY <2>3, FS_EmptySet, DecisionsCount DEF Mine
      <3>. QED BY <3>1, <3>2 DEF RowIsDecided
    <2>9. ListIsFirst'
      <3>1. AwaitedAsks("list")' = {} /\ Asks("list")' = {i}
        BY <1>3, <2>3
      <3>. QED BY <1>5, <3>1 DEF ListIsFirst
    <2>. QED BY <1>2, <1>6, <2>7, <2>8, <2>9 DEF QueueInv
  <1>8. CASE requests[i].ask.what = "decide"
    <2>1. HearDecision(i, outcome)
      BY <1>8 DEF DeskHears
    <2>2. i \in Asks("decide")
      BY <1>8 DEF Asks
    <2>3. AwaitedAsks("list") = {} /\ Asks("list") # {}
      BY <2>2 DEF QueueInv, ListIsFirst
    <2>4. PICK rows: rows = IF outcome = "done" THEN list.rows \ {Of(i)} ELSE list.rows
      OBVIOUS
    <2>5. list' = [list EXCEPT !.busyId = None, !.rows = rows]
      BY <2>1, <2>4 DEF HearDecision
    <2>6. ListForm' /\ list'.rows = rows /\ list'.busyId = None /\ rows \subseteq list.rows
      BY <2>4, <2>5 DEF QueueInv, ListForm
    <2>7. outcome = "done" \/ outcome \in Doubtful
      BY OutcomeIs DEF QueueInv
    <2>8. ASSUME NEW r \in Rows PROVE RowIsDecided(r)'
      <3>1. /\ Mine(r)' = Mine(r)
            /\ Slack(r)' = IF Of(i) # r \/ outcome \in Doubtful THEN Slack(r) + 1 ELSE Slack(r)
        BY <1>2, <1>8, OneDecisionEnds
      <3>2. Cardinality(Mine(r)) \in Nat /\ Slack(r) \in Nat /\ Cardinality(Mine(r)) <= 1 + Slack(r)
        BY DecisionsCount DEF QueueInv, RowIsDecided
      <3>3. CASE Of(i) # r \/ outcome \in Doubtful
        BY <3>1, <3>2, <3>3 DEF RowIsDecided
      <3>4. CASE Of(i) = r /\ outcome = "done"
        BY <2>4, <2>6, <3>1, <3>2, <3>4, DoneIsClear DEF RowIsDecided
      <3>. QED BY <2>7, <3>3, <3>4
    <2>9. ListIsFirst'
      <3>1. AwaitedAsks("list")' = {} /\ Asks("list")' # {} /\ \A j, k \in Asks("list")': j = k
        BY <1>3, <2>3 DEF QueueInv, ListIsFirst
      <3>. QED BY <1>5, <3>1 DEF ListIsFirst
    <2>. QED BY <1>2, <1>6, <2>6, <2>8, <2>9 DEF QueueInv
  <1>. QED BY <1>1, <1>7, <1>8

LEMMA QueueStep ==
  ASSUME RowsInv, screen = "queue", QueueInv, ScreensNext
  PROVE  RequestStep /\ QueueInv' /\ UNCHANGED <<touches, moneyVars, formVars, deviceVars>>
  <1>1. CASE Tap
    <2>1. ListTaps /\ UNCHANGED <<moneyVars, formVars, deviceVars, screen>>
      BY <1>1, TappedOn DEF ScreensNext
    <2>2. RequestStep
      <3>1. CASE OpenList
        <4>1. PICK ask: ask = Ask("list", None)
          OBVIOUS
        <4>. QED BY <2>1, <3>1, <4>1, SendGrows, Kinds DEF OpenList, RequestStep, Requested, Ask, RowsInv
      <3>2. ASSUME NEW q \in Rows, DecideRow(q) PROVE RequestStep
        <4>1. PICK ask: ask = Ask("decide", q)
          OBVIOUS
        <4>. QED BY <2>1, <3>2, <4>1, SendGrows, Kinds DEF DecideRow, RequestStep, Requested, Ask, RowsInv
      <3>. QED BY <2>1, <3>1, <3>2 DEF ListTaps
    <2>3. RowsInv'
      BY <2>2, RowsStep
    <2>. QED BY <2>1, <2>3, QueueTapStep
  <1>2. ASSUME NEW i \in DOMAIN requests, Served(i) \/ Hears(i)
        PROVE  RequestStep /\ QueueInv' /\ UNCHANGED <<touches, moneyVars, formVars, deviceVars>>
    <2>1. requests[i].ask.what \in {"list", "decide"}
      BY Kinds DEF RowsInv
    <2>2. CASE Served(i)
      BY <2>1, <2>2, ServedBy, QueueServed DEF ScreensNext
    <2>3. CASE Hears(i)
      BY <2>1, <2>3, HeardByDesk, QueueHeard DEF ScreensNext, Hears
    <2>. QED BY <1>2, <2>2, <2>3
  <1>. QED BY <1>1, <1>2 DEF ScreensNext

-----------------------------------------------------------------------------
(* The ticket page. First the sequences of rows it is made of.             *)

\* A queue of a filter has a row for each of its places.
Before(places, k) == {j \in places: j <= k}
LEMMA BeforeIs ==
  ASSUME NEW m \in Nat, NEW places \in SUBSET (1..m)
  PROVE  /\ Before(places, m) = places /\ Before(places, 0) = {}
         /\ \A k \in 1..m: /\ Before(places, k) = IF k \in places THEN Before(places, k - 1) \cup {k}
                                                  ELSE Before(places, k - 1)
                          /\ k \notin Before(places, k - 1)
  <1>1. \A j \in places: j \in Int /\ 1 <= j /\ j <= m
    OBVIOUS
  <1>2. Before(places, m) = places
    BY <1>1 DEF Before
  <1>4. Before(places, 0) = {}
    <2>1. \A j \in places: ~(j <= 0)
      BY <1>1
    <2>. QED BY <2>1 DEF Before
  <1>3. ASSUME NEW k \in 1..m
        PROVE  /\ Before(places, k) = IF k \in places THEN Before(places, k - 1) \cup {k}
                                      ELSE Before(places, k - 1)
               /\ k \notin Before(places, k - 1)
    <2>1. \A j \in places: j <= k <=> j = k \/ j <= k - 1
      BY <1>1
    <2>2. k \notin Before(places, k - 1)
      BY DEF Before
    <2>. QED BY <2>1, <2>2 DEF Before
  <1>. QED BY <1>2, <1>3, <1>4

LEMMA NthIs ==
  ASSUME NEW m \in Nat, NEW places \in SUBSET (1..m), NEW n \in 1..Cardinality(places)
  PROVE  Nth(places, n) \in places
  <1> PICK Late: Late = {k \in 1..m: Cardinality(Before(places, k)) >= n}
    OBVIOUS
  <1> PICK W: W = {1..k: k \in Late}
    OBVIOUS
  <1>a. \A j \in places: j \in 1..m
    OBVIOUS
  <1>1. IsFiniteSet(1..m) /\ IsFiniteSet(places) /\ Cardinality(places) \in Nat
    BY Places, FS_Interval
  <1>2. \A k \in 0..m: IsFiniteSet(Before(places, k)) /\ Cardinality(Before(places, k)) \in Nat
    BY <1>1, Places DEF Before
  <1>3. 1..m \in W
    <2>1. Before(places, m) = places
      BY BeforeIs
    <2>2. m # 0
      <3>1. CASE m = 0
        <4>1. places = {}
          BY <1>a, <3>1
        <4>2. Cardinality(places) = 0
          BY <4>1, FS_EmptySet
        <4>. QED BY <4>2
      <3>. QED BY <3>1
    <2>. QED BY <2>1, <2>2
  <1>4. PICK T \in W: \A U \in W: U \subseteq T => U = T
    <2>1. W \in SUBSET SUBSET (1..m)
      <3>1. \A k \in Late: 1..k \subseteq 1..m
        OBVIOUS
      <3>. QED BY <3>1
    <2>2. W # {}
      BY <1>3
    <2>3. PICK S: S = 1..m
      OBVIOUS
    <2>4. IsFiniteSet(S) /\ W \in SUBSET SUBSET S
      BY <1>1, <2>1, <2>3
    <2>. QED BY ONLY <2>2, <2>4, SmallestSubset
  <1>5. PICK k \in 1..m: T = 1..k /\ Cardinality(Before(places, k)) >= n
    BY <1>4
  <1>6. Cardinality(Before(places, k - 1)) < n /\ Cardinality(Before(places, k - 1)) \in Nat
    <2>1. CASE k = 1
      <3>1. Before(places, k - 1) = {}
        <4>1. k - 1 = 0
          BY <2>1
        <4>. QED BY <4>1, BeforeIs
      <3>2. Cardinality(Before(places, k - 1)) = 0
        BY <3>1, FS_EmptySet
      <3>. QED BY <1>1, <3>2
    <2>2. CASE k # 1
      <3>1. k - 1 \in 1..m /\ 1..(k - 1) \subseteq T /\ 1..(k - 1) # T
        BY <1>5, <2>2
      <3>2. 1..(k - 1) \notin W
        BY <1>4, <3>1
      <3>3. ~(Cardinality(Before(places, k - 1)) >= n)
        BY <3>1, <3>2
      <3>4. Cardinality(Before(places, k - 1)) \in Nat
        <4>1. k - 1 \in 0..m
          BY <3>1
        <4>. QED BY <1>2, <4>1
      <3>. QED BY <3>3, <3>4
    <2>. QED BY <2>1, <2>2
  <1>7. k \in places
    <2>1. CASE k \notin places
      <3>1. Before(places, k) = Before(places, k - 1)
        BY <2>1, BeforeIs
      <3>. QED BY <1>5, <1>6, <3>1
    <2>. QED BY <2>1
  <1>8. Before(places, k) = Before(places, k - 1) \cup {k} /\ k \notin Before(places, k - 1) /\ k - 1 \in 0..m
    BY <1>7, BeforeIs
  <1>9. Cardinality(Before(places, k)) = n
    <2>1. Cardinality(Before(places, k)) = Cardinality(Before(places, k - 1)) + 1
      BY <1>2, <1>8, FS_AddElement
    <2>. QED BY <1>5, <1>6, <2>1
  <1>. QED BY <1>7, <1>9 DEF Nth, Before

\* A part of a sequence of rows.
LEMMA PartIs ==
  ASSUME NEW S, NEW s \in Seq(S), NEW m \in Nat, NEW n \in Int, n <= Len(s)
  PROVE  /\ SubSeq(s, m + 1, n) \in Seq(S)
         /\ Len(SubSeq(s, m + 1, n)) = IF m < n THEN n - m ELSE 0
         /\ \A k \in 1..(n - m): SubSeq(s, m + 1, n)[k] = s[m + k]
  <1>1. Len(s) \in Nat /\ \A k \in (m + 1)..n: s[k] \in S
    BY ElementOfSeq, LenProperties
  <1>2. /\ SubSeq(s, m + 1, n) \in Seq(S)
        /\ Len(SubSeq(s, m + 1, n)) = IF m + 1 <= n THEN n - (m + 1) + 1 ELSE 0
        /\ \A k \in 1..(n - (m + 1) + 1): SubSeq(s, m + 1, n)[k] = s[(m + 1) + k - 1]
    BY <1>1, SubSeqProperties
  <1>. QED BY <1>2

LEMMA FilteredIs ==
  ASSUME NEW rows \in Seq(Line), NEW filter
  PROVE  Filtered(rows, filter) \in Seq(Line)
  <1> PICK places: places = Passing(rows, filter)
    OBVIOUS
  <1>1. Len(rows) \in Nat /\ DOMAIN rows = 1..Len(rows) /\ \A k \in 1..Len(rows): rows[k] \in Line
    BY ElementOfSeq, LenProperties
  <1>2. places \subseteq 1..Len(rows)
    BY <1>1 DEF Passing
  <1>3. Cardinality(places) \in Nat
    BY <1>1, <1>2, Places
  <1>4. \A n \in 1..Cardinality(places): rows[Nth(places, n)] \in Line
    BY <1>1, <1>2, NthIs
  <1>5. [n \in 1..Cardinality(places) |-> rows[Nth(places, n)]] \in [1..Cardinality(places) -> Line]
    BY <1>4
  <1>6. [n \in 1..Cardinality(places) |-> rows[Nth(places, n)]] \in Seq(Line)
    BY <1>3, <1>5
  <1>. QED BY <1>6 DEF Filtered

LEMMA WindowIs ==
  ASSUME queue \in Seq(Line), NEW filter, NEW offset \in Nat
  PROVE  Window(filter, offset) \in Seq(Line)
  <1> PICK rows: rows = Filtered(queue, filter)
    OBVIOUS
  <1> PICK n: n = IF offset + PageSize + 1 < Len(rows) THEN offset + PageSize + 1 ELSE Len(rows)
    OBVIOUS
  <1>1. rows \in Seq(Line) /\ Len(rows) \in Nat
    BY FilteredIs, LenProperties
  <1>2. n \in Int /\ n <= Len(rows)
    BY <1>1, DeskAssumption
  <1>3. Window(filter, offset) = SubSeq(rows, offset + 1, n)
    BY DEF Window
  <1>. QED BY <1>1, <1>2, <1>3, PartIs

LEMMA ShownIs ==
  ASSUME NEW w \in Seq(Line)
  PROVE  /\ Shown(w) \in Seq(Line)
         /\ Len(Shown(w)) = IF Len(w) > PageSize THEN Len(w) - 1 ELSE Len(w)
         /\ \A k \in 1..Len(Shown(w)): Shown(w)[k] = w[k]
  <1>1. Len(w) \in Nat /\ PageSize \in Nat /\ PageSize > 0
    BY LenProperties, DeskAssumption
  <1>2. CASE Len(w) > PageSize
    <2>1. Shown(w) = SubSeq(w, 1, Len(w) - 1)
      BY <1>2 DEF Shown, Front
    <2>2. PICK n: n = Len(w) - 1
      OBVIOUS
    <2>3. n \in Nat /\ n <= Len(w)
      BY <1>1, <1>2, <2>2
    <2>4. /\ SubSeq(w, 0 + 1, n) \in Seq(Line)
          /\ Len(SubSeq(w, 0 + 1, n)) = IF 0 < n THEN n - 0 ELSE 0
          /\ \A k \in 1..(n - 0): SubSeq(w, 0 + 1, n)[k] = w[0 + k]
      BY <2>3, PartIs
    <2>. QED BY <1>1, <1>2, <2>1, <2>2, <2>3, <2>4
  <1>3. CASE ~(Len(w) > PageSize)
    BY <1>3 DEF Shown
  <1>. QED BY <1>2, <1>3

\* A row written into the rows shown.
LEMMA SetRowIs ==
  ASSUME NEW rows \in Seq(Line), NEW row \in Line
  PROVE  SetRow(rows, row) \in Seq(Line) /\ Len(SetRow(rows, row)) = Len(rows)
  <1>1. Len(rows) \in Nat /\ DOMAIN rows = 1..Len(rows) /\ \A k \in 1..Len(rows): rows[k] \in Line
    BY ElementOfSeq, LenProperties
  <1>2. SetRow(rows, row) \in [1..Len(rows) -> Line]
    BY <1>1 DEF SetRow
  <1>. QED BY <1>1, <1>2

\* The rows of the server stay those of Rows, in whichever order.
QueueForm ==
  /\ queue \in Seq(Line)
  /\ \A r \in Rows: \E k \in DOMAIN queue: queue[k].id = r

LEMMA StatusIs ==
  ASSUME QueueForm, NEW t \in Rows
  PROVE  StatusOf(t) \in RowStatus
  <1>1. DOMAIN queue = 1..Len(queue) /\ \A k \in 1..Len(queue): queue[k] \in Line
    BY ElementOfSeq, LenProperties DEF QueueForm
  <1>2. PICK k \in DOMAIN queue: queue[k].id = t
    BY DEF QueueForm
  <1>3. queue[k] \in ToSet(queue)
    BY <1>2 DEF ToSet
  <1>4. PICK r: r = CHOOSE x \in ToSet(queue): x.id = t
    OBVIOUS
  <1>5. r \in ToSet(queue)
    BY <1>2, <1>3, <1>4
  <1>6. r \in Line
    BY <1>1, <1>5 DEF ToSet
  <1>. QED BY <1>4, <1>6 DEF StatusOf, Line

LEMMA RaiseIs ==
  ASSUME QueueForm, NEW t \in Rows, NEW status \in RowStatus, Raise(t, status)
  PROVE  QueueForm'
  <1> PICK n: n = Len(queue)
    OBVIOUS
  <1>1. n \in Nat /\ DOMAIN queue = 1..n /\ \A k \in 1..n: queue[k] \in Line
    BY ElementOfSeq, LenProperties DEF QueueForm
  <1>2. PICK place: place = CHOOSE k \in DOMAIN queue: queue[k].id = t
    OBVIOUS
  <1>3. place \in 1..n /\ queue[place].id = t
    BY <1>1, <1>2 DEF QueueForm
  <1>4. PICK row: row = [id |-> t, status |-> status]
    OBVIOUS
  <1>5. row \in Line /\ row.id = t
    BY <1>4 DEF Line
  <1>6. PICK next: next = [k \in 1..n |-> CASE k = 1 -> row [] k \in 2..place -> queue[k - 1] [] OTHER -> queue[k]]
    OBVIOUS
  <1>7. queue' = next
    BY <1>1, <1>2, <1>4, <1>6 DEF Raise
  <1>8. next[1] = row /\ \A k \in 2..place: next[k] = queue[k - 1]
    BY <1>3, <1>6
  <1>9. \A k \in (place + 1)..n: next[k] = queue[k]
    BY <1>3, <1>6
  <1>10. next \in [1..n -> Line]
    <2>1. DOMAIN next = 1..n /\ next = [k \in 1..n |-> next[k]]
      BY <1>6
    <2>2. ASSUME NEW k \in 1..n PROVE next[k] \in Line
      <3>1. CASE k = 1
        BY <1>5, <1>8, <3>1
      <3>2. CASE k \in 2..place
        <4>1. k - 1 \in 1..n
          BY <1>3, <3>2
        <4>. QED BY <1>1, <1>8, <3>2, <4>1
      <3>3. CASE k \in (place + 1)..n
        BY <1>1, <1>9, <3>3
      <3>. QED BY <1>3, <3>1, <3>2, <3>3
    <2>. QED BY <2>1, <2>2
  <1>11. ASSUME NEW r \in Rows PROVE \E k \in 1..n: next[k].id = r
    <2>1. PICK k \in 1..n: queue[k].id = r
      BY <1>1 DEF QueueForm
    <2>2. CASE k = place
      BY <1>3, <1>5, <1>8, <2>1, <2>2
    <2>3. CASE k < place
      <3>1. k + 1 \in 2..place /\ k + 1 \in 1..n /\ k + 1 - 1 = k
        BY <1>3, <2>3
      <3>2. next[k + 1] = queue[k]
        BY <1>8, <3>1
      <3>. QED BY <2>1, <3>1, <3>2
    <2>4. CASE k > place
      <3>1. next[k] = queue[k]
        BY <1>3, <1>9, <2>4
      <3>. QED BY <2>1, <3>1
    <2>. QED BY <1>3, <2>2, <2>3, <2>4
  <1>12. next \in Seq(Line) /\ DOMAIN next = 1..n
    BY <1>1, <1>10
  <1>. QED BY <1>7, <1>11, <1>12 DEF QueueForm

LEMMA QueueAtFirst ==
  ASSUME DeskInit
  PROVE  QueueForm
  <1> PICK n, ids: n = Cardinality(Rows) /\ ids = SetToSeq(Rows)
    OBVIOUS
  <1>1. n \in Nat /\ IsFiniteSet(Rows)
    BY DeskAssumption, FS_CardinalityType
  <1>2. \E f \in [1..n -> Rows]: IsInjective(f)
    <2>1. ExistsBijection(1..n, Rows)
      BY <1>1, FS_CardinalityType
    <2>. QED BY <2>1 DEF ExistsBijection, Bijection, Injection
  <1>3. ids \in [1..n -> Rows] /\ IsInjective(ids)
    BY <1>2 DEF SetToSeq
  <1>4. \A r \in Rows: \E k \in 1..n: ids[k] = r
    <2>1. PICK S: S = {ids[k]: k \in 1..n}
      OBVIOUS
    <2>2. S \subseteq Rows
      BY <1>3, <2>1
    <2>3. ids \in Bijection(1..n, S)
      <3>1. ids \in [1..n -> S]
        BY <1>3, <2>1
      <3>2. IsInjective(ids) /\ \A s \in S: \E k \in 1..n: ids[k] = s
        BY <1>3, <2>1
      <3>. QED BY <3>1, <3>2 DEF Bijection, Injection, Surjection
    <2>4. Cardinality(S) = Cardinality(1..n) /\ IsFiniteSet(S)
      <3>1. ExistsBijection(1..n, S)
        BY <2>3 DEF ExistsBijection
      <3>2. IsFiniteSet(1..n)
        BY <1>1, FS_Interval
      <3>. QED BY ONLY <3>1, <3>2, FS_Bijection
    <2>5. Cardinality(1..n) = n
      BY <1>1, FS_Interval
    <2>6. S = Rows
      BY <1>1, <2>2, <2>4, <2>5, FS_Subset
    <2>. QED BY <2>1, <2>6
  <1>5. PICK s \in [Rows -> RowStatus]: queue = [k \in DOMAIN ids |-> [id |-> ids[k], status |-> s[ids[k]]]]
    BY DEF DeskInit
  <1>6. DOMAIN ids = 1..n
    BY <1>3
  <1>7. \A k \in 1..n: ids[k] \in Rows /\ s[ids[k]] \in RowStatus
    BY <1>3, <1>5
  <1>8. queue \in [1..n -> Line]
    BY <1>5, <1>6, <1>7 DEF Line
  <1>9. queue \in Seq(Line) /\ DOMAIN queue = 1..n /\ \A k \in 1..n: queue[k].id = ids[k]
    <2>1. queue \in Seq(Line) /\ DOMAIN queue = 1..n
      BY <1>1, <1>8
    <2>2. \A k \in 1..n: queue[k].id = ids[k]
      BY <1>5, <1>6
    <2>. QED BY <2>1, <2>2
  <1>. QED BY <1>4, <1>9 DEF QueueForm

\* The beginning of the queue of a filter.
Begins(s, t) == Len(s) <= Len(t) /\ \A k \in 1..Len(s): s[k] = t[k]

LEMMA BeginsIsPrefix ==
  ASSUME NEW s \in Seq(Line), NEW t \in Seq(Line), Begins(s, t)
  PROVE  IsPrefix(s, t)
  <1>1. Len(s) \in Nat /\ Len(t) \in Nat /\ Len(s) <= Len(t)
    BY LenProperties DEF Begins
  <1>2. /\ SubSeq(s, 0 + 1, Len(s)) \in Seq(Line) /\ SubSeq(t, 0 + 1, Len(s)) \in Seq(Line)
        /\ Len(SubSeq(s, 0 + 1, Len(s))) = Len(s) /\ Len(SubSeq(t, 0 + 1, Len(s))) = Len(s)
    BY <1>1, PartIs
  <1>3. \A k \in 1..(Len(s) - 0): /\ SubSeq(s, 0 + 1, Len(s))[k] = s[0 + k]
                                /\ SubSeq(t, 0 + 1, Len(s))[k] = t[0 + k]
    BY <1>1, PartIs
  <1>4. \A k \in 1..Len(s): SubSeq(s, 0 + 1, Len(s))[k] = SubSeq(t, 0 + 1, Len(s))[k]
    BY <1>1, <1>3 DEF Begins
  <1>5. SubSeq(s, 0 + 1, Len(s)) = SubSeq(t, 0 + 1, Len(s))
    BY <1>2, <1>4, SeqEqual
  <1>. QED BY <1>1, <1>5 DEF IsPrefix

\* The window after the rows shown prolongs them, and holds one row more than is
\* shown exactly when the queue does.
LEMMA NextPage ==
  ASSUME queue \in Seq(Line), NEW filter, NEW rows, rows = Filtered(queue, filter),
         NEW t \in Seq(Line), Begins(t, rows), NEW w, w = Window(filter, Len(t)), NEW s, s = t \o Shown(w)
  PROVE  s \in Seq(Line) /\ Begins(s, rows) /\ (HasMore(w) <=> Len(rows) > Len(s))
  <1> PICK n: n = IF Len(t) + PageSize + 1 < Len(rows) THEN Len(t) + PageSize + 1 ELSE Len(rows)
    OBVIOUS
  <1>1. rows \in Seq(Line) /\ Len(rows) \in Nat /\ Len(t) \in Nat /\ Len(t) <= Len(rows) /\ PageSize \in Nat
        /\ PageSize > 0
    BY FilteredIs, LenProperties, DeskAssumption DEF Begins
  <1>2. n \in Nat /\ Len(t) <= n /\ n <= Len(rows)
    BY <1>1
  <1>3. w = SubSeq(rows, Len(t) + 1, n)
    BY DEF Window
  <1>4. w \in Seq(Line) /\ Len(w) = n - Len(t) /\ \A k \in 1..(n - Len(t)): w[k] = rows[Len(t) + k]
    <2>1. /\ w \in Seq(Line) /\ Len(w) = IF Len(t) < n THEN n - Len(t) ELSE 0
          /\ \A k \in 1..(n - Len(t)): w[k] = rows[Len(t) + k]
      BY <1>1, <1>2, <1>3, PartIs
    <2>. QED BY <1>1, <1>2, <2>1
  <1>5. PICK u: u = Shown(w)
    OBVIOUS
  <1>6. /\ u \in Seq(Line) /\ Len(u) \in Nat /\ Len(u) = IF Len(w) > PageSize THEN Len(w) - 1 ELSE Len(w)
        /\ \A k \in 1..Len(u): u[k] = w[k]
    BY <1>4, <1>5, ShownIs, LenProperties
  <1>7. /\ s \in Seq(Line) /\ Len(s) = Len(t) + Len(u)
        /\ \A k \in 1..(Len(t) + Len(u)): s[k] = IF k <= Len(t) THEN t[k] ELSE u[k - Len(t)]
    BY <1>5, <1>6, ConcatProperties
  <1>8. Len(s) <= Len(rows) /\ Len(u) <= n - Len(t)
    BY <1>1, <1>2, <1>4, <1>6, <1>7, SMTT(30)
  <1>9. ASSUME NEW k \in 1..Len(s) PROVE s[k] = rows[k]
    <2>1. CASE k <= Len(t)
      BY <1>1, <1>6, <1>7, <1>9, <2>1, SMTT(30) DEF Begins
    <2>2. CASE k > Len(t)
      <3>1. k - Len(t) \in 1..Len(u) /\ k - Len(t) \in 1..(n - Len(t)) /\ Len(t) + (k - Len(t)) = k
        BY <1>1, <1>2, <1>6, <1>7, <1>8, <2>2, SMTT(30)
      <3>2. s[k] = u[k - Len(t)]
        BY <1>1, <1>7, <2>2
      <3>3. u[k - Len(t)] = w[k - Len(t)]
        BY <1>6, <3>1
      <3>4. w[k - Len(t)] = rows[k]
        BY <1>4, <3>1
      <3>. QED BY <3>2, <3>3, <3>4
    <2>. QED BY <1>1, <1>7, <2>1, <2>2
  <1>10. (Len(w) > PageSize) <=> (Len(rows) > Len(s))
    BY <1>1, <1>2, <1>4, <1>6, <1>7
  <1>. QED BY <1>7, <1>8, <1>9, <1>10 DEF Begins, HasMore

\* What is under way for the list, and what was answered to it.
OnRow(r, whats) == r.heard = None /\ r.ask.what \in whats
Part(rows, offset) ==
  SubSeq(rows, offset + 1, IF offset + PageSize + 1 < Len(rows) THEN offset + PageSize + 1 ELSE Len(rows))
Fits(r, rows, filter, offset) ==
  /\ r.ask.of.filter = filter /\ r.ask.of.offset = offset
  /\ r.did # None => r.data = Part(rows, offset)
\* The list t of a filter, whose queue is rows, tells that queue: the one answer
\* it may be waiting for prolongs it or begins it anew, and no row is being
\* written.
TellsAt(r, rows, filter, t, more) ==
  /\ \A i, j \in DOMAIN r: OnRow(r[i], {"load", "more"}) /\ OnRow(r[j], {"load", "more"}) => i = j
  /\ \A i \in DOMAIN r: OnRow(r[i], {"load"}) => Fits(r[i], rows, filter, 0)
  /\ \A i \in DOMAIN r: OnRow(r[i], {"more"}) => Fits(r[i], rows, filter, Len(t))
  /\ \A i \in DOMAIN r: OnRow(r[i], {"mark", "replyTo"}) => r[i].did = None
  /\ \A i \in DOMAIN r: ~OnRow(r[i], {"refetch"})
  /\ (\A i \in DOMAIN r: ~OnRow(r[i], {"load"}))
        => /\ Begins(t, rows)
           /\ (\E i \in DOMAIN r: r[i].ask.what = "load") => (more <=> Len(rows) > Len(t))

LEMMA TellsElsewhere ==
  ASSUME RowsInv, NEW rows, NEW f, NEW t, NEW more, TellsAt(requests, rows, f, t, more),
         \/ UNCHANGED requests
         \/ \E ask: Requested(ask) /\ ask.what \in {"thread", "replyTo", "mark"}
         \/ \E i \in DOMAIN requests: \E outcome \in Outcomes(i):
               Ended(i, outcome) /\ requests[i].ask.what # "load"
  PROVE  TellsAt(requests', rows, f, t, more)
  <1> USE NoneApart, FieldsOfRow
  <1>1. CASE UNCHANGED requests
    BY <1>1
  <1>2. ASSUME NEW ask, Requested(ask), ask.what \in {"thread", "replyTo", "mark"}
        PROVE  TellsAt(requests', rows, f, t, more)
    <2> PICK n: n = Len(requests) + 1
      OBVIOUS
    <2>1. /\ DOMAIN requests' = DOMAIN requests \cup {n}
          /\ \A j \in DOMAIN requests: requests'[j] = requests[j]
          /\ requests'[n] = Row(ask, None, None, None)
      BY <1>2 DEF Requested, Grows
    <2>2. /\ requests'[n].ask.what \in {"thread", "replyTo", "mark"}
          /\ requests'[n].did = None
      BY <1>2, <2>1, FieldsOfRow
    <2>3. /\ ~OnRow(requests'[n], {"load", "more"}) /\ ~OnRow(requests'[n], {"load"})
          /\ ~OnRow(requests'[n], {"more"}) /\ ~OnRow(requests'[n], {"refetch"})
      BY <2>2 DEF OnRow
    <2>4. (\E i \in DOMAIN requests': requests'[i].ask.what = "load")
             => \E i \in DOMAIN requests: requests[i].ask.what = "load"
      BY <2>1, <2>2
    <2>. QED BY <2>1, <2>2, <2>3, <2>4 DEF TellsAt
  <1>3. ASSUME NEW i \in DOMAIN requests, NEW outcome \in Outcomes(i), Ended(i, outcome),
               requests[i].ask.what # "load"
        PROVE  TellsAt(requests', rows, f, t, more)
    <2>1. /\ DOMAIN requests' = DOMAIN requests
          /\ \A j \in DOMAIN requests \ {i}: requests'[j] = requests[j]
          /\ requests'[i].heard # None /\ requests'[i].ask = requests[i].ask
      BY <1>3, OutcomeIs DEF Ended, Hushes, Others
    <2>. QED BY <1>3, <2>1 DEF TellsAt, OnRow
  <1>. QED BY <1>1, <1>2, <1>3

LEMMA TellsWhenLoading ==
  ASSUME RowsInv, NEW rows, NEW f, NEW t, NEW more, NEW ask, Requested(ask), ask.what = "load",
         ask.of.filter = f, ask.of.offset = 0,
         \A i \in DOMAIN requests: ~OnRow(requests[i], {"load", "more", "mark", "replyTo", "refetch"})
  PROVE  TellsAt(requests', rows, f, t, more)
  <1> PICK n: n = Len(requests) + 1
    OBVIOUS
  <1>1. /\ n \in DOMAIN requests' /\ DOMAIN requests' = DOMAIN requests \cup {n}
        /\ \A j \in DOMAIN requests: requests'[j] = requests[j]
        /\ requests'[n] = Row(ask, None, None, None)
    BY DEF Requested, Grows
  <1>2. OnRow(requests'[n], {"load"}) /\ Fits(requests'[n], rows, f, 0)
    BY <1>1, FieldsOfRow DEF OnRow, Fits
  <1>3. \A i \in DOMAIN requests': OnRow(requests'[i], {"load", "more", "mark", "replyTo", "refetch"}) => i = n
    BY <1>1 
  <1>4. \A i \in DOMAIN requests' \ {n}:
           /\ ~OnRow(requests'[i], {"load"}) /\ ~OnRow(requests'[i], {"more"})
           /\ ~OnRow(requests'[i], {"load", "more"}) /\ ~OnRow(requests'[i], {"mark", "replyTo"})
           /\ ~OnRow(requests'[i], {"refetch"})
    BY <1>3 DEF OnRow
  <1>5. ~OnRow(requests'[n], {"more"}) /\ ~OnRow(requests'[n], {"mark", "replyTo"}) /\ ~OnRow(requests'[n], {"refetch"})
    BY <1>1, FieldsOfRow DEF OnRow
  <1>. QED BY <1>1, <1>2, <1>4, <1>5 DEF TellsAt

LEMMA TellsWhenMore ==
  ASSUME RowsInv, NEW rows, NEW f, NEW t, NEW more, TellsAt(requests, rows, f, t, more),
         NEW ask, Requested(ask), ask.what = "more",
         ask.of.filter = f, ask.of.offset = Len(t),
         \A i \in DOMAIN requests: ~OnRow(requests[i], {"load", "more"})
  PROVE  TellsAt(requests', rows, f, t, more)
  <1> PICK n: n = Len(requests) + 1
    OBVIOUS
  <1>1. /\ n \in DOMAIN requests' /\ DOMAIN requests' = DOMAIN requests \cup {n}
        /\ \A j \in DOMAIN requests: requests'[j] = requests[j]
        /\ requests'[n] = Row(ask, None, None, None)
    BY DEF Requested, Grows
  <1>2. /\ Fits(requests'[n], rows, f, Len(t)) /\ requests'[n].ask.what = "more"
        /\ ~OnRow(requests'[n], {"load"}) /\ ~OnRow(requests'[n], {"mark", "replyTo"})
        /\ ~OnRow(requests'[n], {"refetch"})
    BY <1>1, FieldsOfRow DEF OnRow, Fits
  <1>3. \A i \in DOMAIN requests: ~OnRow(requests[i], {"load"}) /\ ~OnRow(requests[i], {"more"})
    BY DEF OnRow
  <1>. QED BY <1>1, <1>2, <1>3 DEF TellsAt

LEMMA TellsWhenAnswered ==
  ASSUME RowsInv, NEW rows, NEW f, NEW t, NEW more, TellsAt(requests, rows, f, t, more),
         NEW i \in DOMAIN requests, NEW data, Dealt(i, "done", data),
         requests[i].ask.what \in {"load", "more", "thread", "refetch"},
         requests[i].ask.what \in {"load", "more"} /\ requests[i].ask.of.filter = f
            => data = Part(rows, requests[i].ask.of.offset)
  PROVE  TellsAt(requests', rows, f, t, more)
  <1>1. /\ DOMAIN requests' = DOMAIN requests
        /\ \A j \in DOMAIN requests \ {i}: requests'[j] = requests[j]
        /\ requests'[i].ask = requests[i].ask /\ requests'[i].heard = requests[i].heard
        /\ requests'[i].data = data
    BY FieldsOfRow DEF Dealt, Deals, Others
  <1>2. \A j \in DOMAIN requests: \A whats: OnRow(requests'[j], whats) <=> OnRow(requests[j], whats)
    BY <1>1 DEF OnRow
  <1>3. \A o: Fits(requests[i], rows, f, o) /\ requests[i].ask.what \in {"load", "more"}
                => Fits(requests'[i], rows, f, o)
    BY <1>1 DEF Fits
  <1>4. ASSUME NEW j \in DOMAIN requests'
        PROVE  /\ OnRow(requests'[j], {"load"}) => Fits(requests'[j], rows, f, 0)
               /\ OnRow(requests'[j], {"more"}) => Fits(requests'[j], rows, f, Len(t))
               /\ OnRow(requests'[j], {"mark", "replyTo"}) => requests'[j].did = None
    <2>1. CASE j = i
      <3>1. ~OnRow(requests'[j], {"mark", "replyTo"})
        BY <1>1, <2>1 DEF OnRow
      <3>2. OnRow(requests'[j], {"load"}) => Fits(requests'[j], rows, f, 0)
        BY <1>2, <1>3, <2>1 DEF TellsAt, OnRow
      <3>3. OnRow(requests'[j], {"more"}) => Fits(requests'[j], rows, f, Len(t))
        BY <1>2, <1>3, <2>1 DEF TellsAt, OnRow
      <3>. QED BY <3>1, <3>2, <3>3
    <2>2. CASE j # i
      <3>1. j \in DOMAIN requests /\ requests'[j] = requests[j]
        BY <1>1, <2>2
      <3>. QED BY <3>1 DEF TellsAt
    <2>. QED BY <2>1, <2>2
  <1>5. \A j, k \in DOMAIN requests': OnRow(requests'[j], {"load", "more"}) /\ OnRow(requests'[k], {"load", "more"}) => j = k
    BY <1>1, <1>2 DEF TellsAt
  <1>6. \A j \in DOMAIN requests': ~OnRow(requests'[j], {"refetch"})
    BY <1>1, <1>2 DEF TellsAt
  <1>7. \A j \in DOMAIN requests': requests'[j].ask = requests[j].ask
    BY <1>1
  <1>8. ASSUME \A j \in DOMAIN requests': ~OnRow(requests'[j], {"load"})
        PROVE  /\ Begins(t, rows)
               /\ (\E j \in DOMAIN requests': requests'[j].ask.what = "load") => (more <=> Len(rows) > Len(t))
    BY <1>1, <1>2, <1>7, <1>8 DEF TellsAt
  <1>. QED BY <1>4, <1>5, <1>6, <1>8 DEF TellsAt

\* The first rows of a queue.
LEMMA TellsWhenLoaded ==
  ASSUME RowsInv, queue \in Seq(Line), NEW f, NEW rows, rows = Filtered(queue, f), NEW t, NEW more,
         TellsAt(requests, rows, f, t, more),
         NEW i \in DOMAIN requests, NEW outcome \in Outcomes(i), Ended(i, outcome), requests[i].ask.what = "load",
         requests[i].did # None
  PROVE  TellsAt(requests', rows, f, Shown(requests[i].data), HasMore(requests[i].data))
  <1> PICK w: w = requests[i].data
    OBVIOUS
  <1>1. OnRow(requests[i], {"load"}) /\ OnRow(requests[i], {"load", "more"})
    BY OutcomeIs DEF OnRow
  <1>2. w = Part(rows, 0)
    BY <1>1 DEF TellsAt, Fits
  <1>3. w = Window(f, Len(<<>>))
    BY <1>2 DEF Part, Window
  <1>4. <<>> \in Seq(Line) /\ Begins(<<>>, rows)
    BY FilteredIs, LenProperties DEF Begins
  <1>5. PICK s: s = <<>> \o Shown(w)
    OBVIOUS
  <1>6. s \in Seq(Line) /\ Begins(s, rows) /\ (HasMore(w) <=> Len(rows) > Len(s))
    BY <1>3, <1>4, <1>5, NextPage
  <1>7. s = Shown(w)
    <2>1. w \in Seq(Line)
      BY <1>3, WindowIs, EmptySeq
    <2>. QED BY <1>5, <2>1, ShownIs, ConcatEmptySeq
  <1>8. /\ DOMAIN requests' = DOMAIN requests
        /\ \A j \in DOMAIN requests \ {i}: requests'[j] = requests[j]
        /\ requests'[i].heard # None /\ requests'[i].ask = requests[i].ask
    BY OutcomeIs, FieldsOfRow DEF Ended, Hushes, Others
  <1>9. \A j \in DOMAIN requests': ~OnRow(requests'[j], {"load"}) /\ ~OnRow(requests'[j], {"more"})
                                  /\ ~OnRow(requests'[j], {"load", "more"})
    BY <1>1, <1>8 DEF TellsAt, OnRow
  <1>10. \A j \in DOMAIN requests':
           /\ ~OnRow(requests'[j], {"refetch"})
           /\ OnRow(requests'[j], {"mark", "replyTo"}) => requests'[j].did = None
    BY <1>8 DEF TellsAt, OnRow
  <1>11. PICK b: b = HasMore(w)
    OBVIOUS
  <1>12. b <=> Len(rows) > Len(s)
    BY <1>6, <1>11
  <1>13. TellsAt(requests', rows, f, s, b)
    BY ONLY <1>6, <1>9, <1>10, <1>12 DEF TellsAt
  <1>. QED BY <1>7, <1>11, <1>13

\* The next rows of a queue.
LEMMA TellsWhenPaged ==
  ASSUME RowsInv, queue \in Seq(Line), NEW f, NEW rows, rows = Filtered(queue, f), NEW t \in Seq(Line), NEW more,
         TellsAt(requests, rows, f, t, more),
         NEW i \in DOMAIN requests, NEW outcome \in Outcomes(i), Ended(i, outcome), requests[i].ask.what = "more",
         requests[i].did # None
  PROVE  TellsAt(requests', rows, f, t \o Shown(requests[i].data), HasMore(requests[i].data))
  <1> PICK w: w = requests[i].data
    OBVIOUS
  <1>1. OnRow(requests[i], {"more"}) /\ OnRow(requests[i], {"load", "more"})
    BY OutcomeIs DEF OnRow
  <1>2. w = Part(rows, Len(t))
    BY <1>1 DEF TellsAt, Fits
  <1>3. w = Window(f, Len(t))
    BY <1>2 DEF Part, Window
  <1>4. Begins(t, rows)
    <2>1. \A j \in DOMAIN requests: ~OnRow(requests[j], {"load"})
      BY <1>1 DEF TellsAt, OnRow
    <2>. QED BY <2>1 DEF TellsAt
  <1>5. PICK s: s = t \o Shown(w)
    OBVIOUS
  <1>6. s \in Seq(Line) /\ Begins(s, rows) /\ (HasMore(w) <=> Len(rows) > Len(s))
    BY <1>3, <1>4, <1>5, NextPage
  <1>8. /\ DOMAIN requests' = DOMAIN requests
        /\ \A j \in DOMAIN requests \ {i}: requests'[j] = requests[j]
        /\ requests'[i].heard # None /\ requests'[i].ask = requests[i].ask
    BY OutcomeIs, FieldsOfRow DEF Ended, Hushes, Others
  <1>9. \A j \in DOMAIN requests': ~OnRow(requests'[j], {"load"}) /\ ~OnRow(requests'[j], {"more"})
                                  /\ ~OnRow(requests'[j], {"load", "more"})
    BY <1>1, <1>8 DEF TellsAt, OnRow
  <1>10. \A j \in DOMAIN requests':
           /\ ~OnRow(requests'[j], {"refetch"})
           /\ OnRow(requests'[j], {"mark", "replyTo"}) => requests'[j].did = None
    BY <1>8 DEF TellsAt, OnRow
  <1>11. PICK b: b = HasMore(w)
    OBVIOUS
  <1>12. b <=> Len(rows) > Len(s)
    BY <1>6, <1>11
  <1>13. TellsAt(requests', rows, f, s, b)
    BY ONLY <1>6, <1>9, <1>10, <1>12 DEF TellsAt
  <1>. QED BY <1>5, <1>11, <1>13

\* What is asked of the ticket page's server and answered by it.
AskIs(ask) ==
  /\ ask.what \in {"load", "more"} => ask.of.offset \in Nat
  /\ ask.what = "mark" => ask.of \in Line
  /\ ask.what \in {"thread", "refetch"} => ask.of \in Rows
  /\ ask.what = "replyTo" => ask.of.ticket \in Rows /\ ask.of.ticket = ask.of.written
AnswerIs(ask, data) ==
  /\ ask.what \in {"load", "more"} => data \in Seq(Line)
  /\ ask.what \in {"mark", "refetch"} => data \in Line
RowIs(r) == AskIs(r.ask) /\ r.did \in {None, "done"} /\ (r.did = "done" => AnswerIs(r.ask, r.data))
AsksAre(r) == \A i \in DOMAIN r: RowIs(r[i])

\* One thing at a time makes the page busy.
BusyKinds == {"thread", "more", "replyTo", "refetch", "mark"}
OneBusy(r, busy) ==
  /\ \A i, j \in DOMAIN r: OnRow(r[i], BusyKinds) /\ OnRow(r[j], BusyKinds) => i = j
  /\ \A i \in DOMAIN r: OnRow(r[i], BusyKinds) => busy

\* The open ticket is the one whose thread is shown and whose text area holds
\* the draft, and a reply under way is to it.
OpenIs(r, openId, thread, draft) ==
  /\ openId # None => thread = openId
  /\ openId # None /\ draft # None => draft = openId
  /\ \A i \in DOMAIN r: OnRow(r[i], {"replyTo"}) => openId \in {None, r[i].ask.of.ticket}
  /\ \A i \in DOMAIN r: OnRow(r[i], {"refetch"}) => openId \in {None, r[i].ask.of}

PageType ==
  [tickets: Seq(Line), filter: RowStatus \cup {All}, openId: Rows \cup {None}, thread: Rows \cup {None},
   draft: Rows \cup {None}, loading: BOOLEAN, busy: BOOLEAN, hasMore: BOOLEAN, disturbed: BOOLEAN]
PageTells ==
  screen = "tickets" /\ ~page.disturbed =>
    TellsAt(requests, Filtered(queue, page.filter), page.filter, page.tickets, page.hasMore)
PageInv ==
  /\ QueueForm /\ list = IdleList /\ page \in PageType
  /\ AsksAre(requests) /\ OneBusy(requests, page.busy)
  /\ OpenIs(requests, page.openId, page.thread, page.draft)
  /\ PageTells

LEMMA AsksStay ==
  ASSUME RowsInv, AsksAre(requests),
         \/ UNCHANGED requests
         \/ \E ask: Requested(ask) /\ AskIs(ask)
         \/ \E i \in DOMAIN requests: \E data: Dealt(i, "done", data) /\ AnswerIs(requests[i].ask, data)
         \/ \E i \in DOMAIN requests: \E outcome \in Outcomes(i): Ended(i, outcome)
         \/ \E i \in DOMAIN requests: \E outcome \in Outcomes(i): \E ask: Followed(i, outcome, ask) /\ AskIs(ask)
  PROVE  AsksAre(requests')
  <1> USE NoneApart, FieldsOfRow, DoneIsClear
  <1>1. CASE UNCHANGED requests
    BY <1>1
  <1>2. ASSUME NEW ask, Requested(ask), AskIs(ask) PROVE AsksAre(requests')
    BY <1>2 DEF Requested, Grows, AsksAre, RowIs
  <1>3. ASSUME NEW i \in DOMAIN requests, NEW data, Dealt(i, "done", data), AnswerIs(requests[i].ask, data)
        PROVE  AsksAre(requests')
    BY <1>3 DEF Dealt, Deals, Others, AsksAre, RowIs
  <1>4. ASSUME NEW i \in DOMAIN requests, NEW outcome \in Outcomes(i), Ended(i, outcome) PROVE AsksAre(requests')
    BY <1>4 DEF Ended, Hushes, Others, AsksAre, RowIs
  <1>5. ASSUME NEW i \in DOMAIN requests, NEW outcome \in Outcomes(i), NEW ask, Followed(i, outcome, ask), AskIs(ask)
        PROVE AsksAre(requests')
    BY <1>5 DEF Followed, GoesOn, AsksAre, RowIs
  <1>. QED BY <1>1, <1>2, <1>3, <1>4, <1>5

LEMMA BusyElsewhere ==
  ASSUME RowsInv, NEW busy, OneBusy(requests, busy),
         \/ UNCHANGED requests
         \/ \E ask: Requested(ask) /\ ask.what = "load"
         \/ \E i \in DOMAIN requests: \E data: Dealt(i, "done", data)
         \/ \E i \in DOMAIN requests: \E outcome \in Outcomes(i):
              Ended(i, outcome) /\ requests[i].ask.what = "load"
  PROVE  OneBusy(requests', busy)
  <1> USE NoneApart, FieldsOfRow DEF OneBusy, OnRow, BusyKinds
  <1>1. CASE UNCHANGED requests
    BY <1>1
  <1>2. ASSUME NEW ask, Requested(ask), ask.what = "load" PROVE OneBusy(requests', busy)
    BY <1>2 DEF Requested, Grows
  <1>3. ASSUME NEW i \in DOMAIN requests, NEW data, Dealt(i, "done", data) PROVE OneBusy(requests', busy)
    BY <1>3 DEF Dealt, Deals, Others
  <1>4. ASSUME NEW i \in DOMAIN requests, NEW outcome \in Outcomes(i), Ended(i, outcome), requests[i].ask.what = "load"
        PROVE OneBusy(requests', busy)
    BY <1>4 DEF Ended, Hushes, Others
  <1>. QED BY <1>1, <1>2, <1>3, <1>4

LEMMA BusyBegins ==
  ASSUME RowsInv, OneBusy(requests, FALSE), NEW ask, Requested(ask)
  PROVE  OneBusy(requests', TRUE)
  BY FieldsOfRow DEF Requested, Grows, OneBusy, OnRow, BusyKinds

LEMMA BusyDone ==
  ASSUME RowsInv, NEW busy, OneBusy(requests, busy), NEW i \in DOMAIN requests, NEW outcome \in Outcomes(i),
         Ended(i, outcome), requests[i].ask.what \in BusyKinds
  PROVE  OneBusy(requests', FALSE)
  BY FieldsOfRow, OutcomeIs DEF Ended, Hushes, Others, OneBusy, OnRow, BusyKinds

LEMMA BusyGoesOn ==
  ASSUME RowsInv, NEW busy, OneBusy(requests, busy), NEW i \in DOMAIN requests, NEW outcome \in Outcomes(i),
         NEW ask, Followed(i, outcome, ask), requests[i].ask.what \in BusyKinds
  PROVE  OneBusy(requests', busy)
  BY FieldsOfRow, OutcomeIs DEF Followed, GoesOn, OneBusy, OnRow, BusyKinds

\* What is open stays, or is closed, while other requests come and go.
LEMMA OpenElsewhere ==
  ASSUME RowsInv, NEW openId, NEW thread, NEW draft, OpenIs(requests, openId, thread, draft),
         \/ UNCHANGED requests
         \/ \E ask: Requested(ask) /\ ask.what \notin {"replyTo", "refetch"}
         \/ \E i \in DOMAIN requests: \E data: Dealt(i, "done", data)
         \/ \E i \in DOMAIN requests: \E outcome \in Outcomes(i): Ended(i, outcome)
  PROVE  /\ OpenIs(requests', openId, thread, draft) /\ OpenIs(requests', None, thread, draft)
         /\ OpenIs(requests', openId, thread, None)
  <1> USE NoneApart, FieldsOfRow DEF OpenIs, OnRow
  <1> DEFINE P == /\ OpenIs(requests', openId, thread, draft) /\ OpenIs(requests', None, thread, draft)
                  /\ OpenIs(requests', openId, thread, None)
  <1>1. CASE UNCHANGED requests
    BY <1>1
  <1>2. ASSUME NEW ask, Requested(ask), ask.what \notin {"replyTo", "refetch"} PROVE P
    BY <1>2 DEF Requested, Grows
  <1>3. ASSUME NEW i \in DOMAIN requests, NEW data, Dealt(i, "done", data) PROVE P
    BY <1>3 DEF Dealt, Deals, Others
  <1>4. ASSUME NEW i \in DOMAIN requests, NEW outcome \in Outcomes(i), Ended(i, outcome) PROVE P
    BY <1>4, OutcomeIs DEF Ended, Hushes, Others
  <1>. QED BY <1>1, <1>2, <1>3, <1>4

\* While nothing is busy, any ticket may be opened.
LEMMA OpenAny ==
  ASSUME NEW r, OneBusy(r, FALSE), NEW t
  PROVE  OpenIs(r, t, t, None)
  BY DEF OneBusy, OpenIs, OnRow, BusyKinds

\* The page tells as before.
LEMMA TellsStay ==
  ASSUME RowsInv, PageTells, UNCHANGED <<screen, queue>>,
         page'.disturbed = page.disturbed, page'.filter = page.filter, page'.tickets = page.tickets,
         page'.hasMore = page.hasMore,
         \/ UNCHANGED requests
         \/ \E ask: Requested(ask) /\ ask.what \in {"thread", "replyTo", "mark"}
         \/ \E i \in DOMAIN requests: \E outcome \in Outcomes(i):
               Ended(i, outcome) /\ requests[i].ask.what # "load"
  PROVE  PageTells'
  <1> SUFFICES ASSUME screen = "tickets", ~page.disturbed PROVE PageTells'
    BY DEF PageTells
  <1> PICK f, t, more, rows: f = page.filter /\ t = page.tickets /\ more = page.hasMore /\ rows = Filtered(queue, page.filter)
    OBVIOUS
  <1>1. TellsAt(requests, rows, f, t, more)
    BY DEF PageTells
  <1>2. TellsAt(requests', rows, f, t, more)
    BY <1>1, TellsElsewhere
  <1>3. rows = Filtered(queue', page'.filter)
    OBVIOUS
  <1>. QED BY <1>2, <1>3 DEF PageTells

\* A disturbed page need not tell.
LEMMA Disturbed ==
  ASSUME page'.disturbed
  PROVE  PageTells'
  BY DEF PageTells

PageKinds == {"load", "more", "thread", "replyTo", "refetch", "mark"}

LEMMA LoadStep ==
  ASSUME RowsInv, KindsOf(screen) = PageKinds, PageInv, UNCHANGED <<screen, queue, list>>,
         NEW filter \in RowStatus \cup {All}, Room, Load(filter)
  PROVE  RequestStep /\ PageInv'
  <1> PICK ask: ask = Ask("load", [filter |-> filter, offset |-> 0])
    OBVIOUS
  <1>1. ask.what = "load" /\ ask.of.filter = filter /\ ask.of.offset = 0
    BY DEF Ask
  <1>2. Requested(ask) /\ RequestStep
    BY <1>1, SendGrows DEF Load, RequestStep, Requested, RowsInv, PageKinds
  <1>3. page' = [page EXCEPT !.filter = filter, !.loading = TRUE, !.openId = None, !.disturbed = RowsAsked # {}]
    BY DEF Load
  <1>4. /\ page' \in PageType /\ page'.filter = filter /\ page'.openId = None
        /\ page'.disturbed = (RowsAsked # {})
        /\ page'.thread = page.thread /\ page'.draft = page.draft /\ page'.busy = page.busy
    BY <1>3 DEF PageInv, PageType
  <1>5. AsksAre(requests')
    BY <1>1, <1>2, AsksStay DEF AskIs, PageInv
  <1>6. OneBusy(requests', page'.busy)
    BY <1>1, <1>2, <1>4, BusyElsewhere DEF PageInv
  <1>7. OpenIs(requests', page'.openId, page'.thread, page'.draft)
    BY <1>1, <1>2, <1>4, OpenElsewhere DEF PageInv
  <1>8. PageTells'
    <2> SUFFICES ASSUME ~page'.disturbed PROVE PageTells'
      BY DEF PageTells
    <2>1. RowsAsked = {}
      BY <1>4
    <2>2. \A i \in DOMAIN requests: ~OnRow(requests[i], {"load", "more", "mark", "replyTo", "refetch"})
      BY <2>1 DEF RowsAsked, ListAsked, AwaitedAsks, Asks, Waiting, OnRow
    <2> PICK f, t, more, rows: f = page'.filter /\ t = page'.tickets /\ more = page'.hasMore
                               /\ rows = Filtered(queue', page'.filter)
      OBVIOUS
    <2>3. TellsAt(requests', rows, f, t, more)
      BY <1>1, <1>2, <1>4, <2>2, TellsWhenLoading
    <2>. QED BY <2>3 DEF PageTells
  <1>. QED BY <1>2, <1>4, <1>5, <1>6, <1>7, <1>8 DEF PageInv, QueueForm

LEMMA LoadMoreStep ==
  ASSUME RowsInv, KindsOf(screen) = PageKinds, PageInv, UNCHANGED screen, LoadMore
  PROVE  RequestStep /\ PageInv'
  <1> PICK ask: ask = Ask("more", [filter |-> page.filter, offset |-> Len(page.tickets)])
    OBVIOUS
  <1>1. ask.what = "more" /\ ask.of.filter = page.filter /\ ask.of.offset = Len(page.tickets)
        /\ Len(page.tickets) \in Nat
    BY LenProperties DEF Ask, PageInv, PageType
  <1>2. Requested(ask) /\ RequestStep
    BY <1>1, SendGrows DEF LoadMore, RequestStep, Requested, RowsInv, PageKinds
  <1>3. page' = [page EXCEPT !.busy = TRUE, !.disturbed = page.disturbed \/ ListAsked # {}] /\ ~page.busy
        /\ UNCHANGED <<queue, list>>
    BY DEF LoadMore
  <1>4. /\ page' \in PageType /\ page'.filter = page.filter /\ page'.openId = page.openId
        /\ page'.disturbed = (page.disturbed \/ ListAsked # {})
        /\ page'.thread = page.thread /\ page'.draft = page.draft /\ page'.busy = TRUE
        /\ page'.tickets = page.tickets /\ page'.hasMore = page.hasMore
    BY <1>3 DEF PageInv, PageType
  <1>5. AsksAre(requests')
    BY <1>1, <1>2, AsksStay DEF AskIs, PageInv
  <1>6. OneBusy(requests', page'.busy)
    <2>1. OneBusy(requests, FALSE)
      BY <1>3 DEF PageInv, OneBusy
    <2>. QED BY <1>2, <1>4, <2>1, BusyBegins
  <1>7. OpenIs(requests', page'.openId, page'.thread, page'.draft)
    BY <1>1, <1>2, <1>4, OpenElsewhere DEF PageInv
  <1>8. PageTells'
    <2> SUFFICES ASSUME screen = "tickets", ~page'.disturbed PROVE PageTells'
      BY DEF PageTells
    <2>1. ListAsked = {} /\ ~page.disturbed
      BY <1>4
    <2>2. \A i \in DOMAIN requests: ~OnRow(requests[i], {"load", "more"})
      BY <2>1 DEF ListAsked, AwaitedAsks, Asks, Waiting, OnRow
    <2> PICK f, t, more, rows: f = page.filter /\ t = page.tickets /\ more = page.hasMore
                               /\ rows = Filtered(queue, page.filter)
      OBVIOUS
    <2>3. TellsAt(requests, rows, f, t, more)
      BY <2>1 DEF PageInv, PageTells
    <2>4. TellsAt(requests', rows, f, t, more)
      BY <1>1, <1>2, <2>2, <2>3, TellsWhenMore
    <2>5. f = page'.filter /\ t = page'.tickets /\ more = page'.hasMore /\ rows = Filtered(queue', page'.filter)
      BY <1>3, <1>4
    <2>. QED BY <2>4, <2>5 DEF PageTells
  <1>. QED BY <1>2, <1>3, <1>4, <1>5, <1>6, <1>7, <1>8 DEF PageInv, QueueForm

LEMMA OpenThreadStep ==
  ASSUME RowsInv, KindsOf(screen) = PageKinds, PageInv, UNCHANGED screen, NEW t \in Rows, OpenThread(t)
  PROVE  RequestStep /\ PageInv'
  <1>1. ~page.busy /\ UNCHANGED <<queue, list>>
    BY DEF OpenThread
  <1>2. CASE page.openId = t
    <2>1. UNCHANGED requests /\ page' = [page EXCEPT !.openId = None]
      BY <1>2 DEF OpenThread
    <2>2. RequestStep
      BY <2>1 DEF RequestStep, RowsInv
    <2>3. /\ page' \in PageType /\ page'.filter = page.filter /\ page'.openId = None
          /\ page'.disturbed = page.disturbed /\ page'.hasMore = page.hasMore /\ page'.tickets = page.tickets
          /\ page'.thread = page.thread /\ page'.draft = page.draft /\ page'.busy = page.busy
      BY <2>1 DEF PageInv, PageType
    <2>4. AsksAre(requests') /\ OneBusy(requests', page'.busy)
      BY <2>1, <2>3 DEF PageInv
    <2>5. OpenIs(requests', page'.openId, page'.thread, page'.draft)
      BY <2>1, <2>3, OpenElsewhere DEF PageInv
    <2>6. PageTells'
      BY <1>1, <2>1, <2>3, TellsStay DEF PageInv
    <2>. QED BY <1>1, <2>2, <2>3, <2>4, <2>5, <2>6 DEF PageInv, QueueForm
  <1>3. CASE page.openId # t
    <2> PICK ask: ask = Ask("thread", t)
      OBVIOUS
    <2>1. ask.what = "thread" /\ ask.of = t /\ page' = [page EXCEPT !.busy = TRUE]
      BY <1>3 DEF Ask, OpenThread
    <2>2. Requested(ask) /\ RequestStep
      BY <1>3, <2>1, SendGrows DEF OpenThread, RequestStep, Requested, RowsInv, PageKinds
    <2>3. /\ page' \in PageType /\ page'.filter = page.filter /\ page'.openId = page.openId
          /\ page'.disturbed = page.disturbed /\ page'.hasMore = page.hasMore /\ page'.tickets = page.tickets
          /\ page'.thread = page.thread /\ page'.draft = page.draft /\ page'.busy = TRUE
      BY <2>1 DEF PageInv, PageType
    <2>4. AsksAre(requests')
      BY <2>1, <2>2, AsksStay DEF AskIs, PageInv
    <2>5. OneBusy(requests', page'.busy)
      <3>1. OneBusy(requests, FALSE)
        BY <1>1 DEF PageInv, OneBusy
      <3>. QED BY <2>2, <2>3, <3>1, BusyBegins
    <2>6. OpenIs(requests', page'.openId, page'.thread, page'.draft)
      BY <2>1, <2>2, <2>3, OpenElsewhere DEF PageInv
    <2>7. PageTells'
      BY <1>1, <2>1, <2>2, <2>3, TellsStay DEF PageInv
    <2>. QED BY <1>1, <2>2, <2>3, <2>4, <2>5, <2>6, <2>7 DEF PageInv, QueueForm
  <1>. QED BY <1>2, <1>3

LEMMA TypeReplyStep ==
  ASSUME RowsInv, PageInv, UNCHANGED screen, TypeReply
  PROVE  RequestStep /\ PageInv'
  <1>1. UNCHANGED <<requests, queue, list>> /\ page' = [page EXCEPT !.draft = page.openId] /\ page.openId # None
    BY DEF TypeReply
  <1>2. RequestStep
    BY <1>1 DEF RequestStep, RowsInv
  <1>3. /\ page' \in PageType /\ page'.filter = page.filter /\ page'.openId = page.openId
        /\ page'.disturbed = page.disturbed /\ page'.hasMore = page.hasMore /\ page'.tickets = page.tickets
        /\ page'.thread = page.thread /\ page'.draft = page.openId /\ page'.busy = page.busy
    BY <1>1 DEF PageInv, PageType
  <1>4. AsksAre(requests') /\ OneBusy(requests', page'.busy)
    BY <1>1, <1>3 DEF PageInv
  <1>5. OpenIs(requests', page'.openId, page'.thread, page'.draft)
    BY <1>1, <1>3 DEF PageInv, OpenIs
  <1>6. PageTells'
    BY <1>1, <1>3, TellsStay DEF PageInv
  <1>. QED BY <1>1, <1>2, <1>3, <1>4, <1>5, <1>6 DEF PageInv, QueueForm

LEMMA SendReplyStep ==
  ASSUME RowsInv, KindsOf(screen) = PageKinds, PageInv, UNCHANGED screen, SendReply
  PROVE  RequestStep /\ PageInv'
  <1> PICK ask: ask = Ask("replyTo", [ticket |-> page.openId, written |-> page.draft])
    OBVIOUS
  <1>1. /\ ask.what = "replyTo" /\ ask.of.ticket = page.openId /\ ask.of.written = page.draft
        /\ UNCHANGED <<queue, list>> /\ ~page.busy /\ page' = [page EXCEPT !.busy = TRUE]
        /\ page.openId # None /\ page.draft # None
    BY DEF Ask, SendReply
  <1>2. Requested(ask) /\ RequestStep
    BY <1>1, SendGrows DEF SendReply, RequestStep, Requested, RowsInv, PageKinds
  <1>3. /\ page' \in PageType /\ page'.filter = page.filter /\ page'.openId = page.openId
        /\ page'.disturbed = page.disturbed /\ page'.hasMore = page.hasMore /\ page'.tickets = page.tickets
        /\ page'.thread = page.thread /\ page'.draft = page.draft /\ page'.busy = TRUE
    BY <1>1 DEF PageInv, PageType
  <1>4. AskIs(ask)
    BY <1>1 DEF AskIs, PageInv, PageType, OpenIs
  <1>5. AsksAre(requests')
    BY <1>2, <1>4, AsksStay DEF PageInv
  <1>6. OneBusy(requests, FALSE)
    BY <1>1 DEF PageInv, OneBusy
  <1>7. OneBusy(requests', page'.busy)
    BY <1>2, <1>3, <1>6, BusyBegins
  <1>8. OpenIs(requests', page'.openId, page'.thread, page'.draft)
    BY <1>1, <1>2, <1>3, FieldsOfRow DEF PageInv, OpenIs, OnRow, Requested, Grows
  <1>9. PageTells'
    BY <1>1, <1>2, <1>3, TellsStay DEF PageInv
  <1>. QED BY <1>1, <1>2, <1>3, <1>5, <1>7, <1>8, <1>9 DEF PageInv, QueueForm

LEMMA ChangeStatusStep ==
  ASSUME RowsInv, KindsOf(screen) = PageKinds, PageInv, UNCHANGED screen,
         NEW t \in Rows, NEW status \in RowStatus, ChangeStatus(t, status)
  PROVE  RequestStep /\ PageInv'
  <1> PICK ask: ask = Ask("mark", [id |-> t, status |-> status])
    OBVIOUS
  <1>1. /\ ask.what = "mark" /\ ask.of \in Line
        /\ UNCHANGED <<queue, list>> /\ ~page.busy /\ page' = [page EXCEPT !.busy = TRUE]
    BY DEF Ask, ChangeStatus, Line
  <1>2. Requested(ask) /\ RequestStep
    BY <1>1, SendGrows DEF ChangeStatus, RequestStep, Requested, RowsInv, PageKinds
  <1>3. /\ page' \in PageType /\ page'.filter = page.filter /\ page'.openId = page.openId
        /\ page'.disturbed = page.disturbed /\ page'.hasMore = page.hasMore /\ page'.tickets = page.tickets
        /\ page'.thread = page.thread /\ page'.draft = page.draft /\ page'.busy = TRUE
    BY <1>1 DEF PageInv, PageType
  <1>4. AsksAre(requests')
    BY <1>1, <1>2, AsksStay DEF PageInv, AskIs
  <1>5. OneBusy(requests, FALSE)
    BY <1>1 DEF PageInv, OneBusy
  <1>6. OneBusy(requests', page'.busy)
    BY <1>2, <1>3, <1>5, BusyBegins
  <1>7. OpenIs(requests', page'.openId, page'.thread, page'.draft)
    BY <1>1, <1>2, <1>3, OpenElsewhere DEF PageInv
  <1>8. PageTells'
    BY <1>1, <1>2, <1>3, TellsStay DEF PageInv
  <1>. QED BY <1>1, <1>2, <1>3, <1>4, <1>6, <1>7, <1>8 DEF PageInv, QueueForm

\* Another operator or a customer writes a ticket.
LEMMA TouchStep ==
  ASSUME RowsInv, PageInv, UNCHANGED screen, NEW t \in Rows, NEW status \in RowStatus, Touch(t, status)
  PROVE  RequestStep /\ PageInv'
  <1>1. UNCHANGED <<requests, list>> /\ Raise(t, status) /\ page' = [page EXCEPT !.disturbed = TRUE]
    BY DEF Touch
  <1>2. RequestStep
    BY <1>1 DEF RequestStep, RowsInv
  <1>3. /\ page' \in PageType /\ page'.disturbed = TRUE /\ page'.openId = page.openId
        /\ page'.thread = page.thread /\ page'.draft = page.draft /\ page'.busy = page.busy
    BY <1>1 DEF PageInv, PageType
  <1>4. QueueForm'
    BY <1>1, RaiseIs DEF PageInv
  <1>5. /\ AsksAre(requests') /\ OneBusy(requests', page'.busy)
        /\ OpenIs(requests', page'.openId, page'.thread, page'.draft)
    BY <1>1, <1>3 DEF PageInv
  <1>. QED BY <1>1, <1>2, <1>3, <1>4, <1>5, Disturbed DEF PageInv

\* The answer to a request that ended well is of its kind.
LEMMA DataIs ==
  ASSUME RowsInv, PageInv, NEW i \in DOMAIN requests, NEW outcome \in Outcomes(i), outcome = "done"
  PROVE  requests[i].did = "done" /\ AnswerIs(requests[i].ask, Data(i))
  BY DoneIsClear, HeardIsDone DEF PageInv, AsksAre, RowIs, Data

\* What every handler of the page but that of a reply does.
LEMMA HearFrame ==
  ASSUME RowsInv, PageInv, NEW i \in DOMAIN requests, NEW outcome \in Outcomes(i), End(i, outcome), UNCHANGED screen
  PROVE  Ended(i, outcome) /\ RequestStep /\ AsksAre(requests')
  <1>1. Ended(i, outcome) /\ RequestStep
    BY EndedRow
  <1>. QED BY <1>1, AsksStay DEF PageInv

LEMMA HearLoadStep ==
  ASSUME RowsInv, PageInv, NEW i \in DOMAIN requests, NEW outcome \in Outcomes(i), UNCHANGED screen,
         HearLoad(i, outcome)
  PROVE  RequestStep /\ PageInv'
  <1>1. requests[i].ask.what = "load" /\ End(i, outcome) /\ UNCHANGED <<queue, list>>
    BY DEF HearLoad
  <1>2. Ended(i, outcome) /\ RequestStep /\ AsksAre(requests')
    BY <1>1, HearFrame
  <1> PICK s, more: s = Shown(Data(i)) /\ more = HasMore(Data(i))
    OBVIOUS
  <1>3. CASE outcome = "done"
    <2>1. Data(i) \in Seq(Line) /\ requests[i].did = "done"
      BY <1>1, <1>3, DataIs DEF AnswerIs
    <2>2. s \in Seq(Line) /\ more \in BOOLEAN
      BY <2>1, ShownIs DEF HasMore
    <2>3. page' = [page EXCEPT !.loading = FALSE, !.tickets = s, !.hasMore = more]
      BY <1>3 DEF HearLoad
    <2>4. /\ page' \in PageType /\ page'.filter = page.filter /\ page'.openId = page.openId
          /\ page'.disturbed = page.disturbed /\ page'.hasMore = more /\ page'.tickets = s
          /\ page'.thread = page.thread /\ page'.draft = page.draft /\ page'.busy = page.busy
      BY <2>2, <2>3 DEF PageInv, PageType
    <2>5. OneBusy(requests', page'.busy)
      BY <1>1, <1>2, <2>4, BusyElsewhere DEF PageInv
    <2>6. OpenIs(requests', page'.openId, page'.thread, page'.draft)
      BY <1>1, <1>2, <2>4, OpenElsewhere DEF PageInv
    <2>7. PageTells'
      <3> SUFFICES ASSUME screen = "tickets", ~page'.disturbed PROVE PageTells'
        BY DEF PageTells
      <3> PICK f, rows: f = page.filter /\ rows = Filtered(queue, page.filter)
        OBVIOUS
      <3>1. TellsAt(requests, rows, f, page.tickets, page.hasMore)
        BY <2>4 DEF PageInv, PageTells
      <3>2. requests[i].did # None /\ queue \in Seq(Line)
        BY <2>1, DoneIsClear DEF PageInv, QueueForm
      <3>3. TellsAt(requests', rows, f, Shown(requests[i].data), HasMore(requests[i].data))
        BY <1>1, <1>2, <3>1, <3>2, TellsWhenLoaded
      <3>4. TellsAt(requests', rows, f, s, more)
        BY <3>3 DEF Data
      <3>5. f = page'.filter /\ s = page'.tickets /\ more = page'.hasMore /\ rows = Filtered(queue', page'.filter)
        BY <1>1, <2>4
      <3>. QED BY <3>4, <3>5 DEF PageTells
    <2>. QED BY <1>1, <1>2, <2>4, <2>5, <2>6, <2>7 DEF PageInv, QueueForm
  <1>4. CASE outcome # "done"
    <2>1. page' = [page EXCEPT !.loading = FALSE, !.disturbed = TRUE]
      BY <1>4 DEF HearLoad
    <2>2. /\ page' \in PageType /\ page'.openId = page.openId /\ page'.disturbed = TRUE
          /\ page'.thread = page.thread /\ page'.draft = page.draft /\ page'.busy = page.busy
      BY <2>1 DEF PageInv, PageType
    <2>3. OneBusy(requests', page'.busy)
      BY <1>1, <1>2, <2>2, BusyElsewhere DEF PageInv
    <2>4. OpenIs(requests', page'.openId, page'.thread, page'.draft)
      BY <1>1, <1>2, <2>2, OpenElsewhere DEF PageInv
    <2>. QED BY <1>1, <1>2, <2>2, <2>3, <2>4, Disturbed DEF PageInv, QueueForm
  <1>. QED BY <1>3, <1>4

LEMMA HearMoreStep ==
  ASSUME RowsInv, PageInv, NEW i \in DOMAIN requests, NEW outcome \in Outcomes(i), UNCHANGED screen,
         HearMore(i, outcome)
  PROVE  RequestStep /\ PageInv'
  <1>1. requests[i].ask.what = "more" /\ End(i, outcome) /\ UNCHANGED <<queue, list>>
    BY DEF HearMore
  <1>2. Ended(i, outcome) /\ RequestStep /\ AsksAre(requests')
    BY <1>1, HearFrame
  <1>3. OneBusy(requests', FALSE)
    BY <1>1, <1>2, BusyDone DEF PageInv, BusyKinds
  <1> PICK s, more: s = page.tickets \o Shown(Data(i)) /\ more = HasMore(Data(i))
    OBVIOUS
  <1>4. CASE outcome = "done"
    <2>1. Data(i) \in Seq(Line) /\ requests[i].did = "done"
      BY <1>1, <1>4, DataIs DEF AnswerIs
    <2>2. s \in Seq(Line) /\ more \in BOOLEAN
      <3>1. Shown(Data(i)) \in Seq(Line) /\ page.tickets \in Seq(Line)
        BY <2>1, ShownIs DEF PageInv, PageType
      <3>2. s \in Seq(Line)
        BY <3>1, ConcatProperties
      <3>. QED BY <3>2 DEF HasMore
    <2>3. page' = [page EXCEPT !.busy = FALSE, !.tickets = s, !.hasMore = more]
      BY <1>4 DEF HearMore
    <2>4. /\ page' \in PageType /\ page'.filter = page.filter /\ page'.openId = page.openId
          /\ page'.disturbed = page.disturbed /\ page'.hasMore = more /\ page'.tickets = s
          /\ page'.thread = page.thread /\ page'.draft = page.draft /\ page'.busy = FALSE
      BY <2>2, <2>3 DEF PageInv, PageType
    <2>5. OneBusy(requests', page'.busy)
      BY <1>3, <2>4
    <2>6. OpenIs(requests', page'.openId, page'.thread, page'.draft)
      BY <1>1, <1>2, <2>4, OpenElsewhere DEF PageInv
    <2>7. PageTells'
      <3> SUFFICES ASSUME screen = "tickets", ~page'.disturbed PROVE PageTells'
        BY DEF PageTells
      <3> PICK f, rows, t: f = page.filter /\ rows = Filtered(queue, page.filter) /\ t = page.tickets
        OBVIOUS
      <3>1. TellsAt(requests, rows, f, t, page.hasMore)
        BY <2>4 DEF PageInv, PageTells
      <3>2. requests[i].did # None /\ queue \in Seq(Line) /\ t \in Seq(Line)
        BY <2>1, DoneIsClear DEF PageInv, QueueForm, PageType
      <3>3. TellsAt(requests', rows, f, t \o Shown(requests[i].data), HasMore(requests[i].data))
        BY <1>1, <1>2, <3>1, <3>2, TellsWhenPaged
      <3>4. TellsAt(requests', rows, f, s, more)
        BY <3>3 DEF Data
      <3>5. f = page'.filter /\ s = page'.tickets /\ more = page'.hasMore /\ rows = Filtered(queue', page'.filter)
        BY <1>1, <2>4
      <3>. QED BY <3>4, <3>5 DEF PageTells
    <2>. QED BY <1>1, <1>2, <2>4, <2>5, <2>6, <2>7 DEF PageInv, QueueForm
  <1>5. CASE outcome # "done"
    <2>1. page' = [page EXCEPT !.busy = FALSE]
      BY <1>5 DEF HearMore
    <2>2. /\ page' \in PageType /\ page'.filter = page.filter /\ page'.openId = page.openId
          /\ page'.disturbed = page.disturbed /\ page'.hasMore = page.hasMore /\ page'.tickets = page.tickets
          /\ page'.thread = page.thread /\ page'.draft = page.draft /\ page'.busy = FALSE
      BY <2>1 DEF PageInv, PageType
    <2>3. OneBusy(requests', page'.busy)
      BY <1>3, <2>2
    <2>4. OpenIs(requests', page'.openId, page'.thread, page'.draft)
      BY <1>1, <1>2, <2>2, OpenElsewhere DEF PageInv
    <2>5. PageTells'
      BY <1>1, <1>2, <2>2, TellsStay DEF PageInv
    <2>. QED BY <1>1, <1>2, <2>2, <2>3, <2>4, <2>5 DEF PageInv, QueueForm
  <1>. QED BY <1>4, <1>5

\* A handler that leaves the page as it was, no longer busy.
LEMMA HearsNothing ==
  ASSUME RowsInv, PageInv, NEW i \in DOMAIN requests, NEW outcome \in Outcomes(i), UNCHANGED <<screen, queue, list>>,
         requests[i].ask.what \in BusyKinds, End(i, outcome), page' = [page EXCEPT !.busy = FALSE]
  PROVE  RequestStep /\ PageInv'
  <1>1. Ended(i, outcome) /\ RequestStep /\ AsksAre(requests')
    BY HearFrame
  <1>2. /\ page' \in PageType /\ page'.filter = page.filter /\ page'.openId = page.openId
        /\ page'.disturbed = page.disturbed /\ page'.hasMore = page.hasMore /\ page'.tickets = page.tickets
        /\ page'.thread = page.thread /\ page'.draft = page.draft /\ page'.busy = FALSE
    BY DEF PageInv, PageType
  <1>3. OneBusy(requests', page'.busy)
    BY <1>1, <1>2, BusyDone DEF PageInv
  <1>4. OpenIs(requests', page'.openId, page'.thread, page'.draft)
    BY <1>1, <1>2, OpenElsewhere DEF PageInv
  <1>5. PageTells'
    BY <1>1, <1>2, TellsStay DEF PageInv, BusyKinds
  <1>. QED BY <1>1, <1>2, <1>3, <1>4, <1>5 DEF PageInv, QueueForm

LEMMA HearThreadStep ==
  ASSUME RowsInv, PageInv, NEW i \in DOMAIN requests, NEW outcome \in Outcomes(i), UNCHANGED screen,
         HearThread(i, outcome)
  PROVE  RequestStep /\ PageInv'
  <1>1. requests[i].ask.what = "thread" /\ requests[i].ask.what \in BusyKinds /\ End(i, outcome)
        /\ UNCHANGED <<queue, list>>
    BY DEF HearThread, BusyKinds
  <1>2. CASE outcome = "done"
    <2>1. Ended(i, outcome) /\ RequestStep /\ AsksAre(requests')
      BY <1>1, HearFrame
    <2> PICK t: t = Of(i)
      OBVIOUS
    <2>2. t \in Rows
      BY <1>1 DEF PageInv, AsksAre, RowIs, AskIs, Of
    <2>3. page' = [page EXCEPT !.busy = FALSE, !.thread = t, !.openId = t, !.draft = None]
      BY <1>2 DEF HearThread
    <2>4. /\ page' \in PageType /\ page'.filter = page.filter /\ page'.openId = t
          /\ page'.disturbed = page.disturbed /\ page'.hasMore = page.hasMore /\ page'.tickets = page.tickets
          /\ page'.thread = t /\ page'.draft = None /\ page'.busy = FALSE
      BY <2>2, <2>3 DEF PageInv, PageType
    <2>5. OneBusy(requests', FALSE)
      BY <1>1, <2>1, BusyDone DEF PageInv
    <2>6. OpenIs(requests', t, t, None)
      BY <2>5, OpenAny
    <2>7. PageTells'
      BY <1>1, <2>1, <2>4, TellsStay DEF PageInv
    <2>. QED BY <1>1, <2>1, <2>4, <2>5, <2>6, <2>7 DEF PageInv, QueueForm
  <1>3. CASE outcome # "done"
    BY <1>1, <1>3, HearsNothing DEF HearThread
  <1>. QED BY <1>2, <1>3

\* A row that was written while the page waited disturbed it.
LEMMA WroteDisturbs ==
  ASSUME RowsInv, PageInv, NEW i \in DOMAIN requests, NEW outcome \in Outcomes(i), screen = "tickets",
         requests[i].ask.what = "refetch" \/ (requests[i].ask.what \in {"mark", "replyTo"} /\ requests[i].did = "done")
  PROVE  page.disturbed
  <1>1. requests[i].heard = None
    BY OutcomeIs
  <1>2. CASE requests[i].ask.what = "refetch"
    BY <1>1, <1>2 DEF PageInv, PageTells, TellsAt, OnRow
  <1>3. CASE requests[i].ask.what \in {"mark", "replyTo"} /\ requests[i].did = "done"
    BY <1>1, <1>3, DoneIsClear DEF PageInv, PageTells, TellsAt, OnRow
  <1>. QED BY <1>2, <1>3

LEMMA HearReplyStep ==
  ASSUME RowsInv, KindsOf(screen) = PageKinds, PageInv, NEW i \in DOMAIN requests, NEW outcome \in Outcomes(i),
         UNCHANGED screen, HearReply(i, outcome)
  PROVE  RequestStep /\ PageInv'
  <1>1. requests[i].ask.what = "replyTo" /\ requests[i].ask.what \in BusyKinds /\ UNCHANGED <<queue, list>>
    BY DEF HearReply, BusyKinds
  <1>2. CASE outcome = "done"
    <2> PICK t, ask: t = Of(i).ticket /\ ask = Ask("refetch", t)
      OBVIOUS
    <2>1. ask.what = "refetch" /\ ask.of = t /\ EndAnd(i, outcome, <<ask>>) /\ page' = [page EXCEPT !.draft = None]
      BY <1>2 DEF HearReply, Ask
    <2>2. Followed(i, outcome, ask) /\ RequestStep
      BY <1>1, <2>1, FollowedRow DEF PageKinds, Afters
    <2>3. t \in Rows /\ requests[i].did = "done"
      BY <1>1, <1>2, DataIs DEF PageInv, AsksAre, RowIs, AskIs, Of
    <2>4. AsksAre(requests')
      BY <2>1, <2>2, <2>3, AsksStay DEF PageInv, AskIs
    <2>5. /\ page' \in PageType /\ page'.filter = page.filter /\ page'.openId = page.openId
          /\ page'.disturbed = page.disturbed
          /\ page'.thread = page.thread /\ page'.draft = None /\ page'.busy = page.busy
      BY <2>1 DEF PageInv, PageType
    <2>6. OneBusy(requests', page'.busy)
      BY <1>1, <2>2, <2>5, BusyGoesOn DEF PageInv
    <2>7. OpenIs(requests', page'.openId, page'.thread, page'.draft)
      <3>1. OnRow(requests[i], {"replyTo"}) /\ page.openId \in {None, t}
        BY <1>1, OutcomeIs DEF OnRow, PageInv, OpenIs, Of
      <3>2. \A j \in DOMAIN requests \ {i}: ~OnRow(requests[j], {"replyTo"}) /\ ~OnRow(requests[j], {"refetch"})
        <4>1. OnRow(requests[i], BusyKinds)
          BY <3>1 DEF OnRow, BusyKinds
        <4>. QED BY <4>1 DEF PageInv, OneBusy, OnRow, BusyKinds
      <3> PICK n: n = Len(requests) + 1
        OBVIOUS
      <3>3. /\ DOMAIN requests' = DOMAIN requests \cup {n} /\ i # n
            /\ \A j \in DOMAIN requests \ {i}: requests'[j] = requests[j]
            /\ requests'[i].heard # None /\ requests'[n].ask = ask
        BY <2>2, OutcomeIs, FieldsOfRow DEF Followed, GoesOn
      <3>4. \A j \in DOMAIN requests': ~OnRow(requests'[j], {"replyTo"})
        BY <2>1, <3>2, <3>3 DEF OnRow
      <3>5. \A j \in DOMAIN requests': OnRow(requests'[j], {"refetch"}) => j = n
        BY <3>2, <3>3 DEF OnRow
      <3>6. \A j \in DOMAIN requests': OnRow(requests'[j], {"refetch"}) => page.openId \in {None, requests'[j].ask.of}
        BY <2>1, <3>1, <3>3, <3>5
      <3>. QED BY <2>5, <3>4, <3>6 DEF OpenIs, PageInv
    <2>7a. screen = "tickets" => page.disturbed
      BY <1>1, <2>3, WroteDisturbs
    <2>8. PageTells'
      BY <2>5, <2>7a DEF PageTells
    <2>. QED BY <1>1, <2>2, <2>4, <2>5, <2>6, <2>7, <2>8 DEF PageInv, QueueForm
  <1>3. CASE outcome # "done"
    BY <1>1, <1>3, HearsNothing DEF HearReply
  <1>. QED BY <1>2, <1>3

LEMMA HearRefetchStep ==
  ASSUME RowsInv, PageInv, NEW i \in DOMAIN requests, NEW outcome \in Outcomes(i), UNCHANGED screen,
         HearRefetch(i, outcome)
  PROVE  RequestStep /\ PageInv'
  <1>1. requests[i].ask.what = "refetch" /\ requests[i].ask.what \in BusyKinds /\ End(i, outcome)
        /\ UNCHANGED <<queue, list>>
    BY DEF HearRefetch, BusyKinds
  <1>2. CASE outcome = "done"
    <2>1. Ended(i, outcome) /\ RequestStep /\ AsksAre(requests')
      BY <1>1, HearFrame
    <2> PICK t, s: t = Of(i) /\ s = SetRow(page.tickets, Data(i))
      OBVIOUS
    <2>2. t \in Rows /\ s \in Seq(Line)
      <3>1. Data(i) \in Line
        BY <1>1, <1>2, DataIs DEF AnswerIs
      <3>2. page.tickets \in Seq(Line)
        BY DEF PageInv, PageType
      <3>. QED BY <1>1, <3>1, <3>2, SetRowIs DEF PageInv, AsksAre, RowIs, AskIs, Of
    <2>3. page' = [page EXCEPT !.busy = FALSE, !.thread = t, !.tickets = s]
      BY <1>2 DEF HearRefetch
    <2>4. /\ page' \in PageType /\ page'.filter = page.filter /\ page'.openId = page.openId
          /\ page'.disturbed = page.disturbed
          /\ page'.thread = t /\ page'.draft = page.draft /\ page'.busy = FALSE
      BY <2>2, <2>3 DEF PageInv, PageType
    <2>5. OneBusy(requests', FALSE)
      BY <1>1, <2>1, BusyDone DEF PageInv
    <2>6. page.openId \in {None, t}
      BY <1>1, OutcomeIs DEF PageInv, OpenIs, OnRow, Of
    <2>7. OpenIs(requests', page'.openId, page'.thread, page'.draft)
      BY <2>4, <2>5, <2>6 DEF PageInv, OneBusy, OpenIs, OnRow, BusyKinds
    <2>8. screen = "tickets" => page.disturbed
      BY <1>1, WroteDisturbs
    <2>9. PageTells'
      BY <2>4, <2>8 DEF PageTells
    <2>. QED BY <1>1, <2>1, <2>4, <2>5, <2>7, <2>9 DEF PageInv, QueueForm
  <1>3. CASE outcome # "done"
    BY <1>1, <1>3, HearsNothing DEF HearRefetch
  <1>. QED BY <1>2, <1>3

LEMMA HearMarkStep ==
  ASSUME RowsInv, PageInv, NEW i \in DOMAIN requests, NEW outcome \in Outcomes(i), UNCHANGED screen,
         HearMark(i, outcome)
  PROVE  RequestStep /\ PageInv'
  <1>1. requests[i].ask.what = "mark" /\ requests[i].ask.what \in BusyKinds /\ End(i, outcome)
        /\ UNCHANGED <<queue, list>>
    BY DEF HearMark, BusyKinds
  <1>2. CASE outcome = "done"
    <2>1. Ended(i, outcome) /\ RequestStep /\ AsksAre(requests')
      BY <1>1, HearFrame
    <2> PICK s: s = SetRow(page.tickets, Data(i))
      OBVIOUS
    <2>2. s \in Seq(Line) /\ requests[i].did = "done"
      <3>1. Data(i) \in Line /\ requests[i].did = "done"
        BY <1>1, <1>2, DataIs DEF AnswerIs
      <3>2. page.tickets \in Seq(Line)
        BY DEF PageInv, PageType
      <3>. QED BY <3>1, <3>2, SetRowIs
    <2>3. page' = [page EXCEPT !.busy = FALSE, !.tickets = s]
      BY <1>2 DEF HearMark
    <2>4. /\ page' \in PageType /\ page'.filter = page.filter /\ page'.openId = page.openId
          /\ page'.disturbed = page.disturbed
          /\ page'.thread = page.thread /\ page'.draft = page.draft /\ page'.busy = FALSE
      BY <2>2, <2>3 DEF PageInv, PageType
    <2>5. OneBusy(requests', FALSE)
      BY <1>1, <2>1, BusyDone DEF PageInv
    <2>6. OpenIs(requests', page'.openId, page'.thread, page'.draft)
      BY <2>1, <2>4, OpenElsewhere DEF PageInv
    <2>7. screen = "tickets" => page.disturbed
      BY <1>1, <2>2, WroteDisturbs
    <2>8. PageTells'
      BY <2>4, <2>7 DEF PageTells
    <2>. QED BY <1>1, <2>1, <2>4, <2>5, <2>6, <2>8 DEF PageInv, QueueForm
  <1>3. CASE outcome # "done"
    BY <1>1, <1>3, HearsNothing DEF HearMark
  <1>. QED BY <1>2, <1>3

LEMMA PageServed ==
  ASSUME RowsInv, KindsOf(screen) = PageKinds, PageInv, NEW i \in DOMAIN requests, UNCHANGED screen,
         NEW answer \in DeskAnswer(i), ServeDesk(i, answer)
  PROVE  RequestStep /\ PageInv'
  <1> PICK what: what = requests[i].ask.what
    OBVIOUS
  <1>1. what \in PageKinds /\ UNCHANGED list /\ RowIs(requests[i])
    BY DEF RowsInv, ServeDesk, PageInv, AsksAre
  <1>2. RequestStep /\ Dealt(i, "done", answer)
    BY AnswerDeals, DoneIsClear DEF ServeDesk, RowsInv, RequestStep, Dealt
  <1>3. page' = [page EXCEPT !.disturbed = page.disturbed \/ what \in {"mark", "replyTo"}]
    BY DEF ServeDesk
  <1>4. /\ page' \in PageType /\ page'.filter = page.filter /\ page'.openId = page.openId
        /\ page'.disturbed = (page.disturbed \/ what \in {"mark", "replyTo"})
        /\ page'.hasMore = page.hasMore /\ page'.tickets = page.tickets
        /\ page'.thread = page.thread /\ page'.draft = page.draft /\ page'.busy = page.busy
    BY <1>3 DEF PageInv, PageType
  <1>5. what \in {"load", "more"} => answer = Window(Of(i).filter, Of(i).offset) /\ Of(i).offset \in Nat
    BY <1>1 DEF DeskAnswer, RowIs, AskIs, Of
  <1>6. AnswerIs(requests[i].ask, answer)
    <2>1. CASE what \in {"load", "more"}
      <3>1. answer \in Seq(Line)
        BY <1>5, <2>1, WindowIs DEF PageInv, QueueForm
      <3>. QED BY <2>1, <3>1 DEF AnswerIs
    <2>2. CASE what = "refetch"
      <3>1. answer = [id |-> Of(i), status |-> StatusOf(Of(i))]
        BY <2>2 DEF DeskAnswer
      <3>2. Of(i) \in Rows
        BY <1>1, <2>2 DEF RowIs, AskIs, Of
      <3>3. StatusOf(Of(i)) \in RowStatus
        BY <3>2, StatusIs DEF PageInv
      <3>. QED BY <2>2, <3>1, <3>2, <3>3 DEF AnswerIs, Line
    <2>3. CASE what = "mark"
      <3>1. answer = Of(i)
        BY <2>3 DEF DeskAnswer
      <3>. QED BY <1>1, <2>3, <3>1 DEF AnswerIs, RowIs, AskIs, Of
    <2>4. CASE what \in {"thread", "replyTo"}
      BY <2>4 DEF AnswerIs
    <2>. QED BY <1>1, <2>1, <2>2, <2>3, <2>4 DEF PageKinds
  <1>7. AsksAre(requests')
    BY <1>2, <1>6, AsksStay DEF PageInv
  <1>8. OneBusy(requests', page'.busy)
    BY <1>2, <1>4, BusyElsewhere DEF PageInv
  <1>9. OpenIs(requests', page'.openId, page'.thread, page'.draft)
    BY <1>2, <1>4, OpenElsewhere DEF PageInv
  <1>10. CASE what \in {"mark", "replyTo"}
    <2>1. QueueForm'
      <3>1. CASE what = "mark"
        <4>1. Of(i) \in Line
          BY <1>1, <3>1 DEF RowIs, AskIs, Of
        <4>2. Of(i).id \in Rows /\ Of(i).status \in RowStatus
          BY <4>1 DEF Line
        <4>3. Raise(Of(i).id, Of(i).status)
          BY <3>1 DEF ServeDesk
        <4>. QED BY <4>2, <4>3, RaiseIs DEF PageInv
      <3>2. CASE what = "replyTo"
        <4> PICK t: t = Of(i).ticket
          OBVIOUS
        <4>1. t \in Rows
          BY <1>1, <3>2 DEF RowIs, AskIs, Of
        <4>2. StatusOf(t) \in RowStatus
          BY <4>1, StatusIs DEF PageInv
        <4> PICK status: status = IF StatusOf(t) = "open" THEN "in_progress" ELSE StatusOf(t)
          OBVIOUS
        <4>3. status \in RowStatus
          BY <4>2, DeskAssumption
        <4>4. Raise(t, status)
          BY <3>2 DEF ServeDesk
        <4>. QED BY <4>1, <4>3, <4>4, RaiseIs DEF PageInv
      <3>. QED BY <1>10, <3>1, <3>2
    <2>2. page'.disturbed
      BY <1>4, <1>10
    <2>. QED BY <1>1, <1>2, <1>4, <1>7, <1>8, <1>9, <2>1, <2>2, Disturbed DEF PageInv
  <1>11. CASE what \notin {"mark", "replyTo"}
    <2>1. UNCHANGED queue
      BY <1>11 DEF ServeDesk
    <2>2. page'.disturbed = page.disturbed
      BY <1>4, <1>11 DEF PageInv, PageType
    <2>3. PageTells'
      <3> SUFFICES ASSUME screen = "tickets", ~page'.disturbed PROVE PageTells'
        BY DEF PageTells
      <3> PICK f, t, more, rows: f = page.filter /\ t = page.tickets /\ more = page.hasMore
                                 /\ rows = Filtered(queue, page.filter)
        OBVIOUS
      <3>1. TellsAt(requests, rows, f, t, more)
        BY <2>2 DEF PageInv, PageTells
      <3>2. what \in {"load", "more", "thread", "refetch"}
        BY <1>1, <1>11 DEF PageKinds
      <3>3. what \in {"load", "more"} /\ requests[i].ask.of.filter = f
              => answer = Part(rows, requests[i].ask.of.offset)
        BY <1>5 DEF Window, Part, Of
      <3>4. TellsAt(requests', rows, f, t, more)
        BY <1>2, <3>1, <3>2, <3>3, TellsWhenAnswered
      <3>5. f = page'.filter /\ t = page'.tickets /\ more = page'.hasMore /\ rows = Filtered(queue', page'.filter)
        BY <1>4, <2>1
      <3>. QED BY <3>4, <3>5 DEF PageTells
    <2>. QED BY <1>1, <1>2, <1>4, <1>7, <1>8, <1>9, <2>1, <2>3 DEF PageInv, QueueForm
  <1>. QED BY <1>10, <1>11

LEMMA ThreadTapsStep ==
  ASSUME RowsInv, KindsOf(screen) = PageKinds, PageInv, UNCHANGED screen, ThreadTaps
  PROVE  RequestStep /\ PageInv'
  BY TypeReplyStep, SendReplyStep, OpenThreadStep, ChangeStatusStep DEF ThreadTaps

LEMMA PageTapsStep ==
  ASSUME RowsInv, KindsOf(screen) = PageKinds, PageInv, UNCHANGED screen, PageTaps
  PROVE  RequestStep /\ PageInv'
  <1>1. CASE OpenPage
    BY <1>1, LoadStep DEF OpenPage
  <1>2. CASE LoadMore
    BY <1>2, LoadMoreStep
  <1>3. CASE ThreadTaps
    BY <1>3, ThreadTapsStep
  <1>4. ASSUME NEW f \in RowStatus \cup {All}, ApplyFilter(f) PROVE RequestStep /\ PageInv'
    BY <1>4, LoadStep DEF ApplyFilter
  <1>5. ASSUME NEW t \in Rows, NEW s \in RowStatus, Touch(t, s) PROVE RequestStep /\ PageInv'
    BY <1>5, TouchStep
  <1>. QED BY <1>1, <1>2, <1>3, <1>4, <1>5 DEF PageTaps

LEMMA PageStep ==
  ASSUME RowsInv, screen \in {"tickets", "threads"}, PageInv, ScreensNext
  PROVE  RequestStep /\ PageInv' /\ UNCHANGED <<moneyVars, formVars, deviceVars>>
  <1>1. KindsOf(screen) = PageKinds
    BY Kinds DEF PageKinds
  <1>2. CASE Tap
    <2>1. UNCHANGED <<moneyVars, formVars, deviceVars, screen>> /\ (PageTaps \/ ThreadTaps)
      BY <1>2, TappedOn DEF ScreensNext
    <2>. QED BY <1>1, <2>1, PageTapsStep, ThreadTapsStep
  <1>3. ASSUME NEW i \in DOMAIN requests, Served(i) \/ Hears(i)
        PROVE  RequestStep /\ PageInv' /\ UNCHANGED <<moneyVars, formVars, deviceVars>>
    <2>1. requests[i].ask.what \in PageKinds
      BY <1>1 DEF RowsInv
    <2>2. CASE Served(i)
      <3>1. (\E a \in DeskAnswer(i): ServeDesk(i, a)) /\ UNCHANGED <<moneyVars, formVars, deviceVars, screen>>
        BY <2>1, <2>2, ServedBy DEF ScreensNext, PageKinds
      <3>. QED BY <1>1, <3>1, PageServed
    <2>3. CASE Hears(i)
      <3>1. PICK outcome \in Outcomes(i): Goes(i, outcome)
        BY <2>3 DEF Hears
      <3>2. DeskHears(i, outcome) /\ UNCHANGED <<moneyVars, formVars, deviceVars, screen>>
        BY <2>1, <3>1, HeardByDesk DEF ScreensNext, PageKinds
      <3>3. CASE requests[i].ask.what = "load"
        BY <3>2, <3>3, HearLoadStep DEF DeskHears
      <3>4. CASE requests[i].ask.what = "more"
        BY <3>2, <3>4, HearMoreStep DEF DeskHears
      <3>5. CASE requests[i].ask.what = "thread"
        BY <3>2, <3>5, HearThreadStep DEF DeskHears
      <3>6. CASE requests[i].ask.what = "replyTo"
        BY <1>1, <3>2, <3>6, HearReplyStep DEF DeskHears
      <3>7. CASE requests[i].ask.what = "refetch"
        BY <3>2, <3>7, HearRefetchStep DEF DeskHears
      <3>8. CASE requests[i].ask.what = "mark"
        BY <3>2, <3>8, HearMarkStep DEF DeskHears
      <3>. QED BY <2>1, <3>2, <3>3, <3>4, <3>5, <3>6, <3>7, <3>8 DEF PageKinds
    <2>. QED BY <1>3, <2>2, <2>3
  <1>. QED BY <1>2, <1>3 DEF ScreensNext

\* Where nothing is decided, nothing is decided twice.
LEMMA NothingDecided ==
  ASSUME Asks("decide") = {}
  PROVE  RowsAreDecidedOnce
  <1>1. Cardinality({}) = 0
    BY FS_EmptySet
  <1>2. ASSUME NEW r \in Rows, NEW of, of = {i \in Asks("decide"): Of(i) = r}, NEW others, others = Asks("decide") \ of
        PROVE  Cardinality(of \cap Done("decide", {"done"}))
                 <= 1 + Cardinality(of \cap Heard("decide", Doubtful))
                      + Cardinality(others) + Cardinality({i \in others: ~Waiting(i)})
    <2>1. /\ of \cap Done("decide", {"done"}) = {} /\ of \cap Heard("decide", Doubtful) = {} /\ others = {}
          /\ {i \in others: ~Waiting(i)} = {}
      BY <1>2
    <2>2. /\ Cardinality(of \cap Done("decide", {"done"})) = 0 /\ Cardinality(of \cap Heard("decide", Doubtful)) = 0
          /\ Cardinality(others) = 0 /\ Cardinality({i \in others: ~Waiting(i)}) = 0
      BY ONLY <1>1, <2>1
    <2>. QED BY ONLY <2>2
  <1>. QED BY <1>2 DEF RowsAreDecidedOnce

LEMMA PageHolds ==
  ASSUME RowsInv, screen \in {"tickets", "threads"}, PageInv
  PROVE  PagesTellTheQueue /\ RepliesReachTheirTicket /\ RowsAreDecidedOnce /\ DeskTypeOK
  <1>1. page.tickets \in Seq(Line) /\ page.openId \in Rows \cup {None} /\ page.hasMore \in BOOLEAN
    BY DEF PageInv, PageType
  <1>2. DeskTypeOK
    <2>1. \A k \in DOMAIN page.tickets: page.tickets[k] \in Line
      BY <1>1, ElementOfSeq, LenProperties
    <2>2. list.rows = {}
      BY DEF PageInv, IdleList
    <2>. QED BY <1>1, <2>1, <2>2 DEF DeskTypeOK, Line
  <1>3. RepliesReachTheirTicket
    BY DEF RepliesReachTheirTicket, PageInv, OpenIs, AsksAre, RowIs, AskIs, Asks, Of
  <1>4. RowsAreDecidedOnce
    <2>1. Asks("decide") = {}
      BY Kinds DEF RowsInv, Asks
    <2>. QED BY <2>1, NothingDecided
  <1>5. PagesTellTheQueue
    <2> SUFFICES ASSUME screen = "tickets", ~page.disturbed, ListAsked = {}
        PROVE  /\ IsPrefix(page.tickets, Filtered(queue, page.filter))
               /\ Asks("load") # {} => page.hasMore = (Len(Filtered(queue, page.filter)) > Len(page.tickets))
      BY DEF PagesTellTheQueue
    <2> PICK rows, t, more, f: rows = Filtered(queue, page.filter) /\ t = page.tickets /\ more = page.hasMore /\ f = page.filter
      OBVIOUS
    <2>1. TellsAt(requests, rows, f, t, more)
      BY DEF PageInv, PageTells
    <2>2. \A i \in DOMAIN requests: ~OnRow(requests[i], {"load"})
      BY DEF ListAsked, AwaitedAsks, Asks, Waiting, OnRow
    <2>3. Begins(t, rows)
      BY <2>1, <2>2 DEF TellsAt
    <2>4. t \in Seq(Line) /\ rows \in Seq(Line)
      BY <1>1, FilteredIs DEF PageInv, QueueForm
    <2>5. IsPrefix(t, rows)
      BY <2>3, <2>4, BeginsIsPrefix
    <2>6. ASSUME Asks("load") # {} PROVE more = (Len(rows) > Len(t))
      <3>1. \E i \in DOMAIN requests: requests[i].ask.what = "load"
        BY <2>6 DEF Asks
      <3>2. more <=> Len(rows) > Len(t)
        BY <2>1, <2>2, <3>1 DEF TellsAt
      <3>3. more \in BOOLEAN
        BY <1>1
      <3>. QED BY <3>2, <3>3
    <2>. QED BY <2>5, <2>6
  <1>. QED BY <1>2, <1>3, <1>4, <1>5

-----------------------------------------------------------------------------
(* Every screen. *)

IdleTransfer == [phone |-> None, card |-> None, checking |-> FALSE, state |-> "form", button |-> NoOtp, raced |-> FALSE]
IdlePayout == [state |-> "form", limitKnown |-> FALSE, button |-> NoOtp]
IdleTopup == [state |-> "form", submitting |-> FALSE, error |-> FALSE, current |-> None, pollRef |-> None, timers |-> {}]
IdleForm == [draft |-> 1, busy |-> FALSE, error |-> FALSE, left |-> FALSE]
IdleKyc == [slots |-> [s \in Slots |-> EmptyCapture], submitting |-> FALSE, status |-> "idle"]
IdleSession == [token |-> None, user |-> None, mount |-> 0]
DeskScreens == {"tickets", "threads", "queue"}

\* The open screen keeps its invariant, and the others are as they begin.
TransferPart ==
  /\ screen = "transfer" => TransferInv
  /\ screen # "transfer" => transfer = IdleTransfer
PayoutPart ==
  /\ screen = "payout" => PayoutInv
  /\ screen # "payout" => payout = IdlePayout
TopupPart ==
  /\ screen = "topup" => TopupInv
  /\ screen # "topup" => topup = IdleTopup /\ deposits = <<>>
FormPart ==
  /\ \A kind \in Forms: screen = kind => FormInv(kind)
  /\ screen \notin Forms => form = IdleForm
KycPart ==
  /\ screen = "kycCapture" => KycInv
  /\ screen # "kycCapture" => kyc = IdleKyc
DeskPart ==
  /\ screen = "queue" => QueueInv
  /\ screen \in {"tickets", "threads"} => PageInv
  /\ screen \notin DeskScreens => page = IdlePage /\ list = IdleList
HomePart ==
  /\ screen = "home" => HomeInv
  /\ screen # "home" => session = IdleSession /\ balance = NoBalance /\ cache = None
LockPart ==
  /\ screen = "lock" => LockInv
  /\ screen # "lock" => ~lock.enabled /\ lock.prompts = 0
\* The inductive invariant.
ScreensIInv ==
  RequestsInv /\ TransferPart /\ PayoutPart /\ TopupPart /\ FormPart /\ KycPart /\ DeskPart /\ HomePart /\ LockPart

\* Screens that open are as they begin, and nothing is asked yet.
LEMMA NothingAsked ==
  ASSUME ScreensInit
  PROVE  /\ RequestsInv /\ requests = <<>> /\ DOMAIN requests = {}
         /\ \A what: Asks(what) = {} /\ AwaitedAsks(what) = {}
         /\ \A what, verdicts: Done(what, verdicts) = {}
         /\ \A what, outcomes: Heard(what, outcomes) = {}
  <1>1. requests = <<>> /\ DOMAIN requests = {} /\ Len(requests) = 0
    BY DEF ScreensInit
  <1>2. \A what: Asks(what) = {}
    BY <1>1 DEF Asks
  <1>3. screen \in Explored /\ MaxRequests[screen] \in Nat
    BY ApiClientAssumption DEF ScreensInit
  <1>4. Due = {} /\ Cardinality(Due) = 0
    BY <1>1, FS_EmptySet DEF Due
  <1>5. RequestsAre(requests)
    BY <1>1 DEF RequestsAre
  <1>6. RequestsInv
    BY <1>1, <1>3, <1>4, <1>5 DEF RequestsInv, RowsInv
  <1>. QED BY <1>1, <1>2, <1>6 DEF AwaitedAsks, Done, Heard

LEMMA MoneyAtFirst ==
  ASSUME ScreensInit
  PROVE  TransferPart /\ PayoutPart /\ TopupPart
  <1>1. transfer = IdleTransfer /\ payout = IdlePayout /\ topup = IdleTopup /\ deposits = <<>>
    BY DEF ScreensInit, MoneyInit, IdleTransfer, IdlePayout, IdleTopup
  <1>2. TransferInv
    <2>1. transfer \in TransferForm
      BY <1>1 DEF IdleTransfer, TransferForm, NoOtp
    <2>2. transfer.card = None /\ transfer.state = "form" /\ transfer.button.submitting = FALSE
      BY <1>1 DEF IdleTransfer, NoOtp
    <2>3. CardIsOfField /\ TransferPays
      BY <2>2, NothingAsked, MoneyScreensAssumption DEF CardIsOfField, TransferPays
    <2>4. TransferOnce
      BY <2>2, NothingAsked DEF TransferOnce, OneTap, Clear, Working
    <2>. QED BY <2>1, <2>2, <2>3, <2>4, NothingAsked DEF TransferInv
  <1>3. PayoutInv
    <2>1. payout \in PayoutForm
      BY <1>1 DEF IdlePayout, PayoutForm, NoOtp
    <2>2. payout.state = "form" /\ payout.button.submitting = FALSE
      BY <1>1 DEF IdlePayout, NoOtp
    <2>3. PayoutOnce
      BY <2>2, NothingAsked DEF PayoutOnce, OneTap, Clear, Working
    <2>. QED BY <2>1, <2>2, <2>3, NothingAsked DEF PayoutInv, LastIsAwaited, FailedIsOver
  <1>4. TopupInv
    <2>1. DOMAIN deposits = {}
      BY <1>1
    <2>2. topup \in TopupForm /\ topup.state = "form"
      BY <1>1, <2>1 DEF IdleTopup, TopupForm
    <2>3. DepositsAre
      <3>1. deposits \in [{} -> {"pending", "completed", "failed"}]
        BY <1>1
      <3>. QED BY <2>1, <3>1, NothingAsked DEF DepositsAre, Begun
    <2>. QED BY <2>2, <2>3, NothingAsked DEF TopupInv, PollsTell, TopupShows
  <1>. QED BY <1>1, <1>2, <1>3, <1>4 DEF TransferPart, PayoutPart, TopupPart

LEMMA FormsAtFirst ==
  ASSUME ScreensInit
  PROVE  FormPart /\ KycPart
  <1>1. form = IdleForm /\ kyc = IdleKyc
    BY DEF ScreensInit, FormInit, IdleForm, IdleKyc
  <1>2. ASSUME NEW kind \in Forms PROVE FormInv(kind)
    <2>1. form \in FormsForm /\ ~form.left
      BY <1>1 DEF IdleForm, FormsForm
    <2>2. FormWork(kind) = {}
      BY NothingAsked DEF FormWork
    <2>3. FormIsDead(kind)
      BY <2>2, NothingAsked DEF FormIsDead
    <2>4. ClearIsOnce(kind)
      BY NothingAsked DEF ClearIsOnce, Clear
    <2>. QED BY <2>1, <2>3, <2>4, NothingAsked DEF FormInv, TakenIsGone, SignsInAfter, LeftIsTaken
  <1>3. KycInv
    <2>1. KycForm
      BY <1>1 DEF IdleKyc, KycForm, EmptyCapture
    <2>2. SlotsAreAccepted
      BY <1>1 DEF IdleKyc, SlotsAreAccepted, SlotIsAccepted, EmptyCapture
    <2>. QED BY <2>1, <2>2, NothingAsked DEF KycInv, FilesAreAccepted, UploadsAreOfSlots
  <1>. QED BY <1>1, <1>2, <1>3 DEF FormPart, KycPart

LEMMA DeskAtFirst ==
  ASSUME ScreensInit
  PROVE  DeskPart
  <1>1. DeskInit /\ requests = <<>> /\ DOMAIN requests = {}
    BY NothingAsked DEF ScreensInit
  <1>2. QueueForm /\ queue \in Seq(Line)
    BY <1>1, QueueAtFirst DEF QueueForm
  <1>3. list = IdleList /\ list.rows = {}
    BY <1>1 DEF DeskInit, IdleList
  <1>4. screen # "threads" => page = IdlePage
    BY <1>1 DEF DeskInit, IdlePage
  <1>5. ASSUME screen = "queue" PROVE QueueInv
    <2>1. ListForm
      BY <1>3 DEF ListForm, IdleList
    <2>2. ListIsFirst
      BY <1>3, NothingAsked DEF ListIsFirst
    <2>3. ASSUME NEW r \in Rows PROVE RowIsDecided(r)
      <3>1. Mine(r) = {} /\ Cardinality(Mine(r)) = 0
        BY NothingAsked, FS_EmptySet DEF Mine
      <3>2. Slack(r) \in Nat
        BY DecisionsCount, NothingAsked DEF RequestsInv
      <3>. QED BY <1>3, <3>1, <3>2 DEF RowIsDecided
    <2>. QED BY <1>1, <1>2, <1>4, <1>5, <2>1, <2>2, <2>3 DEF QueueInv
  <1>6. ASSUME screen \in {"tickets", "threads"} PROVE PageInv
    <2>1. page \in PageType
      <3>1. PICK t \in {queue, <<>>}:
              page = [tickets |-> t, filter |-> All, openId |-> None, thread |-> None, draft |-> None,
                      loading |-> FALSE, busy |-> FALSE, hasMore |-> FALSE, disturbed |-> FALSE]
        BY <1>1 DEF DeskInit
      <3>2. queue \in Seq(Line) /\ <<>> \in Seq(Line)
        BY <1>2
      <3>3. t \in Seq(Line)
        BY <3>2
      <3>4. [tickets |-> t, filter |-> All, openId |-> None, thread |-> None, draft |-> None,
             loading |-> FALSE, busy |-> FALSE, hasMore |-> FALSE, disturbed |-> FALSE] \in PageType
        BY <3>3 DEF PageType
      <3>. QED BY <3>1, <3>4
    <2>2. page.openId = None
      BY <1>1 DEF DeskInit
    <2>3. AsksAre(requests) /\ OneBusy(requests, page.busy)
          /\ OpenIs(requests, page.openId, page.thread, page.draft)
      BY <1>1, <2>2 DEF AsksAre, OneBusy, OpenIs
    <2>4. PageTells
      <3> SUFFICES ASSUME screen = "tickets"
          PROVE  TellsAt(requests, Filtered(queue, page.filter), page.filter, page.tickets, page.hasMore)
        BY DEF PageTells
      <3>1. page.tickets = <<>> /\ Len(page.tickets) = 0
        BY <1>4 DEF IdlePage
      <3>2. Begins(page.tickets, Filtered(queue, page.filter))
        <4>1. Filtered(queue, page.filter) \in Seq(Line)
          BY <1>2, <2>1, FilteredIs DEF PageType
        <4>2. Len(Filtered(queue, page.filter)) \in Nat
          BY <4>1
        <4>. QED BY <3>1, <4>2 DEF Begins
      <3>. QED BY <1>1, <3>2 DEF TellsAt
    <2>. QED BY <1>2, <1>3, <2>1, <2>3, <2>4 DEF PageInv
  <1>. QED BY <1>3, <1>4, <1>5, <1>6 DEF DeskPart, DeskScreens

LEMMA DeviceAtFirst ==
  ASSUME ScreensInit
  PROVE  HomePart /\ LockPart
  <1>1. session = IdleSession /\ balance = NoBalance /\ cache = None
    BY DEF ScreensInit, DeviceInit, IdleSession
  <1>2. HomeInv
    <2>1. HomeForm
      BY <1>1 DEF HomeForm, IdleSession, NoBalance, People
    <2>2. session.user = None /\ session.token = None /\ ~balance.live
      BY <1>1 DEF IdleSession, NoBalance
    <2>3. OutOrOwn /\ UserIsKnown
      BY <2>2 DEF OutOrOwn, UserIsKnown
    <2>4. BalancesAreOfMounts /\ TokensAreKnown /\ OneLogIn
      BY NothingAsked DEF BalancesAreOfMounts, TokensAreKnown, OneLogIn
    <2>. QED BY <2>1, <2>3, <2>4 DEF HomeInv
  <1>3. /\ lock \in LockForm /\ lock.prompts = 0 /\ lock.begun = 0 /\ ~lock.checked
        /\ screen # "lock" => ~lock.enabled
    <2>1. lock \in [enabled: BOOLEAN, hardware: BOOLEAN, locked: {FALSE}, checked: {FALSE}, away: {"no"},
                    prompts: {0}, begun: {0}, vouched: {FALSE}]
      BY DEF ScreensInit, DeviceInit
    <2>2. screen # "lock" => ~lock.enabled
      BY DEF ScreensInit
    <2>3. lock \in LockForm
      <3>1. /\ lock.enabled \in BOOLEAN /\ lock.hardware \in BOOLEAN /\ lock.locked \in BOOLEAN
            /\ lock.checked \in BOOLEAN /\ lock.away \in {"no", "short", "long"}
            /\ lock.prompts \in Nat /\ lock.begun \in Nat /\ lock.vouched \in BOOLEAN
        <4>1. /\ lock.enabled \in BOOLEAN /\ lock.hardware \in BOOLEAN
              /\ lock.away = "no" /\ lock.prompts = 0 /\ lock.begun = 0
          BY <2>1
        <4>2. lock.locked \in {FALSE} /\ lock.checked \in {FALSE} /\ lock.vouched \in {FALSE}
          BY <2>1
        <4>3. lock.locked \in BOOLEAN /\ lock.checked \in BOOLEAN /\ lock.vouched \in BOOLEAN
          BY <4>2, Zenon
        <4>. QED BY <4>1, <4>3
      <3>2. lock = [enabled |-> lock.enabled, hardware |-> lock.hardware, locked |-> lock.locked,
                    checked |-> lock.checked, away |-> lock.away, prompts |-> lock.prompts,
                    begun |-> lock.begun, vouched |-> lock.vouched]
        BY <2>1
      <3>. QED BY <3>1, <3>2 DEF LockForm
    <2>. QED BY <2>1, <2>2, <2>3
  <1>4. LockInv
    BY <1>3, DeviceAssumption DEF LockInv
  <1>. QED BY <1>1, <1>2, <1>3, <1>4 DEF HomePart, LockPart

LEMMA ScreensAtFirst ==
  ASSUME ScreensInit
  PROVE  ScreensIInv
  BY NothingAsked, MoneyAtFirst, FormsAtFirst, DeskAtFirst, DeviceAtFirst DEF ScreensIInv

-----------------------------------------------------------------------------
(* A step of the open screen leaves the others alone.                      *)

LEMMA OtherScreens ==
  ASSUME ScreensIInv, UNCHANGED screen
  PROVE  /\ screen # "transfer" /\ UNCHANGED transfer => TransferPart'
         /\ screen # "payout" /\ UNCHANGED payout => PayoutPart'
         /\ screen # "topup" /\ UNCHANGED <<topup, deposits>> => TopupPart'
         /\ screen \notin Forms /\ UNCHANGED form => FormPart'
         /\ screen # "kycCapture" /\ UNCHANGED kyc => KycPart'
         /\ screen \notin DeskScreens /\ UNCHANGED <<page, list>> => DeskPart'
         /\ screen # "home" /\ UNCHANGED <<session, balance, cache>> => HomePart'
         /\ screen # "lock" /\ UNCHANGED lock => LockPart'
  <1>1. screen # "transfer" /\ UNCHANGED transfer => TransferPart'
    BY DEF ScreensIInv, TransferPart
  <1>2. screen # "payout" /\ UNCHANGED payout => PayoutPart'
    BY DEF ScreensIInv, PayoutPart
  <1>3. screen # "topup" /\ UNCHANGED <<topup, deposits>> => TopupPart'
    BY DEF ScreensIInv, TopupPart
  <1>4. screen \notin Forms /\ UNCHANGED form => FormPart'
    BY DEF ScreensIInv, FormPart
  <1>5. screen # "kycCapture" /\ UNCHANGED kyc => KycPart'
    BY DEF ScreensIInv, KycPart
  <1>6. screen \notin DeskScreens /\ UNCHANGED <<page, list>> => DeskPart'
    BY DEF ScreensIInv, DeskPart, DeskScreens
  <1>7. screen # "home" /\ UNCHANGED <<session, balance, cache>> => HomePart'
    BY DEF ScreensIInv, HomePart
  <1>8. screen # "lock" /\ UNCHANGED lock => LockPart'
    BY DEF ScreensIInv, LockPart
  <1>. QED BY <1>1, <1>2, <1>3, <1>4, <1>5, <1>6, <1>7, <1>8

LEMMA StepOfOne ==
  ASSUME ScreensIInv, ScreensNext
  PROVE  ScreensIInv'
  <1>1. RequestsInv /\ RowsInv /\ UNCHANGED screen
    BY DEF ScreensIInv, RequestsInv, ScreensNext
  <1>2. RequestStep => RequestsInv'
    BY <1>1, RequestsStep
  <1>3. CASE screen = "transfer"
    <2>1. TransferInv
      BY <1>3 DEF ScreensIInv, TransferPart
    <2>2. RequestStep /\ TransferInv' /\ UNCHANGED <<payout, topup, deposits, formVars, deskVars, deviceVars>>
      BY <1>1, <1>3, <2>1, TransferStep
    <2>3. TransferPart'
      BY <1>1, <1>3, <2>2 DEF TransferPart
    <2>. QED BY <1>1, <1>2, <1>3, <2>2, <2>3, OtherScreens
             DEF ScreensIInv, formVars, deskVars, deviceVars, Forms, DeskScreens
  <1>4. CASE screen = "payout"
    <2>1. PayoutInv
      BY <1>4 DEF ScreensIInv, PayoutPart
    <2>2. RequestStep /\ PayoutInv' /\ UNCHANGED <<transfer, topup, deposits, formVars, deskVars, deviceVars>>
      BY <1>1, <1>4, <2>1, PayoutStep
    <2>3. PayoutPart'
      BY <1>1, <1>4, <2>2 DEF PayoutPart
    <2>. QED BY <1>1, <1>2, <1>4, <2>2, <2>3, OtherScreens
             DEF ScreensIInv, formVars, deskVars, deviceVars, Forms, DeskScreens
  <1>5. CASE screen = "topup"
    <2>1. TopupInv
      BY <1>5 DEF ScreensIInv, TopupPart
    <2>2. RequestStep /\ TopupInv' /\ UNCHANGED <<transfer, payout, formVars, deskVars, deviceVars>>
      BY <1>1, <1>5, <2>1, TopupStep
    <2>3. TopupPart'
      BY <1>1, <1>5, <2>2 DEF TopupPart
    <2>. QED BY <1>1, <1>2, <1>5, <2>2, <2>3, OtherScreens
             DEF ScreensIInv, formVars, deskVars, deviceVars, Forms, DeskScreens
  <1>6. ASSUME NEW kind \in Forms, screen = kind
        PROVE  ScreensIInv'
    <2>1. FormInv(kind)
      BY <1>6 DEF ScreensIInv, FormPart
    <2>2. RequestStep /\ FormInv(kind)' /\ UNCHANGED <<kyc, moneyVars, deskVars, deviceVars>>
      BY <1>1, <1>6, <2>1, FormStep
    <2>3. FormPart'
      BY <1>1, <1>6, <2>2 DEF FormPart
    <2>. QED BY <1>1, <1>2, <1>6, <2>2, <2>3, OtherScreens
             DEF ScreensIInv, moneyVars, deskVars, deviceVars, Forms, DeskScreens
  <1>7. CASE screen = "kycCapture"
    <2>1. KycInv
      BY <1>7 DEF ScreensIInv, KycPart
    <2>2. RequestStep /\ KycInv' /\ UNCHANGED <<form, moneyVars, deskVars, deviceVars>>
      BY <1>1, <1>7, <2>1, KycStep
    <2>3. KycPart'
      BY <1>1, <1>7, <2>2 DEF KycPart
    <2>. QED BY <1>1, <1>2, <1>7, <2>2, <2>3, OtherScreens
             DEF ScreensIInv, moneyVars, deskVars, deviceVars, Forms, DeskScreens
  <1>8. CASE screen \in {"tickets", "threads"}
    <2>1. PageInv
      BY <1>8 DEF ScreensIInv, DeskPart
    <2>2. RequestStep /\ PageInv' /\ UNCHANGED <<moneyVars, formVars, deviceVars>>
      BY <1>1, <1>8, <2>1, PageStep
    <2>3. DeskPart'
      BY <1>1, <1>8, <2>2 DEF DeskPart, DeskScreens
    <2>. QED BY <1>1, <1>2, <1>8, <2>2, <2>3, OtherScreens
             DEF ScreensIInv, moneyVars, formVars, deviceVars, Forms
  <1>9. CASE screen = "queue"
    <2>1. QueueInv
      BY <1>9 DEF ScreensIInv, DeskPart
    <2>2. RequestStep /\ QueueInv' /\ UNCHANGED <<moneyVars, formVars, deviceVars>>
      BY <1>1, <1>9, <2>1, QueueStep
    <2>3. DeskPart'
      BY <1>1, <1>9, <2>2 DEF DeskPart, DeskScreens
    <2>. QED BY <1>1, <1>2, <1>9, <2>2, <2>3, OtherScreens
             DEF ScreensIInv, moneyVars, formVars, deviceVars, Forms
  <1>10. CASE screen = "home"
    <2>1. HomeInv
      BY <1>10 DEF ScreensIInv, HomePart
    <2>2. RequestStep /\ HomeInv' /\ UNCHANGED <<lock, moneyVars, formVars, deskVars>>
      BY <1>1, <1>10, <2>1, HomeStep
    <2>3. HomePart'
      BY <1>1, <1>10, <2>2 DEF HomePart
    <2>. QED BY <1>1, <1>2, <1>10, <2>2, <2>3, OtherScreens
             DEF ScreensIInv, moneyVars, formVars, deskVars, Forms, DeskScreens
  <1>11. CASE screen = "lock"
    <2>1. LockInv
      BY <1>11 DEF ScreensIInv, LockPart
    <2>2. RequestStep /\ LockInv' /\ UNCHANGED <<session, balance, cache, moneyVars, formVars, deskVars>>
      BY <1>1, <1>11, <2>1, LockStep
    <2>3. LockPart'
      BY <1>1, <1>11, <2>2 DEF LockPart
    <2>. QED BY <1>1, <1>2, <1>11, <2>2, <2>3, OtherScreens
             DEF ScreensIInv, moneyVars, formVars, deskVars, Forms, DeskScreens
  <1>12. screen \in AdminScreens \cup PhoneScreens
    BY <1>1, ApiClientAssumption DEF RowsInv
  <1>. QED BY <1>3, <1>4, <1>5, <1>6, <1>7, <1>8, <1>9, <1>10, <1>11, <1>12
           DEF AdminScreens, PhoneScreens, Forms

\* Nothing happens.
LEMMA StepOfNone ==
  ASSUME ScreensIInv, UNCHANGED screenVars
  PROVE  ScreensIInv'
  <1>1. UNCHANGED <<screen, requests, transfer, payout, topup, deposits, form, kyc, queue, touches, page, list,
                    session, balance, cache, lock>>
    BY DEF screenVars, moneyVars, formVars, deskVars, deviceVars
  <1>2. RowsInv /\ RequestsInv'
    <2>1. RowsInv /\ RequestStep
      BY <1>1 DEF ScreensIInv, RequestsInv, RowsInv, RequestStep
    <2>. QED BY <2>1, RequestsStep DEF ScreensIInv
  <1>3. TransferInv => TransferInv'
    BY <1>1 DEF TransferInv, TransferForm, CardIsOfField, TransferPays, TransferOnce, Asks, AwaitedAsks, Done, Of, Waiting
  <1>4. PayoutInv => PayoutInv'
    BY <1>1 DEF PayoutInv, PayoutForm, PayoutOnce, LastIsAwaited, FailedIsOver, Latest, Asks, AwaitedAsks, Done, Waiting
  <1>5. TopupInv => TopupInv'
    BY <1>1 DEF TopupInv, TopupForm, DepositsAre, PollsTell, TopupShows, Overtaken, Begun, Asks, Done, Of
  <1>6. ASSUME NEW kind \in Forms, FormInv(kind) PROVE FormInv(kind)'
    BY <1>1, <1>6 DEF FormInv, FormsForm, FormIsDead, FormWork, TakenIsGone, ClearIsOnce, SignsInAfter, LeftIsTaken,
                      Asks, AwaitedAsks, Done, Heard, Of, Waiting
  <1>7. KycInv => KycInv'
    BY <1>1 DEF KycInv, KycForm, SlotsAreAccepted, SlotIsAccepted, FilesAreAccepted, UploadsAreOfSlots, Accepted, Asks, Done, Of
  <1>8. PageInv => PageInv'
    BY <1>1 DEF PageInv, QueueForm, PageTells
  <1>9. ASSUME QueueInv PROVE QueueInv'
    <2>1. ASSUME NEW r \in Rows PROVE RowIsDecided(r)'
      BY <1>1, <1>2, <1>9, SameDecisions DEF QueueInv, RowIsDecided
    <2>2. ListIsFirst'
      BY <1>1, <1>9 DEF QueueInv, ListIsFirst, Asks, AwaitedAsks, Done, Waiting, Data
    <2>. QED BY <1>1, <1>9, <2>1, <2>2 DEF QueueInv, ListForm
  <1>10. HomeInv => HomeInv'
    BY <1>1 DEF HomeInv, HomeForm, OutOrOwn, BalancesAreOfMounts, TokensAreKnown, OneLogIn, UserIsKnown, SignedIn,
                Asks, AwaitedAsks, Done, Heard, Of, Waiting
  <1>11. LockInv => LockInv'
    BY <1>1 DEF LockInv
  <1>12. /\ TransferPart => TransferPart'
         /\ PayoutPart => PayoutPart'
         /\ TopupPart => TopupPart'
         /\ FormPart => FormPart'
         /\ KycPart => KycPart'
    BY <1>1, <1>3, <1>4, <1>5, <1>6, <1>7 DEF TransferPart, PayoutPart, TopupPart, FormPart, KycPart
  <1>13. /\ DeskPart => DeskPart'
         /\ HomePart => HomePart'
         /\ LockPart => LockPart'
    BY <1>1, <1>8, <1>9, <1>10, <1>11 DEF DeskPart, HomePart, LockPart
  <1>. QED BY <1>2, <1>12, <1>13 DEF ScreensIInv

-----------------------------------------------------------------------------
(* What the invariant says of the properties.                              *)

LEMMA AsksOfOthers ==
  ASSUME RowsInv, NEW what, what \notin KindsOf(screen)
  PROVE  /\ Asks(what) = {}
         /\ \A verdicts: Done(what, verdicts) = {} /\ Heard(what, verdicts) = {}
         /\ \A verdicts: Repeats(what, verdicts)
  <1>1. Asks(what) = {}
    BY DEF RowsInv, Asks
  <1>2. \A verdicts: Done(what, verdicts) = {} /\ Heard(what, verdicts) = {}
    BY <1>1 DEF Done, Heard
  <1>3. \A verdicts: Repeats(what, verdicts)
    <2>1. Cardinality({}) = 0
      BY FS_EmptySet
    <2>. QED BY <1>2, <2>1 DEF Repeats
  <1>. QED BY <1>1, <1>2, <1>3

LEMMA MoneyKinds ==
  ASSUME RowsInv
  PROVE  /\ screen # "transfer" => "transfer" \notin KindsOf(screen)
         /\ screen # "payout" => "payout" \notin KindsOf(screen)
         /\ screen # "kycCapture" => "kyc" \notin KindsOf(screen)
         /\ screen \notin {"tickets", "threads"} => "replyTo" \notin KindsOf(screen)
         /\ screen # "queue" => "decide" \notin KindsOf(screen)
  BY DEF KindsOf, Forms

LEMMA MoneyHolds ==
  ASSUME RowsInv, TransferPart, PayoutPart, TopupPart
  PROVE  MoneyTypeOK /\ ClaimsAreTrue /\ MovedOnceUnlessInDoubt /\ PaysTheOneShown
  <1>1. /\ transfer.card \in Numbers \cup {None, "unknown"}
        /\ transfer.state \in {"form", "sent", "offline", "error"}
        /\ transfer.state = "sent" => Done("transfer", {"done"}) # {}
    <2>1. CASE screen = "transfer"
      BY <2>1 DEF TransferPart, TransferInv, TransferForm
    <2>2. CASE screen # "transfer"
      BY <2>2 DEF TransferPart, IdleTransfer
    <2>. QED BY <2>1, <2>2
  <1>2. Repeats("transfer", {"done"}) /\ PaysTheOneShown
    <2>1. CASE screen = "transfer"
      BY <2>1, TapOnce DEF TransferPart, TransferInv, TransferOnce, TransferPays, PaysTheOneShown
    <2>2. CASE screen # "transfer"
      BY <2>2, AsksOfOthers, MoneyKinds DEF PaysTheOneShown
    <2>. QED BY <2>1, <2>2
  <1>3. /\ payout.state \in {"form", "completed", "failed", "unconfirmed"}
        /\ payout.state = "completed" => Done("payout", {"completed"}) # {}
        /\ payout.state = "failed" =>
             Latest("payout") \cap Done("payout", {"completed"}) \subseteq Heard("payout", {"gateway"})
    <2>1. CASE screen = "payout"
      <3>1. /\ payout.state \in {"form", "completed", "failed", "unconfirmed"}
            /\ payout.state = "completed" => Done("payout", {"completed"}) # {}
        BY <2>1 DEF PayoutPart, PayoutInv, PayoutForm
      <3>2. payout.state = "failed" =>
              Latest("payout") \cap Done("payout", {"completed"}) \subseteq Heard("payout", {"gateway"})
        BY <2>1 DEF PayoutPart, PayoutInv, FailedIsOver, Latest, Done, Heard
      <3>. QED BY <3>1, <3>2
    <2>2. CASE screen # "payout"
      BY <2>2 DEF PayoutPart, IdlePayout
    <2>. QED BY <2>1, <2>2
  <1>4. Repeats("payout", {"completed"})
    <2>1. CASE screen = "payout"
      BY <2>1, TapOnce DEF PayoutPart, PayoutInv, PayoutOnce
    <2>2. CASE screen # "payout"
      BY <2>2, AsksOfOthers, MoneyKinds
    <2>. QED BY <2>1, <2>2
  <1>5. /\ topup.state \in {"form", "pending", "completed", "failed"}
        /\ topup.timers \subseteq DOMAIN deposits
        /\ topup.state \in {"completed", "failed"} => Overtaken \/ deposits[topup.current] = topup.state
    <2>1. CASE screen = "topup"
      BY <2>1 DEF TopupPart, TopupInv, TopupForm, TopupShows
    <2>2. CASE screen # "topup"
      BY <2>2 DEF TopupPart, IdleTopup
    <2>. QED BY <2>1, <2>2
  <1>. QED BY <1>1, <1>2, <1>3, <1>4, <1>5 DEF MoneyTypeOK, ClaimsAreTrue, MovedOnceUnlessInDoubt

LEMMA FormsHold ==
  ASSUME RowsInv, FormPart, KycPart
  PROVE  FormTypeOK /\ DraftsAreTakenOnce /\ SubmittedIsAccepted
  <1>1. /\ DraftsAreTakenOnce /\ form.draft \in Nat \ {0}
        /\ form.left => /\ Done(screen, {"done"}) # {}
                        /\ screen = "register" => Done("signIn", {"done"}) # {}
    <2>1. ASSUME NEW kind \in Forms, screen = kind
          PROVE  /\ DraftsAreTakenOnce /\ form.draft \in Nat \ {0}
                 /\ form.left => /\ Done(screen, {"done"}) # {}
                                 /\ screen = "register" => Done("signIn", {"done"}) # {}
      <3>1. FormInv(kind)
        BY <2>1 DEF FormPart
      <3>. QED BY <2>1, <3>1, FormKeeps
    <2>2. CASE screen \notin Forms
      BY <2>2 DEF FormPart, IdleForm, DraftsAreTakenOnce
    <2>. QED BY <2>1, <2>2
  <1>2. /\ kyc.status \in {"idle", "submitted", "error"}
        /\ \A s \in Slots: kyc.slots[s].fileId # None => kyc.slots[s].fileId = kyc.slots[s].uri
        /\ \A i \in Asks("kyc"), s \in Slots: \E u \in Done("upload", {"done"}): Id(u) = Of(i)[s] /\ Of(u) = s
    <2>1. CASE screen = "kycCapture"
      BY <2>1 DEF KycPart, KycInv, KycForm, SlotsAreAccepted, SlotIsAccepted, FilesAreAccepted, Accepted
    <2>2. CASE screen # "kycCapture"
      BY <2>2, AsksOfOthers, MoneyKinds DEF KycPart, IdleKyc, EmptyCapture
    <2>. QED BY <2>1, <2>2
  <1>. QED BY <1>1, <1>2 DEF FormTypeOK, SubmittedIsAccepted

LEMMA DeskHolds ==
  ASSUME RowsInv, DeskPart
  PROVE  DeskTypeOK /\ PagesTellTheQueue /\ RepliesReachTheirTicket /\ RowsAreDecidedOnce
  <1>1. CASE screen \in {"tickets", "threads"}
    BY <1>1, PageHolds DEF DeskPart
  <1>2. ASSUME screen \notin {"tickets", "threads"}
        PROVE  DeskTypeOK /\ PagesTellTheQueue /\ RepliesReachTheirTicket
    <2>1. page = IdlePage /\ list.rows \subseteq Rows
      BY <1>2 DEF DeskPart, DeskScreens, QueueInv, ListForm, IdleList
    <2>2. DeskTypeOK
      BY <2>1 DEF DeskTypeOK, IdlePage
    <2>3. PagesTellTheQueue
      BY <1>2 DEF PagesTellTheQueue
    <2>4. RepliesReachTheirTicket
      BY <1>2, <2>1, AsksOfOthers, MoneyKinds DEF RepliesReachTheirTicket, IdlePage
    <2>. QED BY <2>2, <2>3, <2>4
  <1>3. CASE screen = "queue"
    <2>1. ASSUME NEW r \in Rows
          PROVE  Cardinality(Mine(r) \cap Done("decide", {"done"}))
                   <= 1 + Cardinality(Doubted(r)) + Cardinality(Theirs(r)) + Cardinality(Cleared(r))
      <3>1. Cardinality(Mine(r)) <= 1 + Slack(r)
        BY <1>3 DEF DeskPart, QueueInv, RowIsDecided
      <3>2. Cardinality(Mine(r) \cap Done("decide", {"done"})) <= Cardinality(Mine(r))
        BY DecisionsCount, FS_Subset
      <3>3. Cardinality(Mine(r) \cap Done("decide", {"done"})) \in Nat
        BY DecisionsCount, FS_Subset, FS_CardinalityType
      <3>. QED BY <3>1, <3>2, <3>3, DecisionsCount DEF Slack
    <2>2. RowsAreDecidedOnce
      BY <2>1 DEF RowsAreDecidedOnce, Mine, Theirs, Doubted, Cleared
    <2>. QED BY <1>2, <1>3, <2>2
  <1>4. CASE screen \notin DeskScreens
    <2>1. RowsAreDecidedOnce
      BY <1>4, AsksOfOthers, MoneyKinds, NothingDecided DEF DeskScreens
    <2>. QED BY <1>2, <1>4, <2>1 DEF DeskScreens
  <1>. QED BY <1>1, <1>3, <1>4 DEF DeskScreens

LEMMA DeviceHolds ==
  ASSUME HomePart, LockPart
  PROVE  DeviceTypeOK /\ LiveBalanceIsOwn /\ AwayMeansAsked
  <1>1. {session.token, session.user, cache, balance.of} \subseteq Users \cup {None} /\ LiveBalanceIsOwn
    <2>1. CASE screen = "home"
      BY <2>1 DEF HomePart, HomeInv, HomeForm, People, OutOrOwn, UserIsKnown, LiveBalanceIsOwn
    <2>2. CASE screen # "home"
      BY <2>2 DEF HomePart, IdleSession, NoBalance, LiveBalanceIsOwn, SignedIn
    <2>. QED BY <2>1, <2>2
  <1>2. lock.prompts \in 0..MaxPrompts /\ AwayMeansAsked
    <2>1. CASE screen = "lock"
      <3>1. lock.prompts \in Nat /\ lock.begun \in Nat /\ lock.prompts <= lock.begun /\ lock.begun <= MaxPrompts
        BY <2>1 DEF LockPart, LockInv, LockForm
      <3>2. AwayMeansAsked
        BY <2>1 DEF LockPart, LockInv, AwayMeansAsked
      <3>. QED BY <3>1, <3>2, DeviceAssumption
    <2>2. CASE screen # "lock"
      BY <2>2, DeviceAssumption DEF LockPart, AwayMeansAsked
    <2>. QED BY <2>1, <2>2
  <1>. QED BY <1>1, <1>2 DEF DeviceTypeOK

LEMMA ScreensHold ==
  ASSUME ScreensIInv
  PROVE  ScreensInv /\ ClaimsAreTrue /\ OnceUnlessInDoubt /\ SentAsShown /\ PagesTellTheQueue
  <1>1. RowsInv
    BY DEF ScreensIInv, RequestsInv
  <1>2. Len(requests) <= 2 * MaxRequests[screen]
    <2>1. Len(requests) \in Nat /\ DOMAIN requests = 1..Len(requests)
      BY <1>1, RequestsLen DEF RowsInv
    <2>2. Due \subseteq 1..Len(requests)
      BY <2>1 DEF Due
    <2>3. Cardinality(Due) \in Nat
      BY <2>1, <2>2, Places
    <2>4. MaxRequests[screen] \in Nat
      BY <1>1, ApiClientAssumption DEF RowsInv
    <2>. QED BY <2>1, <2>3, <2>4 DEF ScreensIInv, RequestsInv
  <1>3. /\ MoneyTypeOK /\ ClaimsAreTrue /\ MovedOnceUnlessInDoubt /\ PaysTheOneShown
        /\ FormTypeOK /\ DraftsAreTakenOnce /\ SubmittedIsAccepted
        /\ DeskTypeOK /\ PagesTellTheQueue /\ RepliesReachTheirTicket /\ RowsAreDecidedOnce
        /\ DeviceTypeOK /\ LiveBalanceIsOwn /\ AwayMeansAsked
    BY <1>1, MoneyHolds, FormsHold, DeskHolds, DeviceHolds DEF ScreensIInv
  <1>. QED BY <1>2, <1>3 DEF ScreensInv, ScreensTypeOK, OnceUnlessInDoubt, SentAsShown

LEMMA ScreensAlways == ScreensSpec => []ScreensIInv
  <1>1. ScreensIInv /\ [ScreensNext]_screenVars => ScreensIInv'
    BY StepOfOne, StepOfNone
  <1>. QED BY ScreensAtFirst, <1>1, PTL DEF ScreensSpec

-----------------------------------------------------------------------------

\* What the phone keeps is its owner's: a balance shown as live was fetched
\* with the token it now holds, and the content behind the lock shows again
\* after an absence only when its owner was recognised (AuthContext, useBalance,
\* AppLockGate), with the types of every screen.
THEOREM PhoneIsItsOwners == ScreensSpec => []ScreensInv
  <1>1. ScreensIInv => ScreensInv
    BY ScreensHold
  <1>. QED BY <1>1, ScreensAlways, PTL

\* "Sent", "completed" and "failed, your money is back" are what the three money
\* screens say only when it is so, whatever is answered, late or never, but for
\* a gateway's answer to a payout and a late poll of an earlier deposit
\* (TransferScreen, PayoutScreen and TopupScreen: onSubmit, pollStatus).
THEOREM MoneyScreensTellTheTruth == ScreensSpec => []ClaimsAreTrue
  <1>1. ScreensIInv => ClaimsAreTrue
    BY ScreensHold
  <1>. QED BY <1>1, ScreensAlways, PTL

\* A transfer, a payout, a text or a decision is made again only after an
\* answer that left its user in doubt, but for a row whose busy mark another
\* row's decision took or cleared (PrimaryButton, the busy states of the forms,
\* kyc/page.tsx:26-38): however often is tapped, for any number of requests.
THEOREM NothingIsDoneTwice == ScreensSpec => []OnceUnlessInDoubt
  <1>1. ScreensIInv => OnceUnlessInDoubt
    BY ScreensHold
  <1>. QED BY <1>1, ScreensAlways, PTL

\* The money goes to the number whose account was shown, unless it was edited
\* under a lookup (TransferScreen.tsx:38-72); a reply to the ticket it was
\* written under (tickets/page.tsx:69-104); and a KYC file consists of the photos
\* that were accepted (KycCaptureScreen.tsx:39-93).
THEOREM WhatIsSentWasShown == ScreensSpec => []SentAsShown
  <1>1. ScreensIInv => SentAsShown
    BY ScreensHold
  <1>. QED BY <1>1, ScreensAlways, PTL

\* While nobody writes a ticket and no load fails or begins while another answer
\* about rows is due, the ticket page (adminApi.ts:161-183, tickets/page.tsx) is
\* the beginning of the queue of its filter, and offers more exactly when there
\* is more: for every queue, filter, page size and number of pages.
THEOREM PagesAreTheQueues == ScreensSpec => []PagesTellTheQueue
  <1>1. ScreensIInv => PagesTellTheQueue
    BY ScreensHold
  <1>. QED BY <1>1, ScreensAlways, PTL
=============================================================================
