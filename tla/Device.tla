------------------------------- MODULE Device -------------------------------
(***************************************************************************)
(* What the app keeps on a phone between screens: the session (AuthContext,*)
(* the token in client.ts), the balance and its cache (useBalance), and    *)
(* the lock (AppLockGate). RootNavigator mounts the app for as long as     *)
(* there is a user. A token is its owner; a balance is whose it is.        *)
(***************************************************************************)
EXTENDS ApiClient

CONSTANTS Users,     \* people who use this phone
          MaxPrompts \* bound: unlock prompts

ASSUME DeviceAssumption == None \notin Users /\ MaxPrompts \in Nat \ {0}

VARIABLES session,  \* token, user, mount: how often the app was mounted
          balance,  \* useBalance of the mounted home screen
          cache,    \* lajanm.balanceCache: whose balance, or None
          lock      \* AppLockGate, the preference, and what the phone does

deviceVars == <<session, balance, cache, lock>>

NoBalance == [of |-> None, live |-> FALSE, loading |-> FALSE]

DeviceInit ==
  /\ session = [token |-> None, user |-> None, mount |-> 0]
  /\ balance = NoBalance
  /\ cache = None
  /\ lock \in [enabled: BOOLEAN, hardware: BOOLEAN, locked: {FALSE}, checked: {FALSE}, away: {"no"},
               prompts: {0}, begun: {0}, vouched: {FALSE}]

SignedIn == session.user # None

-----------------------------------------------------------------------------
(* AuthContext, RootNavigator and useBalance *)

\* Setting a user where there was none mounts the app: the hook shows the
\* cache, and then asks for the balance with the token of that moment.
BalanceAsk(token) == Ask("balance", [token |-> token, mount |-> session'.mount])
ShowUser(u, token) ==
  /\ session' = [session EXCEPT !.token = token, !.user = u,
                                !.mount = IF SignedIn THEN @ ELSE @ + 1]
  /\ balance' = IF SignedIn THEN balance
                ELSE [of |-> cache, live |-> FALSE, loading |-> TRUE]
Mounting(token) == IF SignedIn THEN <<>> ELSE <<BalanceAsk(token)>>

LogIn(u) ==
  /\ ~SignedIn /\ AwaitedAsks("signInAs") = {} /\ Room
  /\ Send(Ask("signInAs", u))
  /\ UNCHANGED deviceVars

HearLogIn(i, outcome) ==
  /\ requests[i].ask.what = "signInAs"
  /\ IF outcome = "done"
     THEN ShowUser(Of(i), Of(i)) /\ EndAnd(i, outcome, Mounting(Of(i)))
     ELSE End(i, outcome) /\ UNCHANGED <<session, balance>>
  /\ UNCHANGED <<cache, lock>>

LogOut ==
  /\ SignedIn
  /\ session' = [session EXCEPT !.token = None, !.user = None]
  /\ balance' = NoBalance
  /\ UNCHANGED <<requests, cache, lock>>

\* ProfileScreen.onSave: the answer is made the user, whoever is signed in.
SaveProfile ==
  /\ SignedIn /\ Room
  /\ \A i \in AwaitedAsks("profile"): Of(i).mount # session.mount
  /\ Send(Ask("profile", [token |-> session.token, mount |-> session.mount]))
  /\ UNCHANGED deviceVars

HearProfile(i, outcome) ==
  /\ requests[i].ask.what = "profile"
  /\ IF outcome = "done"
     THEN ShowUser(Of(i).token, session.token) /\ EndAnd(i, outcome, Mounting(session.token))
     ELSE End(i, outcome) /\ UNCHANGED <<session, balance>>
  /\ UNCHANGED <<cache, lock>>

\* Pull to refresh, as often as one likes.
Refresh ==
  /\ SignedIn /\ Room
  /\ Send(Ask("balance", [token |-> session.token, mount |-> session.mount]))
  /\ UNCHANGED deviceVars

\* Mutant of HearBalance: whoever is signed in is shown the answer.
HearBalanceOfAnyone(i, outcome) ==
  /\ requests[i].ask.what = "balance" /\ End(i, outcome)
  /\ balance' = IF SignedIn /\ outcome = "done"
                THEN [of |-> Of(i).token, live |-> TRUE, loading |-> FALSE] ELSE balance
  /\ cache' = IF outcome = "done" THEN Of(i).token ELSE cache
  /\ UNCHANGED <<session, lock>>

\* The cache is written even when the screen that asked is gone.
HearBalance(i, outcome) ==
  LET mine == SignedIn /\ Of(i).mount = session.mount IN
  /\ requests[i].ask.what = "balance" /\ End(i, outcome)
  /\ balance' = IF ~mine THEN balance
                ELSE IF outcome = "done" THEN [of |-> Of(i).token, live |-> TRUE, loading |-> FALSE]
                ELSE [balance EXCEPT !.live = FALSE, !.loading = FALSE]
  /\ cache' = IF outcome = "done" THEN Of(i).token ELSE cache
  /\ UNCHANGED <<session, lock>>

-----------------------------------------------------------------------------
(* AppLockGate, mounted with the app *)

\* tryUnlock: without the preference or the means nothing is asked; otherwise
\* the prompt is up until it is answered.
TryUnlock(l) ==
  IF ~l.enabled \/ ~l.hardware THEN [l EXCEPT !.locked = FALSE, !.checked = TRUE]
  ELSE [l EXCEPT !.prompts = @ + 1, !.begun = @ + 1]

OpenApp ==
  /\ ~lock.checked /\ lock.begun = 0
  /\ lock' = TryUnlock(lock)
  /\ UNCHANGED <<requests, session, balance, cache>>

\* Mutant of AnswerPrompt: a prompt that fails changes nothing.
AnswerPromptLeniently(success) ==
  /\ lock.prompts > 0
  /\ lock' = [lock EXCEPT !.prompts = @ - 1, !.checked = TRUE, !.vouched = @ \/ success]
  /\ UNCHANGED <<requests, session, balance, cache>>

AnswerPrompt(success) ==
  /\ lock.prompts > 0
  /\ lock' = [lock EXCEPT !.prompts = @ - 1, !.locked = ~success, !.checked = TRUE,
                          !.vouched = @ \/ success]
  /\ UNCHANGED <<requests, session, balance, cache>>

PressUnlock ==
  /\ lock.checked /\ lock.locked /\ lock.begun < MaxPrompts
  /\ lock' = TryUnlock(lock)
  /\ UNCHANGED <<requests, session, balance, cache>>

GoAway ==
  /\ lock.begun > 0 \/ lock.checked
  /\ lock.away = "no" /\ lock' = [lock EXCEPT !.away = "short"]
  /\ UNCHANGED <<requests, session, balance, cache>>

StayAway ==
  /\ lock.away = "short" /\ lock' = [lock EXCEPT !.away = "long"]
  /\ UNCHANGED <<requests, session, balance, cache>>

\* Active again: after the delay the gate asks, and until the answer the
\* content stays as it was.
AskedAgain(l) == l.away = "long"
ComeBack ==
  /\ lock.away # "no" /\ lock.begun < MaxPrompts
  /\ lock' = IF AskedAgain(lock)
             THEN [TryUnlock(lock) EXCEPT !.away = "no", !.vouched = FALSE]
             ELSE [lock EXCEPT !.away = "no"]
  /\ UNCHANGED <<requests, session, balance, cache>>

-----------------------------------------------------------------------------

DeviceVerdicts(i) ==
  LET what == requests[i].ask.what IN
  CASE what = "signInAs" -> {"done", "refused"}
    [] what \in {"profile", "balance"} -> IF Of(i).token = None THEN {"refused"} ELSE {"done"}
    [] OTHER -> {}

HearDevice(i, outcome) ==
  HearLogIn(i, outcome) \/ HearProfile(i, outcome) \/ HearBalance(i, outcome)

HomeTaps == (\E u \in Users: LogIn(u)) \/ LogOut \/ SaveProfile \/ Refresh
LockTaps ==
  \/ OpenApp \/ PressUnlock \/ GoAway \/ StayAway \/ ComeBack
  \/ \E success \in BOOLEAN: AnswerPrompt(success)

DeviceTypeOK ==
  /\ {session.token, session.user, cache, balance.of} \subseteq Users \cup {None}
  /\ lock.prompts \in 0..MaxPrompts

-----------------------------------------------------------------------------
(* Properties *)

\* A balance shown as live was fetched with the token the phone now holds,
\* whatever was logged out, logged in or answered late, and the user shown is
\* the token's unless the answer to a profile change came after its author
\* left (AuthContext.tsx:60-63).
LiveBalanceIsOwn ==
  /\ SignedIn /\ balance.live => balance.of = session.token
  /\ session.user = session.token \/ session.user \in {Of(i).token: i \in Heard("profile", {"done"})}

\* Back after the delay with the lock on, the content shows again only when
\* the phone's owner was recognised since, once no prompt is up.
AwayMeansAsked ==
  lock.enabled /\ lock.hardware /\ lock.checked /\ lock.away = "no" /\ lock.prompts = 0
    => lock.locked \/ lock.vouched
=============================================================================
