------------------------------ MODULE RateLimit ------------------------------
(***************************************************************************)
(* RateLimitService.consume (common/rate-limit.service.ts): a counter per  *)
(* key in Redis. MULTI INCR EXPIRE EXEC is one step of Redis; every call   *)
(* moves the expiry of the key on.                                         *)
(***************************************************************************)
EXTENDS Naturals, FiniteSetsExt

CONSTANTS Keys,       \* ratelimit:<key>
          Limit,      \* key -> calls it allows
          Window,     \* windowSeconds
          LastMinute, \* bound: the clock stops here
          MaxAsked    \* bound: calls counted by one key

ASSUME RateLimitAssumption ==
  /\ Limit \in [Keys -> Nat] /\ Window \in Nat \ {0}
  /\ LastMinute \in Nat /\ MaxAsked \in Nat

VARIABLES counters,  \* key -> [count, expiresAt]
          minute,    \* the clock
          asked,     \* key -> calls counted
          admitted   \* key -> minute -> calls let through in it

rateVars == <<counters, minute, asked, admitted>>

Minutes == 0..LastMinute

RateInit ==
  /\ counters = [k \in Keys |-> [count |-> 0, expiresAt |-> 0]]
  /\ minute = 0
  /\ asked = [k \in Keys |-> 0]
  /\ admitted = [k \in Keys |-> [m \in Minutes |-> 0]]

\* What INCR returns: a key past its expiry is gone and starts again at 1.
Incr(k) == IF counters[k].expiresAt > minute THEN counters[k].count + 1 ELSE 1

Allowed(k) == Incr(k) <= Limit[k]

Admit(k, yes) == admitted' = IF yes THEN [admitted EXCEPT ![k][minute] = @ + 1] ELSE admitted

\* Mutant of Count: EXPIRE for the first call of a key only.
CountFixedWindow(k) ==
  counters' = [counters EXCEPT ![k] =
    [count |-> Incr(k), expiresAt |-> IF Incr(k) = 1 THEN minute + Window ELSE @.expiresAt]]

Count(k) == counters' = [counters EXCEPT ![k] = [count |-> Incr(k), expiresAt |-> minute + Window]]

\* The call is counted and its caller goes on (heard and within the limit) or
\* is answered 429; when the reply is lost the caller is answered 503.
Consume(k, heard) ==
  /\ asked[k] < MaxAsked
  /\ Count(k)
  /\ asked' = [asked EXCEPT ![k] = @ + 1]
  /\ Admit(k, heard /\ Allowed(k))
  /\ UNCHANGED minute

Tick ==
  /\ minute < LastMinute
  /\ minute' = minute + 1
  /\ UNCHANGED <<counters, asked, admitted>>

-----------------------------------------------------------------------------
AdmittedIn(k, minutes) == SumFunction([m \in minutes |-> admitted[k][m]])

\* No window of windowSeconds, wherever it starts, lets more than limit calls
\* of a key through.
WindowsHold ==
  \A k \in Keys, m \in Minutes:
    AdmittedIn(k, {n \in Minutes: m <= n /\ n < m + Window}) <= Limit[k]
=============================================================================
