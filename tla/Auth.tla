-------------------------------- MODULE Auth --------------------------------
(***************************************************************************)
(* AuthService (modules/auth/auth.service.ts): registration, login with    *)
(* its PIN lock, the PIN, the profile and the device sessions. A user is   *)
(* the normalised phone number the row is unique by.                       *)
(*                                                                         *)
(* A handler reads a row, awaits, and saves the row object it holds:       *)
(* repository.save() writes every column in which the object differs from  *)
(* the table, so the row ends up as that object. A call keeps the row as   *)
(* it read it; what other calls did to the row meanwhile is written over.  *)
(***************************************************************************)
EXTENDS Naturals, FiniteSets, Functions

CONSTANTS None,        \* no row, NULL
          Users,       \* people, by phone number
          Devices,     \* device ids
          Pins,        \* PINs a person may choose or type
          Profiles,    \* names and e-mails a person may give
          Calls,       \* slots for the API calls running at once
          LockAfter,   \* wrong PINs in a row that lock the account (5)
          LockFor,     \* how long (15 minutes)
          LastMinute,  \* bound: the clock stops here
          MaxWrong,    \* bound: wrong PINs in a row
          MaxCalls,    \* bound: calls begun
          MaxDeaths    \* bound: users one of whose calls died half-way

NoLock == 0

UserRow ==
  [pinHash: Pins, tier: {"basic", "verified"}, profile: Profiles \cup {None},
   failedPinAttempts: 0..MaxWrong, lockedUntil: 0..LastMinute + LockFor]

ASSUME AuthAssumption ==
  /\ LockAfter \in Nat \ {0} /\ LockFor \in Nat \ {0} /\ LastMinute \in Nat \ {0}
  /\ MaxWrong \in Nat /\ MaxCalls \in Nat /\ MaxDeaths \in Nat
  /\ None \notin Profiles /\ None \notin UserRow

VARIABLES users,        \* user -> its row, or None
          sessions,     \* <<user, device>> -> "live", "revoked" or None
          tokens,       \* users holding an access token
          minute,       \* the clock
          calls,        \* slot -> the call in it
          begun,        \* calls begun so far
          auditLog,     \* audit_logs: [action, target]
          overwritten,  \* users whose row was saved over another call's write
          died          \* users one of whose calls died half-way

authVars == <<users, sessions, tokens, minute, calls, begun, auditLog, overwritten, died>>

\* A call: where it is (at), for whom (user), the row object it holds (read)
\* and what it was asked (arg). A finished or refused call frees its slot.
Idle == [at |-> "idle"]
Call(at, user, read, arg) == [at |-> at, user |-> user, read |-> read, arg |-> arg]
At(c, at) == calls[c].at = at

Begin(c, call) ==
  /\ At(c, "idle") /\ begun < MaxCalls
  /\ begun' = begun + 1
  /\ calls' = [calls EXCEPT ![c] = call]
GoOn(c, at) == calls' = [calls EXCEPT ![c].at = at] /\ UNCHANGED begun
Return(c) == calls' = [calls EXCEPT ![c] = Idle] /\ UNCHANGED begun
\* The last await of a handler is the audit row of what it did.
Conclude(c, action, target) ==
  calls' = [calls EXCEPT ![c] = Call("audit", @.user, target, action)] /\ UNCHANGED begun

\* Slot c holds the row object and saves it as row.
Save(c, row) ==
  LET u == calls[c].user IN
  /\ users' = [users EXCEPT ![u] = row]
  /\ overwritten' = IF calls[c].read \in {None, users[u]} THEN overwritten ELSE overwritten \cup {u}

Locked(row) == row.lockedUntil > minute

NewRow(pin) ==
  [pinHash |-> pin, tier |-> "basic", profile |-> None,
   failedPinAttempts |-> 0, lockedUntil |-> NoLock]

\* Some users have registered and logged in on every device, others have not.
AuthInit ==
  \E known \in SUBSET Users, pin \in Pins:
    /\ users = [u \in Users |-> IF u \in known THEN NewRow(pin) ELSE None]
    /\ sessions = [s \in Users \X Devices |-> IF s[1] \in known THEN "live" ELSE None]
    /\ tokens = known
    /\ minute = 1
    /\ calls = [c \in Calls |-> Idle]
    /\ begun = 0
    /\ auditLog = {}
    /\ overwritten = {}
    /\ died = {}

-----------------------------------------------------------------------------
(* register *)

FindNoUser(c, u, pin) ==
  /\ users[u] = None
  /\ Begin(c, Call("register", u, None, pin))
  /\ UNCHANGED <<users, sessions, tokens, minute, auditLog, overwritten, died>>

\* The PIN has been hashed; the unique index on the phone refuses the second
\* of two registrations that both found nobody.
SaveNewUser(c) ==
  /\ At(c, "register")
  /\ IF users[calls[c].user] = None
     THEN /\ Save(c, NewRow(calls[c].arg))
          /\ Conclude(c, "auth.register", calls[c].user)
     ELSE Return(c) /\ UNCHANGED <<users, overwritten>>
  /\ UNCHANGED <<sessions, tokens, minute, auditLog, died>>

-----------------------------------------------------------------------------
(* login *)

\* argon2 compares the typed PIN with the row as it was read.
LoadForLogin(c, u, d, pin) ==
  /\ users[u] # None
  /\ pin # users[u].pinHash => users[u].failedPinAttempts < MaxWrong
  /\ Begin(c, Call(IF pin = users[u].pinHash THEN "rightPin" ELSE "wrongPin", u, users[u], d))
  /\ UNCHANGED <<users, sessions, tokens, minute, auditLog, overwritten, died>>

RegisterFailedPinAttempt(c) ==
  /\ At(c, "wrongPin")
  /\ LET n == calls[c].read.failedPinAttempts + 1
     IN Save(c, [calls[c].read EXCEPT
               !.failedPinAttempts = n,
               !.lockedUntil = IF n >= LockAfter THEN minute + LockFor ELSE @])
  /\ Conclude(c, "auth.pin_failed", calls[c].user)
  /\ UNCHANGED <<sessions, tokens, minute, auditLog, died>>

Unlocked(row) == [row EXCEPT !.failedPinAttempts = 0, !.lockedUntil = NoLock]

\* Mutant of AdmitRightPin: the right PIN opens a locked account.
AdmitRightPinAlways(c) ==
  /\ At(c, "rightPin")
  /\ Save(c, Unlocked(calls[c].read)) /\ GoOn(c, "device")
  /\ UNCHANGED <<sessions, tokens, minute, auditLog, died>>

\* A right PIN on a locked account is refused and leaves the row alone; a row
\* without wrong PINs is not saved.
AdmitRightPin(c) ==
  LET row == calls[c].read IN
  /\ At(c, "rightPin")
  /\ \/ Locked(row) /\ Return(c) /\ UNCHANGED <<users, overwritten>>
     \/ ~Locked(row) /\ row.failedPinAttempts > 0 /\ Save(c, Unlocked(row)) /\ GoOn(c, "device")
     \/ ~Locked(row) /\ row.failedPinAttempts = 0 /\ GoOn(c, "device") /\ UNCHANGED <<users, overwritten>>
  /\ UNCHANGED <<sessions, tokens, minute, auditLog, died>>

\* upsertDeviceSession looks for the session of this device ...
FindSession(c) ==
  /\ At(c, "device")
  /\ calls' = [calls EXCEPT ![c] =
       Call("session", @.user, sessions[<<@.user, @.arg>>], @.arg)]
  /\ UNCHANGED <<begun, users, sessions, tokens, minute, auditLog, overwritten, died>>

\* ... and saves it as live, or inserts one: the unique index on (user,
\* device) refuses the second of two inserts and the login fails.
SaveSession(c) ==
  LET s == <<calls[c].user, calls[c].arg>> IN
  /\ At(c, "session")
  /\ IF calls[c].read = None /\ sessions[s] # None
     THEN Return(c) /\ UNCHANGED sessions
     ELSE /\ sessions' = [sessions EXCEPT ![s] = "live"]
          /\ Conclude(c, "auth.login", calls[c].user)
  /\ UNCHANGED <<users, tokens, minute, auditLog, overwritten, died>>

-----------------------------------------------------------------------------
(* changePin, updateProfile, revokeDevice: for a user with a token *)

\* A wrong current PIN is refused and changes nothing.
LoadForPin(c, u, new) ==
  /\ u \in tokens
  /\ Begin(c, Call("pin", u, users[u], new))
  /\ UNCHANGED <<users, sessions, tokens, minute, auditLog, overwritten, died>>

SavePin(c) ==
  /\ At(c, "pin")
  /\ Save(c, [calls[c].read EXCEPT !.pinHash = calls[c].arg])
  /\ Conclude(c, "auth.pin_changed", calls[c].user)
  /\ UNCHANGED <<sessions, tokens, minute, auditLog, died>>

LoadForProfile(c, u, profile) ==
  /\ u \in tokens
  /\ Begin(c, Call("profile", u, users[u], profile))
  /\ UNCHANGED <<users, sessions, tokens, minute, auditLog, overwritten, died>>

\* Mutant of SaveProfile: the row object made afresh from the request, with
\* the defaults of its other columns.
SaveProfileAfresh(c) ==
  /\ At(c, "profile")
  /\ Save(c, [calls[c].read EXCEPT !.profile = calls[c].arg, !.tier = "basic",
                                   !.failedPinAttempts = 0, !.lockedUntil = NoLock])
  /\ Conclude(c, "auth.profile_updated", calls[c].user)
  /\ UNCHANGED <<sessions, tokens, minute, auditLog, died>>

SaveProfile(c) ==
  /\ At(c, "profile")
  /\ Save(c, [calls[c].read EXCEPT !.profile = calls[c].arg])
  /\ Conclude(c, "auth.profile_updated", calls[c].user)
  /\ UNCHANGED <<sessions, tokens, minute, auditLog, died>>

LoadForRevocation(c, u, d) ==
  /\ u \in tokens /\ sessions[<<u, d>>] # None
  /\ Begin(c, Call("revocation", u, sessions[<<u, d>>], d))
  /\ UNCHANGED <<users, sessions, tokens, minute, auditLog, overwritten, died>>

SaveRevocation(c) ==
  LET s == <<calls[c].user, calls[c].arg>> IN
  /\ At(c, "revocation")
  /\ sessions' = [sessions EXCEPT ![s] = "revoked"]
  /\ Conclude(c, "auth.device_revoked", s)
  /\ UNCHANGED <<users, tokens, minute, auditLog, overwritten, died>>

-----------------------------------------------------------------------------
(* The end of every call, the death of one, and time. *)

\* The audit row, then the answer; a login answers with a token.
Answer(c) ==
  /\ At(c, "audit")
  /\ auditLog' = auditLog \cup {[action |-> calls[c].arg, target |-> calls[c].read]}
  /\ tokens' = IF calls[c].arg = "auth.login" THEN tokens \cup {calls[c].user} ELSE tokens
  /\ Return(c)
  /\ UNCHANGED <<users, sessions, minute, overwritten, died>>

\* The process dies or a query fails between two awaits of the call.
Die(c) ==
  /\ ~At(c, "idle")
  /\ Cardinality(died \cup {calls[c].user}) <= MaxDeaths
  /\ died' = died \cup {calls[c].user}
  /\ Return(c)
  /\ UNCHANGED <<users, sessions, tokens, minute, auditLog, overwritten>>

Tick ==
  /\ minute < LastMinute
  /\ minute' = minute + 1
  /\ UNCHANGED <<users, sessions, tokens, calls, begun, auditLog, overwritten, died>>

AuthRequest(c, u) ==
  \/ \E pin \in Pins: FindNoUser(c, u, pin) \/ LoadForPin(c, u, pin)
  \/ \E d \in Devices: LoadForRevocation(c, u, d) \/ \E pin \in Pins: LoadForLogin(c, u, d, pin)
  \/ \E p \in Profiles: LoadForProfile(c, u, p)

AuthStep(c) ==
  \/ SaveNewUser(c) \/ RegisterFailedPinAttempt(c) \/ AdmitRightPin(c)
  \/ FindSession(c) \/ SaveSession(c)
  \/ SavePin(c) \/ SaveProfile(c) \/ SaveRevocation(c)
  \/ Answer(c) \/ Die(c)

AuthNext == Tick \/ \E c \in Calls: AuthStep(c) \/ \E u \in Users: AuthRequest(c, u)
=============================================================================
