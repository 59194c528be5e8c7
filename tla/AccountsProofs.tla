--------------------------- MODULE AccountsProofs ---------------------------
(***************************************************************************)
(* What module Accounts promises, for any number of people, devices, files *)
(* and calls in flight. A call works on a copy of a row it read some awaits *)
(* ago, so the invariant says of every call in flight what its copy still  *)
(* vouches for: a copy that says "verified" belongs to someone with        *)
(* approved papers, a decision holds a submission that is still pending    *)
(* unless another decision overlaps it, and so on.                         *)
(***************************************************************************)
EXTENDS Accounts, FiniteSetTheorems, TLAPS

-----------------------------------------------------------------------------
(* The inductive invariant. *)

\* A submission that vouches for a verified tier.
Approving(s) == submissions[s].status = "approved" \/ s \in overlapped
Backed(u) == \E s \in Of(u): Approving(s)

Copying == {"rightPin", "wrongPin", "pin", "profile"}

\* The lock of a row, and its tier, are ones that the code gave it.
Sound(row, u) ==
  /\ row.lockedUntil <= minute + LockFor
  /\ row.tier = "verified" => Backed(u)

\* What a call in flight may rely on.
Stands(k) ==
  /\ k.at \notin {"idle", "register"} => users[k.user] # None
  /\ k.at = "wrongPin" => k.read.failedPinAttempts < MaxWrong
  /\ k.at \in Copying => Sound(k.read, k.user)
  /\ k.at = "submit" => k.user \in overlapped \/ Pending(k.user) = {}
  /\ k.at \in {"decide", "tier"} => submissions[k.read] # None /\ submissions[k.read].userId = k.user
  /\ k.at = "decide" => submissions[k.read].status = "pending" \/ k.read \in overlapped
  /\ k.at = "tier" => Approving(k.read)

CallsStand == \A c \in Calls: Stands(calls[c])

\* Two submits of one user, or two decisions of one submission, are marked.
Apart(j, k) ==
  /\ j.at = "submit" /\ k.at = "submit" /\ j.user = k.user => j.user \in overlapped
  /\ j.at = "decide" /\ k.at = "decide" /\ j.read = k.read => j.read \in overlapped
CallsApart == \A c, d \in Calls: c # d => Apart(calls[c], calls[d])

RowsStand == \A u \in Users: users[u] # None => Sound(users[u], u)

OwnPapers(row) ==
  /\ users[row.userId] # None
  /\ row.idDocumentFileId # row.selfieFileId
  /\ files[row.idDocumentFileId] = row.userId /\ files[row.selfieFileId] = row.userId
PapersStand == \A s \in Submissions: submissions[s] # None => OwnPapers(submissions[s])

OneAtATime == \A u \in Users \ overlapped: \A s, t \in Pending(u): s = t

Records == CallsStand /\ CallsApart /\ RowsStand /\ PapersStand /\ OneAtATime
AccountsIInv == AccountsTypeOK /\ Records /\ ApprovedIsVerified


-----------------------------------------------------------------------------
(* Calls and rows by their types.                                           *)

Ats == {"register", "rightPin", "wrongPin", "device", "session", "revocation", "pin",
        "profile", "submit", "decide", "tier", "audit"}

\* What a call of each kind holds.
Fits(at, user, read, arg) ==
  /\ at \in Ats /\ user \in Users
  /\ at = "register" => read = None /\ arg \in Pins
  /\ at \in {"rightPin", "wrongPin", "device"} => read \in UserRow /\ arg \in Devices
  /\ at \in {"session", "revocation"} => read \in {None, "live", "revoked"} /\ arg \in Devices
  /\ at = "pin" => read \in UserRow /\ arg \in Pins
  /\ at = "profile" => read \in UserRow /\ arg \in Profiles
  /\ at = "submit" => read = None /\ arg \in Files \X Files
  /\ at \in {"decide", "tier"} => read \in Submissions /\ arg \in Verdict
  /\ at = "audit" => read \in Users \cup (Users \X Devices) \cup Submissions /\ arg \in AuditActions

\* The type of calls is just that.
LEMMA CallFits ==
  ASSUME NEW k \in CallState
  PROVE  k = Idle \/ (k = Call(k.at, k.user, k.read, k.arg) /\ Fits(k.at, k.user, k.read, k.arg))
<1>1. CASE k = Idle
  BY <1>1
<1>2. CASE k \in [at: {"register"}, user: Users, read: {None}, arg: Pins]
  BY <1>2 DEF Fits, Call, Ats
<1>3. CASE k \in [at: {"rightPin", "wrongPin"}, user: Users, read: UserRow, arg: Devices]
  <2> HIDE DEF UserRow
  <2> QED BY <1>3 DEF Fits, Call, Ats
<1>4. CASE k \in [at: {"device"}, user: Users, read: UserRow, arg: Devices]
  BY <1>4 DEF Fits, Call, Ats
<1>5. CASE k \in [at: {"session", "revocation"}, user: Users, read: {None, "live", "revoked"}, arg: Devices]
  BY <1>5 DEF Fits, Call, Ats
<1>6. CASE k \in [at: {"pin"}, user: Users, read: UserRow, arg: Pins]
  BY <1>6 DEF Fits, Call, Ats
<1>7. CASE k \in [at: {"profile"}, user: Users, read: UserRow, arg: Profiles]
  BY <1>7 DEF Fits, Call, Ats
<1>8. CASE k \in [at: {"submit"}, user: Users, read: {None}, arg: Files \X Files]
  BY <1>8 DEF Fits, Call, Ats
<1>9. CASE k \in [at: {"decide", "tier"}, user: Users, read: Submissions, arg: Verdict]
  BY <1>9 DEF Fits, Call, Ats
<1>10. CASE k \in [at: {"audit"}, user: Users, read: Users \cup (Users \X Devices) \cup Submissions,
                   arg: AuditActions]
  BY <1>10 DEF Fits, Call, Ats
<1> QED BY <1>1, <1>2, <1>3, <1>4, <1>5, <1>6, <1>7, <1>8, <1>9, <1>10 DEF CallState

LEMMA FitsCall ==
  ASSUME NEW at, NEW user, NEW read, NEW arg, Fits(at, user, read, arg)
  PROVE  Call(at, user, read, arg) \in CallState
<1> DEFINE k == Call(at, user, read, arg)
<1>1. CASE at = "register"
  <2>1. k \in [at: {"register"}, user: Users, read: {None}, arg: Pins]
    BY <1>1 DEF Fits, Call
  <2> QED BY <2>1 DEF CallState
<1>2. CASE at \in {"rightPin", "wrongPin"}
  <2>1. k \in [at: {"rightPin", "wrongPin"}, user: Users, read: UserRow, arg: Devices]
    BY <1>2 DEF Fits, Call
  <2> QED BY <2>1 DEF CallState
<1>3. CASE at = "device"
  <2>1. k \in [at: {"device"}, user: Users, read: UserRow, arg: Devices]
    BY <1>3 DEF Fits, Call
  <2> QED BY <2>1 DEF CallState
<1>4. CASE at \in {"session", "revocation"}
  <2>1. k \in [at: {"session", "revocation"}, user: Users, read: {None, "live", "revoked"}, arg: Devices]
    BY <1>4 DEF Fits, Call
  <2> QED BY <2>1 DEF CallState
<1>5. CASE at = "pin"
  <2>1. k \in [at: {"pin"}, user: Users, read: UserRow, arg: Pins]
    BY <1>5 DEF Fits, Call
  <2> QED BY <2>1 DEF CallState
<1>6. CASE at = "profile"
  <2>1. k \in [at: {"profile"}, user: Users, read: UserRow, arg: Profiles]
    BY <1>6 DEF Fits, Call
  <2> QED BY <2>1 DEF CallState
<1>7. CASE at = "submit"
  <2>1. k \in [at: {"submit"}, user: Users, read: {None}, arg: Files \X Files]
    BY <1>7 DEF Fits, Call
  <2> QED BY <2>1 DEF CallState
<1>8. CASE at \in {"decide", "tier"}
  <2>1. k \in [at: {"decide", "tier"}, user: Users, read: Submissions, arg: Verdict]
    BY <1>8 DEF Fits, Call
  <2> QED BY <2>1 DEF CallState
<1>9. CASE at = "audit"
  <2>1. k \in [at: {"audit"}, user: Users, read: Users \cup (Users \X Devices) \cup Submissions,
               arg: AuditActions]
    BY <1>9 DEF Fits, Call
  <2> QED BY <2>1 DEF CallState
<1> QED BY <1>1, <1>2, <1>3, <1>4, <1>5, <1>6, <1>7, <1>8, <1>9 DEF Fits, Ats

\* A slot that is not idle.
LEMMA InSlot ==
  ASSUME AccountsTypeOK, NEW c \in Calls, ~At(c, "idle")
  PROVE  /\ calls[c] = Call(calls[c].at, calls[c].user, calls[c].read, calls[c].arg)
         /\ Fits(calls[c].at, calls[c].user, calls[c].read, calls[c].arg)
<1>1. calls[c] \in CallState
  BY DEF AccountsTypeOK
<1>2. calls[c] # Idle
  BY DEF At, Idle
<1> QED BY <1>1, <1>2, CallFits

\* What the steps of a handler leave in its slot.
LEMMA Slots ==
  ASSUME AccountsTypeOK, NEW c \in Calls, ~At(c, "idle")
  PROVE  /\ \A at: GoOn(c, at) =>
              calls' = [calls EXCEPT ![c] = Call(at, calls[c].user, calls[c].read, calls[c].arg)]
         /\ \A action, target: Conclude(c, action, target) =>
              calls' = [calls EXCEPT ![c] = Call("audit", calls[c].user, target, action)]
         /\ Return(c) => calls' = [calls EXCEPT ![c] = Idle]
<1> DEFINE k == calls[c]
<1>0. calls = [d \in Calls |-> calls[d]]
  BY DEF AccountsTypeOK
<1>1. ASSUME NEW at, GoOn(c, at)
      PROVE  calls' = [calls EXCEPT ![c] = Call(at, k.user, k.read, k.arg)]
  <2>1. [k EXCEPT !.at = at] = Call(at, k.user, k.read, k.arg)
    <3>1. k = Call(k.at, k.user, k.read, k.arg)
      BY InSlot
    <3> DEFINE a == k.at  u == k.user  r == k.read  g == k.arg
    <3> HIDE DEF a, u, r, g
    <3>2. k = Call(a, u, r, g)
      BY <3>1 DEF a, u, r, g
    <3>3. [Call(a, u, r, g) EXCEPT !.at = at] = Call(at, u, r, g)
      BY DEF Call
    <3> QED BY <3>2, <3>3 DEF u, r, g
  <2>2. calls' = [calls EXCEPT ![c] = [k EXCEPT !.at = at]]
    BY <1>0, <1>1 DEF GoOn
  <2> QED BY <2>1, <2>2
<1>2. ASSUME NEW action, NEW target, Conclude(c, action, target)
      PROVE  calls' = [calls EXCEPT ![c] = Call("audit", k.user, target, action)]
  BY <1>0, <1>2 DEF Conclude
<1>3. ASSUME Return(c) PROVE calls' = [calls EXCEPT ![c] = Idle]
  BY <1>3 DEF Return
<1> QED BY <1>1, <1>2, <1>3


-----------------------------------------------------------------------------
(* What a step leaves standing.                                             *)

\* A step takes nothing away that a call in flight relies on.
Later ==
  /\ \A u \in Users: users[u] # None => users'[u] # None
  /\ \A s \in Submissions: submissions[s] # None =>
       /\ submissions'[s] # None /\ submissions'[s].userId = submissions[s].userId
       /\ Approving(s) => Approving(s)'
  /\ overlapped \subseteq overlapped'
  /\ minute \in Nat /\ minute' \in Nat /\ minute <= minute'

LEMMA BackedLater ==
  ASSUME Later, NEW u, Backed(u)
  PROVE  Backed(u)'
BY DEF Later, Backed, Of

LEMMA SoundLater ==
  ASSUME Later, NEW u, NEW row \in UserRow, Sound(row, u)
  PROVE  Sound(row, u)'
<1>1. row.lockedUntil \in Nat
  BY AuthAssumption DEF UserRow
<1>2. row.lockedUntil <= minute' + LockFor
  BY <1>1, AuthAssumption DEF Sound, Later
<1>3. row.tier = "verified" => Backed(u)'
  BY BackedLater DEF Sound
<1> QED BY <1>2, <1>3 DEF Sound

\* The call waits for what this step settles.
Waits(k) ==
  /\ k.at = "submit" /\ Pending(k.user) = {} => k.user \in overlapped' \/ Pending(k.user)' = {}
  /\ k.at = "decide" /\ submissions[k.read].status = "pending" =>
       k.read \in overlapped' \/ submissions'[k.read].status = "pending"

LEMMA StandsLater ==
  ASSUME Later, NEW k \in CallState, Stands(k), Waits(k)
  PROVE  Stands(k)'
<1>1. CASE k = Idle
  BY <1>1 DEF Stands, Idle, Copying
<1> USE DEF Copying
<1>2. CASE Fits(k.at, k.user, k.read, k.arg)
  <2>1. k.at \notin {"idle", "register"} => users'[k.user] # None
    BY <1>2 DEF Stands, Later, Fits
  <2>2. k.at = "wrongPin" => k.read.failedPinAttempts < MaxWrong
    BY DEF Stands
  <2>3. k.at \in Copying => Sound(k.read, k.user)'
    <3>1. k.at \in Copying => k.read \in UserRow
      BY <1>2 DEF Fits
    <3> QED BY <3>1, SoundLater DEF Stands
  <2>4. k.at = "submit" => k.user \in overlapped' \/ Pending(k.user)' = {}
    BY DEF Stands, Waits, Later
  <2>5. k.at \in {"decide", "tier"} => k.read \in Submissions
    BY <1>2 DEF Fits
  <2>6. k.at \in {"decide", "tier"} => submissions'[k.read] # None /\ submissions'[k.read].userId = k.user
    BY <2>5 DEF Stands, Later
  <2>7. k.at = "decide" => submissions'[k.read].status = "pending" \/ k.read \in overlapped'
    BY DEF Stands, Waits, Later
  <2>8. k.at = "tier" => Approving(k.read)'
    BY <2>5 DEF Stands, Later
  <2> QED BY <2>1, <2>2, <2>3, <2>4, <2>6, <2>7, <2>8 DEF Stands
<1> QED BY <1>1, <1>2, CallFits

\* One slot changes hands; the calls in the others go on standing.
LEMMA CallsLater ==
  ASSUME AccountsTypeOK, CallsStand, CallsApart, Later,
         NEW c \in Calls, NEW k \in CallState, calls' = [calls EXCEPT ![c] = k],
         Stands(k)',
         \A d \in Calls \ {c}: Waits(calls[d]) /\ Apart(k, calls[d])'
  PROVE  CallsStand' /\ CallsApart' /\ calls' \in [Calls -> CallState]
<1>1. calls \in [Calls -> CallState]
  BY DEF AccountsTypeOK
<1>2. calls'[c] = k /\ \A d \in Calls \ {c}: calls'[d] = calls[d]
  BY <1>1
<1>3. CallsStand'
  <2>1. ASSUME NEW d \in Calls PROVE Stands(calls[d])'
    <3>1. CASE d = c
      BY <3>1, <1>2 DEF Stands
    <3>2. CASE d # c
      <4>1. PICK j \in CallState: j = calls[d]
        BY <1>1
      <4>2. Stands(j)'
        BY <4>1, <3>2, StandsLater DEF CallsStand
      <4> QED BY <4>1, <4>2, <1>2, <3>2 DEF Stands
    <3> QED BY <3>1, <3>2
  <2> QED BY <2>1 DEF CallsStand
<1>4. CallsApart'
  <2>1. ASSUME NEW d \in Calls, NEW e \in Calls, d # e PROVE Apart(calls[d], calls[e])'
    <3>1. CASE d = c
      BY <3>1, <2>1, <1>2 DEF Apart
    <3>2. CASE e = c
      <4>1. Apart(k, calls[d])'
        BY <3>2, <2>1
      <4> QED BY <4>1, <3>2, <1>2 DEF Apart
    <3>3. CASE d # c /\ e # c
      <4>1. Apart(calls[d], calls[e])
        BY <2>1 DEF CallsApart
      <4> QED BY <4>1, <3>3, <1>2 DEF Apart, Later
    <3> QED BY <3>1, <3>2, <3>3
  <2> QED BY <2>1 DEF CallsApart
<1>5. calls' \in [Calls -> CallState]
  BY <1>1
<1> QED BY <1>3, <1>4, <1>5

\* A step that leaves the papers alone.
LEMMA PapersAside ==
  ASSUME UNCHANGED kycVars, minute \in Nat, minute' \in Nat, minute <= minute',
         \A u \in Users: users[u] # None => users'[u] # None
  PROVE  /\ Later
         /\ \A k: Waits(k)
         /\ \A u: Backed(u)' <=> Backed(u)
         /\ OneAtATime => OneAtATime'
<1>1. \A s: Approving(s)' <=> Approving(s)
  BY DEF Approving, kycVars
<1>2. \A u: Of(u)' = Of(u)
  BY DEF Of, kycVars
<1>3. \A u: Pending(u)' = Pending(u)
  BY <1>2 DEF Pending, kycVars
<1>4. Later
  BY <1>1 DEF Later, kycVars
<1>5. \A k: Waits(k)
  BY <1>3 DEF Waits, kycVars
<1>6. \A u: Backed(u)' <=> Backed(u)
  BY <1>1, <1>2 DEF Backed
<1>7. OneAtATime => OneAtATime'
  BY <1>3 DEF OneAtATime, kycVars
<1> QED BY <1>4, <1>5, <1>6, <1>7


-----------------------------------------------------------------------------
(* The steps of AuthService.                                                *)

\* The promise about approvals, when no submission is approved that a call on
\* its way to the tier does not account for.
LEMMA ApprovedAside ==
  ASSUME AccountsTypeOK, Records, ApprovedIsVerified,
         NEW c \in Calls, NEW k, calls' = [calls EXCEPT ![c] = k],
         \A s \in Submissions: submissions'[s] # None /\ submissions'[s].status = "approved" =>
           \/ submissions[s] = submissions'[s]
           \/ k.at = "tier" /\ k.user = submissions'[s].userId,
         overwritten \subseteq overwritten', died \subseteq died',
         \A u \in Users: users[u] # None /\ users[u].tier = "verified" =>
           users'[u].tier = "verified" \/ u \in overwritten',
         At(c, "tier") => \/ users'[calls[c].user].tier = "verified"
                          \/ calls[c].user \in overwritten' \cup died'
  PROVE  ApprovedIsVerified'
<1> SUFFICES ASSUME NEW s \in Submissions, submissions'[s] # None, submissions'[s].status = "approved",
                    NEW v, v = submissions'[s].userId
             PROVE  users'[v].tier = "verified" \/ InFlightAt("tier", v)' \/ v \in overwritten' \cup died'
  BY DEF ApprovedIsVerified, InFlightAt
<1>0. calls'[c] = k /\ \A d \in Calls \ {c}: calls'[d] = calls[d]
  BY DEF AccountsTypeOK
<1>a. CASE k.at = "tier" /\ k.user = v
  BY <1>0, <1>a DEF At, InFlightAt
<1>b. CASE submissions[s] = submissions'[s]
  <2>1. v \in Users /\ users[v] # None
    BY <1>b DEF AccountsTypeOK, SubmissionRow, Records, PapersStand, OwnPapers
  <2>2. users[v].tier = "verified" \/ InFlightAt("tier", v) \/ v \in overwritten \cup died
    BY <1>b DEF ApprovedIsVerified, InFlightAt
  <2>3. CASE users[v].tier = "verified" \/ v \in overwritten \cup died
    BY <2>3, <2>1
  <2>4. CASE InFlightAt("tier", v)
    <3>1. PICK d \in Calls: At(d, "tier") /\ calls[d].user = v
      BY <2>4 DEF InFlightAt
    <3>2. CASE d = c
      BY <3>1, <3>2
    <3>3. CASE d # c
      BY <1>0, <3>1, <3>3 DEF At, InFlightAt
    <3> QED BY <3>2, <3>3
  <2> QED BY <2>2, <2>3, <2>4
<1> QED BY <1>a, <1>b

\* A step that saves no row.
LEMMA QuietKeeps ==
  ASSUME AccountsIInv, NEW c \in Calls, NEW k \in CallState, calls' = [calls EXCEPT ![c] = k],
         k.at \notin {"submit", "decide"}, Stands(k)',
         UNCHANGED <<users, minute, overwritten, kycVars>>,
         sessions' \in [Users \X Devices -> {None, "live", "revoked"}],
         tokens' \subseteq {u \in Users: users[u] # None},
         begun' \in 0..MaxCalls,
         died \subseteq died', died' \subseteq Users,
         At(c, "tier") => calls[c].user \in died'
  PROVE  AccountsIInv'
<1> USE DEF AccountsIInv, Records
<1>0. minute \in Nat
  BY AuthAssumption DEF AccountsTypeOK
<1>1. /\ Later /\ \A j: Waits(j)
      /\ OneAtATime'
  BY <1>0, PapersAside
<1>2. \A d \in Calls \ {c}: Waits(calls[d]) /\ Apart(k, calls[d])'
  BY <1>1 DEF Apart
<1>3. CallsStand' /\ CallsApart' /\ calls' \in [Calls -> CallState]
  BY <1>1, <1>2, CallsLater
<1>4. RowsStand'
  <2>1. ASSUME NEW u \in Users, users[u] # None PROVE Sound(users[u], u)'
    <3>1. PICK row \in UserRow: row = users[u]
      BY <2>1 DEF AccountsTypeOK
    <3>2. Sound(row, u)'
      BY <3>1, <2>1, <1>1, SoundLater DEF RowsStand
    <3> QED BY <3>1, <3>2 DEF Sound
  <2> QED BY <2>1 DEF RowsStand
<1>5. PapersStand'
  BY DEF PapersStand, OwnPapers, kycVars
<1>6. ApprovedIsVerified'
  BY ApprovedAside DEF kycVars
<1>7. AccountsTypeOK'
  BY <1>3 DEF AccountsTypeOK, kycVars
<1> QED BY <1>1, <1>3, <1>4, <1>5, <1>6, <1>7

\* A step that saves a row: the copy the call holds, with its tier, or a new
\* account's first row.
LEMMA SaveKeeps ==
  ASSUME AccountsIInv, NEW c \in Calls, ~At(c, "idle"), ~At(c, "tier"),
         NEW row \in UserRow, Save(c, row), Sound(row, calls[c].user),
         \/ calls[c].read \in UserRow /\ row.tier = calls[c].read.tier
         \/ users[calls[c].user] = None,
         NEW k \in CallState, calls' = [calls EXCEPT ![c] = k],
         k.at \in {"audit", "device"}, k.user = calls[c].user,
         UNCHANGED <<sessions, tokens, minute, died, kycVars>>, begun' \in 0..MaxCalls
  PROVE  AccountsIInv'
<1> USE DEF AccountsIInv, Records
<1> DEFINE v == calls[c].user
<1>u. v \in Users
  BY InSlot DEF Fits
<1>s. /\ users' = [users EXCEPT ![v] = row]
      /\ calls[c].read \in {None, users[v]} \/ v \in overwritten'
      /\ overwritten \subseteq overwritten' /\ overwritten' \subseteq overwritten \cup {v}
  BY DEF Save
<1>r. row # None
  BY AuthAssumption
<1>0. minute \in Nat
  BY AuthAssumption DEF AccountsTypeOK
<1>w. users'[v] = row /\ \A u \in Users: u # v => users'[u] = users[u]
  BY <1>s, <1>u DEF AccountsTypeOK
<1>n. \A u \in Users: users[u] # None => users'[u] # None
  BY <1>w, <1>r
<1>1. /\ Later /\ \A j: Waits(j)
      /\ OneAtATime'
  BY <1>0, <1>n, PapersAside
<1>2. \A d \in Calls \ {c}: Waits(calls[d]) /\ Apart(k, calls[d])'
  BY <1>1 DEF Apart
<1>k. Stands(k)'
  BY <1>w, <1>r DEF Stands, Copying
<1>3. CallsStand' /\ CallsApart' /\ calls' \in [Calls -> CallState]
  BY <1>1, <1>2, <1>k, CallsLater
<1>4. RowsStand'
  <2>1. ASSUME NEW u \in Users, users'[u] # None PROVE Sound(users[u], u)'
    <3>1. CASE u = v
      <4>1. Sound(row, v)'
        BY <1>1, SoundLater
      <4> QED BY <4>1, <3>1, <1>w DEF Sound
    <3>2. CASE u # v
      <4>1. PICK old \in UserRow: old = users[u]
        BY <2>1, <3>2, <1>w DEF AccountsTypeOK
      <4>2. Sound(old, u)'
        BY <4>1, <2>1, <3>2, <1>w, <1>1, SoundLater DEF RowsStand
      <4> QED BY <4>1, <4>2, <3>2, <1>w DEF Sound
    <3> QED BY <3>1, <3>2
  <2> QED BY <2>1 DEF RowsStand
<1>5. PapersStand'
  <2>1. \A s \in Submissions: submissions[s] # None => submissions[s].userId \in Users
    BY DEF AccountsTypeOK, SubmissionRow
  <2> QED BY <2>1, <1>n DEF PapersStand, OwnPapers, kycVars
<1>6. ApprovedIsVerified'
  <2>1. ASSUME NEW u \in Users, users[u] # None, users[u].tier = "verified"
        PROVE  users'[u].tier = "verified" \/ u \in overwritten'
    <3>1. CASE u = v
      <4>1. calls[c].read \in UserRow /\ row.tier = calls[c].read.tier
        BY <3>1, <2>1
      <4>2. calls[c].read = users[v] \/ v \in overwritten'
        BY <4>1, <1>s, AuthAssumption
      <4> QED BY <4>1, <4>2, <3>1, <1>w, <2>1
    <3> QED BY <3>1, <1>w, <2>1
  <2> QED BY <2>1, <1>s, ApprovedAside DEF kycVars
<1>7. AccountsTypeOK'
  <2>1. users' \in [Users -> UserRow \cup {None}]
    BY <1>s DEF AccountsTypeOK
  <2>2. tokens' \subseteq {u \in Users: users'[u] # None}
    BY <1>n DEF AccountsTypeOK
  <2>3. overwritten' \cup died' \subseteq Users
    BY <1>s, <1>u DEF AccountsTypeOK
  <2> QED BY <1>3, <2>1, <2>2, <2>3 DEF AccountsTypeOK, kycVars
<1> QED BY <1>1, <1>3, <1>4, <1>5, <1>6, <1>7


\* A call that has begun with a row as it stands.
LEMMA RequestKeeps ==
  ASSUME AccountsIInv, NEW c \in Calls, NEW k \in CallState, Begin(c, k),
         k.at \notin {"submit", "decide"}, Stands(k),
         UNCHANGED <<users, sessions, tokens, minute, overwritten, died, kycVars>>
  PROVE  AccountsIInv'
<1> USE DEF AccountsIInv, Records
<1>0. minute \in Nat
  BY AuthAssumption DEF AccountsTypeOK
<1>1. Later /\ Waits(k)
  BY <1>0, PapersAside
<1>2. Stands(k)'
  BY <1>1, StandsLater
<1>3. begun' \in 0..MaxCalls /\ calls' = [calls EXCEPT ![c] = k] /\ ~At(c, "tier")
  BY AuthAssumption DEF Begin, AccountsTypeOK, At
<1> QED BY <1>2, <1>3, QuietKeeps DEF AccountsTypeOK

LEMMA AuthRequestKeeps ==
  ASSUME AccountsIInv, NEW c \in Calls, NEW u \in Users, AuthRequest(c, u), UNCHANGED kycVars
  PROVE  AccountsIInv'
<1> USE DEF AccountsIInv, Records
<1>r. \A w \in Users: users[w] # None => users[w] \in UserRow
  BY DEF AccountsTypeOK
<1>t. \A w \in tokens: w \in Users /\ users[w] # None
  BY DEF AccountsTypeOK
<1>s. users[u] # None => Sound(users[u], u)
  BY DEF RowsStand
<1>1. ASSUME NEW pin \in Pins, FindNoUser(c, u, pin) PROVE AccountsIInv'
  <2> DEFINE k == Call("register", u, None, pin)
  <2>1. k \in CallState
    BY FitsCall DEF Fits, Ats
  <2>2. Stands(k) /\ k.at \notin {"submit", "decide"}
    BY DEF Stands, Call, Copying
  <2>3. Begin(c, k) /\ UNCHANGED <<users, sessions, tokens, minute, overwritten, died>>
    BY <1>1 DEF FindNoUser
  <2> HIDE DEF k
  <2> QED BY <2>1, <2>2, <2>3, RequestKeeps
<1>2. ASSUME NEW pin \in Pins, LoadForPin(c, u, pin) PROVE AccountsIInv'
  <2> DEFINE k == Call("pin", u, users[u], pin)
  <2>0. users[u] # None /\ users[u] \in UserRow
    BY <1>2, <1>r, <1>t DEF LoadForPin
  <2>1. k \in CallState
    BY <2>0, FitsCall DEF Fits, Ats
  <2>2. Stands(k) /\ k.at \notin {"submit", "decide"}
    BY <2>0, <1>s DEF Stands, Call, Copying
  <2>3. Begin(c, k) /\ UNCHANGED <<users, sessions, tokens, minute, overwritten, died>>
    BY <1>2 DEF LoadForPin
  <2> HIDE DEF k
  <2> QED BY <2>1, <2>2, <2>3, RequestKeeps
<1>3. ASSUME NEW d \in Devices, LoadForRevocation(c, u, d) PROVE AccountsIInv'
  <2> DEFINE k == Call("revocation", u, sessions[<<u, d>>], d)
  <2>0. users[u] # None /\ sessions[<<u, d>>] \in {None, "live", "revoked"}
    BY <1>3, <1>t DEF LoadForRevocation, AccountsTypeOK
  <2>1. k \in CallState
    BY <2>0, FitsCall DEF Fits, Ats
  <2>2. Stands(k) /\ k.at \notin {"submit", "decide"}
    BY <2>0 DEF Stands, Call, Copying
  <2>3. Begin(c, k) /\ UNCHANGED <<users, sessions, tokens, minute, overwritten, died>>
    BY <1>3 DEF LoadForRevocation
  <2> HIDE DEF k
  <2> QED BY <2>1, <2>2, <2>3, RequestKeeps
<1>4. ASSUME NEW d \in Devices, NEW pin \in Pins, LoadForLogin(c, u, d, pin) PROVE AccountsIInv'
  <2> DEFINE at == IF pin = users[u].pinHash THEN "rightPin" ELSE "wrongPin"
             k == Call(at, u, users[u], d)
  <2>0. users[u] # None /\ users[u] \in UserRow
    BY <1>4, <1>r DEF LoadForLogin
  <2>a. at = "rightPin" \/ (at = "wrongPin" /\ users[u].failedPinAttempts < MaxWrong)
    BY <1>4 DEF LoadForLogin
  <2>3. Begin(c, k) /\ UNCHANGED <<users, sessions, tokens, minute, overwritten, died>>
    BY <1>4 DEF LoadForLogin
  <2> HIDE DEF at
  <2>1. k \in CallState
    BY <2>0, <2>a, FitsCall DEF Fits, Ats
  <2>2. Stands(k) /\ k.at \notin {"submit", "decide"}
    BY <2>0, <2>a, <1>s DEF Stands, Call, Copying
  <2> HIDE DEF k
  <2> QED BY <2>1, <2>2, <2>3, RequestKeeps
<1>5. ASSUME NEW p \in Profiles, LoadForProfile(c, u, p) PROVE AccountsIInv'
  <2> DEFINE k == Call("profile", u, users[u], p)
  <2>0. users[u] # None /\ users[u] \in UserRow
    BY <1>5, <1>r, <1>t DEF LoadForProfile
  <2>1. k \in CallState
    BY <2>0, FitsCall DEF Fits, Ats
  <2>2. Stands(k) /\ k.at \notin {"submit", "decide"}
    BY <2>0, <1>s DEF Stands, Call, Copying
  <2>3. Begin(c, k) /\ UNCHANGED <<users, sessions, tokens, minute, overwritten, died>>
    BY <1>5 DEF LoadForProfile
  <2> HIDE DEF k
  <2> QED BY <2>1, <2>2, <2>3, RequestKeeps
<1> QED BY <1>1, <1>2, <1>3, <1>4, <1>5 DEF AuthRequest


\* The rows AuthService saves.
LEMMA NewRowFits ==
  ASSUME NEW pin \in Pins, minute \in Nat, NEW u
  PROVE  NewRow(pin) \in UserRow /\ Sound(NewRow(pin), u)
BY AuthAssumption DEF NewRow, UserRow, NoLock, Sound

\* The row object a handler holds, with the columns it sets.
LEMMA HeldRow ==
  ASSUME AccountsIInv, NEW c \in Calls, calls[c].at \in Copying
  PROVE  calls[c].user \in Users /\ calls[c].read \in UserRow /\ Sound(calls[c].read, calls[c].user)
BY InSlot DEF Copying, At, Fits, AccountsIInv, Records, CallsStand, Stands

LEMMA RowSaved ==
  ASSUME AccountsTypeOK, NEW row \in UserRow, NEW u, Sound(row, u)
  PROVE  /\ \A pin \in Pins: LET new == [row EXCEPT !.pinHash = pin] IN
              new \in UserRow /\ Sound(new, u) /\ new.tier = row.tier
         /\ \A p \in Profiles: LET new == [row EXCEPT !.profile = p] IN
              new \in UserRow /\ Sound(new, u) /\ new.tier = row.tier
         /\ LET new == Unlocked(row) IN
              new \in UserRow /\ Sound(new, u) /\ new.tier = row.tier
         /\ row.failedPinAttempts < MaxWrong =>
              \A until \in {row.lockedUntil, minute + LockFor}:
                LET new == [row EXCEPT !.failedPinAttempts = row.failedPinAttempts + 1, !.lockedUntil = until] IN
                new \in UserRow /\ Sound(new, u) /\ new.tier = row.tier
<1>0. minute \in 1..LastMinute
  BY DEF AccountsTypeOK
<1>f. /\ row.lockedUntil \in 0..LastMinute + LockFor /\ row.failedPinAttempts \in 0..MaxWrong
      /\ minute \in 1..LastMinute /\ LastMinute \in Nat /\ LockFor \in Nat /\ MaxWrong \in Nat
  BY <1>0, AuthAssumption DEF UserRow
<1>1. ASSUME NEW pin \in Pins
      PROVE  LET new == [row EXCEPT !.pinHash = pin] IN
             new \in UserRow /\ Sound(new, u) /\ new.tier = row.tier
  BY DEF UserRow, Sound
<1>2. ASSUME NEW p \in Profiles
      PROVE  LET new == [row EXCEPT !.profile = p] IN
             new \in UserRow /\ Sound(new, u) /\ new.tier = row.tier
  BY DEF UserRow, Sound
<1>3. LET new == Unlocked(row) IN new \in UserRow /\ Sound(new, u) /\ new.tier = row.tier
  <2> DEFINE new == [row EXCEPT !.failedPinAttempts = 0, !.lockedUntil = 0]
  <2>0. 0 \in 0..MaxWrong /\ 0 \in 0..LastMinute + LockFor
    BY <1>f
  <2>1. new \in UserRow
    BY <2>0 DEF UserRow
  <2>2. new.lockedUntil = 0 /\ new.tier = row.tier
    BY DEF UserRow
  <2>3. Unlocked(row) = new
    BY DEF Unlocked, NoLock
  <2> HIDE DEF new
  <2>4. Sound(new, u)
    BY <1>f, <2>2 DEF Sound
  <2> QED BY <2>1, <2>2, <2>3, <2>4
<1>4. ASSUME row.failedPinAttempts < MaxWrong, NEW until \in {row.lockedUntil, minute + LockFor}
      PROVE  LET new == [row EXCEPT !.failedPinAttempts = row.failedPinAttempts + 1, !.lockedUntil = until] IN
             new \in UserRow /\ Sound(new, u) /\ new.tier = row.tier
  <2> DEFINE n == row.failedPinAttempts + 1
             new == [row EXCEPT !.failedPinAttempts = n, !.lockedUntil = until]
  <2>0. n \in 0..MaxWrong /\ until \in 0..LastMinute + LockFor /\ until <= minute + LockFor
    BY <1>f, <1>4 DEF Sound
  <2> HIDE DEF n
  <2>1. new \in UserRow
    BY <2>0 DEF UserRow
  <2>2. new.lockedUntil = until /\ new.tier = row.tier
    BY DEF UserRow
  <2>3. [row EXCEPT !.failedPinAttempts = row.failedPinAttempts + 1, !.lockedUntil = until] = new
    BY DEF n
  <2> HIDE DEF new
  <2>4. Sound(new, u)
    BY <2>0, <2>2 DEF Sound
  <2> QED BY <2>1, <2>2, <2>3, <2>4
<1> QED BY <1>1, <1>2, <1>3, <1>4

\* A slot that ends in the audit row, or is free again.
LEMMA AuditFits ==
  ASSUME NEW u \in Users, NEW target \in Users \cup (Users \X Devices) \cup Submissions,
         NEW action \in AuditActions, users'[u] # None
  PROVE  LET k == Call("audit", u, target, action) IN
         k \in CallState /\ Stands(k)' /\ k.at = "audit" /\ k.user = u
<1>1. Call("audit", u, target, action) \in CallState
  BY FitsCall DEF Fits, Ats
<1> QED BY <1>1 DEF Stands, Call, Copying

LEMMA IdleFits == Idle \in CallState /\ Stands(Idle)' /\ Idle.at = "idle"
BY DEF CallState, Idle, Stands, Copying

LEMMA SaveNewUserKeeps ==
  ASSUME AccountsIInv, NEW c \in Calls, SaveNewUser(c), UNCHANGED kycVars
  PROVE  AccountsIInv'
<1> USE DEF AccountsIInv
<1>1. /\ calls[c].user \in Users /\ calls[c].arg \in Pins
      /\ ~At(c, "idle") /\ ~At(c, "tier") /\ minute \in Nat /\ begun \in 0..MaxCalls
  BY InSlot, AuthAssumption DEF SaveNewUser, At, Fits, AccountsTypeOK
<1>2. CASE users[calls[c].user] = None
  <2> DEFINE row == NewRow(calls[c].arg)
             k == Call("audit", calls[c].user, calls[c].user, "auth.register")
  <2>1. row \in UserRow /\ Sound(row, calls[c].user)
    BY <1>1, NewRowFits
  <2>2. calls' = [calls EXCEPT ![c] = k] /\ begun' = begun
    BY <1>1, <1>2, Slots DEF SaveNewUser, Conclude
  <2>3. Save(c, row)
    BY <1>2 DEF SaveNewUser
  <2>4. k \in CallState /\ k.at = "audit" /\ k.user = calls[c].user
    <3>1. k \in CallState
      BY <1>1, FitsCall DEF Fits, Ats, AuditActions
    <3> QED BY <3>1 DEF Call
  <2> HIDE DEF k, row
  <2> QED BY <1>1, <1>2, <2>1, <2>2, <2>3, <2>4, SaveKeeps DEF SaveNewUser
<1>3. CASE users[calls[c].user] # None
  <2>1. calls' = [calls EXCEPT ![c] = Idle] /\ UNCHANGED <<begun, users, overwritten>>
    BY <1>1, <1>3, Slots DEF SaveNewUser, Return
  <2> QED BY <1>1, <2>1, IdleFits, QuietKeeps DEF SaveNewUser, AccountsTypeOK
<1> QED BY <1>2, <1>3

LEMMA RegisterFailedKeeps ==
  ASSUME AccountsIInv, NEW c \in Calls, RegisterFailedPinAttempt(c), UNCHANGED kycVars
  PROVE  AccountsIInv'
<1> USE DEF AccountsIInv
<1> DEFINE v == calls[c].user  r == calls[c].read
           until == IF r.failedPinAttempts + 1 >= LockAfter THEN minute + LockFor ELSE r.lockedUntil
           row == [r EXCEPT !.failedPinAttempts = r.failedPinAttempts + 1, !.lockedUntil = until]
           k == Call("audit", v, v, "auth.pin_failed")
<1>1. v \in Users /\ r \in UserRow /\ Sound(r, v) /\ ~At(c, "idle") /\ ~At(c, "tier")
  BY HeldRow DEF RegisterFailedPinAttempt, At, Copying
<1>2. r.failedPinAttempts < MaxWrong
  BY DEF RegisterFailedPinAttempt, At, Records, CallsStand, Stands
<1>3. row \in UserRow /\ Sound(row, v) /\ row.tier = r.tier
  BY <1>1, <1>2, RowSaved
<1>4. Save(c, row)
  BY <1>1 DEF RegisterFailedPinAttempt, UserRow
<1>5. calls' = [calls EXCEPT ![c] = k] /\ begun' = begun
  BY <1>1, Slots DEF RegisterFailedPinAttempt, Conclude
<1>6. k \in CallState /\ k.at = "audit" /\ k.user = v
  <2>1. k \in CallState
    BY <1>1, FitsCall DEF Fits, Ats, AuditActions
  <2> QED BY <2>1 DEF Call
<1> HIDE DEF k, row
<1>7. begun' \in 0..MaxCalls
  BY <1>5 DEF AccountsTypeOK
<1> QED BY <1>1, <1>3, <1>4, <1>5, <1>6, <1>7, SaveKeeps DEF RegisterFailedPinAttempt


LEMMA AdmitRightPinKeeps ==
  ASSUME AccountsIInv, NEW c \in Calls, AdmitRightPin(c), UNCHANGED kycVars
  PROVE  AccountsIInv'
<1> USE DEF AccountsIInv
<1> DEFINE v == calls[c].user  r == calls[c].read
           k == Call("device", v, r, calls[c].arg)
<1>1. v \in Users /\ r \in UserRow /\ Sound(r, v) /\ ~At(c, "idle") /\ ~At(c, "tier")
  BY HeldRow DEF AdmitRightPin, At, Copying
<1>2. k \in CallState /\ k.at = "device" /\ k.user = v
  <2>1. calls[c].arg \in Devices
    BY <1>1, InSlot DEF AdmitRightPin, At, Fits
  <2>2. k \in CallState
    BY <1>1, <2>1, FitsCall DEF Fits, Ats
  <2> QED BY <2>2 DEF Call
<1>3. begun \in 0..MaxCalls
  BY DEF AccountsTypeOK
<1>4. CASE Return(c) /\ UNCHANGED <<users, overwritten>>
  <2>1. calls' = [calls EXCEPT ![c] = Idle] /\ begun' = begun
    BY <1>1, <1>4, Slots DEF Return
  <2> QED BY <1>1, <1>3, <1>4, <2>1, IdleFits, QuietKeeps DEF AdmitRightPin, AccountsTypeOK
<1>5. CASE GoOn(c, "device")
  <2>1. calls' = [calls EXCEPT ![c] = k] /\ begun' = begun
    BY <1>1, <1>5, Slots DEF GoOn
  <2> HIDE DEF k
  <2>2. CASE Save(c, Unlocked(r))
    <3>1. Unlocked(r) \in UserRow /\ Sound(Unlocked(r), v) /\ Unlocked(r).tier = r.tier
      BY <1>1, RowSaved
    <3> QED BY <1>1, <1>2, <1>3, <2>1, <2>2, <3>1, SaveKeeps DEF AdmitRightPin
  <2>3. CASE UNCHANGED <<users, overwritten>>
    <3>1. users[v] # None
      BY <1>1 DEF Records, CallsStand, Stands, AdmitRightPin, At
    <3>j. PICK j \in CallState: j = k
      BY <1>2
    <3>2. Stands(j)' /\ j.at = "device"
      BY <1>2, <2>3, <3>1, <3>j DEF Stands, Copying
    <3> QED BY <1>1, <1>2, <1>3, <2>1, <2>3, <3>j, <3>2, QuietKeeps DEF AdmitRightPin, AccountsTypeOK
  <2> QED BY <1>5, <2>2, <2>3 DEF AdmitRightPin
<1> QED BY <1>4, <1>5 DEF AdmitRightPin

LEMMA SavePinKeeps ==
  ASSUME AccountsIInv, NEW c \in Calls, SavePin(c), UNCHANGED kycVars
  PROVE  AccountsIInv'
<1> USE DEF AccountsIInv
<1> DEFINE v == calls[c].user  r == calls[c].read
           row == [r EXCEPT !.pinHash = calls[c].arg]
           k == Call("audit", v, v, "auth.pin_changed")
<1>1. v \in Users /\ r \in UserRow /\ Sound(r, v) /\ ~At(c, "idle") /\ ~At(c, "tier")
  BY HeldRow DEF SavePin, At, Copying
<1>2. calls[c].arg \in Pins
  BY <1>1, InSlot DEF SavePin, At, Fits
<1>3. row \in UserRow /\ Sound(row, v) /\ row.tier = r.tier
  BY <1>1, <1>2, RowSaved
<1>4. Save(c, row)
  BY DEF SavePin
<1>5. calls' = [calls EXCEPT ![c] = k] /\ begun' = begun
  BY <1>1, Slots DEF SavePin, Conclude
<1>6. k \in CallState /\ k.at = "audit" /\ k.user = v
  <2>1. k \in CallState
    BY <1>1, FitsCall DEF Fits, Ats, AuditActions
  <2> QED BY <2>1 DEF Call
<1> HIDE DEF k, row
<1>7. begun' \in 0..MaxCalls
  BY <1>5 DEF AccountsTypeOK
<1> QED BY <1>1, <1>3, <1>4, <1>5, <1>6, <1>7, SaveKeeps DEF SavePin

LEMMA SaveProfileKeeps ==
  ASSUME AccountsIInv, NEW c \in Calls, SaveProfile(c), UNCHANGED kycVars
  PROVE  AccountsIInv'
<1> USE DEF AccountsIInv
<1> DEFINE v == calls[c].user  r == calls[c].read
           row == [r EXCEPT !.profile = calls[c].arg]
           k == Call("audit", v, v, "auth.profile_updated")
<1>1. v \in Users /\ r \in UserRow /\ Sound(r, v) /\ ~At(c, "idle") /\ ~At(c, "tier")
  BY HeldRow DEF SaveProfile, At, Copying
<1>2. calls[c].arg \in Profiles
  BY <1>1, InSlot DEF SaveProfile, At, Fits
<1>3. row \in UserRow /\ Sound(row, v) /\ row.tier = r.tier
  BY <1>1, <1>2, RowSaved
<1>4. Save(c, row)
  BY DEF SaveProfile
<1>5. calls' = [calls EXCEPT ![c] = k] /\ begun' = begun
  BY <1>1, Slots DEF SaveProfile, Conclude
<1>6. k \in CallState /\ k.at = "audit" /\ k.user = v
  <2>1. k \in CallState
    BY <1>1, FitsCall DEF Fits, Ats, AuditActions
  <2> QED BY <2>1 DEF Call
<1> HIDE DEF k, row
<1>7. begun' \in 0..MaxCalls
  BY <1>5 DEF AccountsTypeOK
<1> QED BY <1>1, <1>3, <1>4, <1>5, <1>6, <1>7, SaveKeeps DEF SaveProfile

\* The sessions: no users row is touched.
LEMMA SessionStepKeeps ==
  ASSUME AccountsIInv, NEW c \in Calls, FindSession(c) \/ SaveSession(c) \/ SaveRevocation(c), UNCHANGED kycVars
  PROVE  AccountsIInv'
<1> USE DEF AccountsIInv
<1>0. /\ calls[c].user \in Users /\ calls[c].arg \in Devices
      /\ ~At(c, "idle") /\ ~At(c, "tier") /\ users[calls[c].user] # None
  <2>1. At(c, "device") \/ At(c, "session") \/ At(c, "revocation")
    BY DEF FindSession, SaveSession, SaveRevocation
  <2>2. ~At(c, "idle") /\ ~At(c, "tier")
    BY <2>1 DEF At
  <2> QED BY <2>1, <2>2, InSlot DEF At, Fits, Records, CallsStand, Stands
<1>v. PICK v \in Users, d \in Devices: v = calls[c].user /\ d = calls[c].arg
  BY <1>0
<1>1. ~At(c, "idle") /\ ~At(c, "tier") /\ users[v] # None
  BY <1>0, <1>v
<1>2. sessions[<<v, d>>] \in {None, "live", "revoked"} /\ begun \in 0..MaxCalls
  BY <1>1 DEF AccountsTypeOK
<1>3. CASE FindSession(c)
  <2>r. PICK r \in {None, "live", "revoked"}: r = sessions[<<v, d>>]
    BY <1>2
  <2> DEFINE k == Call("session", v, r, d)
  <2>1. calls' = [calls EXCEPT ![c] = k] /\ begun' = begun
    BY <1>3, <1>v, <2>r DEF FindSession, AccountsTypeOK
  <2>2. k \in CallState
    BY <1>1, <1>2, FitsCall DEF Fits, Ats
  <2>3. Stands(k)' /\ k.at = "session"
    BY <1>1, <1>3 DEF Stands, Copying, Call, FindSession
  <2> HIDE DEF k
  <2> QED BY <1>1, <1>2, <1>3, <2>1, <2>2, <2>3, QuietKeeps DEF FindSession, AccountsTypeOK
<1>4. CASE SaveSession(c) /\ Return(c) /\ UNCHANGED sessions
  <2>1. calls' = [calls EXCEPT ![c] = Idle] /\ begun' = begun
    BY <1>1, <1>4, Slots DEF Return
  <2> QED BY <1>1, <1>2, <1>4, <2>1, IdleFits, QuietKeeps DEF SaveSession, AccountsTypeOK
<1>5. CASE SaveSession(c) /\ sessions' = [sessions EXCEPT ![<<v, d>>] = "live"] /\ Conclude(c, "auth.login", v)
  <2> DEFINE k == Call("audit", v, v, "auth.login")
  <2>1. calls' = [calls EXCEPT ![c] = k] /\ begun' = begun
    BY <1>1, <1>5, <1>v, Slots DEF Conclude
  <2>2. k \in CallState /\ Stands(k)' /\ k.at = "audit"
    <3>1. users'[v] # None
      BY <1>1, <1>5 DEF SaveSession
    <3> QED BY <1>1, <3>1, AuditFits DEF AuditActions
  <2> HIDE DEF k
  <2>3. sessions' \in [Users \X Devices -> {None, "live", "revoked"}]
    BY <1>5 DEF AccountsTypeOK
  <2> QED BY <1>1, <1>2, <1>5, <2>1, <2>2, <2>3, QuietKeeps DEF SaveSession, AccountsTypeOK
<1>6. CASE SaveRevocation(c)
  <2> DEFINE k == Call("audit", v, <<v, d>>, "auth.device_revoked")
  <2>1. calls' = [calls EXCEPT ![c] = k] /\ begun' = begun
    BY <1>1, <1>6, <1>v, Slots DEF SaveRevocation, Conclude
  <2>2. k \in CallState /\ Stands(k)' /\ k.at = "audit"
    <3>1. users'[v] # None
      BY <1>1, <1>6 DEF SaveRevocation
    <3> QED BY <1>1, <3>1, AuditFits DEF AuditActions
  <2> HIDE DEF k
  <2>3. sessions' \in [Users \X Devices -> {None, "live", "revoked"}]
    BY <1>6, <1>v DEF AccountsTypeOK, SaveRevocation
  <2> QED BY <1>1, <1>2, <1>6, <2>1, <2>2, <2>3, QuietKeeps DEF SaveRevocation, AccountsTypeOK
<1> QED BY <1>3, <1>4, <1>5, <1>6, <1>v DEF SaveSession

LEMMA EndKeeps ==
  ASSUME AccountsIInv, NEW c \in Calls, Answer(c) \/ Die(c), UNCHANGED kycVars
  PROVE  AccountsIInv'
<1> USE DEF AccountsIInv
<1>1. users[calls[c].user] # None \/ At(c, "register")
  BY InSlot DEF Answer, Die, At, Fits, Records, CallsStand, Stands
<1>2. ~At(c, "idle") /\ calls[c].user \in Users
  BY InSlot DEF Answer, Die, At, Fits
<1>3. calls' = [calls EXCEPT ![c] = Idle] /\ begun' = begun
  BY <1>2, Slots DEF Answer, Die, Return
<1>4. CASE Answer(c)
  <2>1. ~At(c, "tier") /\ users[calls[c].user] # None
    BY <1>1, <1>4 DEF Answer, At
  <2>2. tokens' \subseteq {u \in Users: users[u] # None}
    BY <1>2, <1>4, <2>1 DEF Answer, AccountsTypeOK
  <2> QED BY <1>3, <1>4, <2>1, <2>2, IdleFits, QuietKeeps DEF Answer, AccountsTypeOK
<1>5. CASE Die(c)
  BY <1>2, <1>3, <1>5, IdleFits, QuietKeeps DEF Die, AccountsTypeOK
<1> QED BY <1>4, <1>5

LEMMA TickKeeps ==
  ASSUME AccountsIInv, Tick, UNCHANGED kycVars
  PROVE  AccountsIInv'
<1> USE DEF AccountsIInv, Records
<1>0. minute \in Nat /\ minute' \in 1..LastMinute /\ minute <= minute'
  BY AuthAssumption DEF AccountsTypeOK, Tick
<1>1. /\ Later /\ \A j: Waits(j)
      /\ OneAtATime'
  BY <1>0, PapersAside DEF Tick
<1>2. CallsStand'
  <2>1. ASSUME NEW d \in Calls PROVE Stands(calls[d])'
    <3>1. PICK j \in CallState: j = calls[d]
      BY DEF AccountsTypeOK
    <3>2. Stands(j)'
      BY <3>1, <1>1, StandsLater DEF CallsStand
    <3> QED BY <3>1, <3>2 DEF Stands, Tick
  <2> QED BY <2>1 DEF CallsStand
<1>3. CallsApart'
  BY DEF CallsApart, Apart, Tick, kycVars
<1>4. RowsStand'
  <2>1. ASSUME NEW u \in Users, users[u] # None PROVE Sound(users[u], u)'
    <3>1. PICK row \in UserRow: row = users[u]
      BY <2>1 DEF AccountsTypeOK
    <3>2. Sound(row, u)'
      BY <3>1, <2>1, <1>1, SoundLater DEF RowsStand
    <3> QED BY <3>1, <3>2 DEF Sound, Tick
  <2> QED BY <2>1 DEF RowsStand, Tick
<1>5. PapersStand'
  BY DEF PapersStand, OwnPapers, kycVars, Tick
<1>6. ApprovedIsVerified'
  BY DEF ApprovedIsVerified, InFlightAt, At, Tick, kycVars
<1>7. AccountsTypeOK'
  BY <1>0 DEF AccountsTypeOK, kycVars, Tick
<1> QED BY <1>1, <1>2, <1>3, <1>4, <1>5, <1>6, <1>7

LEMMA AuthKeeps ==
  ASSUME AccountsIInv, AuthNext, UNCHANGED kycVars
  PROVE  AccountsIInv'
<1>1. ASSUME NEW c \in Calls, AuthStep(c) PROVE AccountsIInv'
  BY <1>1, SaveNewUserKeeps, RegisterFailedKeeps, AdmitRightPinKeeps, SavePinKeeps, SaveProfileKeeps,
     SessionStepKeeps, EndKeeps DEF AuthStep
<1> QED BY <1>1, AuthRequestKeeps, TickKeeps DEF AuthNext


-----------------------------------------------------------------------------
(* The steps of KycService.                                                 *)

LEMMA RowsLater ==
  ASSUME AccountsTypeOK, RowsStand, Later, UNCHANGED users
  PROVE  RowsStand'
<1> SUFFICES ASSUME NEW u \in Users, users[u] # None PROVE Sound(users[u], u)'
  BY DEF RowsStand
<1>1. PICK row \in UserRow: row = users[u]
  BY DEF AccountsTypeOK
<1>2. Sound(row, u)'
  BY <1>1, SoundLater DEF RowsStand
<1> QED BY <1>1, <1>2 DEF Sound

LEMMA AcceptUploadKeeps ==
  ASSUME AccountsIInv, NEW f \in Files, NEW owner \in Users \cup Strangers, AcceptUpload(f, owner)
  PROVE  AccountsIInv'
<1> USE DEF AccountsIInv, Records
<1>0. UNCHANGED <<authVars, submissions, overlapped>>
  BY DEF AcceptUpload
<1>1. \A u: Of(u)' = Of(u) /\ Pending(u)' = Pending(u)
  BY <1>0 DEF Of, Pending
<1>2. \A s: Approving(s)' <=> Approving(s)
  BY <1>0 DEF Approving
<1>3. \A u: Backed(u)' <=> Backed(u)
  BY <1>1, <1>2 DEF Backed
<1>4. CallsStand'
  <2>1. \A k: Stands(k)' <=> Stands(k)
    BY <1>0, <1>1, <1>2, <1>3 DEF Stands, Sound, authVars
  <2> QED BY <2>1, <1>0 DEF CallsStand, Stands, authVars
<1>5. CallsApart'
  BY <1>0 DEF CallsApart, Apart, authVars
<1>6. RowsStand'
  BY <1>0, <1>3 DEF RowsStand, Sound, authVars
<1>7. PapersStand'
  <2>1. ASSUME NEW s \in Submissions, submissions[s] # None PROVE OwnPapers(submissions[s])'
    <3>1. /\ OwnPapers(submissions[s]) /\ submissions[s].userId # None
          /\ submissions[s].idDocumentFileId \in Files /\ submissions[s].selfieFileId \in Files
      BY <2>1, KycAssumption DEF PapersStand, AccountsTypeOK, SubmissionRow
    <3>2. files' = [files EXCEPT ![f] = owner] /\ files[f] = None /\ files \in [Files -> Users \cup Strangers \cup {None}]
      BY DEF AcceptUpload, AccountsTypeOK
    <3> QED BY <3>1, <3>2, <1>0 DEF OwnPapers, authVars
  <2> QED BY <2>1, <1>0 DEF PapersStand
<1>8. OneAtATime'
  BY <1>0, <1>1 DEF OneAtATime
<1>9. ApprovedIsVerified'
  BY <1>0 DEF ApprovedIsVerified, InFlightAt, At, authVars
<1>10. AccountsTypeOK'
  <2>1. files' \in [Files -> Users \cup Strangers \cup {None}]
    BY DEF AcceptUpload, AccountsTypeOK
  <2> QED BY <1>0, <2>1 DEF AccountsTypeOK, authVars
<1> QED BY <1>4, <1>5, <1>6, <1>7, <1>8, <1>9, <1>10

\* A submit or a decision begins: another in flight of the same is marked.
LEMMA KycRequestKeeps ==
  ASSUME AccountsIInv, NEW c \in Calls, NEW k \in CallState, Begin(c, k), k.at # "tier",
         Stands(k), overlapped \subseteq overlapped', overlapped' \subseteq Users \cup Submissions,
         \A d \in Calls \ {c}: Apart(k, calls[d])',
         UNCHANGED <<users, sessions, tokens, minute, overwritten, died, files, submissions>>
  PROVE  AccountsIInv'
<1> USE DEF AccountsIInv, Records
<1>0. minute \in Nat
  BY AuthAssumption DEF AccountsTypeOK
<1>1. begun' \in 0..MaxCalls /\ calls' = [calls EXCEPT ![c] = k] /\ At(c, "idle") /\ ~At(c, "tier")
  BY AuthAssumption DEF Begin, AccountsTypeOK, At
<1>2. \A u: Of(u)' = Of(u) /\ Pending(u)' = Pending(u)
  BY DEF Of, Pending
<1>3. Later
  BY <1>0 DEF Later, Approving
<1>4. \A j: Waits(j)
  BY <1>2 DEF Waits
<1>5. Stands(k)'
  BY <1>3, <1>4, StandsLater
<1>6. CallsStand' /\ CallsApart' /\ calls' \in [Calls -> CallState]
  BY <1>1, <1>3, <1>4, <1>5, CallsLater
<1>7. RowsStand'
  BY <1>3, RowsLater
<1>8. PapersStand'
  BY DEF PapersStand, OwnPapers
<1>9. OneAtATime'
  BY <1>2 DEF OneAtATime
<1>10. ApprovedIsVerified'
  BY <1>1, ApprovedAside
<1>11. AccountsTypeOK'
  BY <1>1, <1>6 DEF AccountsTypeOK
<1> QED BY <1>6, <1>7, <1>8, <1>9, <1>10, <1>11

LEMMA FindNonePendingKeeps ==
  ASSUME AccountsIInv, NEW c \in Calls, NEW u \in Users, NEW papers \in Files \X Files,
         FindNonePending(c, u, papers)
  PROVE  AccountsIInv'
<1> DEFINE k == Call("submit", u, None, papers)
<1>1. k \in CallState
  BY FitsCall DEF Fits, Ats
<1>2. Begin(c, k)
  BY DEF FindNonePending
<1>3. users[u] # None /\ Pending(u) = {}
  BY DEF FindNonePending, AccountsIInv, AccountsTypeOK
<1>4. k.at = "submit" /\ k.user = u
  BY DEF Call
<1>5. Stands(k)
  BY <1>3, <1>4 DEF Stands, Copying
<1>6. overlapped \subseteq overlapped' /\ overlapped' \subseteq Users \cup Submissions
  BY DEF FindNonePending, AccountsIInv, AccountsTypeOK
<1>7. \A d \in Calls \ {c}: calls'[d] = calls[d]
  BY <1>2 DEF Begin, AccountsIInv, AccountsTypeOK
<1> HIDE DEF k
<1>k. PICK j \in CallState: j = k
  BY <1>1
<1>8. ASSUME NEW d \in Calls \ {c} PROVE Apart(j, calls[d])'
  <2>1. CASE calls[d].at = "submit" /\ calls[d].user = u
    <3>1. u \in overlapped'
      BY <2>1 DEF FindNonePending, At
    <3> QED BY <3>1, <1>4, <1>k DEF Apart
  <2>2. CASE ~(calls[d].at = "submit" /\ calls[d].user = u)
    BY <2>2, <1>7, <1>4, <1>k DEF Apart
  <2> QED BY <2>1, <2>2
<1> QED BY <1>2, <1>4, <1>5, <1>6, <1>8, <1>k, KycRequestKeeps DEF FindNonePending

LEMMA LoadForDecisionKeeps ==
  ASSUME AccountsIInv, NEW c \in Calls, NEW s \in Submissions, NEW verdict \in Verdict,
         LoadForDecision(c, s, verdict)
  PROVE  AccountsIInv'
<1>0. submissions[s] # None /\ submissions[s].status = "pending"
  BY DEF LoadForDecision
<1>u. PICK u \in Users: u = submissions[s].userId
  BY <1>0 DEF AccountsIInv, AccountsTypeOK, SubmissionRow
<1> DEFINE k == Call("decide", u, s, verdict)
<1>1. k \in CallState
  BY FitsCall DEF Fits, Ats
<1>2. Begin(c, k)
  BY <1>u DEF LoadForDecision
<1>3. users[u] # None
  BY <1>0, <1>u DEF AccountsIInv, Records, PapersStand, OwnPapers
<1>4. k.at = "decide" /\ k.user = u /\ k.read = s
  BY DEF Call
<1>5. Stands(k)
  BY <1>0, <1>u, <1>3, <1>4 DEF Stands, Copying
<1>6. overlapped \subseteq overlapped' /\ overlapped' \subseteq Users \cup Submissions
  BY DEF LoadForDecision, AccountsIInv, AccountsTypeOK
<1>7. \A d \in Calls \ {c}: calls'[d] = calls[d]
  BY <1>2 DEF Begin, AccountsIInv, AccountsTypeOK
<1> HIDE DEF k
<1>k. PICK j \in CallState: j = k
  BY <1>1
<1>8. ASSUME NEW d \in Calls \ {c} PROVE Apart(j, calls[d])'
  <2>1. CASE calls[d].at = "decide" /\ calls[d].read = s
    <3>1. s \in overlapped'
      BY <2>1 DEF LoadForDecision, At
    <3> QED BY <3>1, <1>4, <1>k DEF Apart
  <2>2. CASE ~(calls[d].at = "decide" /\ calls[d].read = s)
    BY <2>2, <1>7, <1>4, <1>k DEF Apart
  <2> QED BY <2>1, <2>2
<1> QED BY <1>2, <1>4, <1>5, <1>6, <1>8, <1>k, KycRequestKeeps DEF LoadForDecision


\* A refused submission leaves nothing behind.
LEMMA RefuseKeeps ==
  ASSUME AccountsIInv, NEW c \in Calls, SaveSubmission(c), ~Acceptable(calls[c].user, calls[c].arg)
  PROVE  AccountsIInv'
<1>1. ~At(c, "idle") /\ ~At(c, "tier")
  BY DEF SaveSubmission, At
<1>2. calls' = [calls EXCEPT ![c] = Idle] /\ begun' = begun /\ UNCHANGED submissions
  BY <1>1, Slots DEF SaveSubmission, Return, AccountsIInv
<1> QED BY <1>1, <1>2, IdleFits, QuietKeeps DEF SaveSubmission, AccountsIInv, AccountsTypeOK, kycVars

LEMMA SubmitKeeps ==
  ASSUME AccountsIInv, NEW c \in Calls, SaveSubmission(c), Acceptable(calls[c].user, calls[c].arg)
  PROVE  AccountsIInv'
<1> USE DEF AccountsIInv, Records
<1>1. ~At(c, "idle") /\ ~At(c, "tier") /\ calls[c].at = "submit"
  BY DEF SaveSubmission, At
<1>2. calls[c].user \in Users /\ calls[c].arg \in Files \X Files /\ users[calls[c].user] # None
  BY <1>1, InSlot DEF Fits, CallsStand, Stands
<1>v. PICK v \in Users, papers \in Files \X Files: v = calls[c].user /\ papers = calls[c].arg
  BY <1>2
<1> DEFINE row == [userId |-> v, idDocumentFileId |-> papers[1], selfieFileId |-> papers[2],
                   status |-> "pending", reviewerId |-> None]
<1>3. PICK s \in Submissions:
        /\ submissions[s] = None
        /\ submissions' = [submissions EXCEPT ![s] = row]
        /\ Conclude(c, "kyc.submitted", s)
  BY <1>v DEF SaveSubmission
<1>4. row \in SubmissionRow
  BY DEF SubmissionRow
<1>5. /\ row.userId = v /\ row.status = "pending"
      /\ row.idDocumentFileId = papers[1] /\ row.selfieFileId = papers[2]
  OBVIOUS
<1>6. row # None
  BY <1>4, KycAssumption
<1> HIDE DEF row
<1>7. submissions'[s] = row /\ \A t \in Submissions: t # s => submissions'[t] = submissions[t]
  BY <1>3 DEF AccountsTypeOK
<1>8. minute \in Nat
  BY AuthAssumption DEF AccountsTypeOK
<1>u. UNCHANGED <<users, sessions, tokens, minute, overwritten, died, files, overlapped>>
  BY DEF SaveSubmission
<1>9. Later
  BY <1>3, <1>7, <1>8, <1>u DEF Later, Approving
<1>10. \A u: u # v => Pending(u)' = Pending(u)
  BY <1>3, <1>5, <1>7 DEF Pending, Of
<1>11. v \in overlapped \/ (Pending(v) = {} /\ Pending(v)' = {s})
  <2>1. v \in overlapped \/ Pending(v) = {}
    BY <1>1, <1>v DEF CallsStand, Stands
  <2>2. Pending(v) = {} => Pending(v)' = {s}
    BY <1>3, <1>5, <1>6, <1>7 DEF Pending, Of
  <2> QED BY <2>1, <2>2
<1>12. ASSUME NEW d \in Calls \ {c} PROVE Waits(calls[d])
  <2>1. PICK j \in CallState: j = calls[d]
    BY DEF AccountsTypeOK
  <2>2. Stands(j) /\ Apart(calls[c], j)
    BY <2>1 DEF CallsStand, CallsApart
  <2>3. j.at = "submit" /\ Pending(j.user) = {} => j.user \in overlapped' \/ Pending(j.user)' = {}
    BY <1>1, <1>v, <1>10, <1>u, <2>2 DEF Apart
  <2>4. j.at = "decide" /\ submissions[j.read].status = "pending" =>
          j.read \in overlapped' \/ submissions'[j.read].status = "pending"
    BY <1>3, <1>7, <2>2, CallFits DEF Stands, Fits, Idle
  <2>5. Waits(j)
    BY <2>3, <2>4 DEF Waits
  <2> QED BY <2>1, <2>5
<1> DEFINE k == Call("audit", v, s, "kyc.submitted")
<1>13. calls' = [calls EXCEPT ![c] = k] /\ begun' = begun
  BY <1>1, <1>3, <1>v, Slots DEF Conclude
<1>14. k \in CallState /\ Stands(k)' /\ k.at = "audit"
  <2>1. users'[v] # None
    BY <1>2, <1>u, <1>v
  <2> QED BY <2>1, AuditFits DEF AuditActions
<1> HIDE DEF k
<1>15. \A d \in Calls \ {c}: Apart(k, calls[d])'
  BY <1>14 DEF Apart
<1>16. CallsStand' /\ CallsApart' /\ calls' \in [Calls -> CallState]
  BY <1>9, <1>12, <1>13, <1>14, <1>15, CallsLater
<1>17. RowsStand'
  BY <1>9, <1>u, RowsLater
<1>18. PapersStand'
  <2>1. OwnPapers(row)'
    BY <1>2, <1>5, <1>u, <1>v DEF OwnPapers, Acceptable
  <2>2. ASSUME NEW t \in Submissions, t # s, submissions[t] # None PROVE OwnPapers(submissions[t])'
    BY <1>7, <1>u, <2>2 DEF PapersStand, OwnPapers
  <2> QED BY <1>7, <2>1, <2>2 DEF PapersStand, OwnPapers
<1>19. OneAtATime'
  <2>1. ASSUME NEW u \in Users \ overlapped, NEW t1 \in Pending(u)', NEW t2 \in Pending(u)'
        PROVE  t1 = t2
    BY <1>10, <1>11 DEF OneAtATime
  <2> QED BY <2>1, <1>u DEF OneAtATime
<1>20. ApprovedIsVerified'
  BY <1>1, <1>5, <1>7, <1>13, <1>u, ApprovedAside
<1>21. AccountsTypeOK'
  <2>1. submissions' \in [Submissions -> SubmissionRow \cup {None}]
    BY <1>3, <1>4 DEF AccountsTypeOK
  <2> QED BY <1>13, <1>16, <1>u, <2>1 DEF AccountsTypeOK
<1> QED BY <1>16, <1>17, <1>18, <1>19, <1>20, <1>21

LEMMA SaveDecisionKeeps ==
  ASSUME AccountsIInv, NEW c \in Calls, SaveDecision(c)
  PROVE  AccountsIInv'
<1> USE DEF AccountsIInv, Records
<1>1. ~At(c, "idle") /\ ~At(c, "tier") /\ calls[c].at = "decide"
  BY DEF SaveDecision, At
<1>2. /\ calls[c].user \in Users /\ calls[c].read \in Submissions /\ calls[c].arg \in Verdict
      /\ users[calls[c].user] # None
  BY <1>1, InSlot DEF Fits, CallsStand, Stands
<1>v. PICK v \in Users, s \in Submissions, verdict \in Verdict:
        v = calls[c].user /\ s = calls[c].read /\ verdict = calls[c].arg
  BY <1>2
<1>3. /\ submissions[s] # None /\ submissions[s].userId = v
      /\ submissions[s].status = "pending" \/ s \in overlapped
  BY <1>1, <1>v DEF CallsStand, Stands
<1>r. PICK old \in SubmissionRow: old = submissions[s]
  BY <1>3 DEF AccountsTypeOK
<1> DEFINE row == [old EXCEPT !.status = verdict.decision, !.reviewerId = verdict.reviewer]
<1>4. row \in SubmissionRow
  BY DEF SubmissionRow, Verdict
<1>5. /\ row.userId = v /\ row.status = verdict.decision
      /\ row.idDocumentFileId = old.idDocumentFileId /\ row.selfieFileId = old.selfieFileId
  BY <1>3, <1>r DEF SubmissionRow
<1>6. row # None
  BY <1>4, KycAssumption
<1>e. submissions' = [submissions EXCEPT ![s] = row]
  BY <1>v, <1>r DEF SaveDecision, AccountsTypeOK
<1> HIDE DEF row
<1>7. submissions'[s] = row /\ \A t \in Submissions: t # s => submissions'[t] = submissions[t]
  BY <1>e DEF AccountsTypeOK
<1>8. minute \in Nat
  BY AuthAssumption DEF AccountsTypeOK
<1>d. verdict.decision \in {"approved", "rejected"}
  BY DEF Verdict, Decisions
<1>u. UNCHANGED <<users, sessions, tokens, minute, overwritten, died, files, overlapped>>
  BY DEF SaveDecision
<1>9. Later
  BY <1>3, <1>5, <1>6, <1>7, <1>8, <1>u DEF Later, Approving
<1>10. \A u: Pending(u)' \subseteq Pending(u)
  BY <1>5, <1>7, <1>d DEF Pending, Of
<1>12. ASSUME NEW d \in Calls \ {c} PROVE Waits(calls[d])
  <2>1. PICK j \in CallState: j = calls[d]
    BY DEF AccountsTypeOK
  <2>2. Stands(j) /\ Apart(calls[c], j)
    BY <2>1 DEF CallsStand, CallsApart
  <2>3. j.at = "submit" /\ Pending(j.user) = {} => Pending(j.user)' = {}
    BY <1>10
  <2>4. j.at = "decide" /\ submissions[j.read].status = "pending" =>
          j.read \in overlapped' \/ submissions'[j.read].status = "pending"
    <3>1. j.at = "decide" => j.read \in Submissions
      BY CallFits DEF Fits, Idle
    <3> QED BY <1>1, <1>v, <1>7, <1>u, <2>2, <3>1 DEF Apart
  <2>5. Waits(j)
    BY <2>3, <2>4 DEF Waits
  <2> QED BY <2>1, <2>5
<1>13. PICK k \in CallState:
         /\ calls' = [calls EXCEPT ![c] = k] /\ begun' = begun
         /\ k.user = v
         /\ \/ k.at = "tier" /\ k.read = s /\ verdict.decision = "approved"
            \/ k.at = "audit" /\ verdict.decision # "approved"
  <2>1. CASE verdict.decision = "approved"
    <3>1. calls' = [calls EXCEPT ![c] = Call("tier", v, s, verdict)] /\ begun' = begun
      BY <1>1, <1>v, <2>1, Slots DEF SaveDecision, GoOn
    <3>2. Call("tier", v, s, verdict) \in CallState
      BY FitsCall DEF Fits, Ats
    <3> QED BY <2>1, <3>1, <3>2 DEF Call
  <2>2. CASE verdict.decision # "approved"
    <3>1. calls' = [calls EXCEPT ![c] = Call("audit", v, s, "kyc.decision")] /\ begun' = begun
      BY <1>1, <1>v, <2>2, Slots DEF SaveDecision, Conclude
    <3>2. Call("audit", v, s, "kyc.decision") \in CallState
      BY FitsCall DEF Fits, Ats, AuditActions
    <3> QED BY <2>2, <3>1, <3>2 DEF Call
  <2> QED BY <2>1, <2>2
<1>14. Stands(k)'
  BY <1>2, <1>5, <1>6, <1>7, <1>13, <1>u, <1>v DEF Stands, Copying, Approving
<1>15. \A d \in Calls \ {c}: Apart(k, calls[d])'
  BY <1>13 DEF Apart
<1>16. CallsStand' /\ CallsApart' /\ calls' \in [Calls -> CallState]
  BY <1>9, <1>12, <1>13, <1>14, <1>15, CallsLater
<1>17. RowsStand'
  BY <1>9, <1>u, RowsLater
<1>18. PapersStand'
  <2>1. OwnPapers(row)'
    BY <1>3, <1>5, <1>r, <1>u DEF OwnPapers, PapersStand
  <2>2. ASSUME NEW t \in Submissions, t # s, submissions[t] # None PROVE OwnPapers(submissions[t])'
    BY <1>7, <1>u, <2>2 DEF PapersStand, OwnPapers
  <2> QED BY <1>7, <2>1, <2>2 DEF PapersStand, OwnPapers
<1>19. OneAtATime'
  BY <1>10, <1>u DEF OneAtATime
<1>20. ApprovedIsVerified'
  <2>1. ASSUME NEW t \in Submissions, submissions'[t] # None, submissions'[t].status = "approved"
        PROVE  submissions[t] = submissions'[t] \/ (k.at = "tier" /\ k.user = submissions'[t].userId)
    BY <1>5, <1>7, <1>13, <2>1
  <2> QED BY <1>1, <1>13, <1>u, <2>1, ApprovedAside
<1>21. AccountsTypeOK'
  <2>1. submissions' \in [Submissions -> SubmissionRow \cup {None}]
    BY <1>e, <1>4 DEF AccountsTypeOK
  <2> QED BY <1>13, <1>16, <1>u, <2>1 DEF AccountsTypeOK
<1> QED BY <1>16, <1>17, <1>18, <1>19, <1>20, <1>21

LEMMA RaiseTierKeeps ==
  ASSUME AccountsIInv, NEW c \in Calls, RaiseTier(c)
  PROVE  AccountsIInv'
<1> USE DEF AccountsIInv, Records
<1>1. ~At(c, "idle") /\ calls[c].at = "tier"
  BY DEF RaiseTier, At
<1>2. /\ calls[c].user \in Users /\ calls[c].read \in Submissions /\ users[calls[c].user] # None
      /\ submissions[calls[c].read] # None /\ submissions[calls[c].read].userId = calls[c].user
      /\ Approving(calls[c].read)
  BY <1>1, InSlot DEF Fits, CallsStand, Stands
<1>v. PICK v \in Users, s \in Submissions: v = calls[c].user /\ s = calls[c].read
  BY <1>2
<1>r. PICK old \in UserRow: old = users[v]
  BY <1>2, <1>v DEF AccountsTypeOK
<1> DEFINE row == [old EXCEPT !.tier = "verified"]
<1>3. row \in UserRow /\ row.lockedUntil = old.lockedUntil /\ row.tier = "verified"
  BY DEF UserRow
<1>4. users' = [users EXCEPT ![v] = row]
  BY <1>v, <1>r DEF RaiseTier
<1>5. row # None
  BY <1>3, AuthAssumption
<1> HIDE DEF row
<1>w. users'[v] = row /\ \A u \in Users: u # v => users'[u] = users[u]
  BY <1>4 DEF AccountsTypeOK
<1>u. UNCHANGED <<sessions, tokens, minute, overwritten, died, kycVars>>
  BY DEF RaiseTier
<1>6. minute \in Nat
  BY AuthAssumption DEF AccountsTypeOK
<1>7. /\ Later /\ \A j: Waits(j)
      /\ OneAtATime'
  BY <1>5, <1>6, <1>u, <1>w, PapersAside
<1>8. Sound(row, v)
  <2>1. Backed(v)
    BY <1>2, <1>v DEF Backed, Of
  <2>2. old.lockedUntil <= minute + LockFor
    BY <1>2, <1>r, <1>v DEF RowsStand, Sound
  <2> QED BY <1>3, <2>1, <2>2 DEF Sound
<1> DEFINE k == Call("audit", v, s, "kyc.decision")
<1>9. calls' = [calls EXCEPT ![c] = k] /\ begun' = begun
  BY <1>1, <1>v, Slots DEF RaiseTier, Conclude
<1>10. k \in CallState /\ Stands(k)' /\ k.at = "audit"
  BY <1>5, <1>w, AuditFits DEF AuditActions
<1> HIDE DEF k
<1>11. CallsStand' /\ CallsApart' /\ calls' \in [Calls -> CallState]
  <2>1. \A d \in Calls \ {c}: Waits(calls[d]) /\ Apart(k, calls[d])'
    BY <1>7, <1>10 DEF Apart
  <2> QED BY <1>7, <1>9, <1>10, <2>1, CallsLater
<1>12. RowsStand'
  <2>1. ASSUME NEW u \in Users, users'[u] # None PROVE Sound(users[u], u)'
    <3>1. CASE u = v
      <4>1. Sound(row, v)'
        BY <1>3, <1>7, <1>8, SoundLater
      <4> QED BY <4>1, <3>1, <1>w DEF Sound
    <3>2. CASE u # v
      <4>1. PICK mine \in UserRow: mine = users[u]
        BY <2>1, <3>2, <1>w DEF AccountsTypeOK
      <4>2. Sound(mine, u)'
        BY <4>1, <2>1, <3>2, <1>w, <1>7, SoundLater DEF RowsStand
      <4> QED BY <4>1, <4>2, <3>2, <1>w DEF Sound
    <3> QED BY <3>1, <3>2
  <2> QED BY <2>1 DEF RowsStand
<1>13. PapersStand'
  <2>1. \A t \in Submissions: submissions[t] # None => submissions[t].userId \in Users
    BY DEF AccountsTypeOK, SubmissionRow
  <2> QED BY <2>1, <1>5, <1>u, <1>w DEF PapersStand, OwnPapers, kycVars
<1>14. ApprovedIsVerified'
  <2>1. \A u \in Users: users[u] # None /\ users[u].tier = "verified" => users'[u].tier = "verified"
    BY <1>3, <1>w
  <2> QED BY <1>3, <1>9, <1>u, <1>v, <1>w, <2>1, ApprovedAside DEF kycVars
<1>15. AccountsTypeOK'
  <2>1. users' \in [Users -> UserRow \cup {None}]
    BY <1>3, <1>4 DEF AccountsTypeOK
  <2>2. tokens' \subseteq {u \in Users: users'[u] # None}
    BY <1>5, <1>u, <1>w DEF AccountsTypeOK
  <2> QED BY <1>9, <1>11, <1>u, <2>1, <2>2 DEF AccountsTypeOK, kycVars
<1> QED BY <1>7, <1>11, <1>12, <1>13, <1>14, <1>15


-----------------------------------------------------------------------------
(* The theorems.                                                            *)

LEMMA AccountsStart == Init => AccountsIInv
<1> SUFFICES ASSUME Init PROVE AccountsIInv
  OBVIOUS
<1> USE DEF Init, KycInit
<1>1. PICK known \in SUBSET Users, pin \in Pins:
        /\ users = [u \in Users |-> IF u \in known THEN NewRow(pin) ELSE None]
        /\ sessions = [s \in Users \X Devices |-> IF s[1] \in known THEN "live" ELSE None]
        /\ tokens = known
        /\ minute = 1 /\ begun = 0
        /\ calls = [c \in Calls |-> Idle]
        /\ overwritten = {} /\ died = {}
  BY DEF AuthInit
<1>2. NewRow(pin) \in UserRow /\ \A u: Sound(NewRow(pin), u)
  BY <1>1, NewRowFits
<1>3. NewRow(pin) # None
  BY <1>2, AuthAssumption
<1> DEFINE row == NewRow(pin)
<1> HIDE DEF row
<1>4. AccountsTypeOK
  <2>1. users \in [Users -> UserRow \cup {None}]
    BY <1>1, <1>2
  <2>2. tokens \subseteq {u \in Users: users[u] # None}
    BY <1>1, <1>3
  <2>3. calls \in [Calls -> CallState]
    BY <1>1, IdleFits
  <2>4. minute \in 1..LastMinute /\ begun \in 0..MaxCalls
    BY <1>1, AuthAssumption
  <2> QED BY <1>1, <2>1, <2>2, <2>3, <2>4 DEF AccountsTypeOK
<1>5. CallsStand /\ CallsApart
  BY <1>1 DEF CallsStand, CallsApart, Stands, Apart, Copying, Idle
<1>6. RowsStand
  BY <1>1, <1>2 DEF RowsStand, Sound
<1>7. PapersStand /\ ApprovedIsVerified
  BY DEF PapersStand, ApprovedIsVerified
<1>8. OneAtATime
  BY DEF OneAtATime, Pending, Of
<1> QED BY <1>4, <1>5, <1>6, <1>7, <1>8 DEF AccountsIInv, Records

LEMMA KycKeeps == ASSUME AccountsIInv, KycNext PROVE AccountsIInv'
<1>1. ASSUME NEW c \in Calls, KycRequest(c) PROVE AccountsIInv'
  BY <1>1, FindNonePendingKeeps, LoadForDecisionKeeps DEF KycRequest
<1>2. ASSUME NEW c \in Calls, KycStep(c) PROVE AccountsIInv'
  BY <1>2, RefuseKeeps, SubmitKeeps, SaveDecisionKeeps, RaiseTierKeeps DEF KycStep
<1> QED BY <1>1, <1>2, AcceptUploadKeeps DEF KycNext

LEMMA AccountsStep == AccountsIInv /\ [Next]_vars => AccountsIInv'
<1> SUFFICES ASSUME AccountsIInv, [Next]_vars PROVE AccountsIInv'
  OBVIOUS
<1>1. CASE Next
  BY <1>1, AuthKeeps, KycKeeps DEF Next
<1>2. CASE UNCHANGED vars
  <2> USE <1>2 DEF vars, authVars, kycVars
  <2>1. \A u: Of(u)' = Of(u) /\ Pending(u)' = Pending(u) /\ (Backed(u)' <=> Backed(u))
    BY DEF Of, Pending, Backed, Approving
  <2>2. CallsStand' /\ CallsApart'
    BY <2>1 DEF AccountsIInv, Records, CallsStand, CallsApart, Stands, Apart, Sound, Approving
  <2>3. RowsStand' /\ PapersStand' /\ OneAtATime'
    BY <2>1 DEF AccountsIInv, Records, RowsStand, PapersStand, OneAtATime, Sound, OwnPapers
  <2>4. AccountsTypeOK' /\ ApprovedIsVerified'
    BY DEF AccountsIInv, AccountsTypeOK, ApprovedIsVerified, InFlightAt, At
  <2> QED BY <2>2, <2>3, <2>4 DEF AccountsIInv, Records
<1> QED BY <1>1, <1>2

LEMMA Counts ==
  /\ \A a, b: a # b => Cardinality({a, b}) = 2
  /\ \A S: (\A s, t \in S: s = t) => Cardinality(S) <= 1
<1>1. ASSUME NEW a, NEW b, a # b PROVE Cardinality({a, b}) = 2
  <2>1. IsFiniteSet({a}) /\ Cardinality({a}) = 1
    BY FS_Singleton
  <2>2. Cardinality({a} \cup {b}) = Cardinality({a}) + 1
    BY <1>1, <2>1, FS_AddElement
  <2>3. {a, b} = {a} \cup {b}
    OBVIOUS
  <2> QED BY <2>1, <2>2, <2>3
<1>2. ASSUME NEW S, \A s, t \in S: s = t PROVE Cardinality(S) <= 1
  <2>1. CASE S = {}
    BY <2>1, FS_EmptySet
  <2>2. CASE S # {}
    <3>1. PICK s \in S: TRUE
      BY <2>2
    <3>2. S = {s}
      BY <1>2, <3>1
    <3>3. Cardinality(S) = 1
      BY <3>2, FS_Singleton
    <3> QED BY <3>3
  <2> QED BY <2>1, <2>2
<1> QED BY <1>1, <1>2

LEMMA AccountsInvFollows == AccountsIInv => AccountsInv
<1> SUFFICES ASSUME AccountsIInv PROVE VerifiedOnOwnPapers /\ OnePending
  BY DEF AccountsInv, AccountsIInv
<1> USE DEF AccountsIInv, Records
<1>1. ASSUME NEW u \in Users, users[u] # None, users[u].tier = "verified"
      PROVE  \E s \in Of(u):
               /\ submissions[s].status = "approved" \/ s \in overlapped
               /\ Cardinality({submissions[s].idDocumentFileId, submissions[s].selfieFileId}) = 2
               /\ files[submissions[s].idDocumentFileId] = u /\ files[submissions[s].selfieFileId] = u
  <2>1. PICK s \in Of(u): Approving(s)
    BY <1>1 DEF RowsStand, Sound, Backed
  <2>2. OwnPapers(submissions[s]) /\ submissions[s].userId = u
    BY <2>1 DEF PapersStand, Of
  <2> QED BY <2>1, <2>2, Counts DEF OwnPapers, Approving
<1>2. ASSUME NEW u \in Users \ overlapped PROVE Cardinality(Pending(u)) <= 1
  <2>1. \A s, t \in Pending(u): s = t
    BY DEF OneAtATime
  <2> QED BY <2>1, Counts
<1> QED BY <1>1, <1>2 DEF VerifiedOnOwnPapers, OnePending

\* In every reachable state an account's tier rests on two different photos of
\* its own that were approved, an approval has reached the tier or is accounted
\* for, and a user has at most one pending submission: AuthService and
\* KycService, any number of their calls interleaved and dying.
THEOREM AccountsStand == Spec => []AccountsInv
<1>1. Spec => []AccountsIInv
  BY AccountsStart, AccountsStep, PTL DEF Spec
<1> QED BY <1>1, AccountsInvFollows, PTL


-----------------------------------------------------------------------------
(* What a step may do to a row that was not saved over.                     *)

KeptRow(old, new) == ChangeOneColumn(old, new) /\ KeepLock(old, new)

\* Only one of the three columns differs, the tier does not fall, and the lock
\* is as long and its count as high as they were.
LEMMA RowKept ==
  ASSUME NEW old \in UserRow, NEW new \in UserRow,
         \/ new.pinHash = old.pinHash /\ new.tier = old.tier
         \/ new.pinHash = old.pinHash /\ new.profile = old.profile
         \/ new.tier = old.tier /\ new.profile = old.profile,
         new.tier \in {old.tier, "verified"},
         Locked(old) => new.lockedUntil >= old.lockedUntil /\ new.failedPinAttempts >= old.failedPinAttempts
  PROVE  KeptRow(old, new)
<1>1. /\ new["pinHash"] = new.pinHash /\ new["tier"] = new.tier /\ new["profile"] = new.profile
      /\ old["pinHash"] = old.pinHash /\ old["tier"] = old.tier /\ old["profile"] = old.profile
  OBVIOUS
<1>2. \A x, y \in Columns: new[x] # old[x] /\ new[y] # old[y] => x = y
  BY <1>1 DEF Columns
<1>3. old.tier = "verified" => new.tier = "verified"
  OBVIOUS
<1> QED BY <1>2, <1>3 DEF KeptRow, ChangeOneColumn, KeepLock

LEMMA SameRowKept ==
  ASSUME NEW old \in UserRow
  PROVE  KeptRow(old, old)
<1>1. old.lockedUntil \in Int /\ old.failedPinAttempts \in Int
  BY AuthAssumption DEF UserRow
<1> QED BY <1>1, RowKept

\* What a step may do to the account of u.
Kept(u) ==
  users[u] # None =>
    /\ users'[u] # None
    /\ u \notin overwritten' => KeptRow(users[u], users'[u])

LEMMA UntouchedKept ==
  ASSUME AccountsTypeOK, NEW u \in Users, users'[u] = users[u]
  PROVE  Kept(u)
<1>1. CASE users[u] = None
  BY <1>1 DEF Kept
<1>2. CASE users[u] # None
  <2>1. users[u] \in UserRow
    BY <1>2 DEF AccountsTypeOK
  <2> QED BY <1>2, <2>1, SameRowKept DEF Kept
<1> QED BY <1>1, <1>2

\* A handler that saves its copy, changed in a way a row may change: either the
\* row was still the copy, or it was saved over.
LEMMA SavedKept ==
  ASSUME AccountsTypeOK, NEW c \in Calls, calls[c].user \in Users, calls[c].read \in UserRow,
         NEW row \in UserRow, Save(c, row), KeptRow(calls[c].read, row), NEW u \in Users
  PROVE  Kept(u)
<1> DEFINE v == calls[c].user
<1>1. CASE u # v
  <2>1. users'[u] = users[u]
    BY <1>1 DEF Save, AccountsTypeOK
  <2> QED BY <2>1, UntouchedKept
<1>2. CASE u = v
  <2>1. users'[v] = row /\ row # None
    BY AuthAssumption DEF Save, AccountsTypeOK
  <2>2. calls[c].read = users[v] \/ v \in overwritten'
    BY AuthAssumption DEF Save
  <2> QED BY <1>2, <2>1, <2>2 DEF Kept
<1> QED BY <1>1, <1>2

LEMMA AccountSteps ==
  ASSUME AccountsIInv, Next, NEW u \in Users
  PROVE  Kept(u)
<1> USE DEF AccountsIInv, Records
<1>0. CASE users'[u] = users[u]
  BY <1>0, UntouchedKept
<1>1. ASSUME NEW c \in Calls, SaveNewUser(c) PROVE Kept(u)
  <2>1. CASE users[calls[c].user] = None
    <3>1. users[u] = None \/ users'[u] = users[u]
      BY <1>1, <2>1 DEF SaveNewUser, Save, AccountsTypeOK
    <3> QED BY <3>1, UntouchedKept DEF Kept
  <2>2. CASE users[calls[c].user] # None
    BY <1>1, <2>2, UntouchedKept DEF SaveNewUser
  <2> QED BY <2>1, <2>2
<1>2. ASSUME NEW c \in Calls, RegisterFailedPinAttempt(c) PROVE Kept(u)
  <2> DEFINE r == calls[c].read
             until == IF r.failedPinAttempts + 1 >= LockAfter THEN minute + LockFor ELSE r.lockedUntil
             n == r.failedPinAttempts + 1
             row == [r EXCEPT !.failedPinAttempts = n, !.lockedUntil = until]
  <2>1. calls[c].user \in Users /\ r \in UserRow /\ Sound(r, calls[c].user)
    BY <1>2, HeldRow DEF RegisterFailedPinAttempt, At, Copying
  <2>2. r.failedPinAttempts < MaxWrong
    BY <1>2 DEF RegisterFailedPinAttempt, At, CallsStand, Stands
  <2>3. row \in UserRow /\ row.tier = r.tier
    BY <2>1, <2>2, RowSaved
  <2>4. Save(c, row)
    BY <1>2, <2>1 DEF RegisterFailedPinAttempt, UserRow
  <2>5. /\ row.failedPinAttempts = n /\ row.lockedUntil = until
        /\ row.pinHash = r.pinHash /\ row.profile = r.profile
    BY <2>1 DEF UserRow
  <2>6. n >= r.failedPinAttempts /\ until >= r.lockedUntil
    <3>1. /\ r.failedPinAttempts \in Nat /\ r.lockedUntil \in Nat /\ minute \in Nat
          /\ r.lockedUntil <= minute + LockFor
      BY <2>1, AuthAssumption DEF UserRow, Sound, AccountsTypeOK
    <3> QED BY <3>1, AuthAssumption
  <2> HIDE DEF row, n, until
  <2>7. KeptRow(r, row)
    BY <2>1, <2>3, <2>5, <2>6, RowKept
  <2> QED BY <2>1, <2>3, <2>4, <2>7, SavedKept
<1>3. ASSUME NEW c \in Calls, AdmitRightPin(c) PROVE Kept(u)
  <2> DEFINE r == calls[c].read  row == Unlocked(r)
  <2>1. calls[c].user \in Users /\ r \in UserRow /\ Sound(r, calls[c].user)
    BY <1>3, HeldRow DEF AdmitRightPin, At, Copying
  <2>2. CASE UNCHANGED users
    BY <2>2, UntouchedKept
  <2>3. CASE ~Locked(r) /\ Save(c, row)
    <3>1. row \in UserRow /\ row.tier = r.tier
      BY <2>1, RowSaved
    <3>2. row.pinHash = r.pinHash /\ row.profile = r.profile
      BY <2>1 DEF UserRow, Unlocked
    <3> HIDE DEF row
    <3>3. KeptRow(r, row)
      BY <2>1, <2>3, <3>1, <3>2, RowKept
    <3> QED BY <2>1, <2>3, <3>1, <3>3, SavedKept
  <2> QED BY <1>3, <2>2, <2>3 DEF AdmitRightPin
<1>4. ASSUME NEW c \in Calls, SavePin(c) PROVE Kept(u)
  <2> DEFINE r == calls[c].read  row == [r EXCEPT !.pinHash = calls[c].arg]
  <2>1. calls[c].user \in Users /\ r \in UserRow /\ Sound(r, calls[c].user) /\ calls[c].arg \in Pins
    BY <1>4, HeldRow, InSlot DEF SavePin, At, Copying, Fits
  <2>2. row \in UserRow /\ row.tier = r.tier
    BY <2>1, RowSaved
  <2>3. /\ row.profile = r.profile
        /\ row.lockedUntil = r.lockedUntil /\ row.failedPinAttempts = r.failedPinAttempts
        /\ r.lockedUntil \in Int /\ r.failedPinAttempts \in Int
    BY <2>1, AuthAssumption DEF UserRow
  <2>4. Save(c, row)
    BY <1>4 DEF SavePin
  <2> HIDE DEF row
  <2>5. KeptRow(r, row)
    BY <2>1, <2>2, <2>3, RowKept
  <2> QED BY <2>1, <2>2, <2>4, <2>5, SavedKept
<1>5. ASSUME NEW c \in Calls, SaveProfile(c) PROVE Kept(u)
  <2> DEFINE r == calls[c].read  row == [r EXCEPT !.profile = calls[c].arg]
  <2>1. calls[c].user \in Users /\ r \in UserRow /\ Sound(r, calls[c].user) /\ calls[c].arg \in Profiles
    BY <1>5, HeldRow, InSlot DEF SaveProfile, At, Copying, Fits
  <2>2. row \in UserRow /\ row.tier = r.tier
    BY <2>1, RowSaved
  <2>3. /\ row.pinHash = r.pinHash
        /\ row.lockedUntil = r.lockedUntil /\ row.failedPinAttempts = r.failedPinAttempts
        /\ r.lockedUntil \in Int /\ r.failedPinAttempts \in Int
    BY <2>1, AuthAssumption DEF UserRow
  <2>4. Save(c, row)
    BY <1>5 DEF SaveProfile
  <2> HIDE DEF row
  <2>5. KeptRow(r, row)
    BY <2>1, <2>2, <2>3, RowKept
  <2> QED BY <2>1, <2>2, <2>4, <2>5, SavedKept
<1>6. ASSUME NEW c \in Calls, RaiseTier(c) PROVE Kept(u)
  <2>1. ~At(c, "idle")
    BY <1>6 DEF RaiseTier, At
  <2>2. calls[c].user \in Users /\ users[calls[c].user] # None
    BY <1>6, <2>1, InSlot DEF RaiseTier, At, Fits, CallsStand, Stands
  <2>3. CASE u # calls[c].user
    <3>1. users'[u] = users[u]
      BY <1>6, <2>3 DEF RaiseTier, AccountsTypeOK
    <3> QED BY <3>1, UntouchedKept
  <2>4. CASE u = calls[c].user
    <3>1. PICK old \in UserRow: old = users[u]
      BY <2>2, <2>4 DEF AccountsTypeOK
    <3> DEFINE row == [old EXCEPT !.tier = "verified"]
    <3>2. users'[u] = row
      BY <1>6, <2>4, <3>1 DEF RaiseTier, AccountsTypeOK
    <3>3. /\ row \in UserRow /\ row.tier = "verified"
          /\ row.pinHash = old.pinHash /\ row.profile = old.profile
          /\ row.lockedUntil = old.lockedUntil /\ row.failedPinAttempts = old.failedPinAttempts
          /\ old.lockedUntil \in Int /\ old.failedPinAttempts \in Int
      BY AuthAssumption DEF UserRow
    <3> HIDE DEF row
    <3>4. KeptRow(old, row) /\ row # None
      BY <3>3, RowKept, AuthAssumption
    <3> QED BY <3>1, <3>2, <3>4 DEF Kept
  <2> QED BY <2>3, <2>4
<1>7. CASE AuthNext
  <2>1. UNCHANGED users \/ \E c \in Calls: \/ SaveNewUser(c) \/ RegisterFailedPinAttempt(c) \/ AdmitRightPin(c)
                                           \/ SavePin(c) \/ SaveProfile(c)
    BY <1>7 DEF AuthNext, AuthStep, AuthRequest, Tick, FindSession, SaveSession, SaveRevocation, Answer, Die,
                FindNoUser, LoadForPin, LoadForRevocation, LoadForLogin, LoadForProfile
  <2> QED BY <2>1, <1>0, <1>1, <1>2, <1>3, <1>4, <1>5
<1>8. CASE KycNext
  <2>1. UNCHANGED users \/ \E c \in Calls: RaiseTier(c)
    BY <1>8 DEF KycNext, KycRequest, KycStep, AcceptUpload, FindNonePending, LoadForDecision,
                SaveSubmission, SaveDecision, authVars
  <2> QED BY <2>1, <1>0, <1>6
<1> QED BY <1>7, <1>8 DEF Next

\* An account once made stays, and of one that no stale copy was saved over the
\* PIN, the tier and the profile change one at a time, the tier never falls,
\* and no step shortens a running lock or forgets the wrong PINs behind it.
THEOREM AccountsStayTheirs == Spec => AccountsAreKept
<1>1. Spec => []AccountsIInv
  BY AccountsStart, AccountsStep, PTL DEF Spec
<1>2. AccountsIInv /\ [Next]_vars =>
        [\A u \in Users: users[u] # None =>
           /\ users'[u] # None
           /\ u \notin overwritten' => ChangeOneColumn(users[u], users'[u]) /\ KeepLock(users[u], users'[u])]_vars
  BY AccountSteps DEF Kept, KeptRow
<1> QED BY <1>1, <1>2, PTL DEF Spec, AccountsAreKept

LEMMA DecisionSteps ==
  ASSUME AccountsIInv, Next, NEW s \in Submissions, submissions[s] # None
  PROVE  /\ submissions'[s] # None
         /\ submissions[s].status # "pending" /\ s \notin overlapped => submissions'[s] = submissions[s]
<1> USE DEF AccountsIInv, Records
<1>0. CASE submissions'[s] = submissions[s]
  BY <1>0
<1>1. ASSUME NEW c \in Calls, SaveSubmission(c) PROVE submissions'[s] = submissions[s]
  BY <1>1 DEF SaveSubmission, AccountsTypeOK
<1>2. ASSUME NEW c \in Calls, SaveDecision(c), calls[c].read # s PROVE submissions'[s] = submissions[s]
  BY <1>2 DEF SaveDecision, AccountsTypeOK
<1>3. ASSUME NEW c \in Calls, SaveDecision(c), calls[c].read = s
      PROVE  submissions'[s] # None /\ (submissions[s].status = "pending" \/ s \in overlapped)
  <2>1. submissions[s].status = "pending" \/ s \in overlapped
    BY <1>3 DEF SaveDecision, At, CallsStand, Stands
  <2>2. PICK old \in SubmissionRow: old = submissions[s]
    BY DEF AccountsTypeOK
  <2>3. calls[c].arg \in Verdict
    BY <1>3, InSlot DEF SaveDecision, At, Fits
  <2> DEFINE row == [old EXCEPT !.status = calls[c].arg.decision, !.reviewerId = calls[c].arg.reviewer]
  <2>4. row \in SubmissionRow
    BY <2>3 DEF SubmissionRow, Verdict
  <2>5. submissions'[s] = row
    BY <1>3, <2>2 DEF SaveDecision, AccountsTypeOK
  <2> QED BY <2>1, <2>4, <2>5, KycAssumption
<1>4. CASE AuthNext /\ UNCHANGED kycVars
  BY <1>0, <1>4 DEF kycVars
<1>5. CASE KycNext
  <2>1. UNCHANGED submissions \/ \E c \in Calls: SaveSubmission(c) \/ SaveDecision(c)
    BY <1>5 DEF KycNext, KycRequest, KycStep, AcceptUpload, FindNonePending, LoadForDecision,
                RaiseTier, kycVars
  <2> QED BY <2>1, <1>0, <1>1, <1>2, <1>3
<1> QED BY <1>4, <1>5 DEF Next

\* A decided submission keeps its decision, unless two decisions of it were in
\* flight at once.
THEOREM DecisionsAreFinal == Spec => DecidedStays
<1>1. Spec => []AccountsIInv
  BY AccountsStart, AccountsStep, PTL DEF Spec
<1>2. AccountsIInv /\ [Next]_vars =>
        [\A s \in Submissions: submissions[s] # None =>
           /\ submissions'[s] # None
           /\ submissions[s].status # "pending" /\ s \notin overlapped => submissions'[s] = submissions[s]]_vars
  BY DecisionSteps
<1> QED BY <1>1, <1>2, PTL DEF Spec, DecidedStays
=============================================================================
