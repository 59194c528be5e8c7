------------------------------ MODULE Accounts ------------------------------
(***************************************************************************)
(* AuthService and KycService on one users table: what holds of an account *)
(* when their calls interleave at every await, save rows they read before, *)
(* and die half-way.                                                       *)
(***************************************************************************)
EXTENDS Kyc

Init == KycInit

Next == (AuthNext /\ UNCHANGED kycVars) \/ KycNext

Spec == Init /\ [][Next]_vars

-----------------------------------------------------------------------------
AuditActions ==
  {"auth.register", "auth.pin_failed", "auth.login", "auth.pin_changed", "auth.profile_updated",
   "auth.device_revoked", "kyc.submitted", "kyc.decision"}

CallState ==
  {Idle}
  \cup [at: {"register"}, user: Users, read: {None}, arg: Pins]
  \cup [at: {"rightPin", "wrongPin"}, user: Users, read: UserRow, arg: Devices]
  \cup [at: {"device"}, user: Users, read: UserRow, arg: Devices]
  \cup [at: {"session", "revocation"}, user: Users, read: {None, "live", "revoked"}, arg: Devices]
  \cup [at: {"pin"}, user: Users, read: UserRow, arg: Pins]
  \cup [at: {"profile"}, user: Users, read: UserRow, arg: Profiles]
  \cup [at: {"submit"}, user: Users, read: {None}, arg: Files \X Files]
  \cup [at: {"decide", "tier"}, user: Users, read: Submissions, arg: Verdict]
  \cup [at: {"audit"}, user: Users, read: Users \cup (Users \X Devices) \cup Submissions,
         arg: AuditActions]

AccountsTypeOK ==
  /\ users \in [Users -> UserRow \cup {None}]
  /\ sessions \in [Users \X Devices -> {None, "live", "revoked"}]
  /\ tokens \subseteq {u \in Users: users[u] # None}
  /\ minute \in 1..LastMinute
  /\ calls \in [Calls -> CallState]
  /\ begun \in 0..MaxCalls
  /\ overwritten \cup died \subseteq Users
  /\ files \in [Files -> Users \cup Strangers \cup {None}]
  /\ submissions \in [Submissions -> SubmissionRow \cup {None}]
  /\ overlapped \subseteq Users \cup Submissions

InFlightAt(at, u) == \E c \in Calls: At(c, at) /\ calls[c].user = u

\* A person's account is one row for good: the second of two registrations
\* does not take it over, whatever ran in between. Of an account that no stale
\* row object was saved over, the PIN, the profile and the tier change only
\* one at a time, no call takes the tier back, and while a lock runs nothing
\* lifts it and nothing forgets the wrong PINs that led to it.
Columns == {"pinHash", "tier", "profile"}
ChangeOneColumn(old, new) ==
  /\ \A x, y \in Columns: new[x] # old[x] /\ new[y] # old[y] => x = y
  /\ old.tier = "verified" => new.tier = "verified"
KeepLock(old, new) ==
  Locked(old) => new.lockedUntil >= old.lockedUntil /\ new.failedPinAttempts >= old.failedPinAttempts
AccountsAreKept ==
  [][\A u \in Users: users[u] # None =>
       /\ users'[u] # None
       /\ u \notin overwritten' => ChangeOneColumn(users[u], users'[u]) /\ KeepLock(users[u], users'[u])
    ]_vars

\* A verified user stands on papers of their own: two different files that
\* belong to them, in a submission that was approved. Two decisions of one
\* submission in flight at once may leave it rejected all the same.
VerifiedOnOwnPapers ==
  \A u \in Users: users[u] # None /\ users[u].tier = "verified" =>
    \E s \in Of(u):
      /\ submissions[s].status = "approved" \/ s \in overlapped
      /\ Cardinality({submissions[s].idDocumentFileId, submissions[s].selfieFileId}) = 2
      /\ files[submissions[s].idDocumentFileId] = u /\ files[submissions[s].selfieFileId] = u

\* An approved user is verified, unless the approval is on its way or died, or
\* a row object from before the approval was saved.
ApprovedIsVerified ==
  \A s \in Submissions: submissions[s] # None /\ submissions[s].status = "approved" =>
    LET u == submissions[s].userId IN
    users[u].tier = "verified" \/ InFlightAt("tier", u) \/ u \in overwritten \cup died

\* A user has at most one pending submission, unless two calls for it were in
\* flight at once.
OnePending == \A u \in Users \ overlapped: Cardinality(Pending(u)) <= 1

\* The three together, on rows of the right types.
AccountsInv == AccountsTypeOK /\ VerifiedOnOwnPapers /\ ApprovedIsVerified /\ OnePending

\* A decided submission stays as it was decided, unless two decisions of it
\* were in flight at once.
DecidedStays ==
  [][\A s \in Submissions: submissions[s] # None =>
       /\ submissions'[s] # None
       /\ submissions[s].status # "pending" /\ s \notin overlapped => submissions'[s] = submissions[s]]_vars
=============================================================================
