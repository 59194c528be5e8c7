-------------------------------- MODULE Kyc ---------------------------------
(***************************************************************************)
(* KycService (modules/kyc/kyc.service.ts): a user submits two uploaded    *)
(* photos, a reviewer decides, an approval raises the user's tier in the   *)
(* users table that AuthService saves whole rows to.                       *)
(***************************************************************************)
EXTENDS Auth

CONSTANTS Files,        \* uploaded_files ids
          Strangers,    \* other owners of files
          Submissions,  \* kyc_submissions rows that may be made
          Reviewers     \* admin ids

Decisions == {"approved", "rejected"}
Verdict == [decision: Decisions, reviewer: Reviewers]

SubmissionRow ==
  [userId: Users, idDocumentFileId: Files, selfieFileId: Files,
   status: {"pending"} \cup Decisions, reviewerId: Reviewers \cup {None}]

ASSUME KycAssumption == None \notin Users \cup Strangers \cup SubmissionRow

VARIABLES files,        \* file -> its owner, or None
          submissions,  \* submission -> its row, or None
          overlapped    \* users that had two submissions, and submissions that
                        \* had two decisions, in flight at once

kycVars == <<files, submissions, overlapped>>
vars == <<authVars, kycVars>>

Of(u) == {s \in Submissions: submissions[s] # None /\ submissions[s].userId = u}
Pending(u) == {s \in Of(u): submissions[s].status = "pending"}

KycInit ==
  /\ AuthInit
  /\ files = [f \in Files |-> None]
  /\ submissions = [s \in Submissions |-> None]
  /\ overlapped = {}

-----------------------------------------------------------------------------
\* UploadsService.accept left the row of a file (module Uploads).
AcceptUpload(f, owner) ==
  /\ files[f] = None
  /\ owner \in Users => users[owner] # None
  /\ files' = [files EXCEPT ![f] = owner]
  /\ UNCHANGED <<authVars, submissions, overlapped>>

\* Mutant of FindNonePending: what is pending is not looked at.
FindAny(c, u, papers) ==
  /\ u \in tokens
  /\ Begin(c, Call("submit", u, None, papers))
  /\ UNCHANGED <<users, sessions, tokens, minute, auditLog, overwritten, died, kycVars>>

\* submit: nothing of the user's may be pending.
FindNonePending(c, u, papers) ==
  /\ u \in tokens /\ Pending(u) = {}
  /\ Begin(c, Call("submit", u, None, papers))
  /\ overlapped' = IF \E d \in Calls: At(d, "submit") /\ calls[d].user = u
                   THEN overlapped \cup {u} ELSE overlapped
  /\ UNCHANGED <<users, sessions, tokens, minute, auditLog, overwritten, died, files, submissions>>

\* Mutant of Acceptable: the papers need only exist.
AcceptableOfAnyone(u, papers) ==
  files[papers[1]] # None /\ files[papers[2]] # None /\ papers[1] # papers[2]

Acceptable(u, papers) == files[papers[1]] = u /\ files[papers[2]] = u /\ papers[1] # papers[2]

\* assertOwnedBy and the check that they are two photos, then the row. Rows of
\* uploaded_files never change, so when they are read does not matter.
SaveSubmission(c) ==
  LET u == calls[c].user
      papers == calls[c].arg
  IN
  /\ At(c, "submit")
  /\ IF Acceptable(u, papers)
     THEN \E s \in Submissions:
            /\ submissions[s] = None
            /\ submissions' = [submissions EXCEPT ![s] =
                 [userId |-> u, idDocumentFileId |-> papers[1], selfieFileId |-> papers[2],
                  status |-> "pending", reviewerId |-> None]]
            /\ Conclude(c, "kyc.submitted", s)
     ELSE Return(c) /\ UNCHANGED submissions
  /\ UNCHANGED <<users, sessions, tokens, minute, auditLog, overwritten, died, files, overlapped>>

\* Mutant of LoadForDecision: the status is not looked at.
LoadAnyForDecision(c, s, verdict) ==
  /\ submissions[s] # None
  /\ Begin(c, Call("decide", submissions[s].userId, s, verdict))
  /\ UNCHANGED <<users, sessions, tokens, minute, auditLog, overwritten, died, kycVars>>

\* decide: the submission must be pending as it is read.
LoadForDecision(c, s, verdict) ==
  /\ submissions[s] # None /\ submissions[s].status = "pending"
  /\ Begin(c, Call("decide", submissions[s].userId, s, verdict))
  /\ overlapped' = IF \E d \in Calls: At(d, "decide") /\ calls[d].read = s
                   THEN overlapped \cup {s} ELSE overlapped
  /\ UNCHANGED <<users, sessions, tokens, minute, auditLog, overwritten, died, files, submissions>>

\* Mutant of SaveDecision: the tier left as it is.
SaveDecisionOnly(c) ==
  /\ At(c, "decide")
  /\ submissions' = [submissions EXCEPT ![calls[c].read].status = calls[c].arg.decision,
                                        ![calls[c].read].reviewerId = calls[c].arg.reviewer]
  /\ Conclude(c, "kyc.decision", calls[c].read)
  /\ UNCHANGED <<users, sessions, tokens, minute, auditLog, overwritten, died, files, overlapped>>

\* The row, whatever its status has become; an approval goes on to the tier.
SaveDecision(c) ==
  LET s == calls[c].read
      verdict == calls[c].arg
  IN
  /\ At(c, "decide")
  /\ submissions' = [submissions EXCEPT ![s].status = verdict.decision,
                                        ![s].reviewerId = verdict.reviewer]
  /\ IF verdict.decision = "approved" THEN GoOn(c, "tier") ELSE Conclude(c, "kyc.decision", s)
  /\ UNCHANGED <<users, sessions, tokens, minute, auditLog, overwritten, died, files, overlapped>>

\* users.update({id}, {tier}): this column alone, in the database.
RaiseTier(c) ==
  /\ At(c, "tier")
  /\ users' = [users EXCEPT ![calls[c].user].tier = "verified"]
  /\ Conclude(c, "kyc.decision", calls[c].read)
  /\ UNCHANGED <<sessions, tokens, minute, auditLog, overwritten, died, kycVars>>

KycRequest(c) ==
  \/ \E u \in Users, papers \in Files \X Files: FindNonePending(c, u, papers)
  \/ \E s \in Submissions, verdict \in Verdict: LoadForDecision(c, s, verdict)

KycStep(c) == SaveSubmission(c) \/ SaveDecision(c) \/ RaiseTier(c)
KycNext ==
  \/ \E f \in Files, owner \in Users \cup Strangers: AcceptUpload(f, owner)
  \/ \E c \in Calls: KycRequest(c) \/ KycStep(c)
=============================================================================
