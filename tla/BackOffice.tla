----------------------------- MODULE BackOffice -----------------------------
(***************************************************************************)
(* The support and compliance services as one process runs them: their     *)
(* handlers share the slots, so that any two of them overlap.              *)
(***************************************************************************)
EXTENDS Support, Oversight

backOfficeVars == <<supportVars, oversightVars, handlerVars>>

BackOfficeInit == HandlersInit /\ SupportInit /\ OversightInit

BackOfficeNext ==
  \/ \E c \in Calls:
       \/ SupportStep(c) /\ UNCHANGED oversightVars
       \/ OversightStep(c) /\ UNCHANGED supportVars
       \/ (Record(c) \/ Die(c)) /\ UNCHANGED <<supportVars, oversightVars>>
  \/ \E a \in Amounts: PostTopup(a) /\ UNCHANGED supportVars

BackOfficeSpec == BackOfficeInit /\ [][BackOfficeNext]_backOfficeVars

-----------------------------------------------------------------------------
(* Properties *)

\* Every row has its columns, every ticket its text, and the answered ones are
\* off the pile of open ones.
BackOfficeInv ==
  /\ SupportTypeOK /\ OversightTypeOK
  /\ TicketsHaveTheirText /\ AnsweredIsNotOpen

\* No step of any call brings back what was put away, or loses what another
\* call filed, but for the reasons named in Support and Oversight.
RecordsAreKept == [][PutAwayStaysAway /\ FilesAreKept]_backOfficeVars
=============================================================================
