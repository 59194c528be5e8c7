------------------------------ MODULE Handlers ------------------------------
(***************************************************************************)
(* How a handler of the support and compliance services runs: it finds a   *)
(* row, changes the object it holds, saves it, and writes the audit row,   *)
(* with an await between any two of these. repository.save() writes every  *)
(* column in which the object differs from the table, so the row ends up   *)
(* as the object: what another call wrote since the find is undone.        *)
(***************************************************************************)
EXTENDS Naturals, FiniteSets

CONSTANTS None,      \* no row, NULL
          Calls,     \* slots for the calls running at once
          MaxCalls,  \* bound: calls begun
          MaxDeaths  \* bound: calls that die half-way

ASSUME HandlersAssumption == MaxCalls \in Nat /\ MaxDeaths \in Nat

VARIABLES calls,        \* slot -> the call in it
          begun,        \* calls begun so far
          auditLog,     \* audit_logs: [action, target, status]
          overwritten,  \* targets saved from a row read before another write
          died          \* targets a call died on

handlerVars == <<calls, begun, auditLog, overwritten, died>>

\* A call: its next step (at), the target it is about (on), the object it holds
\* (row) and what it was asked (arg).
Idle == [at |-> "idle"]
Call(at, on, row, arg) == [at |-> at, on |-> on, row |-> row, arg |-> arg]
\* The last await of a handler that changed a row: its audit row.
ToAudit(on, action, status) == [at |-> "audit", on |-> on, action |-> action, status |-> status]
At(c, at) == calls[c].at = at
Working(target) == \E c \in Calls: calls[c] # Idle /\ calls[c].on = target

HandlersInit ==
  /\ calls = [c \in Calls |-> Idle]
  /\ begun = 0
  /\ auditLog = {}
  /\ overwritten = {}
  /\ died = {}

Begin(c, call) ==
  /\ At(c, "idle") /\ begun < MaxCalls
  /\ begun' = begun + 1
  /\ calls' = [calls EXCEPT ![c] = call]
  /\ UNCHANGED <<auditLog, overwritten, died>>

GoOn(c, at) ==
  /\ calls' = [calls EXCEPT ![c].at = at]
  /\ UNCHANGED <<begun, auditLog, overwritten, died>>

\* Slot c saves its object over a row that is now current; the audit is next.
SaveOver(c, current, action, status) ==
  /\ calls' = [calls EXCEPT ![c] = ToAudit(@.on, action, status)]
  /\ overwritten' = IF calls[c].row = current THEN overwritten ELSE overwritten \cup {calls[c].on}
  /\ UNCHANGED <<begun, auditLog, died>>

\* AuditService.record.
Record(c) ==
  /\ At(c, "audit")
  /\ auditLog' = auditLog \cup {[action |-> calls[c].action, target |-> calls[c].on, status |-> calls[c].status]}
  /\ calls' = [calls EXCEPT ![c] = Idle]
  /\ UNCHANGED <<begun, overwritten, died>>

\* The process stops between two awaits of the call in slot c.
Die(c) ==
  /\ calls[c] # Idle /\ Cardinality(died) < MaxDeaths
  /\ died' = died \cup {calls[c].on}
  /\ calls' = [calls EXCEPT ![c] = Idle]
  /\ UNCHANGED <<begun, auditLog, overwritten>>
=============================================================================
