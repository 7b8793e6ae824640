-------------------------- MODULE IdempotentRequests --------------------------
(***************************************************************************)
(* IdempotencyInterceptor: the requests that carry an Idempotency-Key.     *)
(* The first with a key claims its row, runs the handler and records the   *)
(* response in the row; the others with the key are answered from the row. *)
(* A handler that fails, or whose response cannot be recorded, gives the   *)
(* key up for a retry; a process that dies keeps it.                       *)
(*                                                                         *)
(* What the handlers do is left to the module that extends this one.       *)
(***************************************************************************)
EXTENDS Integers, FiniteSets

CONSTANTS Key,        \* the Idempotency-Keys the clients use
          Call,       \* the requests that may be in flight together
          MaxFaults,  \* bound: deaths, and responses or releases that are not written
          None

VARIABLES
  row,      \* the IdempotencyKey rows: the request they are for (requestHash), responseSnapshot
  call,     \* what each request in flight is doing
  answers,  \* history: the responses that the clients of a key were given, errors left out
  faults

protocol == <<row, call, answers, faults>>

NoRow == [body |-> None, snapshot |-> None]
Idle == [step |-> "idle", key |-> None, body |-> None, result |-> None]

ProtocolInit ==
  /\ row = [k \in Key |-> NoRow]
  /\ call = [a \in Call |-> Idle]
  /\ answers = [k \in Key |-> {}]
  /\ faults = 0

Fault == faults < MaxFaults /\ faults' = faults + 1
Answer(k, result) == answers' = [answers EXCEPT ![k] = @ \cup {result}]
Goes(a, step) == call' = [call EXCEPT ![a].step = step]

\* A key in flight: its handler runs, has run or has failed, and nothing is answered yet.
Working(a) == call[a].step # "idle"

ClaimAgain(a, k, body) ==
  /\ ~Working(a)
  /\ row[k].snapshot = None
  /\ row' = [row EXCEPT ![k] = [body |-> body, snapshot |-> None]]
  /\ call' = [call EXCEPT ![a] = [step |-> "running", key |-> k, body |-> body, result |-> None]]
  /\ UNCHANGED <<answers, faults>>
Claim(a, k, body) ==
  /\ ~Working(a)
  /\ row[k] = NoRow
  /\ row' = [row EXCEPT ![k] = [body |-> body, snapshot |-> None]]
  /\ call' = [call EXCEPT ![a] = [step |-> "running", key |-> k, body |-> body, result |-> None]]
  /\ UNCHANGED <<answers, faults>>

\* resolveExistingClaim: the recorded response.  The refusals, of a key still in progress or of
\* another body, change nothing.
Replay(k, body) ==
  /\ row[k].body = body /\ row[k].snapshot # None
  /\ Answer(k, row[k].snapshot)
  /\ UNCHANGED <<row, call, faults>>

Record(a) ==
  /\ call[a].step = "done"
  /\ row' = [row EXCEPT ![call[a].key].snapshot = call[a].result]
  /\ Answer(call[a].key, call[a].result)
  /\ call' = [call EXCEPT ![a] = Idle]
  /\ UNCHANGED faults

NotRecorded(a) ==
  /\ call[a].step = "done"
  /\ Fault
  /\ Goes(a, "failed")
  /\ UNCHANGED <<row, answers>>

\* The release is attempted once, and its error swallowed.
Release(a) ==
  /\ call[a].step = "failed"
  /\ \/ row' = [row EXCEPT ![call[a].key] = NoRow] /\ UNCHANGED faults
     \/ Fault /\ UNCHANGED row
  /\ call' = [call EXCEPT ![a] = Idle]
  /\ UNCHANGED answers

\* The process dies; an open transaction of the handler is rolled back.
Dies(a) ==
  /\ Working(a)
  /\ Fault
  /\ call' = [call EXCEPT ![a] = Idle]
  /\ UNCHANGED <<row, answers>>

ProtocolStep(a) == Record(a) \/ NotRecorded(a) \/ Release(a) \/ Dies(a)

(***************************************************************************)
(* Properties.                                                             *)
(***************************************************************************)
\* All who retry a request are told the same: whatever is lost, no client gets two different
\* responses for one key.
AnswersAgree == \A k \in Key : \A x, y \in answers[k] : x = y
===============================================================================
