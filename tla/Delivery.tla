------------------------------- MODULE Delivery -------------------------------
(***************************************************************************)
(* NotificationDeliveryService: the ledger of the notifications that must  *)
(* be pushed once, whoever reports the event and however often.  An event  *)
(* has one row for the notification in the app and one for the push.       *)
(*                                                                         *)
(* The thread that records a push makes the first attempt; a sweep in each *)
(* process makes the later ones.  An attempt holds its row by a lease: the *)
(* time of the next attempt, moved forward.  Nothing else keeps two        *)
(* attempts apart, and what an attempt finds is written unconditionally.   *)
(*                                                                         *)
(* Expo's answer is awaited without a limit and may be lost; a thread may  *)
(* die, or fail to write, at any point.                                    *)
(***************************************************************************)
EXTENDS Integers, FiniteSets

CONSTANTS Key,          \* the events: dedupeKey of one recipient
          Reporter,     \* threads that report events: deliverToUser
          Sweeper,      \* the retry sweep of each process
          MaxAttempts,  \* PUSH_MAX_ATTEMPTS
          MaxFaults,    \* bound: deaths, failed writes, answers lost and leases outlived
          NoKey

ASSUME BoundsAssumption == MaxAttempts \in Nat \ {0} /\ MaxFaults \in Nat
ASSUME ThreadAssumption == IsFiniteSet(Reporter \cup Sweeper)
ASSUME SweeperAssumption == Reporter \cap Sweeper = {}
ASSUME NoKeyAssumption == NoKey \notin Key

VARIABLES
  inApp,     \* the events with a row, and a notification unless it is disabled, in the app
  ledger,    \* the row of the push: its status, attempts, and nextAttemptAt against the clock
  attempt,   \* what each thread is doing with which row, and the attempts the row had
  failed,    \* the reporters with a FAILED outcome
  listed,    \* the due rows a sweep has read, while their nextAttemptAt is what it read
  accepted,  \* history: the attempts that Expo accepted
  slips,     \* history: how often the ledger could not know what became of an attempt
  faults

delivery == <<inApp, ledger, attempt, failed, listed, accepted, slips, faults>>

Thread == Reporter \cup Sweeper
Unsettled == {"PENDING", "FAILED"}
Row == [status : Unsettled \cup {"ABSENT", "SENT", "SKIPPED", "GAVE_UP"}, attempts : Nat,
        due : {"never", "later", "now"}]
Answer == {"noDevices", "accepted", "rejected", "transient"}
Attempt == [step : {"idle", "push", "send", "answered"}, key : Key \cup {NoKey},
            before : Nat, answer : Answer]

NoRow == [status |-> "ABSENT", attempts |-> 0, due |-> "never"]
Idle == [step |-> "idle", key |-> NoKey, before |-> 0, answer |-> "noDevices"]

DeliveryInit ==
  /\ inApp = {}
  /\ ledger = [k \in Key |-> NoRow]
  /\ attempt = [t \in Thread |-> Idle]
  /\ failed = {}
  /\ listed = [s \in Sweeper |-> {}]
  /\ accepted = [k \in Key |-> 0]
  /\ slips = [k \in Key |-> 0]
  /\ faults = 0

Free(t) == attempt[t].step = "idle"
\* The attempts under way on a row: its thread owns the row, or did.
Trying(k) == {t \in Thread : attempt[t].key = k /\ attempt[t].step \in {"send", "answered"}}
Open(k) == ledger[k].status \in Unsettled

Fault == faults < MaxFaults /\ faults' = faults + 1
Slip(k) == Fault /\ slips' = [slips EXCEPT ![k] = @ + 1]
NoFault == UNCHANGED <<slips, faults>>

\* A write of a row changes nextAttemptAt: no sweep that has read it before can claim it.
Write(k, row) ==
  /\ ledger' = [ledger EXCEPT ![k] = row]
  /\ listed' = [s \in Sweeper |-> listed[s] \ {k}]

(***************************************************************************)
(* Reporting an event.                                                     *)
(***************************************************************************)
\* deliverInApp: the notification and its row are one transaction, or there already, or failed.
Report(t, k) ==
  /\ Free(t)
  /\ attempt' = [attempt EXCEPT ![t] = [Idle EXCEPT !.step = "push", !.key = k]]
  /\ \/ inApp' = inApp \cup {k} /\ UNCHANGED <<failed, faults>>
     \/ Fault /\ failed' = failed \cup {t} /\ UNCHANGED inApp
  /\ UNCHANGED <<ledger, listed, accepted, slips>>

\* deliverPush: the row is created, leased to this thread, unless another reporter was first.
RecordPush(t) ==
  LET k == attempt[t].key IN
  /\ attempt[t].step = "push"
  /\ ledger[k] = NoRow
  /\ Write(k, [status |-> "PENDING", attempts |-> 0, due |-> "later"])
  /\ attempt' = [attempt EXCEPT ![t].step = "send"]
  /\ UNCHANGED <<inApp, failed, accepted>> /\ NoFault

PushRecorded(t) ==
  LET k == attempt[t].key IN
  /\ attempt[t].step = "push"
  /\ ledger[k] # NoRow
  /\ attempt' = [attempt EXCEPT ![t] = Idle]
  /\ failed' = IF ledger[k].status = "FAILED" THEN failed \cup {t} ELSE failed
  /\ UNCHANGED <<inApp, ledger, listed, accepted>> /\ NoFault

PushNotRecorded(t) ==
  /\ attempt[t].step = "push"
  /\ Fault
  /\ attempt' = [attempt EXCEPT ![t] = Idle]
  /\ failed' = failed \cup {t}
  /\ UNCHANGED <<inApp, ledger, listed, accepted, slips>>

\* isPushAllowed is false: asked by the thread that recorded the push, before its attempt.
Disallowed(t) ==
  /\ attempt[t].step = "send" /\ t \in Reporter
  /\ Write(attempt[t].key, [status |-> "SKIPPED", attempts |-> 0, due |-> "never"])
  /\ attempt' = [attempt EXCEPT ![t] = Idle]
  /\ UNCHANGED <<inApp, failed, accepted>> /\ NoFault

(***************************************************************************)
(* One attempt.                                                            *)
(***************************************************************************)
\* sendToUser.  When the request fails, Expo may have accepted it all the same.
Send(t) ==
  LET k == attempt[t].key IN
  /\ attempt[t].step = "send"
  /\ \/ /\ \E answer \in Answer :
             /\ attempt' = [attempt EXCEPT ![t].step = "answered", ![t].answer = answer]
             /\ accepted' = IF answer = "accepted" THEN [accepted EXCEPT ![k] = @ + 1] ELSE accepted
        /\ NoFault
     \/ /\ Slip(k)
        /\ attempt' = [attempt EXCEPT ![t].step = "answered", ![t].answer = "transient"]
        /\ accepted' = [accepted EXCEPT ![k] = @ + 1]
  /\ UNCHANGED <<inApp, ledger, failed, listed>>

ResultUncounted(answer, n) ==
  CASE answer = "noDevices" -> [status |-> "SKIPPED", attempts |-> n, due |-> "never"]
    [] answer = "accepted" -> [status |-> "SENT", attempts |-> n, due |-> "never"]
    [] answer = "rejected" \/ n >= MaxAttempts -> [status |-> "GAVE_UP", attempts |-> n, due |-> "never"]
    [] OTHER -> [status |-> "FAILED", attempts |-> n - 1, due |-> "later"]
\* What is written after the n-th attempt, the backoff as a time to come.
Result(answer, n) ==
  CASE answer = "noDevices" -> [status |-> "SKIPPED", attempts |-> n, due |-> "never"]
    [] answer = "accepted" -> [status |-> "SENT", attempts |-> n, due |-> "never"]
    [] answer = "rejected" \/ n >= MaxAttempts -> [status |-> "GAVE_UP", attempts |-> n, due |-> "never"]
    [] OTHER -> [status |-> "FAILED", attempts |-> n, due |-> "later"]

Finish(t) ==
  LET row == Result(attempt[t].answer, attempt[t].before + 1) IN
  /\ attempt[t].step = "answered"
  /\ Write(attempt[t].key, row)
  /\ attempt' = [attempt EXCEPT ![t] = Idle]
  /\ failed' = IF t \in Reporter /\ row.status = "FAILED" THEN failed \cup {t} ELSE failed
  /\ UNCHANGED <<inApp, accepted>> /\ NoFault

\* An answer of Expo that is lost with the thread before it is written.
SlipsAfter(t) == IF attempt[t].step = "answered" /\ attempt[t].answer = "accepted"
                 THEN [slips EXCEPT ![attempt[t].key] = @ + 1] ELSE slips

\* The thread dies, or its write throws and it stops there: a reporter has failed, a sweep is over.
Dies(t) ==
  /\ ~Free(t)
  /\ Fault
  /\ slips' = SlipsAfter(t)
  /\ attempt' = [attempt EXCEPT ![t] = Idle]
  /\ failed' = IF t \in Reporter THEN failed \cup {t} ELSE failed
  /\ listed' = [s \in Sweeper |-> IF s = t THEN {} ELSE listed[s]]
  /\ UNCHANGED <<inApp, ledger, accepted>>

(***************************************************************************)
(* The retry sweep.                                                        *)
(***************************************************************************)
List(s) ==
  /\ Free(s) /\ listed[s] = {}
  /\ listed' = [listed EXCEPT ![s] = {k \in Key : Open(k) /\ ledger[k].attempts < MaxAttempts /\ ledger[k].due = "now"}]
  /\ UNCHANGED <<inApp, ledger, attempt, failed, accepted>> /\ NoFault

ClaimRowTwice(s, k) ==
  /\ Free(s) /\ k \in listed[s] /\ Open(k)
  /\ ledger' = [ledger EXCEPT ![k].due = "later"]
  /\ listed' = [listed EXCEPT ![s] = @ \ {k}]
  /\ attempt' = [attempt EXCEPT ![s] = [Idle EXCEPT !.step = "send", !.key = k, !.before = ledger[k].attempts]]
  /\ UNCHANGED <<inApp, failed, accepted>> /\ NoFault
\* The claim of a row as it was read.  The lease counts from the begin of the sweep, which may be
\* longer ago than a lease.
ClaimRow(s, k) ==
  /\ Free(s) /\ k \in listed[s] /\ Open(k)
  /\ \/ Write(k, [ledger[k] EXCEPT !.due = "later"]) /\ NoFault
     \/ Write(k, [ledger[k] EXCEPT !.due = "now"]) /\ Slip(k)
  /\ attempt' = [attempt EXCEPT ![s] = [Idle EXCEPT !.step = "send", !.key = k, !.before = ledger[k].attempts]]
  /\ UNCHANGED <<inApp, failed, accepted>>

\* The time of the next attempt comes, while nobody attempts or while somebody does still.
Elapse(k) ==
  /\ ledger[k].due = "later"
  /\ ledger' = [ledger EXCEPT ![k].due = "now"]
  /\ Trying(k) = {}
  /\ NoFault
  /\ UNCHANGED <<inApp, attempt, failed, listed, accepted>>
Outlives(k) ==
  /\ ledger[k].due = "later"
  /\ ledger' = [ledger EXCEPT ![k].due = "now"]
  /\ Trying(k) # {}
  /\ Slip(k)
  /\ UNCHANGED <<inApp, attempt, failed, listed, accepted>>

AttemptStep(t) == RecordPush(t) \/ PushRecorded(t) \/ Disallowed(t) \/ Send(t) \/ Finish(t)
SweepStep(s) == List(s) \/ \E k \in Key : ClaimRow(s, k)

(***************************************************************************)
(* Properties.                                                             *)
(***************************************************************************)
\* Rows, attempts and lists hold what their columns may hold.
DeliveryTypeOK ==
  /\ inApp \in SUBSET Key
  /\ ledger \in [Key -> Row]
  /\ attempt \in [Thread -> Attempt]
  /\ \A t \in Thread : (attempt[t].key = NoKey <=> Free(t)) /\ (attempt[t].step = "push" => t \in Reporter)
  /\ failed \in SUBSET Reporter
  /\ listed \in [Sweeper -> SUBSET Key]
  /\ accepted \in [Key -> Nat]
  /\ slips \in [Key -> Nat]
  /\ faults \in Nat

\* A push is accepted by Expo once, and once more at most for each time the ledger could not know:
\* an answer lost, a process dead between the answer and its record, an attempt that outlived its
\* lease.  Reporters of the same event, sweeps of several processes and late writes add nothing.
PushedOnce == \A k \in Key : accepted[k] <= 1 + slips[k]

\* What was recorded as sent stays so, and is not sent again, unless an attempt outlived its lease or
\* its answer was lost.
SentIsKept ==
  [][\A k \in Key : ledger[k].status = "SENT" /\ ledger'[k] # ledger[k] => slips[k] > 0]_delivery

\* No row is left without a next attempt: one that is neither sent nor given up is due some time and
\* is one that the sweep selects.
NoRowStuck == \A k \in Key : Open(k) => ledger[k].due # "never" /\ ledger[k].attempts < MaxAttempts

\* Every push that is recorded is sent, skipped or given up in the end, whichever threads die.
RecordedEnds == \A k \in Key : Open(k) ~> ~Open(k)
===============================================================================
