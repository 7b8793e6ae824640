-------------------------- MODULE DeadlineScheduler --------------------------
(***************************************************************************)
(* The timers of DbDeadlineSchedulerService.  Every process of the backend *)
(* runs one scheduler, in its own memory, with one JobState for each kind  *)
(* of job.  A job reads from the database when its next row falls due,     *)
(* sleeps until then, runs, and reads again; a signal, the hourly          *)
(* reconciliation and the end of a run ask for another read.               *)
(*                                                                         *)
(* A read is awaited, so what asks for another one may come between        *)
(* RefreshFires, PlanReads and RefreshEnds.  The module holds the steps;   *)
(* what a job reads and does is given by the module that extends it.       *)
(***************************************************************************)
EXTENDS Integers, FiniteSets

CONSTANTS Node,         \* the processes of the backend
          Kind,         \* DbDeadlineJob.name, of the jobs registered for one domain
          Deployment,   \* the sets of jobs that processes may have: one is chosen, for good
          MaxDelay      \* MAX_TIMER_DELAY_MS

ASSUME DeploymentAssumption == Deployment \subseteq SUBSET (Node \X Kind)
ASSUME DelayAssumption == MaxDelay \in Nat \ {0}

VARIABLES
  deployed,   \* the jobs that the processes register when they start
  jobs,       \* the jobs that are registered: DbDeadlineSchedulerService.jobs of each process
  state,      \* the JobState of each
  unheeded,   \* history: the jobs signalled since their last read of the database
  now         \* the clock

scheduler == <<deployed, jobs, state, unheeded>>

Job == Node \X Kind

(* timer is "run" when it starts the job at the time "at", "replan" when   *)
(* it asks for another read because the last one failed; read is what the  *)
(* read under way has returned.                                            *)
JobState == [timer : {"off", "run", "replan"}, at : Nat, refreshTimer : BOOLEAN,
             running : BOOLEAN, refreshing : BOOLEAN, pendingRefresh : BOOLEAN,
             read : {"awaited", "none", "due", "failed"}, dueAt : Nat]

Registered == [timer |-> "off", at |-> 0, refreshTimer |-> TRUE, running |-> FALSE,
               refreshing |-> FALSE, pendingRefresh |-> FALSE, read |-> "awaited", dueAt |-> 0]
Absent == [Registered EXCEPT !.refreshTimer = FALSE]

SchedulerInit ==
  /\ deployed \in Deployment
  /\ jobs = {}
  /\ state = [j \in Job |-> Absent]
  /\ unheeded = {}

Of(n) == deployed \cap ({n} \X Kind)

\* onModuleInit of every service that has a job, when the process starts.
RegisterAll(n) ==
  /\ jobs \cap Of(n) = {} /\ Of(n) # {}
  /\ jobs' = jobs \cup Of(n)
  /\ state' = [j \in Job |-> IF j \in Of(n) THEN Registered ELSE state[j]]
  /\ UNCHANGED <<deployed, unheeded>>

\* The process ends, in order or not: its timers, reads and runs end with it.
UnregisterAll(n) ==
  /\ jobs \cap Of(n) # {}
  /\ jobs' = jobs \ Of(n)
  /\ state' = [j \in Job |-> IF j \in Of(n) THEN Absent ELSE state[j]]
  /\ unheeded' = unheeded \ Of(n)
  /\ UNCHANGED deployed

queueRefresh(J) == [j \in Job |-> IF j \in J THEN [state[j] EXCEPT !.refreshTimer = TRUE] ELSE state[j]]

\* A mutation of the domain has committed in process n: every job of the process reads again.
Signal(n) ==
  /\ state' = queueRefresh(jobs \cap Of(n))
  /\ unheeded' = unheeded \cup (jobs \cap Of(n))
  /\ UNCHANGED <<deployed, jobs>>

Reconcile(n) ==
  /\ state' = queueRefresh(jobs \cap Of(n))
  /\ UNCHANGED <<deployed, jobs, unheeded>>

RefreshAnyway(j) ==
  /\ j \in jobs /\ state[j].refreshTimer
  /\ state' = [state EXCEPT ![j].refreshTimer = FALSE, ![j].pendingRefresh = FALSE, ![j].refreshing = TRUE,
                            ![j].timer = "off", ![j].at = 0, ![j].read = "awaited"]
  /\ UNCHANGED <<deployed, jobs, unheeded>>
RefreshFires(j) ==
  LET s == state[j] IN
  /\ j \in jobs /\ s.refreshTimer
  /\ state' = [state EXCEPT ![j] =
       IF s.running \/ s.refreshing
       THEN [s EXCEPT !.refreshTimer = FALSE, !.pendingRefresh = TRUE]
       ELSE [s EXCEPT !.refreshTimer = FALSE, !.pendingRefresh = FALSE, !.refreshing = TRUE,
                      !.timer = "off", !.at = 0, !.read = "awaited"]]
  /\ UNCHANGED <<deployed, jobs, unheeded>>

\* nextDueAt reads the database: due is the set of the times at which a row falls due.
PlanReads(j, due) ==
  /\ state[j].refreshing /\ state[j].read = "awaited"
  /\ \/ /\ due = {}
        /\ state' = [state EXCEPT ![j].read = "none"]
     \/ \E t \in due :
          /\ \A u \in due : t <= u
          /\ state' = [state EXCEPT ![j].read = "due", ![j].dueAt = t]
  /\ unheeded' = unheeded \ {j}
  /\ UNCHANGED <<deployed, jobs>>

PlanFails(j) ==
  /\ state[j].refreshing /\ state[j].read = "awaited"
  /\ state' = [state EXCEPT ![j].read = "failed"]
  /\ UNCHANGED <<deployed, jobs, unheeded>>

RefreshEndsForgetful(j) ==
  /\ state[j].refreshing /\ state[j].read # "awaited"
  /\ state' = [state EXCEPT ![j].refreshing = FALSE, ![j].pendingRefresh = FALSE, ![j].read = "awaited", ![j].dueAt = 0,
                            ![j].timer = IF state[j].read = "due" THEN "run" ELSE "off",
                            ![j].at = state[j].dueAt]
  /\ UNCHANGED <<deployed, jobs, unheeded>>
\* The timer is set, for MaxDelay at most, and a refresh refused meanwhile is asked for again.
RefreshEnds(j) ==
  LET s == state[j] IN
  /\ s.refreshing /\ s.read # "awaited"
  /\ state' = [state EXCEPT ![j] =
       [s EXCEPT !.refreshing = FALSE, !.refreshTimer = s.refreshTimer \/ s.pendingRefresh,
                 !.timer = CASE s.read = "due" -> "run" [] s.read = "failed" -> "replan" [] OTHER -> "off",
                 !.at = IF s.read # "due" THEN 0 ELSE IF s.dueAt > now + MaxDelay THEN now + MaxDelay ELSE s.dueAt,
                 !.read = "awaited", !.dueAt = 0]]
  /\ UNCHANGED <<deployed, jobs, unheeded>>

ReplanFires(j) ==
  /\ j \in jobs /\ state[j].timer = "replan"
  /\ state' = [state EXCEPT ![j].timer = "off", ![j].refreshTimer = TRUE]
  /\ UNCHANGED <<deployed, jobs, unheeded>>

RunFires(j) ==
  /\ j \in jobs /\ state[j].timer = "run" /\ now >= state[j].at
  /\ ~state[j].running
  /\ state' = [state EXCEPT ![j].timer = "off", ![j].at = 0, ![j].running = TRUE]
  /\ UNCHANGED <<deployed, jobs, unheeded>>

RunEndsQuietly(j) ==
  /\ state[j].running
  /\ state' = [state EXCEPT ![j].running = FALSE]
  /\ UNCHANGED <<deployed, jobs, unheeded>>
\* runDue has returned or thrown.
RunEnds(j) ==
  /\ state[j].running
  /\ state' = [state EXCEPT ![j].running = FALSE, ![j].refreshTimer = TRUE]
  /\ UNCHANGED <<deployed, jobs, unheeded>>

(***************************************************************************)
(* Properties.                                                             *)
(***************************************************************************)
SchedulerTypeOK ==
  /\ deployed \in SUBSET Job
  /\ jobs \in SUBSET deployed
  /\ state \in [Job -> JobState]
  /\ unheeded \in SUBSET jobs
  /\ now \in Nat

\* A job never runs twice at once, nor plans while it runs: whichever of its timers, signals and
\* awaited reads come first, no timer is left that would start it again under way.
OneStepAtATime ==
  \A j \in Job :
    /\ ~(state[j].running /\ state[j].refreshing)
    /\ state[j].running \/ state[j].refreshing => state[j].timer = "off"

\* A change signalled to a job is read after it was committed: a read that may be older than the
\* change, a read that failed and a run under way are followed by another, whatever else is
\* signalled meanwhile.
SignalIsHeeded ==
  \A j \in unheeded :
    \/ state[j].refreshTimer
    \/ state[j].refreshing /\ (state[j].read \in {"awaited", "failed"} \/ state[j].pendingRefresh)
    \/ state[j].running
    \/ state[j].timer = "replan"
=============================================================================
