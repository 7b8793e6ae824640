-------------------------- MODULE BookingJobsProofs --------------------------
(***************************************************************************)
(* Proofs about BookingJobs, for any number of processes, bookings and     *)
(* faults and any deployment of the jobs: its types, that a job takes one  *)
(* step at a time, that no signal is lost between its timers and its       *)
(* awaited reads, and what the runs claim.                                 *)
(***************************************************************************)
EXTENDS BookingJobs, TLAPS

\* What TypeOK says of the scheduler, and of the bookings and the runs.
RowTypes ==
  /\ booking \in [Booking -> Open \cup {"ABSENT", "CLOSED"}]
  /\ slot \in [Booking -> Nat] /\ createdAt \in [Booking -> Nat]
  /\ guests \in SUBSET Booking /\ visited \in SUBSET Booking
  /\ reminded \in SUBSET Booking /\ alerted \in SUBSET Booking
  /\ owed \in SUBSET Node /\ faults \in Nat
RunTypes ==
  /\ run \in [Job -> [todo : SUBSET Booking, since : Nat]]
  /\ \A j \in Job : run[j] # Idle => j \in jobs /\ state[j].running

LEMMA TypeParts == (TypeOK <=> SchedulerTypeOK /\ RowTypes /\ RunTypes)
                   /\ (TypeOK' <=> SchedulerTypeOK' /\ RowTypes' /\ RunTypes')
BY DEF TypeOK, RowTypes, RunTypes

LEMMA ConstantTypes ==
  /\ LastSlot \in Nat /\ Window \in Nat /\ Lead \in Nat /\ Hold \in Nat /\ MaxFaults \in Nat /\ MaxDelay \in Nat
  /\ Registered \in JobState /\ Absent \in JobState /\ Idle \in [todo : SUBSET Booking, since : Nat]
BY TimesAssumption, DelayAssumption DEF Registered, Absent, JobState, Idle

\* The times that a job reads are times: minutes from now, or none left.
LEMMA DueTypes ==
  ASSUME RowTypes, now \in Nat, NEW k \in Kind
  PROVE  NextDueAt(k) \subseteq Nat
<1>1. \A t, d \in Nat : Before(t, d) \in Nat
  BY DEF Before
<1>2. CASE k = "expire"
  BY <1>2, ConstantTypes DEF NextDueAt, RowTypes
<1>3. CASE k = "remind"
  BY <1>1, <1>3, ConstantTypes DEF NextDueAt, RowTypes
<1>4. CASE k = "alert"
  BY <1>1, <1>4, ConstantTypes DEF NextDueAt, RowTypes
<1> QED BY <1>2, <1>3, <1>4, KindAssumption

(***************************************************************************)
(* The scheduler's own steps.                                              *)
(***************************************************************************)
\* The timers' own invariant: types, one step at a time, no signal lost.
SchedulerInv == SchedulerTypeOK /\ OneStepAtATime /\ SignalIsHeeded

\* A job by itself: it takes one step at a time, and a read is coming for what was signalled to it.
Alone(s) == /\ ~(s.running /\ s.refreshing)
            /\ s.running \/ s.refreshing => s.timer = "off"
Coming(s) == \/ s.refreshTimer
             \/ s.refreshing /\ (s.read \in {"awaited", "failed"} \/ s.pendingRefresh)
             \/ s.running
             \/ s.timer = "replan"

LEMMA PerJob ==
  /\ SchedulerInv <=> /\ SchedulerTypeOK
                      /\ \A j \in Job : Alone(state[j])
                      /\ \A j \in unheeded : Coming(state[j])
  /\ SchedulerInv' <=> /\ SchedulerTypeOK'
                       /\ \A j \in Job : Alone(state[j]')
                       /\ \A j \in unheeded' : Coming(state[j]')
BY DEF SchedulerInv, OneStepAtATime, SignalIsHeeded, Alone, Coming

\* A step that changes one job for a state in which it is alone, with a read coming if it is still
\* owed one, keeps the invariant.
LEMMA OneJobStep ==
  ASSUME SchedulerInv, now' = now, NEW j \in Job, NEW s \in JobState,
         state' = [state EXCEPT ![j] = s], jobs' = jobs, deployed' = deployed,
         unheeded' = unheeded \/ unheeded' = unheeded \ {j},
         Alone(s), j \in unheeded' => Coming(s)
  PROVE  SchedulerInv'
<1>1. SchedulerTypeOK'
  BY DEF SchedulerInv, SchedulerTypeOK
<1>2. \A i \in Job : state'[i] = IF i = j THEN s ELSE state[i]
  BY DEF SchedulerInv, SchedulerTypeOK
<1>3. \A i \in unheeded' : i \in unheeded /\ i \in Job
  BY DEF SchedulerInv, SchedulerTypeOK
<1> QED BY <1>1, <1>2, <1>3, PerJob

LEMMA RefreshKeeps ==
  ASSUME SchedulerInv, now' = now, NEW j \in Job,
         RefreshFires(j) \/ RefreshEnds(j) \/ ReplanFires(j) \/ RunFires(j) \/ RunEnds(j) \/ PlanFails(j)
  PROVE  SchedulerInv'
<1> DEFINE s == state[j]
<1>0. s \in JobState /\ Alone(s) /\ (j \in unheeded => Coming(s)) /\ now \in Nat /\ DOMAIN state = Job
  BY PerJob DEF SchedulerTypeOK, SchedulerInv
<1>1. CASE RefreshFires(j)
  <2>1. CASE s.running \/ s.refreshing
    <3> DEFINE t == [s EXCEPT !.refreshTimer = FALSE, !.pendingRefresh = TRUE]
    <3>1. state' = [state EXCEPT ![j] = t] /\ jobs' = jobs /\ deployed' = deployed /\ unheeded' = unheeded
      BY <1>1, <2>1 DEF RefreshFires
    <3>2. t \in JobState /\ Alone(t) /\ Coming(t)
      BY <1>0, <2>1 DEF JobState, Alone, Coming
    <3> QED BY <3>1, <3>2, OneJobStep
  <2>2. CASE ~(s.running \/ s.refreshing)
    <3> DEFINE t == [s EXCEPT !.refreshTimer = FALSE, !.pendingRefresh = FALSE, !.refreshing = TRUE,
                              !.timer = "off", !.at = 0, !.read = "awaited"]
    <3>1. state' = [state EXCEPT ![j] = t] /\ jobs' = jobs /\ deployed' = deployed /\ unheeded' = unheeded
      BY <1>1, <2>2 DEF RefreshFires
    <3>2. t \in JobState /\ Alone(t) /\ Coming(t)
      BY <1>0, <2>2 DEF JobState, Alone, Coming
    <3> QED BY <3>1, <3>2, OneJobStep
  <2> QED BY <2>1, <2>2
<1>2. CASE RefreshEnds(j)
  <2> DEFINE timer == CASE s.read = "due" -> "run" [] s.read = "failed" -> "replan" [] OTHER -> "off"
             at == IF s.read # "due" THEN 0 ELSE IF s.dueAt > now + MaxDelay THEN now + MaxDelay ELSE s.dueAt
             t == [s EXCEPT !.refreshing = FALSE, !.refreshTimer = s.refreshTimer \/ s.pendingRefresh, !.timer = timer,
                            !.at = at, !.read = "awaited", !.dueAt = 0]
  <2>1. state' = [state EXCEPT ![j] = t] /\ jobs' = jobs /\ deployed' = deployed /\ unheeded' = unheeded
    BY <1>2 DEF RefreshEnds
  <2>2. timer \in {"off", "run", "replan"} /\ at \in Nat
    BY <1>0, ConstantTypes DEF JobState
  <2>3. t \in JobState
    BY <1>0, <2>2 DEF JobState
  <2>4. s.refreshing /\ ~s.running /\ s.read \in {"none", "due", "failed"} /\ s.timer = "off"
    BY <1>0, <1>2 DEF RefreshEnds, Alone, JobState
  <2>5. Alone(t)
    BY <1>0, <2>4 DEF Alone, JobState
  <2>6. Coming(s) => Coming(t)
    BY <1>0, <2>4 DEF Coming, JobState
  <2> QED BY <1>0, <2>1, <2>3, <2>5, <2>6, OneJobStep
<1>3. CASE ReplanFires(j)
  <2> DEFINE t == [s EXCEPT !.timer = "off", !.refreshTimer = TRUE]
  <2>1. state' = [state EXCEPT ![j] = t] /\ jobs' = jobs /\ deployed' = deployed /\ unheeded' = unheeded
    BY <1>0, <1>3 DEF ReplanFires
  <2>2. t \in JobState /\ Alone(t) /\ Coming(t)
    BY <1>0 DEF JobState, Alone, Coming
  <2> QED BY <2>1, <2>2, OneJobStep
<1>4. CASE RunFires(j)
  <2> DEFINE t == [s EXCEPT !.timer = "off", !.at = 0, !.running = TRUE]
  <2>1. state' = [state EXCEPT ![j] = t] /\ jobs' = jobs /\ deployed' = deployed /\ unheeded' = unheeded
    BY <1>0, <1>4 DEF RunFires
  <2>2. ~s.refreshing
    BY <1>0, <1>4 DEF RunFires, Alone
  <2>3. t \in JobState /\ Alone(t) /\ Coming(t)
    BY <1>0, <2>2 DEF JobState, Alone, Coming
  <2> QED BY <2>1, <2>3, OneJobStep
<1>5. CASE RunEnds(j)
  <2> DEFINE t == [s EXCEPT !.running = FALSE, !.refreshTimer = TRUE]
  <2>1. state' = [state EXCEPT ![j] = t] /\ jobs' = jobs /\ deployed' = deployed /\ unheeded' = unheeded
    BY <1>0, <1>5 DEF RunEnds
  <2>2. t \in JobState /\ Alone(t) /\ Coming(t)
    BY <1>0, <1>5 DEF JobState, Alone, Coming, RunEnds
  <2> QED BY <2>1, <2>2, OneJobStep
<1>6. CASE PlanFails(j)
  <2> DEFINE t == [s EXCEPT !.read = "failed"]
  <2>1. state' = [state EXCEPT ![j] = t] /\ jobs' = jobs /\ deployed' = deployed /\ unheeded' = unheeded
    BY <1>0, <1>6 DEF PlanFails
  <2>2. t \in JobState /\ Alone(t) /\ Coming(t)
    BY <1>0, <1>6 DEF JobState, Alone, Coming, PlanFails
  <2> QED BY <2>1, <2>2, OneJobStep
<1> QED BY <1>1, <1>2, <1>3, <1>4, <1>5, <1>6

LEMMA ReadKeeps ==
  ASSUME SchedulerInv, now' = now, NEW j \in Job, NEW due \in SUBSET Nat, PlanReads(j, due)
  PROVE  SchedulerInv'
<1> DEFINE s == state[j]
<1>0. s \in JobState /\ Alone(s) /\ DOMAIN state = Job
  BY PerJob DEF SchedulerTypeOK, SchedulerInv
<1>1. PICK t \in JobState : state' = [state EXCEPT ![j] = t] /\ Alone(t)
  <2>1. ASSUME state' = [state EXCEPT ![j].read = "none"]
        PROVE  \E t \in JobState : state' = [state EXCEPT ![j] = t] /\ Alone(t)
    <3> DEFINE t == [s EXCEPT !.read = "none"]
    <3>1. t \in JobState /\ Alone(t) /\ state' = [state EXCEPT ![j] = t]
      BY <1>0, <2>1 DEF JobState, Alone
    <3> QED BY <3>1
  <2>2. ASSUME NEW d \in due, state' = [state EXCEPT ![j].read = "due", ![j].dueAt = d]
        PROVE  \E t \in JobState : state' = [state EXCEPT ![j] = t] /\ Alone(t)
    <3> DEFINE t == [s EXCEPT !.read = "due", !.dueAt = d]
    <3>1. t \in JobState /\ Alone(t)
      BY <1>0 DEF JobState, Alone
    <3>2. state' = [state EXCEPT ![j] = t]
      BY <1>0, <2>2
    <3> QED BY <3>1, <3>2
  <2> QED BY <2>1, <2>2 DEF PlanReads
<1>2. jobs' = jobs /\ deployed' = deployed /\ unheeded' = unheeded \ {j}
  BY DEF PlanReads
<1> QED BY <1>1, <1>2, OneJobStep

LEMMA ManyJobsStep ==
  ASSUME SchedulerInv, now' = now, NEW n \in Node,
         RegisterAll(n) \/ UnregisterAll(n) \/ Signal(n) \/ Reconcile(n)
  PROVE  SchedulerInv'
<1>0. /\ state \in [Job -> JobState] /\ unheeded \subseteq jobs /\ jobs \subseteq deployed /\ deployed \subseteq Job
      /\ \A j \in Job : Alone(state[j])
      /\ \A j \in unheeded : Coming(state[j])
  BY PerJob DEF SchedulerTypeOK, SchedulerInv
<1>1. Of(n) \subseteq Job /\ Of(n) \subseteq deployed
  BY <1>0 DEF Of, Job
<1>2. Alone(Registered) /\ Alone(Absent)
  BY DEF Alone, Registered, Absent
<1>3. CASE RegisterAll(n)
  <2>1. SchedulerTypeOK'
    BY <1>0, <1>1, <1>3, ConstantTypes DEF RegisterAll, SchedulerTypeOK, SchedulerInv
  <2>2. \A j \in Job : state'[j] = IF j \in Of(n) THEN Registered ELSE state[j]
    BY <1>3 DEF RegisterAll
  <2>3. \A j \in unheeded' : j \in unheeded /\ j \in Job /\ j \notin Of(n)
    BY <1>0, <1>3 DEF RegisterAll
  <2> QED BY <1>0, <1>2, <2>1, <2>2, <2>3, PerJob
<1>4. CASE UnregisterAll(n)
  <2>1. SchedulerTypeOK'
    BY <1>0, <1>1, <1>4, ConstantTypes DEF UnregisterAll, SchedulerTypeOK, SchedulerInv
  <2>2. \A j \in Job : state'[j] = IF j \in Of(n) THEN Absent ELSE state[j]
    BY <1>4 DEF UnregisterAll
  <2>3. \A j \in unheeded' : j \in unheeded /\ j \in Job /\ j \notin Of(n)
    BY <1>0, <1>4 DEF UnregisterAll
  <2> QED BY <1>0, <1>2, <2>1, <2>2, <2>3, PerJob
<1>5. CASE Signal(n) \/ Reconcile(n)
  <2> DEFINE J == jobs \cap Of(n)
  <2>1. /\ state' = queueRefresh(J) /\ jobs' = jobs /\ deployed' = deployed
        /\ unheeded' = unheeded \/ unheeded' = unheeded \cup J
    BY <1>5 DEF Signal, Reconcile
  <2>2. \A j \in Job : state'[j] = IF j \in J THEN [state[j] EXCEPT !.refreshTimer = TRUE] ELSE state[j]
    BY <2>1 DEF queueRefresh
  <2>3. \A j \in Job : LET t == [state[j] EXCEPT !.refreshTimer = TRUE] IN
           t \in JobState /\ Alone(t) /\ Coming(t)
    BY <1>0 DEF JobState, Alone, Coming
  <2>4. state' \in [Job -> JobState]
    BY <1>0, <2>1, <2>3 DEF queueRefresh
  <2>5. SchedulerTypeOK'
    BY <1>0, <2>1, <2>4 DEF SchedulerTypeOK, SchedulerInv
  <2>6. \A j \in unheeded' : j \in Job /\ (j \in unheeded \/ j \in J)
    BY <1>0, <1>1, <2>1
  <2> QED BY <1>0, <2>2, <2>3, <2>5, <2>6, PerJob
<1> QED BY <1>3, <1>4, <1>5

(***************************************************************************)
(* The steps of BookingJobs.                                               *)
(***************************************************************************)
LEMMA InitInv == Init => TypeOK /\ OneStepAtATime /\ SignalIsHeeded
<1> SUFFICES ASSUME Init PROVE TypeOK /\ OneStepAtATime /\ SignalIsHeeded
  OBVIOUS
<1>1. SchedulerTypeOK
  BY ConstantTypes, DeploymentAssumption DEF Init, SchedulerInit, SchedulerTypeOK, Job
<1>2. \A j \in Job : state[j] = Absent
  BY DEF Init, SchedulerInit
<1>3. OneStepAtATime /\ SignalIsHeeded
  BY <1>2 DEF OneStepAtATime, SignalIsHeeded, Init, SchedulerInit, Absent, Registered
<1>4. RowTypes /\ RunTypes
  BY ConstantTypes DEF Init, RowTypes, RunTypes
<1> QED BY <1>1, <1>3, <1>4, TypeParts

LEMMA SchedulerKept ==
  ASSUME SchedulerInv, UNCHANGED scheduler, now' \in Nat
  PROVE  SchedulerInv'
BY DEF SchedulerInv, SchedulerTypeOK, OneStepAtATime, SignalIsHeeded, scheduler

LEMMA SchedulerStep ==
  ASSUME TypeOK, SchedulerInv, Next
  PROVE  SchedulerInv'
<1>0. now \in Nat /\ RowTypes
  BY TypeParts DEF SchedulerTypeOK
<1>1. CASE Tick
  BY <1>0, <1>1, SchedulerKept DEF Tick
<1>2. ASSUME NEW n \in Node, NEW b \in Booking, Request(n, b) PROVE SchedulerInv'
  BY <1>0, <1>2, SchedulerKept DEF Request, Book, Move, Close, CheckIn, Committed
<1>3. ASSUME NEW n \in Node, Emit(n) \/ Start(n) \/ Crash(n) \/ Reconciles(n) PROVE SchedulerInv'
  BY <1>3, ManyJobsStep DEF Emit, Start, Crash, Reconciles
<1>4. ASSUME NEW j \in Job, Refreshes(j) \/ Arms(j) \/ Replans(j) \/ PlanThrows(j) PROVE SchedulerInv'
  BY <1>4, RefreshKeeps DEF Refreshes, Arms, Replans, PlanThrows, Rest
<1>5. ASSUME NEW j \in Job, RunBegins(j) \/ RunReturns(j) \/ RunThrows(j) PROVE SchedulerInv'
  BY <1>5, RefreshKeeps DEF RunBegins, RunReturns, RunThrows
<1>6. ASSUME NEW j \in Job, NEW b \in Booking, Claim(j, b) PROVE SchedulerInv'
  BY <1>0, <1>6, SchedulerKept DEF Claim
<1>7. ASSUME NEW j \in Job, Reads(j) PROVE SchedulerInv'
  <2>1. NextDueAt(j[2]) \in SUBSET Nat
    BY <1>0, DueTypes DEF Job
  <2> QED BY <1>7, <2>1, ReadKeeps DEF Reads, Rest
<1> QED BY <1>1, <1>2, <1>3, <1>4, <1>5, <1>6, <1>7 DEF Next, RunStep

LEMMA RowsKept ==
  ASSUME TypeOK, Next
  PROVE  RowTypes'
<1>0. RowTypes /\ now \in Nat
  BY TypeParts DEF SchedulerTypeOK
<1>1. CASE Tick
  BY <1>0, <1>1 DEF Tick, RowTypes, bookings
<1>2. ASSUME NEW n \in Node, NEW b \in Booking, Request(n, b) PROVE RowTypes'
  <2>1. CASE Close(n, b) \/ CheckIn(n, b)
    BY <1>0, <2>1 DEF Close, CheckIn, Committed, RowTypes
  <2>2. ASSUME NEW s \in 1 .. LastSlot, Move(n, b, s) PROVE RowTypes'
    BY <1>0, <2>2 DEF Move, Committed, RowTypes
  <2>3. ASSUME NEW status \in Open, NEW s \in 1 .. LastSlot, NEW guest \in BOOLEAN, Book(n, b, status, s, guest)
        PROVE  RowTypes'
    BY <1>0, <2>3 DEF Book, Committed, RowTypes
  <2> QED BY <1>2, <2>1, <2>2, <2>3 DEF Request
<1>3. ASSUME NEW n \in Node, Emit(n) \/ Start(n) \/ Crash(n) \/ Reconciles(n) PROVE RowTypes'
  BY <1>0, <1>3, ConstantTypes DEF Emit, Start, Crash, Fault, Reconciles, RowTypes, bookings
<1>4. ASSUME NEW j \in Job, Refreshes(j) \/ Reads(j) \/ Arms(j) \/ Replans(j) \/ PlanThrows(j) PROVE RowTypes'
  BY <1>0, <1>4 DEF Refreshes, Reads, Arms, Replans, PlanThrows, Fault, Rest, RowTypes, bookings
<1>5. ASSUME NEW j \in Job, RunBegins(j) \/ RunReturns(j) \/ RunThrows(j) PROVE RowTypes'
  BY <1>0, <1>5 DEF RunBegins, RunReturns, RunThrows, Fault, RowTypes, bookings
<1>6. ASSUME NEW j \in Job, NEW b \in Booking, Claim(j, b) PROVE RowTypes'
  <2>1. j[1] \in Node
    BY DEF Job
  <2> QED BY <1>0, <1>6, <2>1 DEF Claim, RowTypes
<1> QED BY <1>1, <1>2, <1>3, <1>4, <1>5, <1>6 DEF Next, RunStep

LEMMA RunsKept ==
  ASSUME TypeOK, Next
  PROVE  RunTypes'
<1>0. RunTypes /\ RowTypes /\ now \in Nat /\ state \in [Job -> JobState] /\ jobs \subseteq Job
  BY TypeParts DEF SchedulerTypeOK
<1>1. ASSUME run' = run, jobs' = jobs, \A j \in Job : state[j].running => state'[j].running PROVE RunTypes'
  BY <1>0, <1>1 DEF RunTypes
<1>2. CASE Tick
  BY <1>1, <1>2 DEF Tick, scheduler
<1>3. ASSUME NEW n \in Node, NEW b \in Booking, Request(n, b) PROVE RunTypes'
  BY <1>1, <1>3 DEF Request, Book, Move, Close, CheckIn, Committed, scheduler
<1>4. ASSUME NEW n \in Node, Emit(n) \/ Reconciles(n) PROVE RunTypes'
  <2>1. \A j \in Job : state'[j].running = state[j].running
    BY <1>0, <1>4 DEF Emit, Reconciles, Signal, Reconcile, queueRefresh, JobState
  <2> QED BY <1>1, <1>4, <2>1 DEF Emit, Reconciles, Signal, Reconcile
<1>5. ASSUME NEW n \in Node, Start(n) PROVE RunTypes'
  <2>1. \A j \in Job : run[j] # Idle => j \notin Of(n) /\ j \in jobs /\ state[j].running
    BY <1>0, <1>5 DEF Start, RegisterAll, RunTypes
  <2>2. run' = run /\ jobs \subseteq jobs' /\ \A j \in Job : j \notin Of(n) => state'[j] = state[j]
    BY <1>0, <1>5 DEF Start, RegisterAll
  <2> QED BY <1>0, <2>1, <2>2 DEF RunTypes
<1>6. ASSUME NEW n \in Node, Crash(n) PROVE RunTypes'
  <2>1. \A j \in Job : j \in Of(n) => j[1] = n
    BY DEF Of
  <2>2. \A j \in Job : state'[j] = IF j \in Of(n) THEN Absent ELSE state[j]
    BY <1>6 DEF Crash, UnregisterAll
  <2> QED BY <1>0, <1>6, <2>1, <2>2, ConstantTypes DEF Crash, UnregisterAll, RunTypes
<1>7. ASSUME NEW j \in Job, Refreshes(j) \/ Reads(j) \/ Arms(j) \/ Replans(j) \/ PlanThrows(j) PROVE RunTypes'
  <2>1. run' = run
    BY <1>7 DEF Refreshes, Reads, Arms, Replans, PlanThrows, Rest
  <2>2. CASE Refreshes(j)
    BY <1>0, <1>1, <2>1, <2>2 DEF Refreshes, RefreshFires, JobState
  <2>3. CASE Reads(j)
    BY <1>0, <1>1, <2>1, <2>3 DEF Reads, PlanReads, JobState
  <2>4. CASE Arms(j)
    BY <1>0, <1>1, <2>1, <2>4 DEF Arms, RefreshEnds, JobState
  <2>5. CASE Replans(j)
    BY <1>0, <1>1, <2>1, <2>5 DEF Replans, ReplanFires, JobState
  <2>6. CASE PlanThrows(j)
    BY <1>0, <1>1, <2>1, <2>6 DEF PlanThrows, PlanFails, JobState
  <2> QED BY <1>7, <2>2, <2>3, <2>4, <2>5, <2>6
<1>8. ASSUME NEW j \in Job, RunBegins(j) PROVE RunTypes'
  <2>1. Candidates(j[2]) \in SUBSET Booking
    BY DEF Candidates
  <2>2. \A i \in Job : i # j => state'[i] = state[i]
    BY <1>0, <1>8 DEF RunBegins, RunFires
  <2>3. state'[j].running /\ j \in jobs /\ jobs' = jobs
    BY <1>0, <1>8 DEF RunBegins, RunFires, JobState
  <2> QED BY <1>0, <1>8, <2>1, <2>2, <2>3 DEF RunBegins, RunTypes
<1>9. ASSUME NEW j \in Job, RunReturns(j) \/ RunThrows(j) PROVE RunTypes'
  <2>1. jobs' = jobs /\ \A i \in Job : i # j => state'[i] = state[i]
    BY <1>0, <1>9 DEF RunReturns, RunThrows, RunEnds
  <2> QED BY <1>0, <1>9, <2>1, ConstantTypes DEF RunReturns, RunThrows, RunTypes
<1>10. ASSUME NEW j \in Job, NEW b \in Booking, Claim(j, b) PROVE RunTypes'
  <2>1. state' = state /\ jobs' = jobs /\ run[j].todo # {}
    BY <1>10 DEF Claim, scheduler
  <2>2. state[j].running /\ j \in jobs
    BY <1>0, <2>1 DEF RunTypes, Idle
  <2>3. run[j].todo \ {b} \in SUBSET Booking
    BY <1>0 DEF RunTypes
  <2> QED BY <1>0, <1>10, <2>1, <2>2, <2>3 DEF Claim, RunTypes
<1> QED BY <1>2, <1>3, <1>4, <1>5, <1>6, <1>7, <1>8, <1>9, <1>10 DEF Next, RunStep

\* The invariants of the jobs: their types, one step at a time, no signal lost.
JobsInv == TypeOK /\ OneStepAtATime /\ SignalIsHeeded

LEMMA JobsInvariant == Spec => []JobsInv
<1>1. Init => JobsInv
  BY InitInv DEF JobsInv
<1>2. JobsInv /\ [Next]_vars => JobsInv'
  <2> SUFFICES ASSUME JobsInv, [Next]_vars PROVE JobsInv'
    OBVIOUS
  <2>1. TypeOK /\ SchedulerInv
    BY TypeParts DEF JobsInv, SchedulerInv
  <2>2. CASE Next
    <3>1. SchedulerInv' /\ RowTypes' /\ RunTypes'
      BY <2>1, <2>2, SchedulerStep, RowsKept, RunsKept
    <3> QED BY <3>1, TypeParts DEF JobsInv, SchedulerInv
  <2>3. CASE UNCHANGED vars
    BY <2>3 DEF vars, JobsInv, TypeOK, SchedulerTypeOK, OneStepAtATime, SignalIsHeeded
  <2> QED BY <2>2, <2>3
<1> QED BY <1>1, <1>2, PTL DEF Spec

\* Every variable always holds a value of its column, and only a registered job that runs has rows listed: the
\* service's queries and timers never see another.
THEOREM Typing == Spec => []TypeOK
<1>1. JobsInv => TypeOK
  BY DEF JobsInv
<1> QED BY <1>1, JobsInvariant, PTL

\* No job runs twice at once or plans while it runs, in any number of processes and jobs and however
\* timers, signals and awaited reads of refresh() and run() interleave.
THEOREM JobsDoNotOverlap == Spec => []OneStepAtATime
<1>1. JobsInv => OneStepAtATime
  BY DEF JobsInv
<1> QED BY <1>1, JobsInvariant, PTL

\* pendingRefresh and the refresh that ends every run lose no signal: after a signalled change there
\* is always a read to come.
THEOREM SignalsAreHeeded == Spec => []SignalIsHeeded
<1>1. JobsInv => SignalIsHeeded
  BY DEF JobsInv
<1> QED BY <1>1, JobsInvariant, PTL

\* The claims of the three sweeps, whatever came between the list and the claim: reminders and
\* alerts are for open bookings, and only a payment hold expires.
THEOREM ClaimsAreCurrent == Spec => ClaimsOpenBooking
<1>1. ASSUME TypeOK, [Next]_vars, NEW b \in Booking
      PROVE  /\ b \in reminded' \ reminded => booking[b] \in Open
             /\ b \in alerted' \ alerted => booking[b] = "CONFIRMED" /\ b \notin visited
             /\ booking[b] = "CONFIRMED" /\ booking'[b] = "CLOSED" => run' = run
  <2>1. CASE UNCHANGED vars
    BY <2>1 DEF vars
  <2>2. ASSUME NEW j \in Job, NEW c \in Booking, Claim(j, c)
        PROVE  /\ b \in reminded' \ reminded => booking[b] \in Open
               /\ b \in alerted' \ alerted => booking[b] = "CONFIRMED" /\ b \notin visited
               /\ booking[b] = "CONFIRMED" /\ booking'[b] = "CLOSED" => run' = run
    <3>1. booking \in [Booking -> Open \cup {"ABSENT", "CLOSED"}]
      BY <1>1 DEF TypeOK
    <3>2. j[2] \in {"expire", "remind", "alert"}
      BY KindAssumption DEF Job
    <3>3. Claimable(j[2], c, run[j].since) =>
            /\ j[2] = "expire" => booking[c] = "PENDING_PAYMENT"
            /\ j[2] = "remind" => booking[c] \in Open
            /\ j[2] = "alert" => booking[c] = "CONFIRMED" /\ c \notin visited
      BY <3>2 DEF Claimable, AwaitsReminder, AwaitsAlert
    <3>4. b \in reminded' \ reminded => b = c /\ j[2] = "remind" /\ Claimable(j[2], c, run[j].since)
      BY <2>2 DEF Claim
    <3>5. b \in alerted' \ alerted => b = c /\ j[2] = "alert" /\ Claimable(j[2], c, run[j].since)
      BY <2>2 DEF Claim
    <3>6. booking'[b] # booking[b] => b = c /\ j[2] = "expire" /\ Claimable(j[2], c, run[j].since)
      BY <2>2, <3>1 DEF Claim
    <3> QED BY <3>3, <3>4, <3>5, <3>6
  <2>3. ASSUME NEW n \in Node, NEW c \in Booking, Request(n, c)
        PROVE  reminded' = reminded /\ alerted' = alerted /\ run' = run
    BY <2>3 DEF Request, Book, Move, Close, CheckIn, Committed
  <2>4. ASSUME NEW n \in Node, Emit(n) \/ Start(n) \/ Crash(n) \/ Reconciles(n)
        PROVE  reminded' = reminded /\ alerted' = alerted /\ booking' = booking
    BY <2>4 DEF Emit, Start, Crash, Reconciles, bookings
  <2>5. ASSUME NEW j \in Job, \/ Refreshes(j) \/ Reads(j) \/ Arms(j) \/ Replans(j) \/ PlanThrows(j)
                              \/ RunBegins(j) \/ RunReturns(j) \/ RunThrows(j)
        PROVE  reminded' = reminded /\ alerted' = alerted /\ booking' = booking
    BY <2>5 DEF Refreshes, Reads, Arms, Replans, PlanThrows, Rest, RunBegins, RunReturns, RunThrows, bookings
  <2>6. CASE Tick
    BY <2>6 DEF Tick, bookings
  <2> QED BY <1>1, <2>1, <2>2, <2>3, <2>4, <2>5, <2>6 DEF Next, RunStep
<1>2. TypeOK /\ [Next]_vars =>
        [\A b \in Booking :
           /\ b \in reminded' \ reminded => booking[b] \in Open
           /\ b \in alerted' \ alerted => booking[b] = "CONFIRMED" /\ b \notin visited
           /\ booking[b] = "CONFIRMED" /\ booking'[b] = "CLOSED" => run' = run]_vars
  BY <1>1
<1> QED BY <1>2, Typing, PTL DEF Spec, ClaimsOpenBooking
=============================================================================
