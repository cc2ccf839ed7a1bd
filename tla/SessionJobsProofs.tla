-------------------------- MODULE SessionJobsProofs --------------------------
(***************************************************************************)
(* Proofs about SessionJobs, for any set of jobs, requests and dependencies *)
(* and with or without refreshes, crashes and lost calls; and what holds   *)
(* when the session is refreshed only between the operations on it.        *)
(***************************************************************************)
EXTENDS SessionJobs, TLAPS

Row == [state : SessionState, manifest : SUBSET Dependencies,
        installed : SUBSET Dependencies]

\* The awaits of functions that hold a job, and what a task can hold there.
JobCalls == {"s_fresh", "s_delta", "s_same", "s_start", "e_sync", "f_events",
             "f_job", "v_start"}
Context == {w \in Task : w.pc \in JobCalls => w.job \in Jobs}

\* The inductive invariant: whoever awaits the outcome of a job knows which.
IInv == TypeOK /\ task \in [Tasks -> Context]

Outcomes == {"succeeded", "failed"}
Written == JobState \cup {"none"}

\* A step overwrites no outcome.
Stands == \A j \in Jobs : job[j] \in Outcomes => job'[j] = job[j]
GoodJobs == job' \in [Jobs -> Written] /\ Stands
GoodTasks == task' \in [Tasks -> Context]

\* A step of the backend is well behaved.
Behaved == row' \in Row /\ GoodJobs /\ GoodTasks /\ UNCHANGED <<provisioned, remote>>

---------------------------------------------------------------------------
(* What the operators on one variable keep *)

LEMMA RowTyped == IInv => row \in Row
BY DEF IInv, TypeOK, Row

LEMMA RestingTyped == Resting \in Context
BY DEF Resting, Context, Task, Pcs, JobCalls, NoState, SessionState

LEMMA GoTyped ==
  ASSUME IInv, NEW t \in Tasks, NEW w \in Context, Go(t, w)
  PROVE  GoodTasks
BY DEF Go, IInv, GoodTasks

LEMMA StopTyped ==
  ASSUME IInv, NEW t \in Tasks, Stop(t)
  PROVE  GoodTasks
BY GoTyped, RestingTyped DEF Stop

LEMMA InTyped ==
  ASSUME IInv, NEW s \in SessionState
  PROVE  In(s) \in Row
BY DEF In, IInv, TypeOK, Row

\* A job row that is written in a state its outcome allows.
LEMMA SavedStands ==
  ASSUME IInv, NEW j, NEW s \in JobState, job' = Saved(j, s),
         j \in Jobs => job[j] \notin Outcomes \/ job[j] = s
  PROVE  GoodJobs
BY DEF IInv, TypeOK, Saved, GoodJobs, Written, Stands

LEMMA UnchangedStands == IInv /\ UNCHANGED job => GoodJobs
BY DEF IInv, TypeOK, GoodJobs, Written, Stands

LEMMA AbandonStands == IInv /\ job' = AbandonSessionWork => GoodJobs
BY DEF IInv, TypeOK, AbandonSessionWork, GoodJobs, Written, Stands, ActiveStates,
       JobState, Outcomes

\* The contexts in which the actions leave a task, without and with a job.
LEMMA JoblessContext ==
  ASSUME NEW p \in Pcs \ JobCalls, NEW s \in SessionState, NEW b \in SUBSET Dependencies
  PROVE  /\ [Resting EXCEPT !.pc = p] \in Context
         /\ [Resting EXCEPT !.pc = p, !.state = s] \in Context
         /\ [Resting EXCEPT !.pc = p, !.base = b] \in Context
         /\ [Resting EXCEPT !.pc = p, !.state = s, !.base = b] \in Context
BY RestingTyped DEF Context, Task

LEMMA JobContext ==
  ASSUME NEW p \in Pcs, NEW j \in Jobs, NEW s \in SessionState,
         NEW b \in SUBSET Dependencies, NEW a \in Written
  PROVE  /\ [Resting EXCEPT !.pc = p, !.job = j] \in Context
         /\ [Resting EXCEPT !.pc = p, !.job = j, !.base = b] \in Context
         /\ [Resting EXCEPT !.pc = p, !.job = j, !.state = s, !.at = a] \in Context
         /\ [Resting EXCEPT !.pc = p, !.job = j, !.state = s, !.base = b, !.at = a]
              \in Context
BY RestingTyped DEF Context, Task, Written

LEMMA DestroyBeginTyped ==
  ASSUME IInv, NEW t \in Tasks, NEW r \in Row, DestroyBegin(t, r)
  PROVE  row' \in Row /\ GoodTasks
<1>1. row' \in Row
  BY DEF DestroyBegin, Row, SessionState
<1>2. [Resting EXCEPT !.pc = "d_absent"] \in Context
  BY RestingTyped DEF Context, Task, Pcs, JobCalls
<1> QED
  BY <1>1, <1>2, GoTyped DEF DestroyBegin

LEMMA FinishedTyped ==
  ASSUME IInv, NEW t \in Tasks, NEW r \in Row, Finished(t, r)
  PROVE  row' \in Row /\ GoodTasks
BY DestroyBeginTyped, StopTyped DEF Finished

LEMMA FollowTyped ==
  ASSUME IInv, NEW t \in Tasks, NEW j \in Jobs, NEW s \in SessionState,
         NEW a \in Written, Follow(t, j, s, a)
  PROVE  GoodTasks
<1> DEFINE f == [Resting EXCEPT !.pc = "f_events", !.job = j, !.state = s, !.at = a]
<1>1. f \in Context
  BY RestingTyped DEF Context, Task, Pcs, Written
<1>2. j \in Tasks
  BY DEF Tasks
<1> HIDE DEF f
<1>3. task' = IF task[t].answer = "done" THEN [task EXCEPT ![t] = f]
              ELSE [task EXCEPT ![t] = Resting,
                                ![j] = IF @.pc = "idle" THEN f ELSE @]
  BY DEF Follow, f
<1> QED
  BY <1>1, <1>2, <1>3, RestingTyped DEF IInv, GoodTasks

---------------------------------------------------------------------------
(* Destruction *)

LEMMA DestroyStep ==
  ASSUME IInv, NEW t \in Requests, Destroy(t)
  PROVE  Behaved
BY DestroyBeginTyped, RowTyped, UnchangedStands DEF Destroy, Behaved, Tasks

LEMMA ExpireStep ==
  ASSUME IInv, NEW t \in Requests, Expire(t)
  PROVE  Behaved
<1>1. PICK j \in Jobs : Go(t, [Resting EXCEPT !.pc = "e_sync", !.job = j])
  BY DEF Expire
<1>2. [Resting EXCEPT !.pc = "e_sync", !.job = j] \in Context
  BY RestingTyped DEF Context, Task, Pcs
<1> QED
  BY <1>1, <1>2, GoTyped, RowTyped, UnchangedStands DEF Expire, Behaved, Tasks

LEMMA ExpireSyncedStep ==
  ASSUME IInv, NEW t \in Requests, ExpireSynced(t)
  PROVE  Behaved
<1> DEFINE j == task[t].job
           w == [Resting EXCEPT !.pc = "f_events", !.job = j,
                                !.state = row.state, !.at = job[j]]
<1>1. t \in Tasks /\ UNCHANGED <<job, provisioned, remote>>
  BY DEF Tasks, ExpireSynced
<1>2. CASE DestroyBegin(t, row)
  BY <1>1, <1>2, DestroyBeginTyped, RowTyped, UnchangedStands DEF Behaved
<1>3. CASE Go(t, w) /\ UNCHANGED row
  <2>1. task[t] \in Context /\ task[t].pc = "e_sync"
    BY <1>1 DEF ExpireSynced, Waiting, IInv
  <2>2. j \in Jobs
    BY <2>1 DEF Context, JobCalls
  <2>3. row.state \in SessionState /\ job[j] \in Written
    BY <2>2 DEF IInv, TypeOK, Written
  <2>4. w \in Context
    BY <2>2, <2>3, JobContext DEF Pcs
  <2> QED
    BY <1>1, <1>3, <2>4, GoTyped, RowTyped, UnchangedStands DEF Behaved
<1> QED
  BY <1>2, <1>3 DEF ExpireSynced

LEMMA DestroyVerifiedStep ==
  ASSUME IInv, NEW t \in Tasks, DestroyVerified(t)
  PROVE  Behaved
<1>1. row' \in Row
  BY InTyped, RowTyped DEF DestroyVerified, SessionState
<1>2. GoodJobs
  BY UnchangedStands, AbandonStands DEF DestroyVerified
<1> QED
  BY <1>1, <1>2, StopTyped DEF DestroyVerified, Behaved

---------------------------------------------------------------------------
(* Finishing a job *)

LEMMA Held ==
  ASSUME IInv, NEW t \in Tasks, task[t].pc \in JobCalls
  PROVE  /\ task[t] \in Context
         /\ task[t].job \in Jobs
         /\ task[t].state \in SessionState
         /\ task[t].base \in SUBSET Dependencies
         /\ task[t].at \in Written
         /\ job[task[t].job] \in Written
         /\ remote[task[t].job].seq \in Nat
<1>1. task[t] \in Context
  BY DEF IInv
<1>2. task[t].job \in Jobs
  BY <1>1 DEF Context
<1> QED
  BY <1>1, <1>2 DEF Context, Task, Written, IInv, TypeOK

LEMMA FinishEventsStep ==
  ASSUME IInv, NEW t \in Tasks, FinishEvents(t)
  PROVE  Behaved
<1> DEFINE n == remote[task[t].job].seq
           w == [task[t] EXCEPT !.pc = "f_job", !.seq = n]
<1>1. CASE Finished(t, row)
  BY <1>1, FinishedTyped, RowTyped, UnchangedStands DEF FinishEvents, Behaved
<1>2. CASE Go(t, w) /\ UNCHANGED row
  <2>1. task[t].pc \in JobCalls
    BY DEF FinishEvents, Waiting, JobCalls
  <2>2. task[t] \in Context /\ task[t].job \in Jobs /\ n \in Nat
    BY <2>1, Held
  <2> HIDE DEF n
  <2>3. w \in Context
    BY <2>2 DEF Context, Task, Pcs
  <2> QED
    BY <1>2, <2>3, GoTyped, RowTyped, UnchangedStands DEF FinishEvents, Behaved
<1> QED
  BY <1>1, <1>2 DEF FinishEvents

LEMMA FinishSucceededStep ==
  ASSUME IInv, NEW t \in Tasks, task[t].pc \in JobCalls, FinishSucceeded(t)
  PROVE  row' \in Row /\ GoodJobs /\ GoodTasks
<1> DEFINE j == task[t].job
           a == task[t].at
           s == task[t].state
           r == IF s = "running" THEN In("harvesting") ELSE row
           harvests == /\ Current(j, a) /\ a \in {"running", "harvesting"}
                       /\ s \in {"running", "harvesting"}
           ready == IF r.state = "harvesting" THEN [r EXCEPT !.state = "ready"] ELSE r
<1>1. r \in Row
  BY InTyped, RowTyped DEF SessionState
<1>2. ready \in Row
  <2> HIDE DEF r
  <2> QED
    BY <1>1 DEF Row, SessionState
<1>3. \/ Finished(t, row) /\ UNCHANGED job
      \/ harvests /\ job' = Saved(j, "succeeded") /\ Finished(t, ready)
      \/ /\ Finished(t, r)
         /\ \/ UNCHANGED job
            \/ a = "running" /\ Current(j, a) /\ job' = Saved(j, "harvesting")
  BY DEF FinishSucceeded
<1>4. harvests \/ (a = "running" /\ Current(j, a)) => job[j] \notin Outcomes
  BY DEF Current, Outcomes
<1>5. {"succeeded", "harvesting"} \subseteq JobState
  BY DEF JobState, ActiveStates
<1> HIDE DEF r, ready, harvests, a, j
<1>6. row' \in Row /\ GoodTasks
  BY <1>1, <1>2, <1>3, RowTyped, FinishedTyped
<1>7. GoodJobs
  BY <1>3, <1>4, <1>5, SavedStands, UnchangedStands
<1> QED
  BY <1>6, <1>7

LEMMA FinishFailedStep ==
  ASSUME IInv, NEW t \in Tasks, task[t].pc \in JobCalls, FinishFailed(t)
  PROVE  row' \in Row /\ GoodJobs /\ GoodTasks
<1> DEFINE j == task[t].job
           s == task[t].state
           r == IF row.state = s /\ CanMove(s, "ready") THEN In("ready") ELSE row
<1>1. r \in Row
  BY InTyped, RowTyped DEF SessionState
<1>2. \/ Finished(t, row) /\ UNCHANGED job
      \/ /\ Current(j, task[t].at) /\ task[t].at # "succeeded"
         /\ job' = Saved(j, "failed") /\ Finished(t, r)
  BY DEF FinishFailed
<1>3. "failed" \in JobState
  BY DEF JobState
<1> HIDE DEF r, j
<1>4. row' \in Row /\ GoodTasks
  BY <1>1, <1>2, RowTyped, FinishedTyped
<1>5. GoodJobs
  BY <1>2, <1>3, SavedStands, UnchangedStands DEF Current, Outcomes
<1> QED
  BY <1>4, <1>5

LEMMA FinishJobStep ==
  ASSUME IInv, NEW t \in Tasks, FinishJob(t)
  PROVE  Behaved
<1> DEFINE w == [task[t] EXCEPT !.pc = "f_events", !.seq = 0]
<1>1. task[t].pc \in JobCalls /\ UNCHANGED <<provisioned, remote>>
  BY DEF FinishJob, Waiting, JobCalls
<1>2. CASE Finished(t, row) /\ UNCHANGED job
  BY <1>1, <1>2, FinishedTyped, RowTyped, UnchangedStands DEF Behaved
<1>3. CASE Go(t, w) /\ UNCHANGED <<row, job>>
  <2>1. w \in Context
    BY <1>1, Held DEF Context, Task, Pcs
  <2> QED
    BY <1>1, <1>3, <2>1, GoTyped, RowTyped, UnchangedStands DEF Behaved
<1>4. CASE FinishSucceeded(t)
  BY <1>1, <1>4, FinishSucceededStep DEF Behaved
<1>5. CASE FinishFailed(t)
  BY <1>1, <1>5, FinishFailedStep DEF Behaved
<1> QED
  BY <1>2, <1>3, <1>4, <1>5 DEF FinishJob

---------------------------------------------------------------------------
(* Submitting a job *)

LEMMA SubmitStep ==
  ASSUME IInv, NEW t \in Requests, NEW j \in Jobs, Submit(t, j)
  PROVE  Behaved
<1>1. row.installed \in SUBSET Dependencies
  BY DEF IInv, TypeOK
<1>2. [Resting EXCEPT !.pc = "s_fresh", !.job = j, !.base = row.installed] \in Context
  BY <1>1, RestingTyped DEF Context, Task, Pcs
<1> QED
  BY <1>2, GoTyped, RowTyped, UnchangedStands DEF Submit, Behaved, Tasks

LEMMA SubmitClaimStep ==
  ASSUME IInv, NEW t \in Requests, SubmitClaim(t)
  PROVE  Behaved
<1> DEFINE j == task[t].job
           call(pc) == [Resting EXCEPT !.pc = pc, !.job = j]
<1>1. t \in Tasks /\ UNCHANGED <<provisioned, remote>>
  BY DEF SubmitClaim, Tasks
<1>2. j \in Jobs
  BY <1>1, Held DEF SubmitClaim, Waiting, JobCalls
<1>3. call("s_delta") \in Context /\ call("s_same") \in Context /\ call("s_start") \in Context
  BY <1>2, RestingTyped DEF Context, Task, Pcs, ApplyCalls, StartCalls
<1>4. /\ \/ Stop(t)
         \/ Go(t, call("s_delta")) \/ Go(t, call("s_same")) \/ Go(t, call("s_start"))
      /\ row' \in {row, In("running"), In("provisioning")}
      /\ \/ UNCHANGED job
         \/ /\ job[j] = "none"
            /\ \/ job' = Saved(j, "failed") \/ job' = Saved(j, "resolving")
               \/ job' = Saved(j, "queued")
  BY DEF SubmitClaim
<1> HIDE DEF j, call
<1>5. GoodTasks
  BY <1>1, <1>3, <1>4, GoTyped, StopTyped
<1>6. row' \in Row
  BY <1>4, RowTyped, InTyped DEF SessionState
<1>7. GoodJobs
  BY <1>4, SavedStands, UnchangedStands DEF JobState, ActiveStates, Outcomes
<1> QED
  BY <1>1, <1>5, <1>6, <1>7 DEF Behaved

LEMMA RunningTyped ==
  ASSUME IInv, NEW m \in SUBSET Dependencies
  PROVE  Running(m) \in Row
BY DEF Running, Row, SessionState

LEMMA SubmitAppliedStep ==
  ASSUME IInv, NEW t \in Requests, SubmitApplied(t)
  PROVE  Behaved
<1> DEFINE j == task[t].job
           start == [Resting EXCEPT !.pc = "s_start", !.job = j]
<1>1. t \in Tasks /\ UNCHANGED <<provisioned, remote>>
  BY DEF SubmitApplied, Tasks
<1>2. j \in Jobs
  BY <1>1, Held DEF SubmitApplied, Answered, JobCalls
<1>3. start \in Context
  BY <1>2, RestingTyped DEF Context, Task, Pcs, StartCalls
<1>4. /\ Stop(t) \/ Go(t, start)
      /\ row' \in {row, In("failed"), Running(Want[j])}
      /\ \/ UNCHANGED job
         \/ /\ Current(j, "resolving")
            /\ job' = Saved(j, "failed") \/ job' = Saved(j, "queued")
  BY DEF SubmitApplied
<1>5. Want[j] \in SUBSET Dependencies
  BY <1>2, JobParameters
<1> HIDE DEF j, start
<1>6. GoodTasks
  BY <1>1, <1>3, <1>4, GoTyped, StopTyped
<1>7. row' \in Row
  BY <1>4, <1>5, RowTyped, InTyped, RunningTyped DEF SessionState
<1>8. GoodJobs
  BY <1>4, SavedStands, UnchangedStands DEF Current, JobState, ActiveStates, Outcomes
<1> QED
  BY <1>1, <1>6, <1>7, <1>8 DEF Behaved

LEMMA SubmitStartedStep ==
  ASSUME IInv, NEW t \in Requests, SubmitStarted(t)
  PROVE  Behaved
<1> DEFINE j == task[t].job
<1>1. t \in Tasks /\ UNCHANGED <<row, provisioned, remote>>
  BY DEF SubmitStarted, Tasks
<1>2. j \in Jobs
  BY <1>1, Held DEF SubmitStarted, Answered, JobCalls
<1>3. \/ Stop(t) /\ UNCHANGED job
      \/ /\ Current(j, "queued") /\ job' = Saved(j, "running")
         /\ Follow(t, j, "running", "running")
  BY DEF SubmitStarted
<1>4. "running" \in SessionState /\ "running" \in JobState
  BY DEF SessionState, JobState, ActiveStates
<1> HIDE DEF j
<1>5. GoodTasks
  BY <1>1, <1>2, <1>3, <1>4, StopTyped, FollowTyped DEF Written
<1>6. GoodJobs
  BY <1>3, <1>4, SavedStands, UnchangedStands DEF Current, Outcomes
<1> QED
  BY <1>1, <1>5, <1>6, RowTyped DEF Behaved

---------------------------------------------------------------------------
(* Refreshing the session *)

LEMMA PollStep ==
  ASSUME IInv, NEW t \in Requests, Poll(t)
  PROVE  Behaved
<1>1. row.state \in SessionState
  BY DEF IInv, TypeOK
<1>2. /\ [Resting EXCEPT !.pc = "p_get", !.state = row.state] \in Context
      /\ [Resting EXCEPT !.pc = "d_poll"] \in Context
  BY <1>1, RestingTyped DEF Context, Task, Pcs, JobCalls
<1> QED
  BY <1>2, GoTyped, RowTyped, UnchangedStands DEF Poll, Behaved, Tasks

LEMMA PollGotStep ==
  ASSUME IInv, NEW t \in Requests, PollGot(t)
  PROVE  Behaved
<1> DEFINE s == task[t].state
           w == [Resting EXCEPT !.pc = "p_health", !.state = s, !.base = row.manifest]
<1>1. s \in SessionState /\ row.manifest \in SUBSET Dependencies
  BY DEF IInv, Context, Task, Tasks, TypeOK
<1>2. w \in Context
  BY <1>1, RestingTyped DEF Context, Task, Pcs, JobCalls
<1>3. /\ Stop(t) \/ Go(t, w)
      /\ row' \in {row, In(s)}
      /\ UNCHANGED <<job, provisioned, remote>>
  BY DEF PollGot
<1> HIDE DEF s, w
<1> QED
  BY <1>1, <1>2, <1>3, GoTyped, StopTyped, RowTyped, InTyped, UnchangedStands
     DEF Behaved, Tasks

LEMMA BootstrapHealthStep ==
  ASSUME IInv, NEW t \in Tasks, BootstrapHealth(t)
  PROVE  Behaved
<1> DEFINE next(pc) == [task[t] EXCEPT !.pc = pc, !.state = NoState]
<1>1. task[t] \in Context
  BY DEF IInv
<1>2. next("p_apply") \in Context /\ next("p_deadline") \in Context
  BY <1>1 DEF Context, Task, Pcs, ApplyCalls, JobCalls, NoState, SessionState
<1>3. /\ Stop(t) \/ Go(t, next("p_apply")) \/ Go(t, next("p_deadline"))
      /\ row' \in {row, In("provisioning")}
      /\ UNCHANGED <<job, provisioned, remote>>
  BY DEF BootstrapHealth
<1> HIDE DEF next
<1> QED
  BY <1>2, <1>3, GoTyped, StopTyped, RowTyped, InTyped, UnchangedStands
     DEF Behaved, SessionState

LEMMA BootstrapAppliedStep ==
  ASSUME IInv, NEW t \in Tasks, BootstrapApplied(t)
  PROVE  Behaved
<1> DEFINE w == [Resting EXCEPT !.pc = "p_deadline", !.base = task[t].base]
<1>1. task[t].base \in SUBSET Dependencies
  BY DEF IInv, Context, Task
<1>2. w \in Context
  BY <1>1, RestingTyped DEF Context, Task, Pcs, JobCalls
<1>3. /\ Stop(t) \/ Go(t, w)
      /\ row' \in {row, In("validating")}
      /\ UNCHANGED <<job, provisioned, remote>>
  BY DEF BootstrapApplied
<1> HIDE DEF w
<1> QED
  BY <1>2, <1>3, GoTyped, StopTyped, RowTyped, InTyped, UnchangedStands
     DEF Behaved, SessionState

LEMMA BootstrapDeadlineStep ==
  ASSUME IInv, NEW t \in Tasks, BootstrapDeadline(t)
  PROVE  Behaved
<1>1. task[t].base \in SUBSET Dependencies /\ row \in Row
  BY RowTyped DEF IInv, Context, Task
<1>2. row' \in Row
  BY <1>1 DEF BootstrapDeadline, Row, SessionState
<1> QED
  BY <1>2, StopTyped, UnchangedStands DEF BootstrapDeadline, Behaved

---------------------------------------------------------------------------
(* Restart *)

LEMMA RecoveryTask == Recovery \in Tasks
BY DEF Tasks

LEMMA ResumeSessionStep ==
  ASSUME IInv, ResumeSession
  PROVE  GoodJobs /\ GoodTasks
<1>1. CASE Stop(Recovery) /\ UNCHANGED job
  BY <1>1, RecoveryTask, StopTyped, UnchangedStands
<1>2. ASSUME NEW j \in Jobs, NEW a, ActiveJobs = {j},
             a = (IF job[j] \in {"captured", "resolving"} THEN "queued" ELSE job[j]),
             job' = Saved(j, a),
             IF row.state = "running"
             THEN Go(Recovery, [Resting EXCEPT !.pc = "v_start", !.job = j, !.at = a])
             ELSE Follow(Recovery, j, "harvesting", a)
      PROVE  GoodJobs /\ GoodTasks
  <2>1. job[j] \in ActiveStates
    BY <1>2 DEF ActiveJobs
  <2>2. a \in JobState /\ job[j] \notin Outcomes
    BY <1>2, <2>1 DEF JobState, ActiveStates, Outcomes
  <2>3. GoodJobs
    BY <1>2, <2>2, SavedStands
  <2>4. [Resting EXCEPT !.pc = "v_start", !.job = j, !.at = a] \in Context
    BY <2>2, RestingTyped DEF Context, Task, Pcs, StartCalls
  <2>5. GoodTasks
    BY <1>2, <2>2, <2>4, RecoveryTask, GoTyped, FollowTyped DEF Written, SessionState
  <2> QED
    BY <2>3, <2>5
<1> QED
  BY <1>1, <1>2 DEF ResumeSession

LEMMA RecoverListedStep ==
  ASSUME IInv, RecoverListed
  PROVE  Behaved
<1> DEFINE s == row.state
           w(pc, m) == [Resting EXCEPT !.pc = pc, !.state = s, !.base = m]
<1>1. /\ s \in SessionState
      /\ row.manifest \in SUBSET Dependencies /\ row.installed \in SUBSET Dependencies
  BY DEF IInv, TypeOK
<1>2. /\ w("d_poll", {}) \in Context
      /\ w("p_health", row.manifest) \in Context
      /\ w("v_apply", row.installed) \in Context
  BY <1>1, RestingTyped DEF Context, Task, Pcs, ApplyCalls, JobCalls
<1>3. /\ row' \in {row, In("destroying")} /\ UNCHANGED <<provisioned, remote>>
      /\ \/ ResumeSession
         \/ /\ UNCHANGED job
            /\ \/ Stop(Recovery) \/ Go(Recovery, w("d_poll", {}))
               \/ Go(Recovery, w("p_health", row.manifest))
               \/ Go(Recovery, w("v_apply", row.installed))
  BY DEF RecoverListed
<1> HIDE DEF w
<1>4. row' \in Row
  BY <1>3, RowTyped, InTyped DEF SessionState
<1>5. GoodJobs /\ GoodTasks
  BY <1>2, <1>3, RecoveryTask, GoTyped, StopTyped, ResumeSessionStep, UnchangedStands
<1> QED
  BY <1>3, <1>4, <1>5 DEF Behaved

LEMMA ResumeStartedStep ==
  ASSUME IInv, ResumeStarted
  PROVE  Behaved
<1> DEFINE j == task[Recovery].job
           a == IF task[Recovery].at = "queued" THEN "running" ELSE task[Recovery].at
<1>1. /\ j \in Jobs /\ task[Recovery].at \in Written
      /\ UNCHANGED <<row, provisioned, remote>>
  BY RecoveryTask, Held DEF ResumeStarted, Answered, JobCalls
<1>2. "running" \in JobState
  BY DEF JobState, ActiveStates
<1>3. a \in Written
  BY <1>1, <1>2 DEF Written
<1>4. \/ Stop(Recovery) /\ UNCHANGED job
      \/ /\ Follow(Recovery, j, "running", a)
         /\ \/ UNCHANGED job
            \/ Current(j, "queued") /\ job' = Saved(j, "running")
  BY DEF ResumeStarted
<1> HIDE DEF j, a
<1>5. GoodTasks
  BY <1>1, <1>3, <1>4, RecoveryTask, StopTyped, FollowTyped DEF SessionState
<1>6. GoodJobs
  BY <1>2, <1>4, SavedStands, UnchangedStands DEF Current, Outcomes
<1> QED
  BY <1>1, <1>5, <1>6, RowTyped DEF Behaved

\* A process killed between two writes leaves no outcome overwritten either.
LEMMA HalfWrittenStep ==
  ASSUME IInv, HalfWritten
  PROVE  row' \in Row /\ GoodJobs
<1>1. PICK t \in Tasks :
        LET j == task[t].job IN
        \/ row' = In("destroyed") /\ UNCHANGED job
        \/ /\ task[t].pc \in JobCalls
           /\ row' \in {row, In("running"), In("harvesting"), In("validating"),
                       [Running(Want[j]) EXCEPT !.state = "ready"], Running(Want[j])}
           /\ job[j] \notin Outcomes
           /\ \E s \in JobState : job' = Saved(j, s)
  BY SMTT(60) DEF HalfWritten, Leaves, Waiting, Answered, Current, JobCalls, Outcomes,
                 JobState, ActiveStates
<1> DEFINE j == task[t].job
<1>2. CASE row' = In("destroyed") /\ UNCHANGED job
  BY <1>2, InTyped, UnchangedStands DEF SessionState
<1>3. ASSUME task[t].pc \in JobCalls,
             row' \in {row, In("running"), In("harvesting"), In("validating"),
                      [Running(Want[j]) EXCEPT !.state = "ready"], Running(Want[j])},
             job[j] \notin Outcomes,
             \E s \in JobState : job' = Saved(j, s)
      PROVE  row' \in Row /\ GoodJobs
  <2>1. Want[j] \in SUBSET Dependencies
    BY <1>3, Held, JobParameters
  <2>2. Running(Want[j]) \in Row
    BY <2>1, RunningTyped
  <2>3. [Running(Want[j]) EXCEPT !.state = "ready"] \in Row
    BY <2>2 DEF Row, SessionState
  <2>4. row' \in Row
    BY <1>3, <2>2, <2>3, RowTyped, InTyped DEF SessionState
  <2> QED
    BY <1>3, <2>4, SavedStands
<1> QED
  BY <1>1, <1>2, <1>3

LEMMA CrashStep ==
  ASSUME IInv, Crash
  PROVE  Behaved
<1>1. row' \in Row /\ GoodJobs
  BY HalfWrittenStep, RowTyped, UnchangedStands DEF Crash
<1>2. [Resting EXCEPT !.pc = "v_list"] \in Context
  BY RestingTyped DEF Context, Task, Pcs, JobCalls
<1>3. GoodTasks
  BY <1>2, RestingTyped DEF Crash, Restarted, GoodTasks
<1> QED
  BY <1>1, <1>3 DEF Crash, Behaved

---------------------------------------------------------------------------
(* The remote worker *)

LEMMA AnswerTyped ==
  ASSUME IInv, NEW t \in Tasks, NEW a \in {"no", "ok", "done"}, Answer(t, a)
  PROVE  GoodTasks
<1>1. [task[t] EXCEPT !.answer = a] \in Context
  BY DEF IInv, Context, Task
<1> QED
  BY <1>1, GoTyped DEF Answer

LEMMA WorkerApplyStep ==
  ASSUME IInv, NEW t \in Tasks, WorkerApply(t)
  PROVE  IInv' /\ Stands
<1>1. UNCHANGED <<row, job, remote>> /\ GoodTasks
  BY AnswerTyped DEF WorkerApply
<1>2. Desired(t) \in SUBSET Dependencies
  <2>1. CASE task[t].pc \in {"s_delta", "s_same"}
    BY <2>1, Held, JobParameters DEF Desired, JobCalls
  <2>2. CASE task[t].pc \notin {"s_delta", "s_same"}
    BY <2>2 DEF Desired, IInv, Context, Task
  <2> QED
    BY <2>1, <2>2
<1>3. provisioned' \subseteq Dependencies
  BY <1>2 DEF WorkerApply, IInv, TypeOK
<1> QED
  BY <1>1, <1>3 DEF IInv, TypeOK, GoodTasks, Context, Stands

LEMMA WorkerStartStep ==
  ASSUME IInv, NEW t \in Tasks, WorkerStart(t)
  PROVE  IInv' /\ Stands
<1>1. UNCHANGED <<row, job, provisioned>> /\ GoodTasks
  BY AnswerTyped DEF WorkerStart
<1>2. remote' \in [Jobs -> [state : RemoteState, seq : Nat]]
  BY DEF WorkerStart, IInv, TypeOK, RemoteState
<1> QED
  BY <1>1, <1>2 DEF IInv, TypeOK, GoodTasks, Context, Stands

LEMMA WorkerRunsStep ==
  ASSUME IInv, NEW j \in Jobs, WorkerRuns(j)
  PROVE  IInv' /\ Stands
<1>1. remote' \in [Jobs -> [state : RemoteState, seq : Nat]]
  BY DEF WorkerRuns, IInv, TypeOK, RemoteState
<1> QED
  BY <1>1 DEF WorkerRuns, IInv, TypeOK, Stands

---------------------------------------------------------------------------
(* The theorems *)

LEMMA BehavedStep == IInv /\ Behaved => IInv' /\ Stands
BY DEF IInv, TypeOK, Behaved, Row, GoodJobs, GoodTasks, Written, Context

LEMMA RecoverAppliedStep == IInv /\ RecoverApplied => Behaved
BY RecoveryTask, StopTyped, RowTyped, UnchangedStands DEF RecoverApplied, Behaved

LEMMA ServeStep ==
  ASSUME IInv, NEW t \in Requests, Serve(t)
  PROVE  Behaved
BY SubmitStep, SubmitClaimStep, SubmitAppliedStep, SubmitStartedStep, PollStep,
   PollGotStep, DestroyStep, ExpireStep, ExpireSyncedStep DEF Serve

LEMMA ContinueStep ==
  ASSUME IInv, NEW t \in Tasks, Continue(t)
  PROVE  Behaved
BY BootstrapHealthStep, BootstrapAppliedStep, BootstrapDeadlineStep, FinishEventsStep,
   FinishJobStep, DestroyVerifiedStep DEF Continue

LEMMA InitInv == Init => IInv
<1> SUFFICES ASSUME Init PROVE IInv
  OBVIOUS
<1>1. row \in Row
  BY DEF Init, Row, SessionState
<1>2. job \in [Jobs -> Written]
  BY DEF Init, Written
<1>3. task \in [Tasks -> Context]
  BY RestingTyped DEF Init
<1>4. provisioned \subseteq Dependencies
  BY DEF Init
<1>5. remote \in [Jobs -> [state : RemoteState, seq : Nat]]
  BY DEF Init, RemoteState
<1> QED
  BY <1>1, <1>2, <1>3, <1>4, <1>5 DEF IInv, TypeOK, Row, Written, Context

LEMMA StepInv == IInv /\ [Next]_vars => IInv' /\ [Stands]_vars
<1> SUFFICES ASSUME IInv, [Next]_vars PROVE IInv' /\ [Stands]_vars
  OBVIOUS
<1>1. CASE UNCHANGED vars
  BY <1>1 DEF vars, IInv, TypeOK
<1>2. ASSUME NEW t \in Requests, Serve(t) PROVE IInv' /\ Stands
  BY <1>2, ServeStep, BehavedStep
<1>3. ASSUME NEW t \in Tasks, Continue(t) PROVE IInv' /\ Stands
  BY <1>3, ContinueStep, BehavedStep
<1>4. ASSUME NEW t \in Tasks, WorkerApply(t) \/ WorkerStart(t) PROVE IInv' /\ Stands
  BY <1>4, WorkerApplyStep, WorkerStartStep
<1>5. ASSUME NEW j \in Jobs, WorkerRuns(j) PROVE IInv' /\ Stands
  BY <1>5, WorkerRunsStep
<1>6. CASE Recover
  BY <1>6, RecoverListedStep, RecoverAppliedStep, ResumeStartedStep, BehavedStep DEF Recover
<1>7. CASE Crash
  BY <1>7, CrashStep, BehavedStep
<1> QED
  BY <1>1, <1>2, <1>3, <1>4, <1>5, <1>6, <1>7 DEF Next

\* IInv holds of every reachable state: a task that awaits something about a job
\* holds a job, whatever the interleaving.
THEOREM Invariance == Spec => []IInv
BY InitInv, StepInv, PTL DEF Spec

\* No segment writes a session row, a job row, a task or a worker record outside
\* its type.
THEOREM JobsTypeCorrect == Spec => []TypeOK
<1>1. IInv => TypeOK
  BY DEF IInv
<1> QED
  BY <1>1, Invariance, PTL

\* Whatever finishes, abandons, resumes or fails a job, in any order and with
\* any crash, writes nothing over an outcome already recorded.
THEOREM OutcomesStand == Spec => OutcomeStands
<1>1. Stands => \A j \in Jobs : job[j] \in {"succeeded", "failed"} => job'[j] = job[j]
  BY DEF Stands, Outcomes
<1> QED
  BY <1>1, InitInv, StepInv, PTL DEF Spec, OutcomeStands

---------------------------------------------------------------------------
(* One client, without restarts *)

\* The session is refreshed only while nothing else is under way, and the backend
\* is not killed: what ReadyIsIdle, DestroyedIsIdle and InstalledIsProvisioned need.
LoneClient == ~Polling /\ ~MayCrash

Down == {"destroying", "destroyed", "failed"}
Live == row.state \notin Down

\* The awaits of the one function that carries the session on: the bootstrap, the
\* submission that claimed it, the finisher of its job.
BootCalls == {"p_get", "p_health", "p_apply", "p_deadline"}
ClaimCalls == {"s_delta", "s_same", "s_start"}
Carries(t, pc) == pc \in BootCalls \cup ClaimCalls \/ (t \in Jobs /\ pc # "idle")
Owner(t) == Carries(t, task[t].pc)

Settled == provisioned = row.installed

BootOwns(w) ==
  /\ ActiveJobs = {}
  /\ w.pc = "p_get" => w.state = row.state
  /\ w.pc = "p_health" => w.state = row.state /\ w.base = row.manifest /\ w.answer = "none"
  /\ w.pc = "p_apply" => /\ row.state = "provisioning" /\ w.base = row.manifest
                         /\ w.answer = "ok" => provisioned = w.base
  /\ w.pc = "p_deadline" => row.state = "validating" /\ provisioned = w.base

ClaimOwns(w) ==
  /\ ActiveJobs = {w.job}
  /\ w.pc = "s_delta" => row.state = "provisioning"
  /\ w.pc # "s_delta" => row.state = "running"
  /\ w.pc = "s_start" => job[w.job] = "queued" /\ Settled
  /\ w.pc # "s_start" => /\ job[w.job] = "resolving"
                         /\ w.answer = "ok" => provisioned = Want[w.job]

FinisherOwns(t, w) ==
  /\ w.pc \in {"f_events", "f_job"} /\ w.job = t /\ w.state = "running" /\ w.at = "running"
  /\ row.state = "running" /\ ActiveJobs = {t} /\ job[t] = "running" /\ Settled

\* What holds while task t, awaiting w, carries the session on.
Owns(t, w) ==
  /\ w.pc \in BootCalls => BootOwns(w)
  /\ w.pc \in ClaimCalls => ClaimOwns(w)
  /\ t \in Jobs => FinisherOwns(t, w)

\* The row agrees with the jobs and the worker.
RowFits ==
  /\ row.state \in BootStates \cup {"ready", "running"}
  /\ row.state \in BootStates => ActiveJobs = {} \/ \E t \in Tasks : task[t].pc = "s_delta"
  /\ row.state = "validating" => provisioned = row.manifest
  /\ row.state = "ready" => ActiveJobs = {} /\ Settled
  /\ row.state = "running" => Settled \/ \E t \in Tasks : task[t].pc = "s_same"

OneOwner ==
  /\ \A t \in Tasks : Owner(t) => Owns(t, task[t])
  /\ \A t, u \in Tasks : Owner(t) /\ Owner(u) => t = u

\* What a task awaits here at all.
Barred == {"v_list", "v_apply", "v_start", "d_poll"}
Fits(t, w) ==
  /\ w.pc \notin Barred
  /\ w.pc \in {"p_get", "p_health"} => w.state \in BootStates
  /\ t = Recovery => w.pc = "idle"
TasksFit == \A t \in Tasks : Fits(t, task[t])

\* A destruction that has begun is under way, and one that has ended left no job.
DestroyFits ==
  /\ row.state = "destroying" => \E t \in Tasks : task[t].pc = "d_absent"
  /\ row.state = "destroyed" => ActiveJobs = {}

LoneInv == IInv /\ TasksFit /\ DestroyFits /\ (Live => RowFits /\ OneOwner)

---------------------------------------------------------------------------
LEMMA Moves ==
  /\ \A s \in Down : \A to \in BootStates \cup {"ready", "running"} : ~CanMove(s, to)
  /\ \A s \in BootStates \cup {"ready", "running"} : ~CanMove(s, "destroyed")
  /\ \A s \in BootStates \cup {"running"} :
       CanMove(s, "ready") => s \in {"validating", "running"}
  /\ CanMove("destroying", "destroyed") /\ CanMove("running", "running")
  /\ CanMove("running", "ready") /\ CanMove("provisioning", "validating")
  /\ CanMove("provisioning", "failed") /\ CanMove("running", "failed")
<1>1. \A s \in Down : \A to \in BootStates \cup {"ready", "running"} : ~CanMove(s, to)
  BY DEF CanMove, SESSION_TRANSITIONS, SessionState, Down, BootStates
<1>2. \A s \in BootStates \cup {"ready", "running"} : ~CanMove(s, "destroyed")
  BY DEF CanMove, SESSION_TRANSITIONS, SessionState, BootStates
<1>3. \A s \in BootStates \cup {"running"} :
        CanMove(s, "ready") => s \in {"validating", "running"}
  BY DEF CanMove, SESSION_TRANSITIONS, SessionState, BootStates
<1>4. /\ CanMove("destroying", "destroyed") /\ CanMove("running", "running")
      /\ CanMove("running", "ready") /\ CanMove("provisioning", "validating")
      /\ CanMove("provisioning", "failed") /\ CanMove("running", "failed")
  BY DEF CanMove, SESSION_TRANSITIONS, SessionState
<1> QED
  BY <1>1, <1>2, <1>3, <1>4

LEMMA GoIs ==
  ASSUME IInv, NEW t \in Tasks, NEW w, Go(t, w)
  PROVE  task'[t] = w /\ \A u \in Tasks \ {t} : task'[u] = task[u]
BY DEF Go, IInv

\* Nobody carries on a session that accepts jobs.
LEMMA ReadyIsFree ==
  ASSUME LoneInv, row.state = "ready"
  PROVE  Live /\ ActiveJobs = {} /\ Settled /\ \A t \in Tasks : ~Owner(t)
<1>1. Live /\ RowFits /\ OneOwner
  BY DEF LoneInv, Live, Down
<1>2. ASSUME NEW t \in Tasks, Owner(t)
      PROVE  FALSE
  <2>1. Owns(t, task[t]) /\ Fits(t, task[t])
    BY <1>1, <1>2 DEF OneOwner, LoneInv, TasksFit
  <2> QED
    BY <1>2, <2>1 DEF Owner, Carries, Owns, BootOwns, ClaimOwns, FinisherOwns, Fits,
                      BootCalls, ClaimCalls, BootStates
<1> QED
  BY <1>1, <1>2 DEF RowFits

\* A task that carries nothing goes on to something else that carries nothing.
LEMMA BystanderKeeps ==
  ASSUME LoneInv, IInv', NEW t \in Tasks, NEW w, Go(t, w), Fits(t, w),
         ~Owner(t), ~Carries(t, w.pc),
         \/ task[t].pc # "d_absent"
         \/ row.state # "destroying",
         row' = row, provisioned' = provisioned, ActiveJobs' = ActiveJobs,
         \A j \in ActiveJobs : job'[j] = job[j]
  PROVE  LoneInv'
<1>1. task'[t] = w /\ \A u \in Tasks \ {t} : task'[u] = task[u]
  BY GoIs DEF LoneInv
<1>2. TasksFit'
  BY <1>1 DEF LoneInv, TasksFit, Fits
<1>3. DestroyFits'
  BY <1>1 DEF LoneInv, DestroyFits
<1>4. ASSUME Live'
      PROVE  RowFits' /\ OneOwner'
  <2>1. RowFits /\ OneOwner
    BY <1>4 DEF LoneInv, Live
  <2>2. task[t].pc \notin {"s_delta", "s_same"}
    BY DEF Owner, Carries, ClaimCalls
  <2>3. RowFits'
    BY <1>1, <2>1, <2>2 DEF RowFits, Settled
  <2>4. \A u \in Tasks : Owner(u)' => u # t /\ Owner(u) /\ task'[u] = task[u]
    BY <1>1 DEF Owner, Carries
  <2>5. ASSUME NEW u \in Tasks, Owns(u, task[u]), Owner(u)
        PROVE  Owns(u, task[u])'  \/ task'[u] # task[u]
    BY <2>5 DEF Owns, BootOwns, ClaimOwns, FinisherOwns, Settled
  <2>6. OneOwner'
    BY <2>1, <2>4, <2>5 DEF OneOwner
  <2> QED
    BY <2>3, <2>6
<1> QED
  BY <1>2, <1>3, <1>4 DEF LoneInv

\* The task that carries the session on, or the one that begins to, goes on.
LEMMA OwnerKeeps ==
  ASSUME LoneInv, IInv', NEW t \in Tasks, NEW w, Go(t, w), Fits(t, w), DestroyFits',
         Live' => /\ \A u \in Tasks \ {t} : ~Owner(u)
                  /\ Carries(t, w.pc) => Owns(t, w)'
                  /\ RowFits'
  PROVE  LoneInv'
<1>1. task'[t] = w /\ \A u \in Tasks \ {t} : task'[u] = task[u]
  BY GoIs DEF LoneInv
<1>2. TasksFit'
  BY <1>1 DEF LoneInv, TasksFit, Fits
<1>3. ASSUME Live'
      PROVE  OneOwner'
  <2>1. \A u \in Tasks : Owner(u)' => u = t
    BY <1>1, <1>3 DEF Owner
  <2>2. Owner(t)' => Owns(t, task[t])'
    BY <1>1, <1>3 DEF Owner, Carries, Owns, BootOwns, ClaimOwns, FinisherOwns, Settled
  <2> QED
    BY <2>1, <2>2 DEF OneOwner
<1> QED
  BY <1>2, <1>3 DEF LoneInv

\* The others carry nothing while one task does.
LEMMA OthersRest ==
  ASSUME LoneInv, Live, NEW t \in Tasks, Owner(t)
  PROVE  /\ \A u \in Tasks \ {t} : ~Owner(u)
         /\ Owns(t, task[t]) /\ RowFits
BY DEF LoneInv, OneOwner

\* A session that is going down stays so, and loses no destruction under way.
LEMMA DownKeeps ==
  ASSUME LoneInv, IInv', NEW t \in Tasks, NEW w, Go(t, w), Fits(t, w), ~Live,
         row'.state = row.state, ActiveJobs' \subseteq ActiveJobs \/ row.state # "destroyed",
         task[t].pc # "d_absent" \/ row.state # "destroying"
  PROVE  LoneInv'
<1>1. task'[t] = w /\ \A u \in Tasks \ {t} : task'[u] = task[u]
  BY GoIs DEF LoneInv
<1>2. TasksFit'
  BY <1>1 DEF LoneInv, TasksFit, Fits
<1>3. DestroyFits'
  BY <1>1 DEF LoneInv, DestroyFits
<1> QED
  BY <1>2, <1>3 DEF LoneInv, Live

\* Nothing is owed in a session that has failed.
LEMMA FailedKeeps ==
  ASSUME LoneInv, IInv', NEW t \in Tasks, NEW w, Go(t, w), Fits(t, w),
         row'.state = "failed"
  PROVE  LoneInv'
<1>1. task'[t] = w /\ \A u \in Tasks \ {t} : task'[u] = task[u]
  BY GoIs DEF LoneInv
<1> QED
  BY <1>1 DEF LoneInv, TasksFit, Fits, DestroyFits, Live, Down

LEMMA RestingFits == \A t \in Tasks : Fits(t, Resting)
BY DEF Fits, Resting, Barred

LEMMA RestingCarriesNothing == \A t \in Tasks : ~Carries(t, Resting.pc)
BY DEF Carries, Resting, BootCalls, ClaimCalls

\* Requests are apart from the tasks of jobs and from recovery.
LEMMA RequestIs == \A t \in Requests : t \in Tasks /\ t \notin Jobs /\ t # Recovery
BY JobsDistinct DEF Tasks

LEMMA DestroyBeginKeeps ==
  ASSUME LoneInv, IInv', NEW t \in Requests, NEW r \in Row, DestroyBegin(t, r),
         r.state = "destroyed" => ActiveJobs' = {}
  PROVE  LoneInv'
<1> DEFINE w == [Resting EXCEPT !.pc = "d_absent"]
<1>1. t \in Tasks /\ t # Recovery
  BY RequestIs
<1>2. w.pc = "d_absent"
  BY DEF Resting
<1> HIDE DEF w
<1>3. task'[t] = w /\ \A u \in Tasks \ {t} : task'[u] = task[u]
  BY <1>1, GoIs DEF LoneInv, DestroyBegin, w
<1>4. TasksFit'
  BY <1>1, <1>2, <1>3 DEF LoneInv, TasksFit, Fits, Barred
<1>5. (row' = r /\ r.state = "destroyed") \/ row'.state = "destroying"
  BY DEF DestroyBegin, Row
<1>6. DestroyFits'
  BY <1>1, <1>2, <1>3, <1>5 DEF DestroyFits
<1> QED
  BY <1>4, <1>5, <1>6 DEF LoneInv, Live, Down

\* What writing the row of one job makes of the active jobs.
LEMMA SavedIs ==
  ASSUME IInv, NEW j \in Jobs, NEW s, job' = Saved(j, s)
  PROVE  /\ job'[j] = s /\ \A i \in Jobs \ {j} : job'[i] = job[i]
         /\ s \in ActiveStates => ActiveJobs' = ActiveJobs \cup {j}
         /\ s \notin ActiveStates => ActiveJobs' = ActiveJobs \ {j}
<1>1. job'[j] = s /\ \A i \in Jobs \ {j} : job'[i] = job[i]
  BY DEF IInv, TypeOK, Saved
<1> QED
  BY <1>1 DEF ActiveJobs

\* A task at rest, or awaiting something that is nobody's own, carries nothing.
LEMMA RequestCarries ==
  ASSUME NEW t \in Requests, NEW p, p \notin BootCalls, p \notin ClaimCalls
  PROVE  ~Carries(t, p)
BY RequestIs DEF Carries

---------------------------------------------------------------------------
(* Requests that carry nothing *)

LEMMA LoneSubmit ==
  ASSUME LoneInv, IInv', NEW t \in Requests, NEW j \in Jobs, Submit(t, j)
  PROVE  LoneInv'
<1> DEFINE w == [Resting EXCEPT !.pc = "s_fresh", !.job = j, !.base = row.installed]
<1>1. w.pc = "s_fresh" /\ Go(t, w) /\ UNCHANGED <<row, job, provisioned>>
  BY DEF Submit, Resting
<1>2. task[t].pc = "idle"
  BY DEF Submit, Free, Waiting
<1> HIDE DEF w
<1>3. Fits(t, w) /\ ~Carries(t, w.pc) /\ ~Owner(t)
  BY <1>1, <1>2, RequestIs, RequestCarries DEF Fits, Barred, Owner, BootCalls, ClaimCalls
<1>4. ActiveJobs' = ActiveJobs
  BY <1>1 DEF ActiveJobs
<1> QED
  BY <1>1, <1>2, <1>3, <1>4, RequestIs, BystanderKeeps

LEMMA LoneDestroy ==
  ASSUME LoneInv, IInv', NEW t \in Requests, Destroy(t)
  PROVE  LoneInv'
BY DestroyBeginKeeps, RowTyped DEF LoneInv, Destroy

LEMMA LoneExpire ==
  ASSUME LoneInv, IInv', NEW t \in Requests, Expire(t)
  PROVE  LoneInv'
<1> PICK j \in Jobs : Go(t, [Resting EXCEPT !.pc = "e_sync", !.job = j])
  BY DEF Expire
<1> DEFINE w == [Resting EXCEPT !.pc = "e_sync", !.job = j]
<1>1. w.pc = "e_sync" /\ Go(t, w) /\ UNCHANGED <<row, job, provisioned>>
  BY DEF Expire, Resting
<1>2. task[t].pc = "idle"
  BY DEF Expire, Free, Waiting
<1> HIDE DEF w
<1>3. Fits(t, w) /\ ~Carries(t, w.pc) /\ ~Owner(t)
  BY <1>1, <1>2, RequestIs, RequestCarries DEF Fits, Barred, Owner, BootCalls, ClaimCalls
<1>4. ActiveJobs' = ActiveJobs
  BY <1>1 DEF ActiveJobs
<1> QED
  BY <1>1, <1>2, <1>3, <1>4, RequestIs, BystanderKeeps

LEMMA LoneExpireSynced ==
  ASSUME LoneInv, IInv', NEW t \in Requests, ExpireSynced(t)
  PROVE  LoneInv'
<1>1. task[t].pc = "e_sync" /\ UNCHANGED <<job, provisioned>> /\ ActiveJobs' = ActiveJobs
  BY DEF ExpireSynced, Waiting, ActiveJobs
<1>2. CASE DestroyBegin(t, row)
  BY <1>1, <1>2, DestroyBeginKeeps, RowTyped DEF LoneInv, DestroyFits
<1>3. CASE ~DestroyBegin(t, row)
  <2> DEFINE w == [Resting EXCEPT !.pc = "f_events", !.job = task[t].job,
                                  !.state = row.state, !.at = job[task[t].job]]
  <2>1. w.pc = "f_events" /\ Go(t, w) /\ UNCHANGED row
    BY <1>3 DEF ExpireSynced, Resting
  <2> HIDE DEF w
  <2>2. Fits(t, w) /\ ~Carries(t, w.pc) /\ ~Owner(t)
    BY <1>1, <2>1, RequestIs, RequestCarries
       DEF Fits, Barred, Owner, BootCalls, ClaimCalls
  <2> QED
    BY <1>1, <2>1, <2>2, RequestIs, BystanderKeeps
<1> QED
  BY <1>2, <1>3

LEMMA AbandonedIs == IInv /\ job' = AbandonSessionWork => ActiveJobs' = {}
BY DEF AbandonSessionWork, ActiveJobs, ActiveStates

LEMMA LoneDestroyVerified ==
  ASSUME LoneInv, IInv', NEW t \in Tasks, DestroyVerified(t)
  PROVE  LoneInv'
<1>1. Go(t, Resting) /\ Fits(t, Resting) /\ Fits(t, task[t])
  BY RestingFits DEF DestroyVerified, Stop, LoneInv, TasksFit
<1>2. task[t].pc = "d_absent" /\ provisioned' = provisioned
  BY <1>1 DEF DestroyVerified, Fits, Barred
<1>3. CASE row' = In("failed")
  <2>1. row'.state = "failed"
    BY <1>3 DEF In, LoneInv, IInv, TypeOK
  <2> QED
    BY <1>1, <2>1, FailedKeeps
<1>4. CASE row' = In("destroyed") /\ Legal("destroyed") /\ job' = AbandonSessionWork
  <2>1. row'.state = "destroyed"
    BY <1>4 DEF In, LoneInv, IInv, TypeOK
  <2>2. ActiveJobs' = {}
    BY <1>4, AbandonedIs DEF LoneInv
  <2>3. task'[t] = Resting /\ \A u \in Tasks \ {t} : task'[u] = task[u]
    BY <1>1, GoIs DEF LoneInv
  <2> QED
    BY <1>1, <2>1, <2>2, <2>3 DEF LoneInv, TasksFit, Fits, DestroyFits, Live, Down
<1>5. CASE ~Legal("destroyed") /\ UNCHANGED <<row, job>>
  <2>1. ActiveJobs' = ActiveJobs
    BY <1>5 DEF ActiveJobs
  <2>2. row.state # "destroying"
    BY <1>5, Moves DEF Legal
  <2>3. CASE ~Live
    BY <1>1, <1>5, <2>1, <2>2, <2>3, DownKeeps
  <2>4. CASE Live
    <3>1. ~Owner(t)
      BY <1>2, <2>4, OthersRest DEF Owns, FinisherOwns, Owner, Carries, BootCalls, ClaimCalls
    <3> QED
      BY <1>1, <1>2, <1>5, <2>1, <2>2, <3>1, BystanderKeeps, RestingCarriesNothing
  <2> QED
    BY <2>3, <2>4
<1> QED
  BY <1>2, <1>3, <1>4, <1>5 DEF DestroyVerified, Waiting

---------------------------------------------------------------------------
(* The submission that claims the session *)

LEMMA LoneSubmitClaim ==
  ASSUME LoneInv, IInv', NEW t \in Requests, SubmitClaim(t)
  PROVE  LoneInv'
<1> PICK j \in Jobs : j = task[t].job
  BY Held, RequestIs DEF SubmitClaim, Waiting, LoneInv, JobCalls
<1>1. task[t].pc = "s_fresh" /\ UNCHANGED provisioned /\ t \in Tasks /\ t \notin Jobs
  BY RequestIs DEF SubmitClaim, Waiting
<1>2. ~Owner(t)
  BY <1>1, RequestCarries DEF Owner, BootCalls, ClaimCalls
<1>3. CASE Stop(t) /\ UNCHANGED <<row, job>>
  <2>1. ActiveJobs' = ActiveJobs
    BY <1>3 DEF ActiveJobs
  <2> QED
    BY <1>1, <1>2, <1>3, <2>1, BystanderKeeps, RestingFits, RestingCarriesNothing DEF Stop
<1>4. CASE job[j] = "none" /\ job' = Saved(j, "failed") /\ Stop(t) /\ UNCHANGED row
  <2>1. j \notin ActiveJobs
    BY <1>4 DEF ActiveJobs, ActiveStates
  <2>2. ActiveJobs' = ActiveJobs /\ \A i \in ActiveJobs : job'[i] = job[i]
    BY <1>4, <2>1, SavedIs DEF LoneInv, ActiveStates, ActiveJobs
  <2> QED
    BY <1>1, <1>2, <1>4, <2>2, BystanderKeeps, RestingFits, RestingCarriesNothing DEF Stop
<1>5. CASE row.state = "ready"
  <2> DEFINE call(p) == [Resting EXCEPT !.pc = p, !.job = j]
             claims(to, s, p) == /\ row' = In(to) /\ job' = Saved(j, s) /\ Go(t, call(p))
                                 /\ \/ to = "provisioning" /\ s = "resolving" /\ p = "s_delta"
                                    \/ to = "running" /\ s = "resolving" /\ p = "s_same"
                                    \/ to = "running" /\ s = "queued" /\ p = "s_start"
  <2>1. ActiveJobs = {} /\ Settled /\ \A u \in Tasks : ~Owner(u)
    BY <1>5, ReadyIsFree
  <2>2. ASSUME NEW to, NEW s, NEW p, claims(to, s, p)
        PROVE  LoneInv'
    <3> PICK w : w = call(p)
      OBVIOUS
    <3>1. w.pc = p /\ w.job = j /\ w.answer = "none"
      BY DEF Resting
    <3>2. row'.state = to /\ row'.installed = row.installed
      BY <2>2 DEF In, LoneInv, IInv, TypeOK
    <3>3. ActiveJobs' = {j} /\ job'[j] = s
      BY <2>1, <2>2, SavedIs DEF LoneInv, ActiveStates
    <3>4. task'[t] = w
      BY <1>1, <2>2, GoIs DEF LoneInv
    <3>5. p \in ClaimCalls /\ p \notin BootCalls
      BY <2>2 DEF ClaimCalls, BootCalls
    <3>6. ClaimOwns(w)'
      BY <1>1, <2>1, <2>2, <3>1, <3>2, <3>3 DEF ClaimOwns, Settled
    <3>7. Owns(t, w)'
      BY <1>1, <3>1, <3>5, <3>6 DEF Owns
    <3>8. RowFits'
      BY <1>1, <2>1, <2>2, <3>1, <3>2, <3>4 DEF RowFits, BootStates, Settled
    <3>9. Fits(t, w)
      BY <2>2, <3>1, RequestIs DEF Fits, Barred
    <3>10. DestroyFits'
      BY <2>2, <3>2 DEF DestroyFits
    <3> QED
      BY <1>1, <2>1, <2>2, <3>7, <3>8, <3>9, <3>10, OwnerKeeps
  <2>3. ASSUME ~(Stop(t) /\ UNCHANGED <<row, job>>)
        PROVE  \/ claims("provisioning", "resolving", "s_delta")
               \/ claims("running", "resolving", "s_same")
               \/ claims("running", "queued", "s_start")
    BY <1>5, <2>3 DEF SubmitClaim, ReadyFor
  <2> HIDE DEF claims
  <2> QED
    BY <1>3, <2>2, <2>3
<1> QED
  BY <1>3, <1>4, <1>5 DEF SubmitClaim, ReadyFor

LEMMA LoneSubmitApplied ==
  ASSUME LoneInv, IInv', NEW t \in Requests, SubmitApplied(t)
  PROVE  LoneInv'
<1> PICK j \in Jobs : j = task[t].job
  BY Held, RequestIs DEF SubmitApplied, Answered, LoneInv, JobCalls
<1> DEFINE first == IF Waiting(t, "s_delta") THEN "validating" ELSE "running"
           held == Current(j, "resolving")
<1>1. /\ task[t].pc \in {"s_delta", "s_same"} /\ UNCHANGED provisioned
      /\ t \in Tasks /\ t \notin Jobs /\ t # Recovery
  BY RequestIs DEF SubmitApplied, Answered
<1>2. Owner(t)
  BY <1>1 DEF Owner, Carries, ClaimCalls
<1>3. ASSUME Live
      PROVE  ClaimOwns(task[t]) /\ RowFits /\ held /\ Legal("failed") /\ Legal(first)
  <2>1. ClaimOwns(task[t]) /\ RowFits
    BY <1>1, <1>2, <1>3, OthersRest DEF Owns, ClaimCalls
  <2>2. held
    BY <1>1, <2>1 DEF ClaimOwns, Current
  <2>3. Legal("failed") /\ Legal(first)
    BY <1>1, <2>1, Moves DEF ClaimOwns, Legal, Waiting
  <2> QED
    BY <2>1, <2>2, <2>3
<1>4. ~Live => ~Legal(first)
  BY Moves DEF Live, Legal, BootStates
<1> HIDE DEF first, held
<1>5. CASE task[t].answer = "no" /\ held
  <2>1. /\ job' = Saved(j, "failed") /\ Stop(t)
        /\ row' = IF Legal("failed") THEN In("failed") ELSE row
    BY <1>1, <1>3, <1>5 DEF SubmitApplied, held
  <2>2. CASE Legal("failed")
    <3>1. row'.state = "failed"
      BY <2>1, <2>2 DEF In, LoneInv, IInv, TypeOK
    <3> QED
      BY <1>1, <2>1, <3>1, FailedKeeps, RestingFits DEF Stop
  <2>3. CASE ~Legal("failed")
    <3>1. ActiveJobs' \subseteq ActiveJobs
      BY <2>1, SavedIs DEF LoneInv, ActiveStates
    <3> QED
      BY <1>1, <1>3, <2>1, <2>3, <3>1, DownKeeps, RestingFits DEF Stop
  <2> QED
    BY <2>2, <2>3
<1>6. CASE /\ ~(task[t].answer = "no" /\ held) 
           /\ IF task[t].answer = "no" THEN ~held ELSE ~Legal(first)
  <2>1. Stop(t) /\ UNCHANGED <<row, job>>
    BY <1>6 DEF SubmitApplied, held, first
  <2>2. ~Live /\ ActiveJobs' = ActiveJobs
    BY <1>3, <1>6, <2>1 DEF ActiveJobs
  <2> QED
    BY <1>1, <2>1, <2>2, DownKeeps, RestingFits DEF Stop
<1>7. CASE task[t].answer = "ok" /\ Legal(first)
  <2>1. Live /\ ClaimOwns(task[t]) /\ held /\ \A u \in Tasks \ {t} : ~Owner(u)
    BY <1>1, <1>2, <1>3, <1>4, <1>7, OthersRest
  <2> PICK w : w = [Resting EXCEPT !.pc = "s_start", !.job = j]
    OBVIOUS
  <2>2. w.pc = "s_start" /\ w.job = j
    BY DEF Resting
  <2>3. row' = Running(Want[j]) /\ job' = Saved(j, "queued") /\ Go(t, w)
    BY <1>7, <2>1 DEF SubmitApplied, held, first
  <2>4. row'.state = "running" /\ Settled'
    BY <1>1, <1>7, <2>1, <2>3 DEF Running, ClaimOwns, Settled
  <2>5. ActiveJobs' = {j} /\ job'[j] = "queued"
    BY <1>1, <2>1, <2>3, SavedIs DEF LoneInv, ActiveStates, ClaimOwns
  <2>6. Owns(t, w)'
    BY <1>1, <2>2, <2>4, <2>5 DEF Owns, BootCalls, ClaimOwns
  <2>7. RowFits' /\ DestroyFits'
    BY <2>4 DEF RowFits, BootStates, DestroyFits
  <2>8. Fits(t, w)
    BY <1>1, <2>2 DEF Fits, Barred
  <2> QED
    BY <1>1, <2>1, <2>3, <2>6, <2>7, <2>8, OwnerKeeps
<1> QED
  BY <1>5, <1>6, <1>7 DEF SubmitApplied, held, first

LEMMA LoneSubmitStarted ==
  ASSUME LoneInv, IInv', NEW t \in Requests, SubmitStarted(t)
  PROVE  LoneInv'
<1> PICK j \in Jobs : j = task[t].job
  BY Held, RequestIs DEF SubmitStarted, Answered, LoneInv, JobCalls
<1>1. /\ task[t].pc = "s_start" /\ UNCHANGED <<row, provisioned>>
      /\ t \in Tasks /\ t \notin Jobs /\ t # Recovery /\ t # j /\ j \in Tasks /\ j # Recovery
  BY RequestIs, JobsDistinct DEF SubmitStarted, Answered, Tasks
<1>2. Owner(t)
  BY <1>1 DEF Owner, Carries, ClaimCalls
<1>3. ASSUME Live
      PROVE  /\ ActiveJobs = {j} /\ job[j] = "queued" /\ row.state = "running" /\ Settled
             /\ \A u \in Tasks \ {t} : ~Owner(u)
  BY <1>1, <1>2, <1>3, OthersRest DEF Owns, ClaimCalls, ClaimOwns
<1>4. ASSUME Live PROVE RowFits' /\ DestroyFits'
  BY <1>1, <1>3, <1>4 DEF RowFits, DestroyFits, BootStates, Settled
<1>5. CASE Stop(t) /\ UNCHANGED job
  <2>1. ActiveJobs' = ActiveJobs
    BY <1>5 DEF ActiveJobs
  <2>2. CASE ~Live
    BY <1>1, <1>5, <2>1, <2>2, DownKeeps, RestingFits DEF Stop
  <2>3. CASE Live
    BY <1>1, <1>3, <1>4, <1>5, <2>3, OwnerKeeps, RestingFits, RestingCarriesNothing DEF Stop
  <2> QED
    BY <2>2, <2>3
<1>6. CASE /\ job[j] = "queued" /\ job' = Saved(j, "running")
           /\ Follow(t, j, "running", "running")
  <2> PICK f : f = [Resting EXCEPT !.pc = "f_events", !.job = j, !.state = "running",
                                   !.at = "running"]
    OBVIOUS
  <2>1. f.pc = "f_events" /\ f.job = j /\ f.state = "running" /\ f.at = "running"
    BY DEF Resting
  <2>2. ActiveJobs' = ActiveJobs /\ job'[j] = "running" /\ row.state # "destroyed"
    BY <1>6, SavedIs DEF LoneInv, DestroyFits, ActiveJobs, ActiveStates
  <2>3. Fits(t, f) /\ ~Carries(t, f.pc) /\ Fits(j, f)
    BY <1>1, <2>1, RequestCarries DEF Fits, Barred, BootCalls, ClaimCalls
  <2>4. CASE task[t].answer = "done"
    <3>1. Go(t, f)
      BY <1>6, <2>4 DEF Follow, Go
    <3>2. CASE ~Live
      BY <1>1, <2>2, <2>3, <3>1, <3>2, DownKeeps
    <3>3. CASE Live
      BY <1>1, <1>3, <1>4, <2>3, <3>1, <3>3, OwnerKeeps
    <3> QED
      BY <3>2, <3>3
  <2>5. CASE task[t].answer # "done"
    <3>1. task' = [task EXCEPT ![t] = Resting, ![j] = IF @.pc = "idle" THEN f ELSE @]
      BY <1>6, <2>5 DEF Follow
    <3>2. /\ task'[t] = Resting /\ \A u \in Tasks \ {t, j} : task'[u] = task[u]
          /\ task'[j] = IF task[j].pc = "idle" THEN f ELSE task[j]
      BY <1>1, <3>1 DEF LoneInv, IInv
    <3>3. TasksFit'
      BY <1>1, <2>3, <3>2, RestingFits DEF LoneInv, TasksFit, Fits
    <3>4. DestroyFits'
      BY <1>1, <2>1, <2>2, <3>2 DEF LoneInv, DestroyFits
    <3>5. ASSUME Live'
          PROVE  RowFits' /\ OneOwner'
      <4>1. Live
        BY <1>1, <3>5 DEF Live
      <4>2. task[j].pc = "idle"
        BY <1>1, <1>3, <4>1 DEF Owner, Carries
      <4>3. \A u \in Tasks : Owner(u)' => u = j
        BY <1>1, <1>3, <3>2, <4>1, RestingCarriesNothing DEF Owner
      <4>4. FinisherOwns(j, f)'
        BY <1>1, <1>3, <2>1, <2>2, <4>1 DEF FinisherOwns, Settled
      <4>5. Owns(j, f)'
        BY <2>1, <4>4 DEF Owns, BootCalls, ClaimCalls
      <4>6. Owns(j, task[j])'
        BY <3>2, <4>2, <4>5 DEF Owns, FinisherOwns, BootOwns, ClaimOwns, Settled
      <4> QED
        BY <1>4, <4>1, <4>3, <4>6 DEF OneOwner
    <3> QED
      BY <3>3, <3>4, <3>5 DEF LoneInv
  <2> QED
    BY <2>4, <2>5
<1> QED
  BY <1>5, <1>6 DEF SubmitStarted, Current

---------------------------------------------------------------------------
(* The refresh that bootstraps the worker *)

LEMMA LonePoll ==
  ASSUME LoneClient, LoneInv, IInv', NEW t \in Requests, Poll(t)
  PROVE  LoneInv'
<1>1. /\ t \in Tasks /\ t # Recovery /\ UNCHANGED <<row, job, provisioned>>
      /\ ActiveJobs' = ActiveJobs
  BY RequestIs DEF Poll, ActiveJobs
<1>2. \A u \in Tasks : task[u].pc = "idle"
  BY DEF Poll, LoneClient, Waiting
<1>3. \A u \in Tasks : ~Owner(u)
  BY <1>2 DEF Owner, Carries, BootCalls, ClaimCalls
<1>4. row.state \in BootStates
  <2>1. ASSUME row.state \in DestroyStates PROVE FALSE
    <3>1. ~Live
      BY <2>1 DEF LoneInv, RowFits, BootStates, DestroyStates
    <3>2. row.state = "destroying"
      BY <2>1, <3>1 DEF Live, Down, DestroyStates
    <3> QED
      BY <1>2, <3>2 DEF LoneInv, DestroyFits
  <2> QED
    BY <2>1 DEF Poll
<1>5. Live /\ RowFits /\ ActiveJobs = {}
  BY <1>2, <1>4 DEF LoneInv, Live, Down, BootStates, RowFits
<1>6. Go(t, [Resting EXCEPT !.pc = "p_get", !.state = row.state])
  BY <1>4 DEF Poll, BootStates, DestroyStates
<1> PICK w : w = [Resting EXCEPT !.pc = "p_get", !.state = row.state]
  OBVIOUS
<1>7. w.pc = "p_get" /\ w.state = row.state
  BY DEF Resting
<1>8. Owns(t, w)'
  BY <1>1, <1>5, <1>7, RequestIs DEF Owns, BootOwns, ClaimCalls
<1>9. RowFits' /\ DestroyFits'
  BY <1>1, <1>4, <1>5 DEF RowFits, DestroyFits, BootStates, Settled
<1>10. Fits(t, w)
  BY <1>1, <1>4, <1>7 DEF Fits, Barred
<1> QED
  BY <1>1, <1>3, <1>6, <1>8, <1>9, <1>10, OwnerKeeps

\* A bootstrap gives up: the session stays where it is, for the next refresh.
LEMMA BootstrapStops ==
  ASSUME LoneInv, IInv', NEW t \in Tasks, task[t].pc \in BootCalls, Stop(t),
         UNCHANGED <<row, job, provisioned>>
  PROVE  LoneInv'
<1>1. ActiveJobs' = ActiveJobs /\ Go(t, Resting) /\ task[t].pc # "d_absent"
  BY DEF ActiveJobs, Stop, BootCalls
<1>2. CASE ~Live
  BY <1>1, <1>2, DownKeeps, RestingFits
<1>3. CASE Live
  <2>1. (\A u \in Tasks \ {t} : ~Owner(u)) /\ Owns(t, task[t]) /\ RowFits /\ Fits(t, task[t])
    BY <1>3, OthersRest DEF Owner, Carries, LoneInv, TasksFit
  <2>2. BootOwns(task[t])
    BY <2>1 DEF Owns
  <2>3. row.state \in BootStates
    BY <2>1, <2>2 DEF BootOwns, BootCalls, Fits, BootStates
  <2>4. RowFits' /\ DestroyFits'
    BY <1>1, <2>1, <2>2, <2>3 DEF RowFits, BootOwns, BootStates, DestroyFits, Settled
  <2> QED
    BY <1>1, <2>1, <2>4, OwnerKeeps, RestingFits, RestingCarriesNothing
<1> QED
  BY <1>2, <1>3

LEMMA LonePollGot ==
  ASSUME LoneInv, IInv', NEW t \in Requests, PollGot(t)
  PROVE  LoneInv'
<1>1. /\ t \in Tasks /\ t # Recovery /\ t \notin Jobs /\ task[t].pc = "p_get"
      /\ UNCHANGED <<job, provisioned>> /\ ActiveJobs' = ActiveJobs
  BY RequestIs DEF PollGot, ActiveJobs, Waiting
<1>2. Fits(t, task[t])
  BY <1>1 DEF LoneInv, TasksFit
<1>3. CASE Stop(t) /\ UNCHANGED row
  BY <1>1, <1>3, BootstrapStops DEF BootCalls
<1>4. CASE ~(Stop(t) /\ UNCHANGED row)
  <2> PICK s : s = task[t].state
    OBVIOUS
  <2>1. /\ s \in BootStates /\ Legal(s) /\ row' = In(s)
        /\ Go(t, [Resting EXCEPT !.pc = "p_health", !.state = s, !.base = row.manifest])
    BY <1>1, <1>2, <1>4 DEF PollGot, Fits
  <2>2. Live
    BY <2>1, Moves DEF Live, Legal
  <2>3. (\A u \in Tasks \ {t} : ~Owner(u)) /\ BootOwns(task[t]) /\ RowFits
    BY <1>1, <2>2, OthersRest DEF Owner, Carries, BootCalls, Owns
  <2>4. row.state = s /\ ActiveJobs = {}
    BY <1>1, <2>3 DEF BootOwns
  <2>5. row'.state = s /\ row'.manifest = row.manifest
    BY <2>1 DEF In, LoneInv, IInv, TypeOK
  <2> PICK w : w = [Resting EXCEPT !.pc = "p_health", !.state = s, !.base = row.manifest]
    OBVIOUS
  <2>6. w.pc = "p_health" /\ w.state = s /\ w.base = row.manifest /\ w.answer = "none"
    BY DEF Resting
  <2>7. Owns(t, w)'
    BY <1>1, <2>4, <2>5, <2>6 DEF Owns, BootOwns, ClaimCalls
  <2>8. RowFits' /\ DestroyFits'
    BY <1>1, <2>1, <2>3, <2>4, <2>5 DEF RowFits, DestroyFits, BootStates, Settled
  <2>9. Fits(t, w)
    BY <1>1, <2>1, <2>6 DEF Fits, Barred
  <2> QED
    BY <1>1, <2>1, <2>3, <2>7, <2>8, <2>9, OwnerKeeps
<1> QED
  BY <1>3, <1>4

LEMMA LoneBootstrapHealth ==
  ASSUME LoneInv, IInv', NEW t \in Tasks, BootstrapHealth(t)
  PROVE  LoneInv'
<1>1. /\ task[t].pc = "p_health" /\ UNCHANGED <<job, provisioned>>
      /\ ActiveJobs' = ActiveJobs
  BY DEF BootstrapHealth, ActiveJobs, Waiting
<1>2. Fits(t, task[t]) /\ t # Recovery
  BY <1>1 DEF LoneInv, TasksFit, Fits
<1>3. task[t] \in Task
  BY DEF LoneInv, IInv, TypeOK
<1>4. CASE Stop(t) /\ UNCHANGED row
  BY <1>1, <1>4, BootstrapStops DEF BootCalls
<1>5. CASE ~(Stop(t) /\ UNCHANGED row)
  <2> DEFINE next(p) == [task[t] EXCEPT !.pc = p, !.state = NoState]
  <2>1. \/ row.state = "bootstrapping" /\ row' = In("provisioning") /\ Go(t, next("p_apply"))
        \/ task[t].state = "provisioning" /\ UNCHANGED row /\ Go(t, next("p_apply"))
        \/ task[t].state = "validating" /\ UNCHANGED row /\ Go(t, next("p_deadline"))
    BY <1>5 DEF BootstrapHealth
  <2>2. PICK p \in {"p_apply", "p_deadline"} :
          /\ Go(t, next(p))
          /\ \/ row.state = "bootstrapping" /\ row' = In("provisioning") /\ p = "p_apply"
             \/ task[t].state = "provisioning" /\ UNCHANGED row /\ p = "p_apply"
             \/ task[t].state = "validating" /\ UNCHANGED row /\ p = "p_deadline"
    BY <2>1
  <2> PICK w : w = next(p)
    OBVIOUS
  <2>3. w.pc = p /\ w.base = task[t].base /\ w.answer = task[t].answer
    BY <1>3 DEF Task
  <2>4. Fits(t, w) /\ Go(t, w)
    BY <1>2, <2>2, <2>3 DEF Fits, Barred
  <2> HIDE DEF next
  <2>5. CASE ~Live
    <3>1. UNCHANGED row
      BY <2>2, <2>5 DEF Live, LoneInv, Down
    <3> QED
      BY <1>1, <2>4, <2>5, <3>1, DownKeeps
  <2>6. CASE Live
    <3>1. (\A u \in Tasks \ {t} : ~Owner(u)) /\ Owns(t, task[t]) /\ RowFits
      BY <1>1, <2>6, OthersRest DEF Owner, Carries, BootCalls
    <3>2. BootOwns(task[t]) /\ t \notin Jobs
      BY <1>1, <3>1 DEF Owns, FinisherOwns, BootCalls
    <3>3. ActiveJobs = {} /\ row.state = task[t].state /\ w.base = row.manifest
          /\ w.answer = "none"
      BY <1>1, <2>3, <3>2 DEF BootOwns
    <3>4. row'.manifest = row.manifest /\ \/ row'.state = "provisioning" /\ p = "p_apply"
                                          \/ /\ row'.state = "validating" /\ p = "p_deadline"
                                             /\ row.state = "validating"
      BY <2>2, <3>3 DEF In, LoneInv, IInv, TypeOK
    <3>5. Owns(t, w)'
      BY <1>1, <2>3, <3>1, <3>2, <3>3, <3>4 DEF Owns, BootOwns, ClaimCalls, RowFits
    <3>6. RowFits' /\ DestroyFits'
      BY <1>1, <3>1, <3>3, <3>4 DEF RowFits, DestroyFits, BootStates, Settled
    <3> QED
      BY <2>4, <3>1, <3>5, <3>6, OwnerKeeps
  <2> QED
    BY <2>5, <2>6
<1> QED
  BY <1>4, <1>5

LEMMA LoneBootstrapApplied ==
  ASSUME LoneInv, IInv', NEW t \in Tasks, BootstrapApplied(t)
  PROVE  LoneInv'
<1>1. /\ task[t].pc = "p_apply" /\ UNCHANGED <<job, provisioned>>
      /\ ActiveJobs' = ActiveJobs
  BY DEF BootstrapApplied, ActiveJobs, Answered
<1>2. t # Recovery
  BY <1>1 DEF LoneInv, TasksFit, Fits
<1>3. CASE Stop(t) /\ UNCHANGED row
  BY <1>1, <1>3, BootstrapStops DEF BootCalls
<1>4. CASE ~(Stop(t) /\ UNCHANGED row)
  <2> PICK w : w = [Resting EXCEPT !.pc = "p_deadline", !.base = task[t].base]
    OBVIOUS
  <2>1. w.pc = "p_deadline" /\ w.base = task[t].base
    BY DEF Resting
  <2>2. /\ task[t].answer = "ok" /\ Legal("validating") /\ row' = In("validating")
        /\ Go(t, w)
    BY <1>4 DEF BootstrapApplied
  <2>3. Live
    BY <2>2, Moves DEF Live, Legal, BootStates
  <2>4. (\A u \in Tasks \ {t} : ~Owner(u)) /\ Owns(t, task[t]) /\ RowFits
    BY <1>1, <2>3, OthersRest DEF Owner, Carries, BootCalls
  <2>5. BootOwns(task[t]) /\ t \notin Jobs
    BY <1>1, <2>4 DEF Owns, FinisherOwns, BootCalls
  <2>6. ActiveJobs = {} /\ w.base = row.manifest /\ provisioned = w.base
    BY <1>1, <2>1, <2>2, <2>5 DEF BootOwns
  <2>7. row'.manifest = row.manifest /\ row'.state = "validating"
    BY <2>2 DEF In, LoneInv, IInv, TypeOK
  <2>8. Owns(t, w)'
    BY <1>1, <2>1, <2>5, <2>6, <2>7 DEF Owns, BootOwns, ClaimCalls
  <2>9. RowFits' /\ DestroyFits'
    BY <1>1, <2>6, <2>7 DEF RowFits, DestroyFits, BootStates
  <2>10. Fits(t, w)
    BY <1>2, <2>1 DEF Fits, Barred
  <2> QED
    BY <2>2, <2>4, <2>8, <2>9, <2>10, OwnerKeeps
<1> QED
  BY <1>3, <1>4

LEMMA LoneBootstrapDeadline ==
  ASSUME LoneInv, IInv', NEW t \in Tasks, BootstrapDeadline(t)
  PROVE  LoneInv'
<1>1. /\ task[t].pc = "p_deadline" /\ UNCHANGED <<job, provisioned>> /\ Stop(t)
      /\ ActiveJobs' = ActiveJobs
  BY DEF BootstrapDeadline, ActiveJobs, Waiting
<1>2. CASE UNCHANGED row
  BY <1>1, <1>2, BootstrapStops DEF BootCalls
<1>3. CASE Legal("ready") /\ row' = [row EXCEPT !.state = "ready", !.installed = task[t].base]
  <2>1. Live
    BY <1>3, Moves DEF Live, Legal
  <2>2. (\A u \in Tasks \ {t} : ~Owner(u)) /\ BootOwns(task[t])
    BY <1>1, <2>1, OthersRest DEF Owner, Carries, BootCalls, Owns
  <2>3. row'.state = "ready" /\ row'.installed = task[t].base
    BY <1>3 DEF LoneInv, IInv, TypeOK
  <2>4. RowFits' /\ DestroyFits'
    BY <1>1, <2>2, <2>3 DEF RowFits, DestroyFits, BootStates, BootOwns, Settled
  <2> QED
    BY <1>1, <2>2, <2>4, OwnerKeeps, RestingFits, RestingCarriesNothing DEF Stop
<1> QED
  BY <1>2, <1>3 DEF BootstrapDeadline

---------------------------------------------------------------------------
(* The finisher of the job *)

\* A finisher holds its own job while the session lives.
LEMMA FinisherIs ==
  ASSUME LoneInv, NEW t \in Tasks, task[t].pc \in {"f_events", "f_job"}
  PROVE  /\ t \in Requests \/ t \in Jobs
         /\ t \in Requests => t \notin Jobs /\ ~Owner(t)
         /\ t \in Jobs /\ Live => /\ FinisherOwns(t, task[t])
                                  /\ RowFits /\ \A u \in Tasks \ {t} : ~Owner(u)
<1>1. t # Recovery
  BY DEF LoneInv, TasksFit, Fits
<1>2. t \in Requests => t \notin Jobs /\ ~Owner(t)
  BY RequestIs, RequestCarries DEF Owner, BootCalls, ClaimCalls
<1>3. ASSUME t \in Jobs, Live
      PROVE  /\ FinisherOwns(t, task[t])
             /\ RowFits /\ \A u \in Tasks \ {t} : ~Owner(u)
  BY <1>3, OthersRest DEF Owner, Carries, Owns
<1> QED
  BY <1>1, <1>2, <1>3 DEF Tasks

\* A finisher ends: its expiring session is destroyed, or the row it leaves fits.
LEMMA FinishedKeeps ==
  ASSUME LoneInv, IInv', NEW t \in Tasks, task[t].pc \in {"f_events", "f_job"},
         NEW r \in Row, Finished(t, r),
         UNCHANGED provisioned, ActiveJobs' \subseteq ActiveJobs,
         ~Live => r.state = row.state,
         t \in Requests => (r.state = "destroyed" => row.state = "destroyed"),
         t \in Jobs /\ Live => /\ r.state \in {"ready", "running"}
                               /\ r.installed = row.installed
                               /\ r.state = "ready" => ActiveJobs' = {}
  PROVE  LoneInv'
<1>1. CASE t \in Requests
  <2>1. r.state = "destroyed" => ActiveJobs' = {}
    BY <1>1 DEF LoneInv, DestroyFits
  <2> QED
    BY <1>1, <2>1, DestroyBeginKeeps DEF Finished
<1>2. CASE t \notin Requests
  <2>1. row' = r /\ Go(t, Resting) /\ t \in Jobs
    BY <1>2, FinisherIs DEF Finished, Stop
  <2>2. CASE ~Live
    BY <2>1, <2>2, DownKeeps, RestingFits
  <2>3. CASE Live
    <3>1. FinisherOwns(t, task[t]) /\ \A u \in Tasks \ {t} : ~Owner(u)
      BY <2>1, <2>3, FinisherIs
    <3>2. RowFits' /\ DestroyFits'
      BY <2>1, <2>3, <3>1 DEF RowFits, FinisherOwns, Settled, DestroyFits, BootStates
    <3> QED
      BY <2>1, <3>1, <3>2, OwnerKeeps, RestingFits, RestingCarriesNothing
  <2> QED
    BY <2>2, <2>3
<1> QED
  BY <1>1, <1>2

\* A finisher ends without having written anything.
LEMMA UnfinishedKeeps ==
  ASSUME LoneInv, IInv', NEW t \in Tasks, task[t].pc \in {"f_events", "f_job"},
         Finished(t, row), UNCHANGED <<job, provisioned>>
  PROVE  LoneInv'
<1>1. ActiveJobs' = ActiveJobs /\ row \in Row
  BY RowTyped DEF ActiveJobs, LoneInv
<1>2. t \in Jobs /\ Live => row.state = "running"
  BY FinisherIs DEF FinisherOwns
<1> QED
  BY <1>1, <1>2, FinishedKeeps

\* A finisher goes on to its next await.
LEMMA FinisherGoesOn ==
  ASSUME LoneInv, IInv', NEW t \in Tasks, task[t].pc \in {"f_events", "f_job"},
         NEW w, w.pc \in {"f_events", "f_job"}, w.job = task[t].job,
         w.state = task[t].state, w.at = task[t].at, Go(t, w),
         UNCHANGED <<row, job, provisioned>>
  PROVE  LoneInv'
<1>1. ActiveJobs' = ActiveJobs
  BY DEF ActiveJobs
<1>2. Fits(t, w)
  BY FinisherIs DEF Fits, Barred, LoneInv, TasksFit
<1>3. CASE ~Live
  BY <1>1, <1>2, <1>3, DownKeeps
<1>4. CASE Live /\ t \in Requests
  <2>1. ~Carries(t, w.pc)
    BY <1>4, RequestCarries DEF BootCalls, ClaimCalls
  <2> QED
    BY <1>1, <1>2, <1>4, <2>1, FinisherIs, BystanderKeeps
<1>5. CASE Live /\ t \notin Requests
  <2>1. /\ t \in Jobs /\ FinisherOwns(t, task[t]) /\ RowFits
        /\ \A u \in Tasks \ {t} : ~Owner(u)
    BY <1>5, FinisherIs
  <2>2. Owns(t, w)'
    BY <1>1, <2>1 DEF Owns, FinisherOwns, BootCalls, ClaimCalls, Settled
  <2>3. RowFits' /\ DestroyFits'
    BY <1>1, <2>1 DEF RowFits, FinisherOwns, Settled, DestroyFits, BootStates
  <2> QED
    BY <1>2, <2>1, <2>2, <2>3, OwnerKeeps
<1> QED
  BY <1>3, <1>4, <1>5

LEMMA LoneFinishEvents ==
  ASSUME LoneInv, IInv', NEW t \in Tasks, FinishEvents(t)
  PROVE  LoneInv'
<1>1. task[t].pc = "f_events" /\ UNCHANGED <<job, provisioned>>
  BY DEF FinishEvents, Waiting
<1>2. CASE Finished(t, row)
  BY <1>1, <1>2, UnfinishedKeeps
<1>3. CASE ~Finished(t, row)
  <2> DEFINE v == [task[t] EXCEPT !.pc = "f_job", !.seq = remote[task[t].job].seq]
  <2>1. /\ v.pc = "f_job" /\ v.job = task[t].job
        /\ v.state = task[t].state /\ v.at = task[t].at
    BY DEF LoneInv, IInv, TypeOK, Task
  <2>2. Go(t, v) /\ UNCHANGED row
    BY <1>3 DEF FinishEvents
  <2> HIDE DEF v
  <2> QED
    BY <1>1, <2>1, <2>2, FinisherGoesOn
<1> QED
  BY <1>2, <1>3

LEMMA LoneFinishSucceeded ==
  ASSUME LoneInv, IInv', NEW t \in Tasks, task[t].pc = "f_job", Reached,
         FinishSucceeded(t), UNCHANGED provisioned
  PROVE  LoneInv'
<1> PICK j \in Jobs : j = task[t].job
  BY Held DEF LoneInv, JobCalls
<1> DEFINE a == task[t].at
           s == task[t].state
           r == IF s = "running" THEN In("harvesting") ELSE row
           harvests == /\ Current(j, a) /\ a \in {"running", "harvesting"}
                       /\ s \in {"running", "harvesting"}
           q == IF r.state = "harvesting" THEN [r EXCEPT !.state = "ready"] ELSE r
<1>1. r \in Row /\ q \in Row
  BY RowTyped, InTyped DEF LoneInv, Row, SessionState
<1>2. r.installed = row.installed /\ q.installed = row.installed
  BY DEF In, LoneInv, IInv, TypeOK
<1>3. row.state # "destroyed"
  BY DEF Reached
<1>4. CASE Finished(t, row) /\ UNCHANGED job
  BY <1>4, UnfinishedKeeps
<1>5. CASE /\ s = "running" => row.state = "running"
           /\ harvests /\ job' = Saved(j, "succeeded") /\ Finished(t, q)
  <2>1. ActiveJobs' = ActiveJobs \ {j}
    BY <1>5, SavedIs DEF LoneInv, ActiveStates
  <2>2. ~Live => q = row
    BY <1>5 DEF Live, Down
  <2>3. q.state # "destroyed"
    BY <1>3 DEF In, LoneInv, IInv, TypeOK
  <2>4. ASSUME t \in Jobs, Live
        PROVE  q.state = "ready" /\ ActiveJobs' = {}
    <3>1. s = "running" /\ ActiveJobs = {j}
      BY <2>4, FinisherIs DEF FinisherOwns
    <3> QED
      BY <2>1, <3>1 DEF In, LoneInv, IInv, TypeOK
  <2> HIDE DEF q, r
  <2> QED
    BY <1>1, <1>2, <1>5, <2>1, <2>2, <2>3, <2>4, FinishedKeeps
<1>6. CASE /\ s = "running" => row.state = "running"
           /\ ~harvests /\ Finished(t, r)
           /\ job' = IF a = "running" /\ Current(j, a) THEN Saved(j, "harvesting") ELSE job
  <2>1. ActiveJobs' = ActiveJobs
    <3>1. CASE a = "running" /\ Current(j, a)
      BY <1>6, <3>1, SavedIs DEF LoneInv, ActiveStates, Current, ActiveJobs
    <3>2. CASE ~(a = "running" /\ Current(j, a))
      BY <1>6, <3>2 DEF ActiveJobs
    <3> QED
      BY <3>1, <3>2
  <2>2. ~Live => r = row
    BY <1>6 DEF Live, Down
  <2>3. r.state # "destroyed"
    BY <1>3 DEF In, LoneInv, IInv, TypeOK
  <2>4. ~(t \in Jobs /\ Live)
    BY <1>6, FinisherIs DEF FinisherOwns, Current
  <2> HIDE DEF r
  <2> QED
    BY <1>1, <1>2, <1>6, <2>1, <2>2, <2>3, <2>4, FinishedKeeps
<1> QED
  BY <1>4, <1>5, <1>6 DEF FinishSucceeded

LEMMA LoneFinishFailed ==
  ASSUME LoneInv, IInv', NEW t \in Tasks, task[t].pc = "f_job", Reached,
         FinishFailed(t), UNCHANGED provisioned
  PROVE  LoneInv'
<1> PICK j \in Jobs : j = task[t].job
  BY Held DEF LoneInv, JobCalls
<1> DEFINE s == task[t].state
           r == IF row.state = s /\ CanMove(s, "ready") THEN In("ready") ELSE row
<1>1. r \in Row
  BY RowTyped, InTyped DEF LoneInv, Row, SessionState
<1>2. r.installed = row.installed
  BY DEF In, LoneInv, IInv, TypeOK
<1>3. CASE Finished(t, row) /\ UNCHANGED job
  BY <1>3, UnfinishedKeeps
<1>4. CASE job' = Saved(j, "failed") /\ Finished(t, r)
  <2>1. ActiveJobs' = ActiveJobs \ {j}
    BY <1>4, SavedIs DEF LoneInv, ActiveStates
  <2>2. ~Live => r = row
    BY Moves DEF Live
  <2>3. r.state # "destroyed"
    BY DEF Reached, In, LoneInv, IInv, TypeOK
  <2>4. ASSUME t \in Jobs, Live
        PROVE  r.state \in {"ready", "running"} /\ ActiveJobs' = {}
    <3>1. row.state = "running" /\ ActiveJobs = {j}
      BY <2>4, FinisherIs DEF FinisherOwns
    <3> QED
      BY <2>1, <3>1 DEF In, LoneInv, IInv, TypeOK
  <2> HIDE DEF r
  <2> QED
    BY <1>1, <1>2, <1>4, <2>1, <2>2, <2>3, <2>4, FinishedKeeps
<1> QED
  BY <1>3, <1>4 DEF FinishFailed

LEMMA LoneFinishJob ==
  ASSUME LoneInv, IInv', NEW t \in Tasks, FinishJob(t)
  PROVE  LoneInv'
<1>1. task[t].pc = "f_job" /\ UNCHANGED provisioned
  BY DEF FinishJob, Waiting
<1>2. CASE Finished(t, row) /\ UNCHANGED job
  BY <1>1, <1>2, UnfinishedKeeps
<1>3. CASE Go(t, [task[t] EXCEPT !.pc = "f_events", !.seq = 0]) /\ UNCHANGED <<row, job>>
  <2> DEFINE v == [task[t] EXCEPT !.pc = "f_events", !.seq = 0]
  <2>1. /\ v.pc = "f_events" /\ v.job = task[t].job
        /\ v.state = task[t].state /\ v.at = task[t].at
    BY DEF LoneInv, IInv, TypeOK, Task
  <2>2. Go(t, v) /\ UNCHANGED <<row, job>>
    BY <1>3
  <2> HIDE DEF v
  <2> QED
    BY <1>1, <2>1, <2>2, FinisherGoesOn
<1>4. CASE Reached /\ FinishSucceeded(t)
  BY <1>1, <1>4, LoneFinishSucceeded
<1>5. CASE Reached /\ FinishFailed(t)
  BY <1>1, <1>5, LoneFinishFailed
<1> QED
  BY <1>2, <1>3, <1>4, <1>5 DEF FinishJob

---------------------------------------------------------------------------
(* The worker *)

\* The worker answers a call, and may install what the caller wants.
LEMMA AnswerKeeps ==
  ASSUME LoneInv, IInv', NEW t \in Tasks, NEW a, Answer(t, a), UNCHANGED <<row, job>>,
         \/ task[t].pc \in {"s_delta", "s_same", "p_apply"}
         \/ task[t].pc = "s_start" /\ UNCHANGED provisioned,
         \/ UNCHANGED provisioned /\ a # "ok"
         \/ task[t].pc = "s_start"
         \/ provisioned' = Desired(t)
  PROVE  LoneInv'
<1> PICK w : w = [task[t] EXCEPT !.answer = a]
  OBVIOUS
<1>1. w.pc = task[t].pc /\ w.job = task[t].job /\ w.base = task[t].base /\ w.answer = a
  BY DEF LoneInv, IInv, TypeOK, Task
<1>2. Go(t, w) /\ ActiveJobs' = ActiveJobs
  BY DEF Answer, ActiveJobs
<1>3. Fits(t, w)
  BY <1>1 DEF LoneInv, TasksFit, Fits
<1>4. CASE ~Live
  BY <1>2, <1>3, <1>4, DownKeeps
<1>5. CASE Live
  <2>1. Owner(t)
    BY DEF Owner, Carries, BootCalls, ClaimCalls
  <2>2. (\A u \in Tasks \ {t} : ~Owner(u)) /\ Owns(t, task[t]) /\ RowFits
    BY <1>5, <2>1, OthersRest
  <2>3. t \notin Jobs
    BY <2>2 DEF Owns, FinisherOwns
  <2>4. task'[t] = w
    BY <1>2, GoIs DEF LoneInv
  <2>5. CASE task[t].pc = "p_apply"
    <3>1. BootOwns(task[t])
      BY <2>2, <2>5 DEF Owns, BootCalls
    <3>2. BootOwns(w)'
      BY <1>1, <1>2, <2>5, <3>1 DEF BootOwns, Desired
    <3>3. Owns(t, w)'
      BY <1>1, <2>3, <2>5, <3>2 DEF Owns, ClaimCalls
    <3>4. RowFits' /\ DestroyFits'
      BY <1>2, <2>5, <3>1 DEF RowFits, DestroyFits, BootOwns, BootStates
    <3> QED
      BY <1>2, <1>3, <2>2, <3>3, <3>4, OwnerKeeps
  <2>6. CASE task[t].pc # "p_apply"
    <3>1. ClaimOwns(task[t])
      BY <2>2, <2>6 DEF Owns, ClaimCalls
    <3>2. ClaimOwns(w)'
      BY <1>1, <1>2, <2>6, <3>1 DEF ClaimOwns, Desired, Settled
    <3>3. Owns(t, w)'
      BY <1>1, <2>3, <2>6, <3>2 DEF Owns, BootCalls
    <3>4. RowFits' /\ DestroyFits'
      BY <1>1, <1>2, <2>4, <2>6, <3>1 DEF RowFits, DestroyFits, ClaimOwns, BootStates, Settled
    <3> QED
      BY <1>2, <1>3, <2>2, <3>3, <3>4, OwnerKeeps
  <2> QED
    BY <2>5, <2>6
<1> QED
  BY <1>4, <1>5

LEMMA LoneWorkerApply ==
  ASSUME LoneInv, IInv', NEW t \in Tasks, WorkerApply(t)
  PROVE  LoneInv'
<1>1. task[t].pc \in {"s_delta", "s_same", "p_apply"}
  BY DEF WorkerApply, Calls, ApplyCalls, LoneInv, TasksFit, Fits, Barred
<1>2. PICK a : /\ Answer(t, a)
               /\ (UNCHANGED provisioned /\ a # "ok") \/ provisioned' = Desired(t)
  BY DEF WorkerApply
<1> QED
  BY <1>1, <1>2, AnswerKeeps DEF WorkerApply

LEMMA LoneWorkerStart ==
  ASSUME LoneInv, IInv', NEW t \in Tasks, WorkerStart(t)
  PROVE  LoneInv'
<1>1. task[t].pc = "s_start"
  BY DEF WorkerStart, Calls, StartCalls, LoneInv, TasksFit, Fits, Barred
<1>2. PICK a : Answer(t, a)
  BY DEF WorkerStart
<1> QED
  BY <1>1, <1>2, AnswerKeeps DEF WorkerStart

LEMMA LoneUnchanged ==
  ASSUME LoneInv, IInv', UNCHANGED <<row, job, task, provisioned>>
  PROVE  LoneInv'
<1>1. ActiveJobs' = ActiveJobs
  BY DEF ActiveJobs
<1>2. TasksFit' /\ DestroyFits' /\ (Live' <=> Live)
  BY <1>1 DEF LoneInv, TasksFit, Fits, DestroyFits, Live
<1>3. Live => RowFits'
  BY <1>1 DEF LoneInv, RowFits, Settled
<1>4. Live => OneOwner'
  BY <1>1 DEF LoneInv, OneOwner, Owner, Owns, BootOwns, ClaimOwns, FinisherOwns, Settled
<1> QED
  BY <1>2, <1>3, <1>4 DEF LoneInv

---------------------------------------------------------------------------
LEMMA LoneInit == Init => LoneInv
<1> SUFFICES ASSUME Init PROVE LoneInv
  OBVIOUS
<1>1. IInv
  BY InitInv
<1>2. /\ row.state = "bootstrapping" /\ ActiveJobs = {}
      /\ \A t \in Tasks : task[t].pc = "idle"
  BY DEF Init, Resting, ActiveJobs, ActiveStates
<1>3. TasksFit /\ DestroyFits /\ RowFits
  BY <1>2 DEF TasksFit, Fits, Barred, DestroyFits, RowFits, BootStates
<1>4. OneOwner
  BY <1>2 DEF OneOwner, Owner, Carries, BootCalls, ClaimCalls
<1> QED
  BY <1>1, <1>3, <1>4 DEF LoneInv

LEMMA LoneStep ==
  ASSUME LoneClient, LoneInv, [Next]_vars
  PROVE  LoneInv'
<1>1. IInv'
  BY StepInv DEF LoneInv
<1>2. CASE UNCHANGED vars
  BY <1>1, <1>2, LoneUnchanged DEF vars
<1>3. ASSUME NEW t \in Requests, Serve(t)
      PROVE  LoneInv'
  BY <1>1, <1>3, LoneSubmit, LoneSubmitClaim, LoneSubmitApplied, LoneSubmitStarted,
     LonePoll, LonePollGot, LoneDestroy, LoneExpire, LoneExpireSynced DEF Serve
<1>4. ASSUME NEW t \in Tasks, Continue(t)
      PROVE  LoneInv'
  BY <1>1, <1>4, LoneBootstrapHealth, LoneBootstrapApplied, LoneBootstrapDeadline,
     LoneFinishEvents, LoneFinishJob, LoneDestroyVerified DEF Continue
<1>5. ASSUME NEW t \in Tasks, WorkerApply(t) \/ WorkerStart(t)
      PROVE  LoneInv'
  BY <1>1, <1>5, LoneWorkerApply, LoneWorkerStart
<1>6. ASSUME NEW j \in Jobs, WorkerRuns(j)
      PROVE  LoneInv'
  BY <1>1, <1>6, LoneUnchanged DEF WorkerRuns
<1>7. ~Recover
  <2>1. task[Recovery].pc \notin Barred
    BY RecoveryTask DEF LoneInv, TasksFit, Fits
  <2> QED
    BY <2>1 DEF Recover, RecoverListed, RecoverApplied, ResumeStarted, Waiting, Answered,
                Barred
<1>8. ~Crash
  BY DEF Crash, LoneClient
<1> QED
  BY <1>2, <1>3, <1>4, <1>5, <1>6, <1>7, <1>8 DEF Next

\* With one client at a time and no restart, every unfinished job and every claimed
\* session has the one task that carries it on.
THEOREM LoneInvariance == ASSUME LoneClient PROVE Spec => []LoneInv
BY LoneInit, LoneStep, PTL DEF Spec

\* With one client at a time and no restart, a session that accepts a job has no
\* job: whatever fails or is lost, in whatever order submissions, finishers and
\* destructions go on, no path returns to ready before its job has ended.
THEOREM LoneReadyIdle == ASSUME LoneClient PROVE Spec => []ReadyIsIdle
<1>1. LoneInv => ReadyIsIdle
  BY DEF LoneInv, Live, Down, RowFits, ReadyIsIdle
<1> QED
  BY <1>1, LoneInvariance, PTL

\* Under the same conditions a destroyed session leaves no active job: only the
\* requests that abandon the work end its destruction.
THEOREM LoneDestroyedIdle == ASSUME LoneClient PROVE Spec => []DestroyedIsIdle
<1>1. LoneInv => DestroyedIsIdle
  BY DEF LoneInv, DestroyFits, DestroyedIsIdle
<1> QED
  BY <1>1, LoneInvariance, PTL

\* Under the same conditions the installed digest of a ready session is the
\* manifest its worker has, so the next delta starts from the right base.
THEOREM LoneInstalled == ASSUME LoneClient PROVE Spec => []InstalledIsProvisioned
<1>1. LoneInv => InstalledIsProvisioned
  BY DEF LoneInv, Live, Down, RowFits, Settled, InstalledIsProvisioned
<1> QED
  BY <1>1, LoneInvariance, PTL
=============================================================================
