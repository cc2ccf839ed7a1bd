---------------------------- MODULE SessionJobs ----------------------------
(***************************************************************************)
(* The jobs of one rented session: the session row, the job rows, the      *)
(* requests that submit jobs, refresh the session or destroy it, the task  *)
(* that finishes each job, startup recovery, and the remote worker they    *)
(* all talk to.                                                            *)
(*                                                                         *)
(* Code between two awaits is one action.  A call to the worker that       *)
(* changes it is two: the worker acting and the caller resuming with the   *)
(* answer.  Two writes are guarded by more than a legal transition:        *)
(* transition_if_state needs the session's present state, and save_job the *)
(* version the caller read.  A job never returns to an earlier state, so   *)
(* its version is current exactly when its state is the one held.          *)
(*                                                                         *)
(* A manifest is the set of dependencies it has beyond the first canvas's. *)
(***************************************************************************)
EXTENDS Integers, FiniteSets, SessionStates

CONSTANTS
  Jobs,         \* idempotency keys; a key has at most one job row
  NoJob,
  Requests,     \* slots for concurrent HTTP requests on the session
  Recovery,     \* recover_sessions, awaited before requests are served
  Dependencies,
  Want,         \* Want[j] is the manifest the canvas of job j resolves to
  Polling,      \* the session is refreshed while other requests are served
  MayCrash,     \* the backend may be killed and restarted
  MayFail,      \* a call to the worker, or its answer, may be lost
  MaxEvents     \* a bound on the events of one remote job

ASSUME JobsDistinct ==
  /\ NoJob \notin Jobs
  /\ Jobs \cap Requests = {}
  /\ Recovery \notin Jobs \cup Requests

ASSUME JobParameters ==
  /\ Want \in [Jobs -> SUBSET Dependencies]
  /\ Polling \in BOOLEAN /\ MayCrash \in BOOLEAN /\ MayFail \in BOOLEAN
  /\ MaxEvents \in Nat

VARIABLES
  row,          \* the sessions row: state, manifest and installed digests
  job,          \* the state of each jobs row, "none" if there is no row
  task,         \* what each task awaits and what it holds
  provisioned,  \* the manifest installed on the worker
  remote        \* the worker's record of each job: state and last sequence

vars == <<row, job, task, provisioned, remote>>

\* The task that finishes job j is j itself: _JOB_TASKS has one per job.
Tasks == Requests \cup {Recovery} \cup Jobs

ActiveStates == {"captured", "resolving", "queued", "running", "harvesting"}
JobState == ActiveStates \cup {"succeeded", "failed"}
ActiveJobs == {j \in Jobs : job[j] \in ActiveStates}

RemoteState == {"none", "running", "succeeded", "failed"}

ApplyCalls == {"s_delta", "s_same", "p_apply", "v_apply"}
StartCalls == {"s_start", "v_start"}
Pcs == {"idle", "s_fresh", "p_get", "p_health", "p_deadline", "v_list", "e_sync",
        "f_events", "f_job", "d_absent", "d_poll"} \cup ApplyCalls \cup StartCalls

NoState == "preflight"

\* job, state, base and at are the objects a function holds across the await:
\* the job, the session's state and one of its manifests, the job's state.
Resting ==
  [pc |-> "idle", job |-> NoJob, state |-> NoState, base |-> {},
   at |-> "none", seq |-> 0, answer |-> "none"]

Task ==
  [pc : Pcs, job : Jobs \cup {NoJob}, state : SessionState,
   base : SUBSET Dependencies, at : JobState \cup {"none"}, seq : Nat,
   answer : {"none", "no", "ok", "done"}]

Waiting(t, pc) == task[t].pc = pc
Answered(t, pc) == task[t].pc = pc /\ task[t].answer # "none"
Go(t, w) == task' = [task EXCEPT ![t] = w]
Stop(t) == Go(t, Resting)

Legal(to) == CanMove(row.state, to)
In(s) == [row EXCEPT !.state = s]

\* save_job with the job object that was read in state held.
\* Mutant: the last writer wins.
AnyVersion(j, held) == TRUE
Current(j, held) == job[j] = held
Saved(j, s) == [job EXCEPT ![j] = s]

\* A worker call may go wrong; a destroyed worker answers nothing.
Lost == MayFail \/ row.state = "destroyed"
Reached == row.state # "destroyed"

Free(t) == t \in Requests /\ Waiting(t, "idle") /\ Waiting(Recovery, "idle")

---------------------------------------------------------------------------
(* Destruction, as far as jobs are concerned *)

\* destroy_session up to its first await.
DestroyBegin(t, r) ==
  /\ row' = IF r.state = "destroyed" THEN r ELSE [r EXCEPT !.state = "destroying"]
  /\ Go(t, [Resting EXCEPT !.pc = "d_absent"])

\* Mutants: jobs get the state of abandoned transfers; queued jobs are forgotten.
AbandonAsTransfers ==
  [j \in Jobs |-> IF job[j] \in ActiveStates THEN "abandoned" ELSE job[j]]
AbandonExecuting ==
  [j \in Jobs |-> IF job[j] \in ActiveStates \ {"queued"} THEN "failed" ELSE job[j]]
\* _abandon_session_work: every active job has failed.
AbandonSessionWork ==
  [j \in Jobs |-> IF job[j] \in ActiveStates THEN "failed" ELSE job[j]]

\* A confirmed destroy, or a deadline that passed with no work to wait for.
Destroy(t) ==
  /\ Free(t) /\ row.state # "destroyed"
  /\ DestroyBegin(t, row)
  /\ UNCHANGED <<job, provisioned, remote>>

\* prepare_deadline_destroy: the deadline passed over a working job.
Expire(t) ==
  /\ Free(t) /\ row.state \in {"running", "harvesting"}
  /\ \E j \in Jobs :
       /\ ActiveJobs = {j}
       /\ Go(t, [Resting EXCEPT !.pc = "e_sync", !.job = j])
  /\ UNCHANGED <<row, job, provisioned, remote>>

\* Its sync answered: a job that has ended remotely is finished first, with
\* session and job objects read now.
ExpireSynced(t) ==
  LET j == task[t].job IN
  /\ Waiting(t, "e_sync")
  /\ \/ DestroyBegin(t, row)
     \/ /\ Reached /\ remote[j].state \in {"succeeded", "failed"}
        /\ Go(t, [Resting EXCEPT !.pc = "f_events", !.job = j,
                                 !.state = row.state, !.at = job[j]])
        /\ UNCHANGED row
  /\ UNCHANGED <<job, provisioned, remote>>

\* destroy_session has its inventory.  Only the requests that asked for the
\* destruction abandon the work, a refresh or recovery that ends it does not.
DestroyVerified(t) ==
  /\ task[t].pc \in {"d_absent", "d_poll"}
  /\ \/ Legal("failed") /\ row' = In("failed") /\ UNCHANGED job
     \/ /\ Legal("destroyed") /\ row' = In("destroyed")
        /\ job' = IF Waiting(t, "d_absent") THEN AbandonSessionWork ELSE job
     \/ ~Legal("destroyed") /\ UNCHANGED <<row, job>>
  /\ Stop(t)
  /\ UNCHANGED <<provisioned, remote>>

---------------------------------------------------------------------------
(* Finishing a job *)

\* The finisher of a job ends; on an expiring session its destruction follows.
Finished(t, r) ==
  IF t \in Requests THEN DestroyBegin(t, r) ELSE row' = r /\ Stop(t)

\* Mutant: the finisher is given the job object from before the last write.
FollowUnsaved(t, j, s, a) ==
  LET f == [Resting EXCEPT !.pc = "f_events", !.job = j, !.state = s, !.at = "queued"]
  IN task' = IF task[t].answer = "done" THEN [task EXCEPT ![t] = f]
             ELSE [task EXCEPT ![t] = Resting,
                               ![j] = IF @.pc = "idle" THEN f ELSE @]
\* The worker took job j: task j finishes it unless one already does; a worker
\* that reported it ended has t finish it at once.
Follow(t, j, s, a) ==
  LET f == [Resting EXCEPT !.pc = "f_events", !.job = j, !.state = s, !.at = a]
  IN task' = IF task[t].answer = "done" THEN [task EXCEPT ![t] = f]
             ELSE [task EXCEPT ![t] = Resting,
                               ![j] = IF @.pc = "idle" THEN f ELSE @]

\* sync_job, the events up to the worker's present sequence are stored.
FinishEvents(t) ==
  /\ Waiting(t, "f_events")
  /\ \/ Lost /\ Finished(t, row)
     \/ /\ Reached
        /\ Go(t, [task[t] EXCEPT !.pc = "f_job", !.seq = remote[task[t].job].seq])
        /\ UNCHANGED row
  /\ UNCHANGED <<job, provisioned, remote>>

\* _finish_remote_job, the outputs are downloaded and verified.
FinishSucceeded(t) ==
  LET j == task[t].job
      a == task[t].at
      s == task[t].state
      r == IF s = "running" THEN In("harvesting") ELSE row
      harvests == /\ Current(j, a) /\ a \in {"running", "harvesting"}
                  /\ s \in {"running", "harvesting"}
  IN \/ s = "running" /\ row.state # "running" /\ Finished(t, row) /\ UNCHANGED job
     \/ /\ s = "running" => row.state = "running"
        /\ IF harvests
           THEN /\ job' = Saved(j, "succeeded")
                /\ Finished(t, IF r.state = "harvesting" THEN [r EXCEPT !.state = "ready"]
                               ELSE r)
           ELSE /\ job' = IF a = "running" /\ Current(j, a) THEN Saved(j, "harvesting")
                          ELSE job
                /\ Finished(t, r)

\* _finish_remote_job, the execution failed or was interrupted.
FinishFailed(t) ==
  LET j == task[t].job
      s == task[t].state
      fails == Current(j, task[t].at) /\ task[t].at # "succeeded"
  IN \/ ~fails /\ Finished(t, row) /\ UNCHANGED job
     \/ /\ fails
        /\ job' = Saved(j, "failed")
        /\ Finished(t, IF row.state = s /\ CanMove(s, "ready") THEN In("ready") ELSE row)

\* sync_job, the worker's record: refused if it has moved past the events.  Any
\* poll of a job that still runs may be the last of max_job_polls.
FinishJob(t) ==
  LET out == remote[task[t].job] IN
  /\ Waiting(t, "f_job")
  /\ \/ Lost /\ Finished(t, row) /\ UNCHANGED job
     \/ Reached /\ out.seq # task[t].seq /\ Finished(t, row) /\ UNCHANGED job
     \/ /\ Reached /\ out.seq = task[t].seq
        /\ \/ /\ out.state = "running"
              /\ Go(t, [task[t] EXCEPT !.pc = "f_events", !.seq = 0])
              /\ UNCHANGED <<row, job>>
           \/ out.state = "running" /\ Finished(t, row) /\ UNCHANGED job
           \/ out.state = "succeeded" /\ FinishSucceeded(t)
           \/ out.state = "failed" /\ FinishFailed(t)
  /\ UNCHANGED <<provisioned, remote>>

---------------------------------------------------------------------------
(* Submitting a job *)

\* submit_job up to the fresh preflight; a key that has a row returns it.
Submit(t, j) ==
  /\ Free(t) /\ row.state = "ready" /\ job[j] = "none"
  /\ Go(t, [Resting EXCEPT !.pc = "s_fresh", !.job = j, !.base = row.installed])
  /\ UNCHANGED <<row, job, provisioned, remote>>

\* Mutant: transition instead of transition_if_state.
ReadyOrLegal(to) == Legal(to)
\* transition_if_state lets one submission claim the session.
ReadyFor(to) == row.state = "ready"

\* submit_job, the fresh manifest resolved against the session object's
\* installed one: create the row, claim the session, start what is needed.
SubmitClaim(t) ==
  LET j == task[t].job
      base == task[t].base
      to == IF Want[j] \subseteq base THEN "running" ELSE "provisioning"
      call(pc) == Go(t, [Resting EXCEPT !.pc = pc, !.job = j])
  IN /\ Waiting(t, "s_fresh")
     /\ \/ Stop(t) /\ UNCHANGED <<row, job>>     \* blocked, or the row exists
        \/ /\ job[j] = "none" /\ ~ReadyFor(to)
           /\ job' = Saved(j, "failed") /\ Stop(t) /\ UNCHANGED row
        \/ /\ job[j] = "none" /\ ReadyFor(to)
           /\ row' = In(to)
           /\ \/ /\ to = "provisioning"
                 /\ job' = Saved(j, "resolving") /\ call("s_delta")
              \/ /\ to = "running" /\ Want[j] # base
                 /\ job' = Saved(j, "resolving") /\ call("s_same")
              \/ Want[j] = base /\ job' = Saved(j, "queued") /\ call("s_start")
     /\ UNCHANGED <<provisioned, remote>>

\* Mutant: the installed digest is forgotten.
RunningStale(m) == [row EXCEPT !.state = "running", !.manifest = m]
Running(m) == [state |-> "running", manifest |-> m, installed |-> m]

\* submit_job, the manifest applied or not.  After a delta validating, ready
\* and running are written in turn; the job is queued after the session.
SubmitApplied(t) ==
  LET j == task[t].job
      first == IF Waiting(t, "s_delta") THEN "validating" ELSE "running"
      held == Current(j, "resolving")
  IN /\ Answered(t, "s_delta") \/ Answered(t, "s_same")
     /\ \/ /\ task[t].answer = "no" /\ held
           /\ job' = Saved(j, "failed")
           /\ row' = IF Legal("failed") THEN In("failed") ELSE row
           /\ Stop(t)
        \/ /\ IF task[t].answer = "no" THEN ~held ELSE ~Legal(first)
           /\ Stop(t) /\ UNCHANGED <<row, job>>
        \/ /\ task[t].answer = "ok" /\ Legal(first)
           /\ row' = Running(Want[j])
           /\ IF held THEN /\ job' = Saved(j, "queued")
                           /\ Go(t, [Resting EXCEPT !.pc = "s_start", !.job = j])
              ELSE Stop(t) /\ UNCHANGED job
     /\ UNCHANGED <<provisioned, remote>>

\* submit_job, start_job answered: a call that failed leaves the job queued.
SubmitStarted(t) ==
  LET j == task[t].job
      taken == task[t].answer # "no" /\ Current(j, "queued")
  IN /\ Answered(t, "s_start")
     /\ \/ ~taken /\ Stop(t) /\ UNCHANGED job
        \/ taken /\ job' = Saved(j, "running") /\ Follow(t, j, "running", "running")
     /\ UNCHANGED <<row, provisioned, remote>>

---------------------------------------------------------------------------
(* Refreshing the session *)

\* refresh_session; without Polling nobody else is being served meanwhile.
Poll(t) ==
  /\ Free(t)
  /\ Polling \/ \A u \in Tasks : Waiting(u, "idle")
  /\ \/ /\ row.state \in BootStates
        /\ Go(t, [Resting EXCEPT !.pc = "p_get", !.state = row.state])
     \/ row.state \in DestroyStates /\ Go(t, [Resting EXCEPT !.pc = "d_poll"])
  /\ UNCHANGED <<row, job, provisioned, remote>>

\* reconcile_session_once has the instance: it writes the state it read before
\* the await and bootstraps the worker with the session's manifest.
PollGot(t) ==
  LET s == task[t].state IN
  /\ Waiting(t, "p_get")
  /\ \/ Stop(t) /\ UNCHANGED row
     \/ /\ Legal(s) /\ row' = In(s)
        /\ Go(t, [Resting EXCEPT !.pc = "p_health", !.state = s, !.base = row.manifest])
  /\ UNCHANGED <<job, provisioned, remote>>

\* bootstrap_session, the worker answered and is claimed.
BootstrapHealth(t) ==
  LET s == task[t].state
      next(pc) == Go(t, [task[t] EXCEPT !.pc = pc, !.state = NoState])
  IN /\ Waiting(t, "p_health")
     /\ \/ Stop(t) /\ UNCHANGED row
        \/ /\ Reached /\ s = "bootstrapping" /\ row.state = s
           /\ row' = In("provisioning") /\ next("p_apply")
        \/ Reached /\ s = "provisioning" /\ next("p_apply") /\ UNCHANGED row
        \/ Reached /\ s = "validating" /\ next("p_deadline") /\ UNCHANGED row
     /\ UNCHANGED <<job, provisioned, remote>>

\* bootstrap_session, the manifest applied or not.
BootstrapApplied(t) ==
  /\ Answered(t, "p_apply")
  /\ \/ /\ task[t].answer = "no" \/ ~Legal("validating")
        /\ Stop(t) /\ UNCHANGED row
     \/ /\ task[t].answer = "ok" /\ Legal("validating")
        /\ row' = In("validating")
        /\ Go(t, [Resting EXCEPT !.pc = "p_deadline", !.base = task[t].base])
  /\ UNCHANGED <<job, provisioned, remote>>

\* bootstrap_session, the worker enforces the deadline.
BootstrapDeadline(t) ==
  /\ Waiting(t, "p_deadline")
  /\ \/ UNCHANGED row
     \/ Reached /\ Legal("ready")
        /\ row' = [row EXCEPT !.state = "ready", !.installed = task[t].base]
  /\ Stop(t)
  /\ UNCHANGED <<job, provisioned, remote>>

---------------------------------------------------------------------------
(* Restart *)

\* resume_session: the one active job goes on where its row says it was.
ResumeSession ==
  \/ /\ Cardinality(ActiveJobs) # 1
     /\ Stop(Recovery) /\ UNCHANGED job
  \/ \E j \in Jobs :
       LET a == IF job[j] \in {"captured", "resolving"} THEN "queued" ELSE job[j] IN
       /\ ActiveJobs = {j}
       /\ job' = Saved(j, a)
       /\ IF row.state = "running"
          THEN Go(Recovery, [Resting EXCEPT !.pc = "v_start", !.job = j, !.at = a])
          ELSE Follow(Recovery, j, "harvesting", a)

\* recover_sessions has the inventory.  Nothing but the worker runs meanwhile,
\* so the calls of recover_session that change nothing are not apart.
RecoverListed ==
  LET s == row.state
      next(pc, m) == /\ UNCHANGED job
                     /\ Go(Recovery, [Resting EXCEPT !.pc = pc, !.state = s, !.base = m])
  IN /\ Waiting(Recovery, "v_list")
     /\ \/ Stop(Recovery) /\ UNCHANGED job
        \/ s \in DestroyStates /\ next("d_poll", {})
        \/ s \in BootStates /\ next("p_health", row.manifest)
        \/ s = "ready" /\ next("v_apply", row.installed)
        \/ s \in {"running", "harvesting"} /\ ResumeSession
     /\ row' = IF s \in DestroyStates THEN In("destroying") ELSE row
     /\ UNCHANGED <<provisioned, remote>>

\* recover_session of a ready session ends with the row as it was.
RecoverApplied ==
  /\ Answered(Recovery, "v_apply")
  /\ Stop(Recovery)
  /\ UNCHANGED <<row, job, provisioned, remote>>

\* resume_session, start_job answered; an error leaves the job as it is.
ResumeStarted ==
  LET j == task[Recovery].job
      starts == task[Recovery].at = "queued"
      a == IF starts THEN "running" ELSE task[Recovery].at
      taken == task[Recovery].answer # "no" /\ (starts => Current(j, "queued"))
  IN /\ Answered(Recovery, "v_start")
     /\ \/ ~taken /\ Stop(Recovery) /\ UNCHANGED job
        \/ /\ taken
           /\ job' = IF starts THEN Saved(j, "running") ELSE job
           /\ Follow(Recovery, j, "running", a)
     /\ UNCHANGED <<row, provisioned, remote>>

\* What a process leaves that is killed between two writes of a segment.
Leaves(r, j, s) == row' = r /\ job' = Saved(j, s)
HalfWritten ==
  \E t \in Tasks :
    LET j == task[t].job
        base == task[t].base
    IN \/ /\ Waiting(t, "s_fresh") /\ job[j] = "none"
          /\ \/ \E s \in {"captured", "resolving"} : Leaves(row, j, s)
             \/ /\ ReadyFor("running") /\ Want[j] = base
                /\ Leaves(In("running"), j, "resolving")
       \/ /\ Answered(t, "s_delta") \/ Answered(t, "s_same")
          /\ Current(j, "resolving")
          /\ \/ task[t].answer = "no" /\ Leaves(row, j, "failed")
             \/ /\ task[t].answer = "ok" /\ Waiting(t, "s_delta") /\ Legal("validating")
                /\ \/ Leaves(In("validating"), j, "resolving")
                   \/ Leaves([Running(Want[j]) EXCEPT !.state = "ready"], j, "resolving")
                   \/ Leaves(Running(Want[j]), j, "resolving")
             \/ /\ task[t].answer = "ok" /\ Waiting(t, "s_same") /\ Legal("running")
                /\ Leaves(Running(Want[j]), j, "resolving")
       \/ /\ Waiting(t, "f_job") /\ Reached /\ remote[j].seq = task[t].seq
          /\ job[j] = "running" /\ task[t].at = "running"
          /\ \/ remote[j].state = "failed" /\ Leaves(row, j, "failed")
             \/ /\ remote[j].state = "succeeded"
                /\ row.state = "running" /\ task[t].state = "running"
                /\ \E s \in {"running", "harvesting", "succeeded"} :
                     Leaves(In("harvesting"), j, s)
       \/ /\ Waiting(t, "d_absent") /\ Legal("destroyed")
          /\ row' = In("destroyed") /\ UNCHANGED job

Restarted ==
  [t \in Tasks |-> IF t = Recovery /\ row'.state # "destroyed"
                   THEN [Resting EXCEPT !.pc = "v_list"] ELSE Resting]

\* The process is killed, at an await or between two writes, and started again.
Crash ==
  /\ MayCrash
  /\ UNCHANGED <<row, job>> \/ HalfWritten
  /\ task' = Restarted
  /\ UNCHANGED <<provisioned, remote>>

---------------------------------------------------------------------------
(* The remote worker *)

Answer(t, a) == Go(t, [task[t] EXCEPT !.answer = a])
Calls(t, pcs) == task[t].pc \in pcs /\ task[t].answer = "none"

\* The manifest the call asks the worker to install.
Desired(t) ==
  IF task[t].pc \in {"s_delta", "s_same"} THEN Want[task[t].job] ELSE task[t].base

\* POST /manifests: the installed set is replaced, or kept after an error.
WorkerApply(t) ==
  /\ Calls(t, ApplyCalls)
  /\ \/ Lost /\ Answer(t, "no") /\ UNCHANGED provisioned
     \/ /\ Reached /\ provisioned' = Desired(t)
        /\ Answer(t, "ok") \/ (MayFail /\ Answer(t, "no"))
  /\ UNCHANGED <<row, job, remote>>

\* POST /jobs: a known job is reported; a new one starts on its own manifest,
\* on a worker that executes no other.
WorkerStart(t) ==
  LET j == task[t].job
      known == remote[j].state # "none"
      free == /\ provisioned = Want[j]
              /\ \A i \in Jobs : remote[i].state # "running"
  IN /\ Calls(t, StartCalls)
     /\ \/ Lost /\ Answer(t, "no") /\ UNCHANGED remote
        \/ /\ Reached /\ known /\ UNCHANGED remote
           /\ Answer(t, IF remote[j].state = "running" THEN "ok" ELSE "done")
        \/ Reached /\ ~known /\ ~free /\ Answer(t, "no") /\ UNCHANGED remote
        \/ /\ Reached /\ ~known /\ free
           /\ remote' = [remote EXCEPT ![j].state = "running"]
           /\ Answer(t, "ok") \/ (MayFail /\ Answer(t, "no"))
     /\ UNCHANGED <<row, job, provisioned>>

\* The running job reports progress, or ends, with an error event or without.
WorkerRuns(j) ==
  /\ Reached /\ remote[j].state = "running"
  /\ \/ /\ remote[j].seq < MaxEvents
        /\ \E s \in {"running", "failed"} :
             remote' = [remote EXCEPT ![j] = [state |-> s, seq |-> @.seq + 1]]
     \/ \E s \in {"succeeded", "failed"} : remote' = [remote EXCEPT ![j].state = s]
  /\ UNCHANGED <<row, job, task, provisioned>>

---------------------------------------------------------------------------
Init ==
  /\ row = [state |-> "bootstrapping", manifest |-> {}, installed |-> {}]
  /\ job = [j \in Jobs |-> "none"]
  /\ task = [t \in Tasks |-> Resting]
  /\ provisioned = {}
  /\ remote = [j \in Jobs |-> [state |-> "none", seq |-> 0]]

Serve(t) ==
  \/ \E j \in Jobs : Submit(t, j)
  \/ SubmitClaim(t) \/ SubmitApplied(t) \/ SubmitStarted(t)
  \/ Poll(t) \/ PollGot(t)
  \/ Destroy(t) \/ Expire(t) \/ ExpireSynced(t)

Continue(t) ==
  \/ BootstrapHealth(t) \/ BootstrapApplied(t) \/ BootstrapDeadline(t)
  \/ FinishEvents(t) \/ FinishJob(t) \/ DestroyVerified(t)

Recover == RecoverListed \/ RecoverApplied \/ ResumeStarted

Next ==
  \/ \E t \in Requests : Serve(t)
  \/ \E t \in Tasks : Continue(t) \/ WorkerApply(t) \/ WorkerStart(t)
  \/ \E j \in Jobs : WorkerRuns(j)
  \/ Recover \/ Crash

Spec == Init /\ [][Next]_vars

---------------------------------------------------------------------------
\* Every variable has the shape the definitions above give it.
TypeOK ==
  /\ row \in [state : SessionState, manifest : SUBSET Dependencies,
              installed : SUBSET Dependencies]
  /\ job \in [Jobs -> JobState \cup {"none"}]
  /\ task \in [Tasks -> Task]
  /\ provisioned \subseteq Dependencies
  /\ remote \in [Jobs -> [state : RemoteState, seq : Nat]]

\* A session that accepts a job has none: whatever fails or is lost in a
\* submission, it never returns to ready with its job unfinished.
ReadyIsIdle == row.state = "ready" => ActiveJobs = {}

\* A destroyed session leaves no job that looks as if it still ran.
DestroyedIsIdle == row.state = "destroyed" => ActiveJobs = {}

\* The installed digest from which the next delta is computed is what the
\* worker of a ready session has.
InstalledIsProvisioned == row.state = "ready" => provisioned = row.installed

\* An outcome once written is never overwritten: the abandonment of a destroyed
\* session, the finisher and an expiry that finishes the job too, in any order.
OutcomeStands ==
  [][\A j \in Jobs : job[j] \in {"succeeded", "failed"} => job'[j] = job[j]]_vars

\* A session executes one job at a time.
OneJobAtATime == Cardinality(ActiveJobs) <= 1
=============================================================================
