----------------------------- MODULE WorkerJobs -----------------------------
(***************************************************************************)
(* The rented machine: its job manager, running prompts on the ComfyUI     *)
(* that provisioning starts and restarts, and the worker's crashes.  A job *)
(* record of the state file is written whole with its events; what the     *)
(* events say, previews and output descriptors are left out, and events    *)
(* are counted.                                                            *)
(***************************************************************************)
EXTENDS WorkerProvision

CONSTANTS
  Jobs,         \* job identifiers, each with one request
  Uses,         \* the manifest each job's request names
  NoJob,
  MaxEvents     \* MAX_JOB_EVENTS

ASSUME JobConstants ==
  Uses \in [Jobs -> Manifests] /\ NoJob \notin Jobs /\ MaxEvents \in Nat \ {0}

VARIABLES
  job,          \* the job records of the state file
  run,          \* the job the manager executes, and what its task awaits
  submitted     \* how often ComfyUI was given each job's prompt

jobVars == <<job, run, submitted>>
vars == <<provisionVars, jobVars>>

Terminal == {"succeeded", "failed", "interrupted"}
JobStates == {"none", "running"} \cup Terminal
Free == [pc |-> "free", job |-> NoJob]

\* "post": the prompt is sent; "events": the websocket is read; "ending" and
\* "stopping": it closes after an error or an interruption; "history": after a
\* success.
RunPcs == {"free", "post", "events", "ending", "stopping", "history"}

Saved(j, state, events) == job' = [job EXCEPT ![j] = [state |-> state, events |-> events]]
Open(j) == job[j].state = "running"
AtPc(pc) == Serving /\ run.pc = pc
Goto(pc) == run' = [run EXCEPT !.pc = pc]

-----------------------------------------------------------------------------
(* Executing a job *)

\* start and run: a known job is returned as it is, one job runs at a time, and
\* only on the manifest that is installed.  The record is queued and running in
\* one step: nothing is awaited between the two writes.
Accepted(j) == job[j].state = "none" /\ run = Free /\ installed = Uses[j]

StartJob(j) ==
  /\ Serving /\ Accepted(j)
  /\ Saved(j, "running", 0)
  /\ run' = [pc |-> "post", job |-> j]
  /\ UNCHANGED <<provisionVars, submitted>>

Events == job[run.job].events
Room == Events < MaxEvents

\* The record takes the outcome and the manager is free.
Finish(state, events) == Saved(run.job, state, events) /\ run' = Free

\* An event is appended to the record; without room for it the job fails.
Append(pc) ==
  \/ Room /\ Saved(run.job, "running", Events + 1) /\ Goto(pc)
  \/ ~Room /\ Finish("failed", Events)

\* execute_native, the prompt is posted; ComfyUI may refuse it.
PostPrompt ==
  /\ AtPc("post") /\ ComfyRuns
  /\ submitted' = [submitted EXCEPT ![run.job] = @ + 1]
  /\ \/ Goto("events") /\ UNCHANGED job
     \/ Finish("failed", 1)
  /\ UNCHANGED provisionVars

\* execute_native, an event: the last one ends the reading of the websocket.
NativeEvent ==
  /\ AtPc("events") /\ ComfyRuns
  /\ \E pc \in {"events", "history", "ending", "stopping"} : Append(pc)
  /\ UNCHANGED <<provisionVars, submitted>>

\* Mutant: the prompt is sent again when the websocket is lost.
NativeRetries ==
  /\ AtPc("events") /\ Goto("post") /\ UNCHANGED <<provisionVars, job, submitted>>
\* ComfyUI has gone, or the websocket or an answer of it cannot be used.
NativeFails ==
  /\ Serving /\ run # Free
  /\ ~ComfyRuns \/ run.pc \in {"events", "history"}
  /\ run.pc \notin {"ending", "stopping"}
  /\ Finish("failed", Events)
  /\ UNCHANGED <<provisionVars, submitted>>

\* The execution has ended and its record takes the outcome: after a success,
\* with the outputs its history names.
ExecutionEnds ==
  /\ \/ AtPc("history") /\ ComfyRuns /\ Finish("succeeded", Events)
     \/ AtPc("ending") /\ Finish("failed", Events)
     \/ AtPc("stopping") /\ Finish("interrupted", Events)
  /\ UNCHANGED <<provisionVars, submitted>>

-----------------------------------------------------------------------------
(* The worker process *)

MachineCrashes == Crash /\ run' = Free /\ UNCHANGED <<job, submitted>>

\* An orderly stop cancels both tasks, and each records that.
WorkerStops ==
  /\ Serving /\ Fault
  /\ up' = FALSE /\ comfy' = Down
  /\ IF apply = Idle THEN UNCHANGED <<tx, apply, pip>> ELSE End("failed") /\ PipCutOff
  /\ IF run = Free THEN UNCHANGED <<job, run>> ELSE Finish("interrupted", Events)
  /\ UNCHANGED <<file, dir, installed, spent, submitted>>

\* Mutant: every record is interrupted.
OrphanAny(r) == r.state # "none"
\* _reconcile_orphaned_jobs: what ran is interrupted, with an event.
Orphan(r) == r.state = "running"

\* Mutant: the records are left as they are.
Unreconciled == job
Reconciled == [j \in Jobs |-> IF Orphan(job[j])
                 THEN [state |-> "interrupted", events |-> job[j].events + 1]
                 ELSE job[j]]

\* Mutant: no capacity.
RestartsAnyway == TRUE
\* A record without room for the event keeps the worker from starting.
MayStart == \A j \in Jobs : Orphan(job[j]) => job[j].events < MaxEvents

WorkerRestarts ==
  /\ WorkerStarts /\ MayStart
  /\ job' = Reconciled
  /\ UNCHANGED <<run, submitted>>

-----------------------------------------------------------------------------
Init ==
  /\ ProvisionInit
  /\ job = [j \in Jobs |-> [state |-> "none", events |-> 0]]
  /\ run = Free
  /\ submitted = [j \in Jobs |-> 0]

Execute == PostPrompt \/ NativeEvent \/ NativeFails \/ ExecutionEnds

Next ==
  \/ Provision /\ UNCHANGED jobVars
  \/ World /\ UNCHANGED jobVars
  \/ ComfyDies /\ UNCHANGED jobVars
  \/ \E j \in Jobs : StartJob(j)
  \/ Execute
  \/ MachineCrashes \/ WorkerStops \/ WorkerRestarts

Spec == Init /\ [][Next]_vars

-----------------------------------------------------------------------------
\* Every variable has the shape the definitions above give it.
TypeOK ==
  /\ ProvisionTypeOK
  /\ job \in [Jobs -> [state : JobStates, events : 0..MaxEvents]]
  /\ run \in [pc : RunPcs, job : Jobs \cup {NoJob}]
  /\ submitted \in [Jobs -> Nat]

\* Whatever is retried, crashes or stalls, a manifest restarts ComfyUI at most
\* once as planned and once for its repair, and is repaired at most once: the
\* budget survives in the state file because it is written before it is spent.
RestartBudget ==
  \A m \in Manifests : /\ spent[m].restarts <= tx[m].planned + tx[m].repairs
                      /\ spent[m].repairs <= (IF tx[m].repaired THEN 1 ELSE 0)

Loaded(n) ==
  /\ \E r \in Revisions : <<n.pkg, r>> \in comfy
  /\ Provides(n.wheels) \subseteq Provides(comfy \cap Wheels)

Usable(m) ==
  /\ \A f \in m.models : file[f] = "verified" \/ f \in apply.late
  /\ \A n \in m.nodes : dir[n.pkg] = n.rev /\ (ComfyRuns => Loaded(n))

\* A manifest becomes the installed one only when its models verified after
\* everything else was in place, its custom nodes are in their directories, and
\* a ComfyUI that runs has loaded each package and each distribution they
\* need, also on a retry that spends no restart because an earlier request of
\* the manifest did, and whatever an installation that was cut off, or one of
\* another manifest, left behind.  In which revision and version is not said: a
\* retry without a restart leaves what ComfyUI has loaded.
ReadyIsUsable == [][installed' # installed => Usable(installed')]_vars

\* Restarting ComfyUI or the worker never runs a prompt twice, and neither does
\* a submission repeated because its answer was lost.
RunsOnce == \A j \in Jobs : submitted[j] <= 1

\* A job record that is still running has a task: a worker that is up and free
\* has left none behind.
NoOrphan == up /\ run = Free => \A j \in Jobs : ~Open(j)

\* An outcome that was recorded stays, restarts included.
OutcomeIsFinal == [][\A j \in Jobs : job[j].state \in Terminal => job'[j] = job[j]]_vars
=============================================================================
