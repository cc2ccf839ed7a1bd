# A verification model of ComfyUI Cloud Run

ComfyUI Cloud Run rents one Vast.ai GPU for a ComfyUI workflow, provisions a
remote worker on it, runs jobs there, brings the verified outputs back and
destroys the machine. Money is at stake at every step: a machine nobody knows of
keeps being billed. This directory models how a machine is rented, replaced and destroyed, how it gets its
dependencies and jobs, how results come back, and how its deadline is kept on both
sides; it checks the models with TLC and proves parts of them with TLAPS.

Line numbers refer to this commit of the repository.

## 1. Inventory

| Component | State it keeps | Operations | Talks to |
|---|---|---|---|
| Session lifecycle: `cloud_run/lifecycle.py`, `service.py` | the task in `_SESSION_WATCHDOGS` | confirm, refresh, reconcile, destroy, boot failure and replacement, startup recovery | session rows, Vast, session execution |
| Durable rows: `cloud_run/models.py`, `repository.py` | `sessions`, `attempts`, destroy reviews in SQLite | `create_or_get`, `save` (optimistic version), `transition`, `transition_if_state`, `consume_destroy_review` | everything in the backend |
| Session execution: `cloud_run/session_service.py` | none of its own | preflight, submit, bootstrap, resume, recover, deadline update, destroy review | session and job rows, relay, worker client |
| Job rows: `cloud_run/job_repository.py` | jobs, events, transfers, manifests, installed sets | job and transfer transitions | session execution, relay |
| Relay: `cloud_run/relay.py` | event cursor, part files | event sync, output download, publication | worker, job rows, file system |
| Worker client and protocol: `worker_client.py`, `worker_protocol.py` | nonce | signed calls | remote worker |
| Preflight: `capture.py`, `resolver.py`, `manifest.py`, `registry.py`, `dependency_repository.py`, `artifacts.py` | captures, approvals | resolve a workflow to an immutable manifest, deltas | local ComfyUI |
| Offers and Vast: `offers.py`, `vast.py` | none | search, rank; create, list, get, destroy | Vast.ai |
| Remote worker: `remote_worker/` | one JSON state file, staged files, a ComfyUI process | claim, provision, jobs, uploads, deadline watchdog | ComfyUI, its own Vast instance |
| Browser: `web/js` | the open panel | polling once a second, confirmations | routes |

What is hard here. The backend is one asyncio loop, so between two awaits a
function is alone, but at every await any other request, the boot watchdog or the
startup recovery may run. Functions hold a session object across awaits and then
write through `SessionRepository.transition`, which re-reads the row and checks
only that the move is in `SESSION_TRANSITIONS`. Provider calls fail, time out,
or succeed with the answer lost; a create whose answer was lost may surface
minutes later. The process may be killed between any two writes. The worker
enforces its own copy of the deadline.

What makes each component correct, in short:

- lifecycle: at most one machine at a time, one replacement, no hidden billing,
  destruction only when proved, nothing waits for ever;
- rows: a state machine that no stale writer can lead astray;
- session execution: one job at a time, a job row and a session row that agree,
  an installed set that is what the worker has;
- relay: every event once and in order, an output published only when verified;
- deadline: local and remote copies agree or the row says they do not, and the
  machine ends at its limit even when nobody but the worker is left;
- uploads: what is in place is the file, however often a chunk was sent;
- worker: one job, records that survive a restart, installs that are all or
  nothing.

## 2. The modules

| Part of the system | Modules | Runs | Section |
|---|---|---|---|
| Session lifecycle | `SessionStates`, `SessionLifecycle`, `Rental`, `RecordedInstances`, `SessionLiveness`, `SessionClaims`, `MCSessionLifecycle` | `session_lifecycle`, `session_liveness`, `claim_destroy_stops_rental` | 3 |
| Jobs of a session | `SessionJobs`, `JobLiveness`, `MCSessionJobs` | `lone_client`, `any_order`, `quiet_worker`, `claim_one_job` | 4 |
| Deadline, both sides | `WorkerDeadline`, `SessionDeadline` | `deadline` | 5 |
| Relay and reviewed destruction | `RelaySync`, `MCRelaySync` | `relay` | 6 |
| Worker: provisioning and jobs | `WorkerProvision`, `WorkerJobs`, `MCWorkerJobs` | `worker` | 7 |
| Upload of local dependencies | `ArtifactUpload` | `upload` | 8 |
| One-shot attempts | `AttemptLifecycle` (implements `Rental`) | `attempts` | 9 |

`SessionDeadline` composes the backend with `WorkerDeadline`, `WorkerJobs` the job
manager with `WorkerProvision`; `SessionLifecycle` and `AttemptLifecycle` are both
shown to implement `Rental`. The session models share the row and cut it by
concern: machines in `SessionLifecycle`, jobs in `SessionJobs`, limits in
`SessionDeadline`, outputs in `RelaySync`. What one of them leaves out is a choice in
the others, so that each allows at least the orders the code has.

All models follow one convention. Both programs are asyncio loops: an action is what
one task does between two awaits, with all it writes, and everything else may happen
in between. A remote call is at least two actions. A crash may fall between any two
durable writes where the writes of a segment are visible to anybody.

Every invariant, action property and refinement that a passing run checks is also a
theorem (section 11), some of them under a hypothesis that the run makes too. The
liveness properties are model-checked only.
The theorems about module `M` and their proofs are in `MProofs`.

## 3. The session lifecycle

### Modules

| Module | What it is |
|---|---|
| `SessionStates` | the session states and their legal transitions, shared with `SessionJobs` |
| `SessionLifecycle` | the model: session row, tasks, provider |
| `Rental` | what a session promises of the machines it rents; implemented by `SessionLifecycle` (`RentalSpec`) |
| `RecordedInstances` | `SessionLifecycle` with a history variable: every id the row ever held |
| `SessionLiveness` | scheduling assumptions and liveness |
| `SessionClaims` | a statement of the documents that the code does not keep |
| `SessionLifecycleProofs`, `RecordedInstancesProofs` | theorems |
| `MCSessionLifecycle` | `RecordedInstances` with symmetry of the request slots, for TLC |

### State and actions

`row` is the `sessions` row: its state, `instance_id`, `retry_count`,
`destroy_requested` and `residual_inventory`. The other columns (quote, secret,
connection, deadlines, error text) never decide which of these changes.
`task[t]` is one asyncio task: `pc` names the await it is in, `snap` the session
object it will use after the await, `answered`, `ok` and `ids` the provider's
answer. `Handlers` are slots for concurrent requests, `Watchdog` is the single
entry the session can have in `_SESSION_WATCHDOGS`, `Recovery` is
`recover_sessions`. `live` are the instances with the session's label that Vast
runs and bills, `inflight` the creates it has accepted but not settled, `creates`
the create calls that have reached it; the ids of instances are the numbers of
their creates.

One action is one segment of code between two awaits, with everything it writes.
A provider call takes two actions: the provider acts and fixes the answer
(`ListInstances`, `GetInstance`, `DeleteInstance`, `CreateInstance`), and the
task resumes with it (`DestroyListed`, `ReconcileGot`, ...). So an answer can be
old when it is used. Operators with a parameter `r` are the synchronous parts of
functions that are called from several places (`DestroyBegin`,
`BootFailureBegin`, `Activate`); they run on the row the same segment has just
written. `Legal` is the check of `SESSION_TRANSITIONS` on the current row, and
where it fails the code raises: `Raise` is what that means for a request (the
row stays) and for the watchdog (it re-reads the row and goes on).

`Crash` kills the process at any await and also between two durable writes of
one segment (`HalfWritten`); the row, the provider and accepted creates survive,
tasks do not. Requests are served after recovery has finished, as
`routes.py:1030-1043` registers it as a startup hook.

Abstractions. Prices, quotes, offers, blacklists, secrets and URLs are left
out: where they make the code return early, the early return is a choice
(`ConfirmBegin`, `BootFailureListed`). Jobs are left out: where they matter to
the row they are choices (`SubmitJob`, `FinishRemoteJob`). `health` and `claim`
of the worker are one await. The API key stays configured. `resume_session`
writes no session row when it is reached from `recover_session`, because the
job's delta is only applied for a session in `provisioning`, which
`recover_session` never hands over.

### Constants and what they assume

`MayCrash` enables `Crash`. `BoundedProvider` says that Vast settles a create
within the boot deadline of 15 minutes, and that the backend's own create call
does not outlast it. `RentalSpec` and `RecordedInstanceVisible` need it: without
it a create that surfaces after the boot deadline meets its own replacement, and
two machines run. The code has no other protection against that, and none of its
documents promises any, so it is an assumption and not a finding.
`EveryCreateCounted` and `InstanceKnown` are proved without it.

### Runs

| Run | Instance | Shows |
|---|---|---|
| `session_lifecycle` | 2 handlers, crashes, bounded provider | `TypeOK`; `RentalSpec`: no interleaving of two requests, the watchdog, recovery and crashes rents a second machine while one runs or may start, or asks for a third; `RecordedInstanceVisible`: an id the backend wrote down stays covered by `billing_may_continue` if the session fails; `EveryCreateCounted`: retry_count accounts for each create before it is made; `InstanceKnown`: a booting or working session has an id to destroy |
| `session_liveness` | 2 handlers, one of which only refreshes, crashes, bounded provider | `DestructionSettles`, if crashes stop; `BootSettles`, unless the process restarts or a refresh adopts the host before its creator does |
| `claim_destroy_stops_rental` | 1 handler, no crash, bounded provider | a violation, section 10 |

Bounds. Nothing else is bounded: `EveryCreateCounted` limits the creates to two,
so ids, `live` and `inflight` stay within `1..2` by themselves. Two handlers
with the watchdog give three concurrent tasks on one row, which is enough for a
request to be overtaken by another one while the watchdog holds an old session
object; what a third request could do is what the proofs, which are for any set
of handlers, cover. One session is enough because sessions share nothing but the
label prefix: every call names one session and one label.
Deadlock is checked in every run of this model.

Mutants. Beside some definitions stands a mutated form, marked as such: the bug
that the property of a run has been seen to catch (a replacement that is not
counted, an inventory that could not be read taken for an empty one, an id that
is not written, a boot nobody watches, and so on).

### Fairness

`SessionLiveness` assumes that the event loop resumes every task whose await is
over, and that Vast answers each call and settles each create (weak fairness of
the actions of each task and of `Provider`, `Settle`). `BootExpires` and
`AbsenceBelieved` are the clock: while the watchdog keeps polling, or a
destruction keeps being retried, the boot deadline passes at some point (strong
fairness, because the tasks are only now and then at the place that compares the
clock). `PollSession` is the open panel: `web/js/session-console.js:150-163` and
`443-455` poll once a second in the states that wait for something; a request
slot is only now and then free, hence strong fairness. No confirmation, destroy
or job is assumed, nor that a host ever boots. `DestructionSettles` assumes that
crashes stop (`StaysUp`).

`BootSettles` has two exceptions, and nobody enforces the boot deadline in either. One
is a restart: after it, `recover` (`service.py:949`) starts no watchdog for a session.
The other needs two requests: a refresh finds the new host in the inventory and adopts
it while the request that creates it still awaits its answer; that request then finds
its session `bootstrapping` and returns without a watchdog (`service.py:519-520`). The
run has the second request for this: `Refresher` may look the session up at any time,
and nothing is assumed of its scheduling. It submits, confirms and destroys nothing,
which keeps the graph small enough for liveness.

## 4. The jobs of a session

### Modules

| Module | What it is |
|---|---|
| `SessionJobs` | the model: session row, job rows, tasks, worker |
| `MCSessionJobs` | the manifests of two jobs for TLC |
| `JobLiveness` | scheduling assumptions and liveness |
| `SessionJobsProofs` | theorems |

### State and actions

`row` is the same session row, now with the manifest and installed digests and
without what the rental needs. `job[j]` is the state of the `jobs` row of
idempotency key `j`. `task[t]` is an asyncio task at an await, as above: the
request slots, `Recovery`, and for each job the entry it can have in `_JOB_TASKS`,
which is named by the job. `provisioned` is the manifest installed on the worker and
`remote[j]` its record of job `j`: a state and the last event's sequence.

The three guards of the code are kept apart. `Legal` is `transition`: any legal
move from the present state. `ReadyFor` is `transition_if_state`, which needs the
state it names. `Current` is the version `save_job` compares; a job never returns
to an earlier state, so its version is current exactly when its state is the one
the caller holds. What a function carries over an await is in its task: the
session's state (`state`), a manifest (`base`), the job's state (`at`), the event
cursor (`seq`).

`Submit`, `SubmitClaim`, `SubmitApplied` and `SubmitStarted` are `submit_job` cut at
its awaits: the fresh preflight, `apply_manifest`, `start_job`. `Poll` to
`BootstrapDeadline` are a refresh of a booting session. `FinishEvents` and
`FinishJob` are the two calls of `sync_job` and the branches of
`_finish_remote_job`. The finisher gives up after `max_job_polls` polls of a job
that still runs (86,400, one a second); the number is left out and the branch is
not, so any poll of a running job may be the last one. `Expire` is a deadline that
passes over a working job; `Destroy` any other destruction, and both end in
`DestroyVerified`. `RecoverListed` to `ResumeStarted` are startup recovery. `Crash`
also strikes between two writes of a segment (`HalfWritten`). `WorkerApply`,
`WorkerStart` and `WorkerRuns` are the worker.

Abstractions. A manifest is the set of dependencies it adds to the first
canvas's; the one case the code distinguishes besides, two equal sets under two
digests, is a manifest that asks for less than is installed (`s_same`). Upload
loops, the deadline policy and outputs are left out; where they fail the call is
lost. A call that is under way when the backend is killed does not act on the
worker afterwards. Retries inside one sync of an expiring session are one call.
The rental is reduced to `destroyed` or not, because `SessionLifecycle` has the
rest; a destroyed worker answers nothing. Outcomes of the worker that the code
treats alike are one (`failed` and `interrupted`, `queued` and `running`).

### Constants and runs

`MayFail` lets a call, or only its answer, be lost; `MayCrash` enables `Crash`;
`Polling` lets a refresh overlap other requests. `MaxEvents` bounds the events of
a job. Deadlock is not checked: a destroyed session has nothing left to do.

| Run | Polling, crashes, losses | Shows |
|---|---|---|
| `lone_client` | no, no, yes | `ReadyIsIdle`: a session that accepts a job has no other; `DestroyedIsIdle`: a destroyed one has none; `InstalledIsProvisioned`: the digest the next delta starts from is what the worker has |
| `any_order` | yes, yes, yes | `OutcomeStands`: an outcome, once in the job row, stays |
| `quiet_worker` | no, no, no, without events | `OutcomeArrives` |
| `claim_one_job` | yes, no, no | a violation, section 10 |

`lone_client` excludes exactly what breaks its invariants (section 10): a refresh that
overlaps a submission or a destruction, and a backend that is killed. Each of the three
fails with either of the two allowed.
Two jobs are enough for one to be submitted while the other is unfinished, and for
the second to need more than the first (a delta) or less (`s_same`). Two request
slots with two finishers give four tasks on one session. One event is enough
for the worker to move on between two calls, a second would move it on again.

### Fairness

`JobLiveness` assumes that the event loop resumes what can go on and that the worker
answers (weak fairness of each action of a submission, an expiry or a finisher,
and of the worker's part of a call). It does not assume that an execution ends,
or that anyone submits. `OutcomeArrives` is checked with `MaxEvents = 0`: one event
between the two calls of `sync_job` ends the finisher (section 10). It speaks of the
outcomes that an execution has while its finisher still polls (`Followed`): after the
poll limit nothing polls the job until a restart or the deadline. What it promises is
that the outcome of a followed job is not lost between the worker's record, the
claims on session and job, and the sessions that expire or are destroyed meanwhile.

## 5. The deadline of a session

### State and actions

`WorkerDeadline` is `remote_worker/deadline.py` with the part of `state.py` it uses.
`record` is the `deadline` transaction of the worker's state file: the limit, the
time of the destroy intent, and whether the DELETE was accepted. `watch` is the
watchdog task: `watch` polling, `enforce` in its retrieval grace, the DELETE under way or
accepted. `rental` is the machine, `now` the clock, in units of half an hour.
`Update` is the signed route (`update`, refused once the intent is on disk or the
limit has passed), `WatchExpired` to `WatchReturns` are the branches of `enforce` and
`watch`, `WorkerCrash` and `WorkerStart` the process, whose startup hook
(`main.py`) starts the watchdog.

Three branches are errors. `EnforceFails`: the intent cannot be written
(`state.py:443-513`) or the clock cannot be read, `watch` catches it and tries again
after five seconds, and no DELETE is sent before a write succeeds. `DeleteFailed`: the
DELETE is refused or its acceptance cannot be written, and `watch` goes on too.
`WatchFails`: `watch` reads the policy and the clock before its `try`
(`deadline.py:439`, `445`), so that a read which fails ends the task for good (`failed`);
only an update that is accepted, or a restart, starts another.

`SessionDeadline` adds the backend: `row` with its limit and the pending one,
`UpdateDeadline`/`UpdateSynced` (`update_deadline` before and after its call),
`BootstrapBegin` to `BootstrapReady` and `RecoverHealthy`/`RecoverReady`, which push the
policy of the session object they hold, `EnforceBegin`/`EnforceDestroyed` (the local
deadline, section 3 in one step), and `Crash`. A call is sent, handled by the worker,
and its answer resumed with; `LoseCall` loses it before or after the worker acted.

### The run `deadline`

`MaxDeadline = 4` and `FirstLimit = 2` leave room for two extensions of half an hour
or one of an hour; `Grace = 1` is a grace that can be over or not. The clock stops at
`MaxDeadline + Grace`, when everything that depends on it has happened. One request
slot, the refresh and recovery overlap.

`DeleteIsDue` and `IntentIsFinal` are the worker's own safety, `ReadyIsArmed` the order
of the bootstrap, `ExpiryDestroys` what the worker guarantees alone. `NeverEarly` and
`BothEnforce` compare both sides. They are stated for runs (`overlap`, chosen
initially) in which no deadline request overlaps a bootstrap or recovery, and with one
request at a time: with an overlap they fail, see section 10.

Fairness: time passes, the worker's loop runs, and an intent that is written again and
again is written once, as a DELETE that is repeated without end is accepted once. The
loop and the DELETE need strong fairness because failures disable them again and
again. No fairness of the backend is assumed, and no restart of the worker: the
bootstrap executes it once and refuses to run again (`bootstrap.py:472-477`, `523-531`),
and nothing in the repository starts a dead one. `WorkerStart` may happen and need not.
`ExpiryDestroys` therefore speaks of the runs in which the worker in the end stays up
and its watchdog has not been ended by a read (`WatchdogSurvives`); crashes, restarts
and ended watchdogs before that are among them.

## 6. Relay, outputs and destroy reviews

### State and actions

`RelaySync` follows one job with one preview and one output of `Size` chunks. `log` is
the worker's event log. `local` is what is durable here: how many events are stored,
the preview's file and row, the job and session state, the output's transfer `row`,
and inodes: `part` and `dest` name a file's content each, so that a renamed part file
is still written through the descriptor (`task[s].fd`) of a task that had it open.
`review` is the destroy review with what it showed.

`SyncBegin` to `StreamEnded` are `LocalRelay.sync_job` and `download_output` cut at
their calls; `Finisher` is `_finish_remote_job`, `Preparer`
`prepare_deadline_destroy`, which synchronises twice. A handler computes the list of
its durable writes (`Published`, `Reject`, `Finish`, ...) and `Handle` applies all of
them, or with a crash any prefix. `Published` has both ways: a link within one file
system, a verified copy across two. `review_destroy`, `ReviewExpires` and `destroy`
are the reviewed destruction, `Abandoned` `_abandon_session_work`.

### The run `relay`

Worlds: one damaged chunk and one crash, on one or two file systems, without the
deadline; and the deadline's retrieval overlapping the finisher on one file system
without damage or crash. Two chunks are the fewest with a part file that is neither
empty nor whole. Lost calls are not bounded.

`VerifiedIsPublished` and `PublishedIsWhole` relate rows and files,
`SucceededIsPublished` the job to both, `OutputNeverLost` is the action property that
no later attempt, task or destruction takes a published output away,
`DestroyedAsReviewed` ties a confirmed destruction to the review it answers.
`RemoteSuccessArrives` is the resumption: nothing a crash, damage or lost call
leaves behind makes an output irretrievable. It assumes the panel polls, calls get
through in the end (strong fairness, since losses are not bounded), and that a backend
whose finisher ended with an error is restarted, because nothing else starts another
(section 10). Damage together with an overlap is excluded (section 10).

## 7. The worker: provisioning and jobs

### State and actions

`WorkerProvision` is `provision.py` with `install.py`, `transfers.py` and
`comfy.py` as far as it uses them. `file`, `dir` and `pip` are the disk: files
absent, damaged or verified, the revision of each package directory, the wheels
installed. A wheel is a distribution and a version, and pip replaces one version by
another (`PipInstall`): it is run for each wheel in turn (`install.py:378-405`), no check
keeps two versions of a distribution out of a manifest, and the last one stays. `comfy`
is the set of code the running ComfyUI has loaded, empty if it does not run. `tx` is
the transaction of each manifest in the state file, with its restart and repair
budget, `installed` the manifest called installed, `apply` the request that holds the
lock. `NewNodes` to `NewFiles` are `ManifestDelta.between`. `Begin`, `Fetch`,
`Download`, `InstallNode`, `InstallWheels`, `Restart`, `Start`, `ObjectInfo`, `Hash` and
`Ready`/`Repair`/`Invalid` are `apply_manifest` cut at its awaits; `Fail` is a request
that fails, stalls or is cancelled at any of them. Whatever cuts an installation off
leaves some of its wheels installed (`PipCutOff`). `Crash` may also fall between the two
renames of `_replace_content`.

The final validation is three actions. `ObjectInfo` is the answer of ComfyUI, which is
awaited (`provision.py:931-934`), `Hash` the hashing of the models with what it found
(`941-943`), and `Ready`, `Repair` or `Invalid` the write that follows from the recorded
answers, whatever the machine has become. Between the last two the event loop is not
free (`Serving`), but ComfyUI may die and custom nodes may damage files; `late` remembers
which files that befell.

`WorkerJobs` adds the job manager: `job` the records with the number of their events,
`run` the execution. `Accepted` is the start of `run` (a known job is answered from
its record, one job runs, only on the installed manifest); `PostPrompt`,
`NativeEvent`, `NativeFails`, `ExecutionEnds` are `execute_native` and what `run`
makes of it; `WorkerStops` is `close`, `WorkerRestarts` the constructor with
`_reconcile_orphaned_jobs`.

### The run `worker`

Three manifests: a custom node with a model the client uploads and a wheel, the same
node with another version of the wheel (a delta that replaces it and needs a restart),
and another revision of the node (the incompatible one). Two jobs of the third,
interchangeable: that keeps the run small, because a job never meets a delta of its
session then, but it does meet retries, repairs and restarts of its own manifest, and
what the first two left behind. `MaxFaults = 2` crashes, failures, damaged files or
modules that do not load, so that a repair can fail too. `MaxEvents = 1` makes the limit
of a record's events reachable. `spent` and `submitted` count what was really done and
`late` what was damaged after it was checked; nothing depends on them.

`RestartBudget` compares `spent` with the records. `ReadyIsUsable` relates the step that
installs a manifest to what the machine really has then: each model is verified or was
damaged only after its hash, each package is in its directory in its revision, and a
ComfyUI that runs has loaded the package and every distribution it needs. It holds
for a retry that spends no restart because an earlier request of the manifest did,
and after an installation of another manifest, or of this one, was cut off. It does
not say in which revision or version ComfyUI has loaded them, because the code does not
see to it (section 10).
`RunsOnce`, `NoOrphan` and `OutcomeIsFinal` are the jobs across restarts. Deadlock is
not checked: when all faults and jobs are used up, nothing is left to do.

## 8. Uploads

`ArtifactUpload` is `_upload_artifact` and `WorkerClient.upload_artifact` on one side
(`row`, `client`), `TransferManager.upload` and the artifact records on the other
(`part`, `file`, `record`). A file is a sequence of numbered chunks. `late` are the
chunks whose sender gave up and that may still arrive. `DiesHandling` is a crash
between the write of a part file and the record. `Repair` deletes the file,
`Replace` gives the session a new machine.

The run `upload` has two tasks, because two refreshes can provision at once, three
chunks, so that there is a middle, and three faults. `harm` remembers faults that are
more than a lost call. `FileIsWhole` has no exception. `RowIsReceived` excepts a repair
and a replacement, `RecordIsKept` damage and repair, and `UploadResumes` all four: what
happens after them is in section 10. Fairness: the panel polls, the worker answers and
is restarted.

## 9. One-shot attempts

`AttemptLifecycle` is the older service of `service.py` (`preview_offer`, `confirm`,
`refresh`, `cancel`, `destroy`) and `lifecycle.py` (`reconcile_once`,
`handle_start_failure`, `wait_until_ready`, `_destroy_from_state`, `recover`). No
route reaches these methods any more; the service has them and the tests use them. The
model has the form of section 3, and the run `attempts` shows that it implements the
same `Rental`: with two concurrent calls, the watchdog, recovery and crashes, at most
one machine and one replacement. No bound on the provider is needed here, because an
attempt is watched, and so replaced, only once its create was answered with an id.
`TypeOK` says besides which states know their instance. Liveness is not stated: an
attempt whose creation is not known is watched by nobody.

## 10. Where the documents and the code disagree

Two disagreements are runs that TLC finishes with a counterexample.

- `claim_destroy_stops_rental`. The watchdog sees an old session at the boot
  deadline and replaces the host of a session whose destruction the user has
  confirmed (`lifecycle.py:1191-1218`, `1364-1381`).
- `claim_one_job`. "A session accepts one job at a time." Two overlapping
  refreshes bootstrap one session; the first makes it `ready`, a job is accepted,
  and the second writes `running -> ready` (`session_service.py:1908`), so that
  another job is accepted.

The others were met while modelling. The models contain the behaviour, and the
properties are stated around it, as sections 3 to 9 say.

Rental. `service.py:636` fails a session after a create that raised while the machine
was rented, with nothing recorded, if the lookup by label fails too: the design's
"residual billing is never hidden" needs an id that was written down. A second destroy
of a session with an unsettled create reports `destroyed` (`lifecycle.py:941-951` keeps
the request pending from three states only). Provisioning that fails or is slow is
taken for a host that does not boot (`lifecycle.py:374-386`) and replaced. After a
restart `recover` (`service.py:949`) starts no boot watchdog. Nor does a confirmation
whose host a refresh adopted while it awaited its create (`service.py:519-520`): that
boot has no deadline, though nothing failed.

Jobs. A restart or a refresh that ends a destruction leaves the job row active
(`lifecycle.py:1079`); only the request that asked for it abandons work. A backend
killed between the writes that begin a job (`session_service.py:2153-2166`), or between
the three that follow its delta (2209), leaves an active job in a session that is `ready`
or that recovery makes `ready`, in the second case with the installed digest from before
the delta. One event
between the two calls of `sync_job` is a relay error (`relay.py:1160`) that ends the
finisher of the job, and the session stays `running` until a restart or the deadline,
where README.md:103 promises a return to `ready`. A job that outlasts `max_job_polls`
(`session_service.py:2021-2038`, `2088`) ends the same way: neither row is written, and
nothing polls it any more.

Deadline. When the answer of an accepted update is lost, the worker has the later limit
while the error says that the earlier one remains effective
(`session_service.py:1171-1174`, README.md:114-116). A bootstrap or recovery that read
the row before an update may push the older policy after it, and so may the second of
two equal requests that a third has overtaken: the worker may then end the machine
before the limit the session shows. On the worker, a read of the state or of the clock
that fails ends `watch` for good (`deadline.py:439`, `445`); past the limit no update is
accepted that would start it again, so only a restart of the worker, which nothing in the
repository performs, would end the machine. While the intent cannot be written, no
DELETE is sent.

Relay. The finisher and the deadline's retrieval may download one output at once; the
one that loses may then write `failed` over the `verified` row of a succeeded job
(`relay.py:923-953`), and if a chunk is damaged as well, a damaged file can stand under
its final name on one file system. Outputs whose download begins during a destruction
are abandoned without having been in the review.

Worker. A restart budget spent by an earlier request lets a later one install a new
revision of a node, or another version of a distribution, and be ready while ComfyUI
still runs the old one (`provision.py:1085-1105`, `install.py:378-405`);
`ReadyIsUsable` therefore asks what ComfyUI has loaded for packages and distributions
and not for their revisions and versions. An installation that never became ready may
leave its version of a distribution to the manifest that is installed, and to a later
one whose delta is empty. A manifest becomes ready although, after the check, ComfyUI
has died or a model was damaged (`provision.py:931-943`, `1118`). A record at
`MAX_JOB_EVENTS` when the worker crashes keeps it from starting (`jobs.py:498`). A
crash between the terminal event and the record of a job gives it a second terminal
event and turns a success into an interruption.

Uploads. README.md:97-98 has uploads resume from durable verified offsets. A worker
that dies after the chunk is in the part file and before the record is written
(`transfers.py:896`, `server.py:442`) refuses every later chunk for its offset. A row
that says `verified` ends an upload before it begins (`session_service.py:1581`), so a
file that a repair deleted, or that was on a machine replaced since, is not sent again.

Attempts. A second confirmation whose offer has gone fails the attempt the first one is
creating; a cancel then reports it cancelled and the id of the instance is lost. After
a crash an attempt in `retrying` stays there, since `recover` has no branch for it.

## 11. Proofs

TLC checks small instances; the theorems below hold for every value of the constants
that satisfies the named hypothesis, if there is one. Each proof module has the same
order: the inductive invariant, the lemmas about the operators that segments share, one
lemma per action or segment, the case split over `Next`, the theorems. Invariants that
were not obvious were checked by TLC on the instance of the run before they were proved.

| Module | Theorem | Establishes | Hypothesis |
|---|---|---|---|
| `SessionLifecycleProofs` | `TypeCorrect`, `CreatesCounted`, `InstanceAlwaysKnown` | `TypeOK`, `EveryCreateCounted`, `InstanceKnown` | |
| | `SessionIsRental` | `RentalSpec` | `BoundedProvider` |
| `RecordedInstancesProofs` | `RecordedStaysVisible` | `RecordedInstanceVisible` | `BoundedProvider` |
| `SessionJobsProofs` | `JobsTypeCorrect`, `OutcomesStand` | `TypeOK`, `OutcomeStands` | |
| | `LoneReadyIdle`, `LoneDestroyedIdle`, `LoneInstalled` | `ReadyIsIdle`, `DestroyedIsIdle`, `InstalledIsProvisioned` | `LoneClient` |
| `SessionDeadlineProofs` | `DeadlineTypeCorrect`, `DeletesAreDue`, `ReadyArmed`, `IntentsAreFinal` | `TypeOK`, `DeleteIsDue`, `ReadyIsArmed`, `IntentIsFinal` | |
| | `NeverEndsEarly`, `BothSidesEnforce` | `NeverEarly`, `BothEnforce` | `OneRequest` |
| `RelaySyncProofs` | `RelayTypeCorrect`, `DestroyedReviewed` | `TypeOK`, `DestroyedAsReviewed` | |
| | `VerifiedPublished`, `PublishedWhole`, `SucceededPublished`, `OutputsNeverLost` | `VerifiedIsPublished`, `PublishedIsWhole`, `SucceededIsPublished`, `OutputNeverLost` | `DamageAlone` |
| `WorkerJobsProofs` | `WorkerTypeCorrect`, `BudgetsHold`, `PromptsRunOnce`, `NoRecordIsOrphaned`, `OutcomesAreFinal`, `ReadyMeansUsable` | `TypeOK`, `RestartBudget`, `RunsOnce`, `NoOrphan`, `OutcomeIsFinal`, `ReadyIsUsable` | |
| `ArtifactUploadProofs` | `UploadTypeCorrect`, `FilesAreWhole`, `RowsAreReceived`, `RecordsAreKept` | `TypeOK`, `FileIsWhole`, `RowIsReceived`, `RecordIsKept` | |
| `AttemptLifecycleProofs` | `AttemptTypeCorrect`, `AttemptIsRental` | `TypeOK`, `RentalSpec` | |

### What the hypotheses say

None of them is a convenience of a proof: each names the instances in which the property
holds, TLC finds the property violated without it, and section 10 (for `BoundedProvider`
section 3) says which code that is.

- `BoundedProvider`: Vast settles a create within the boot deadline.
- `LoneClient` is `~Polling /\ ~MayCrash`: refreshes do not overlap other requests and
  the backend is not killed. Calls and answers may still be lost, jobs, requests,
  finishers, expiries and destructions still interleave.
- `OneRequest`: deadline requests come one at a time. The properties themselves speak
  of runs in which none overlaps a bootstrap or recovery.
- `DamageAlone`: no chunk is damaged in a world where the retrieval of the deadline may
  join the finisher's download of the same output. One of the two, each with any number
  of lost calls and crashes, is covered.

The other assumptions are those of the modules: the tasks are different, None and the
model values are no numbers or records, the sizes and bounds are numbers, and
`ManifestsValid`, that a manifest has a package once, which `_validate_manifest` checks
(`cloud_run/manifest.py:451-455`), and that packages, wheels and ComfyUI are told apart.

### Sessions as rentals

`EveryCreateCounted` alone is not inductive. `IInv` of `SessionLifecycleProofs` adds

- `Charged`: a create is counted from the moment a task awaits it, since the row
  is written then and the provider sees the call later;
- `EarlyUncharged`, `OneConfirmer`: as long as the row is in `preflight`,
  `offer_selected` or `confirming` nothing has been or is being created, so that
  the optimistic saves of `confirm_session`, which succeed only on the row they
  read (`OfferHeld`), let one request through;
- `OnlyWatchdogReplaces`, `RetryHeld`: only the watchdog runs the replacement,
  and the retry count it compares after its awaits is still the row's;
- `SnapsSuit`, `Known`, `Numbered`: what a task holds suits the call it awaits, a placed
  row has an id, and every id in a row, a task or an answer is one of a settled create;
- `OneCreate`, `BootFailureAlone`, with a bounded provider: while a create is under way
  no machine runs, none may start and no other create is under way; and while the
  watchdog gives a host up nothing else is created, and once it has seen the host gone
  none runs.

Almost every step is `Quiet`: it keeps `retry_count`, does not lead back to an early
state, lets no task begin a create, and forgets no host (`Shown`); there is one lemma for
each segment of the code, and `QuietStep` shows once that quiet steps preserve `IInv`.
The others are treated by themselves: `ConfirmOfferStep` and `BootFailureSearchedStep`,
where a task turns to a create call, `CreateInstanceStep`, where the call reaches the
provider, and a crash. `SessionIsRental` maps the initial state and then every step: a
`CreateInstance` to a request of the rental, where `OneCreate` says that nothing runs and
`Charged` that there is one left; the provider's steps to themselves; the rest to
stutters. `RecordedStaysVisible` adds the history of ids: a row that names no host and
that nobody asked to destroy has no recorded instance alive (`ForgottenIsGone`), which
holds because every step shows that its host is gone before it forgets it (`Follows`).

`AttemptIsRental` has the same form for the one-shot attempts and no hypothesis on the
provider: `FirstSettled` says that nothing is watched, and so replaced, before the first
create has been answered with an id, and `Replaced` that the watchdog replaces once and
only when nothing is billed.

### Jobs of a session

`OutcomeStands` holds with any overlap, loss and crash. The invariant `IInv` adds to the
types that a task which awaits something about a job holds a job. Each segment is then
`Behaved`: typed, and it overwrites no outcome, because a job is written only from
nothing, from the unfinished state its writer read and `Current` finds again, or from
all active states at once (`AbandonStands`).

The three properties of `lone_client` need `LoneInv`. At any time at most one task
carries the session on: the bootstrap, the submission that claimed it, or the finisher of
its job (`OneOwner`). `Owns` says what that task knows of the row, the jobs and the
worker at each of its awaits, for instance that the delta it has sent is, once answered,
what the worker has. All other tasks are bystanders: what they hold is old, and their
writes fail in `Legal`, `ReadyFor` or `Current`. A destruction takes the session to
`Down`, where there is nothing to own; `DestroyFits` is what remains.

### Deadline

`DeleteIsDue` needs `IntentHeld` (a watchdog past its limit has an intent on disk),
`ReadyIsArmed` needs `AcceptedIsStored` (a push that was accepted is on the disk), and
the types of the rows `PolicyHeld`. The worker's half is proved first, one lemma per
action (`WorkerBehaved`), and then each step of the composition is a step of the worker,
of the backend, or `WorkerAccepts`, which is both.

`AgreeInv` relates both sides: the pending limit is later than the shown one
(`PendingFits`), the worker has the one or the other (`RecordFits`), and the only task
that carries a policy carries the pending one if it is a request, else the shown one
(`TaskFits`). `NeverEndsEarly` follows, with `DeleteIsDue`, for whatever is on the disk
is at least the limit shown.

### Relay

A handler computes a list of durable writes and a crash may keep any prefix of it. So
every single write is shown `Good`: the state after it satisfies `LocalOK`, which is the
durable part of `RInv`, and `Reaches` whatever other tasks rely on (`GoodWrites`); only
then is the handler's last write combined with the new state of its task. `Downloading`
relates the task's offset to the file its descriptor names: equal where one task
downloads, and at most the length of the file where two share a part file, when all
chunks are good. `NameStays` and `AsReviewed` are shown of each step along the way and
give the two action properties.

### Worker

The invariant has a half for each part of the machine. `PInv` adds to `RestartBudget`
that a repair is on disk before any of its steps and that its own restart is still
unspent until then (`RepairFirst`). Only `Restart` and `Repair` count something; every
other action of provisioning leaves budget and count alone (`BudgetsStay`). `JInv` says
that the manager executes a job exactly while the record says so (`Executing`) and that a
request about to be posted has never been posted (`Unsent`). The halves do not disturb
one another except through `up`.

`ReadyMeansUsable` needs `Fits`, over all requests that came before. pip may take a
version away but never a distribution (`PipKeeps`, `CutOffKeeps`), so that what is
loaded is stated for distributions. `InstalledFits`: the packages of the installed
manifest are in place or were lost in a crash, in which case no ComfyUI has loaded them,
and its wheels are loaded. `PlannedFits`: a manifest whose one planned restart is
recorded finds its wheels loaded when it is retried. `RequestFits`: what the manifest
adds is still to be installed by the request or is in place, a request that comes to
validation has restarted ComfyUI or had nothing to load, and a package that ComfyUI's
answer did not miss stays loaded until the write, unless ComfyUI dies. `HashedFits`: the
models that were hashed verify, but for those that `late` names.

### Uploads

`UInv` adds that what was received is a prefix of the file unless a chunk was damaged
(`PartIsPrefix`), that chunks under way, late ones included, lie inside the file
(`Outgoing`), and that row, record and answer say `verified` only of a file in place
(`Received`). `DiskKept` is what a step may do to the disk under the
feet of the others.

### Only model-checked

Liveness under fairness is out of the provers' reach and stays with TLC:
`DestructionSettles`, `BootSettles`, `OutcomeArrives`, `ExpiryDestroys`,
`RemoteSuccessArrives` and `UploadResumes`. The two violations of section 10 are
counterexamples and have no theorem. What the manifest deltas and upload loops compute
over data is modelled by sets, so that no theorem needs an induction over data.

## 12. What is not modelled

Preflight: capture, resolution and approval of dependencies happen before any rental
and are pure; of the manifest only `ManifestDelta.between` is modelled. Offers are
filtered and ranked, also purely: the models choose an outcome. Parsing, authorisation
and error mapping of the routes, the signing and framing of worker calls, the
sanitising of events and errors. The ranges and retries inside one HTTP download of
the worker (`transfers.py`, `_download_once`), which end in a verified file or an
error. The worker's bootstrap and release lock: one linear download, check and exec.
Settings, R2, the local ComfyUI host and the release scripts: configuration and input
or output. Schema migrations of the database.
