-------------------------- MODULE SessionDeadline --------------------------
(***************************************************************************)
(* The deadline of a session on both sides: the columns of the local       *)
(* session row, the requests that extend or disable the limit, the         *)
(* bootstrap and the recovery that push the row's policy to the worker,    *)
(* the local enforcement, crashes of the backend, and the worker of        *)
(* WorkerDeadline.                                                         *)
(*                                                                         *)
(* A call to the worker is three actions: sending it, the worker handling  *)
(* it, and the caller resuming.  A call may be lost before the worker      *)
(* handles it, or its answer after.                                        *)
(***************************************************************************)
EXTENDS WorkerDeadline, SessionStates

CONSTANTS
  Requests,     \* slots for concurrent PUT .../deadline requests
  Refresh,      \* a refresh of the session: bootstrap or deadline
  Recovery,     \* recover_sessions, awaited before requests are served
  FirstLimit    \* the deadline the session was confirmed with

ASSUME SessionParameters ==
  /\ FirstLimit \in Policies
  /\ Refresh # Recovery /\ {Refresh, Recovery} \cap Requests = {}

VARIABLES
  row,          \* the session row: state, limit and pending limit
  task,         \* what each task awaits, and the policy it holds
  overlap       \* whether this run has deadline requests during a bootstrap

vars == <<workerVars, row, task, overlap>>

Tasks == Requests \cup {Refresh, Recovery}

\* The two extensions, in units of half an hour, and the removal of the limit.
DEADLINE_ACTION_SECONDS == [add_30_minutes |-> 1, add_1_hour |-> 2]
Actions == DOMAIN DEADLINE_ACTION_SECONDS \cup {"disable"}

Live == {"bootstrapping", "provisioning", "validating", "ready"}

Idle == [pc |-> "idle", at |-> None, seen |-> None]

TypeOK ==
  /\ WorkerTypeOK
  /\ row \in [state : Live \cup {"destroyed"}, at : Policies,
              pending : Policies \cup {None}, action : Actions \cup {None}]
  /\ task \in [Tasks -> [pc : {"idle", "health", "apply", "send", "accepted",
                               "failed", "destroy"},
                         at : Policies \cup {None}, seen : Live \cup {None}]]
  /\ overlap \in BOOLEAN

Init ==
  /\ WorkerInit
  /\ row = [state |-> "bootstrapping", at |-> FirstLimit, pending |-> None,
            action |-> None]
  /\ task = [t \in Tasks |-> Idle]
  /\ overlap \in BOOLEAN

Serving == task[Recovery] = Idle

Sending(at, seen) == [pc |-> "send", at |-> at, seen |-> seen]

-----------------------------------------------------------------------------
(* Extending or disabling the limit *)

\* The policy an action asks for.  A pending one is kept, and only the action
\* that made it may send it again.
DeadlineIntent(a) ==
  IF row.pending # None THEN row.pending
  ELSE IF a = "disable" THEN NoLimit
  ELSE row.at + DEADLINE_ACTION_SECONDS[a]

IntentAllowed(a) ==
  IF row.pending # None THEN row.action = a
  ELSE a = "disable" \/ (row.at # NoLimit /\ row.at > now)

UpdateApplied(t, a) ==
  /\ Serving /\ task[t] = Idle
  /\ overlap \/ task[Refresh] = Idle
  /\ row.state \in Live
  /\ IntentAllowed(a)
  /\ DeadlineIntent(a) \in Policies \ {row.at}
  /\ row' = [row EXCEPT !.at = DeadlineIntent(a)]
  /\ task' = [task EXCEPT ![t] = Sending(DeadlineIntent(a), None)]
  /\ UNCHANGED workerVars
UpdateDeadline(t, a) ==
  /\ Serving /\ task[t] = Idle
  /\ overlap \/ task[Refresh] = Idle
  /\ row.state \in Live
  /\ IntentAllowed(a)
  /\ DeadlineIntent(a) \in Policies \ {row.at}
  /\ row' = [row EXCEPT !.pending = DeadlineIntent(a), !.action = a]
  /\ task' = [task EXCEPT ![t] = Sending(DeadlineIntent(a), None)]
  /\ UNCHANGED workerVars

\* The answer names the policy that was asked for.
UpdateSynced(t) ==
  /\ t \in Requests /\ task[t].pc = "accepted"
  /\ row' = [row EXCEPT !.at = task[t].at, !.pending = None, !.action = None]
  /\ task' = [task EXCEPT ![t] = Idle]
  /\ UNCHANGED workerVars

-----------------------------------------------------------------------------
(* Calls of the worker *)

WorkerAccepts(t) ==
  /\ task[t].pc = "send"
  /\ Update(task[t].at)
  /\ task' = [task EXCEPT ![t].pc = "accepted"]
  /\ UNCHANGED row

WorkerRefuses(t) ==
  /\ task[t].pc = "send"
  /\ WorkerUp /\ ~Acceptable(task[t].at)
  /\ task' = [task EXCEPT ![t].pc = "failed"]
  /\ UNCHANGED <<workerVars, row>>

LoseCall(t) ==
  /\ task[t].pc \in {"health", "apply", "send", "accepted"}
  /\ task' = [task EXCEPT ![t].pc = "failed"]
  /\ UNCHANGED <<workerVars, row>>

\* The error is recorded for the user and raised; nothing else changes.
CallFailed(t) ==
  /\ task[t].pc = "failed"
  /\ task' = [task EXCEPT ![t] = Idle]
  /\ UNCHANGED <<workerVars, row>>

-----------------------------------------------------------------------------
(* Bootstrap *)

BootstrapBegin ==
  /\ Serving /\ task[Refresh] = Idle
  /\ overlap \/ \A t \in Requests : task[t] = Idle
  /\ row.state \in BootStates
  /\ task' = [task EXCEPT ![Refresh] =
                [pc |-> "health", at |-> row.at, seen |-> row.state]]
  /\ UNCHANGED <<workerVars, row>>

\* The session is claimed for provisioning; one that was validating already goes
\* straight to the deadline with the object it read before the health call.
BootstrapHealthy ==
  /\ task[Refresh].pc = "health" /\ WorkerUp
  /\ \/ /\ task[Refresh].seen = "bootstrapping" /\ row.state = "bootstrapping"
        /\ row' = [row EXCEPT !.state = "provisioning"]
        /\ task' = [task EXCEPT ![Refresh] =
                      [pc |-> "apply", at |-> row.at, seen |-> "provisioning"]]
     \/ /\ task[Refresh].seen = "provisioning"
        /\ task' = [task EXCEPT ![Refresh].pc = "apply"]
        /\ UNCHANGED row
     \/ /\ task[Refresh].seen = "validating"
        /\ task' = [task EXCEPT ![Refresh].pc = "send"]
        /\ UNCHANGED row
  /\ UNCHANGED workerVars

BootstrapApplied ==
  /\ task[Refresh].pc = "apply" /\ WorkerUp
  /\ CanMove(row.state, "validating")
  /\ row' = [row EXCEPT !.state = "validating"]
  /\ task' = [task EXCEPT ![Refresh] = Sending(row.at, "validating")]
  /\ UNCHANGED workerVars

BootstrapUnarmed ==
  /\ task[Refresh].pc \in {"accepted", "failed"}
  /\ row' = [row EXCEPT !.state = IF CanMove(@, "ready") THEN "ready" ELSE @]
  /\ task' = [task EXCEPT ![Refresh] = Idle]
  /\ UNCHANGED workerVars
BootstrapReady ==
  /\ task[Refresh].pc = "accepted"
  /\ row' = [row EXCEPT !.state = IF CanMove(@, "ready") THEN "ready" ELSE @]
  /\ task' = [task EXCEPT ![Refresh] = Idle]
  /\ UNCHANGED workerVars

-----------------------------------------------------------------------------
(* Local enforcement *)

\* A refresh finds the limit passed; it retrieves what it can and then destroys,
\* whatever the row says by then.
EnforceBegin ==
  /\ Serving /\ task[Refresh] = Idle
  /\ row.state # "destroyed" /\ row.at # NoLimit /\ now >= row.at
  /\ task' = [task EXCEPT ![Refresh] = [Idle EXCEPT !.pc = "destroy"]]
  /\ UNCHANGED <<workerVars, row>>

\* The verified destruction of SessionLifecycle, in one step.
EnforceDestroyed ==
  /\ task[Refresh].pc = "destroy"
  /\ row' = [row EXCEPT !.state = "destroyed", !.pending = None, !.action = None]
  /\ task' = [task EXCEPT ![Refresh] = Idle]
  /\ rental' = "no" /\ watch' = Watching("off")
  /\ UNCHANGED <<now, record>>

-----------------------------------------------------------------------------
(* Restarts of the backend *)

Crash ==
  /\ \E t \in Tasks : task[t] # Idle
  /\ task' = [[t \in Tasks |-> Idle] EXCEPT ![Recovery] =
                IF row.state = "ready"
                THEN [pc |-> "health", at |-> row.at, seen |-> "ready"]
                ELSE Idle]
  /\ UNCHANGED <<workerVars, row>>

\* recover_session applies the installed manifest again and pushes the policy of
\* the object it read first.
RecoverHealthy ==
  /\ task[Recovery].pc \in {"health", "apply"} /\ WorkerUp
  /\ task' = [task EXCEPT ![Recovery].pc = IF @ = "health" THEN "apply" ELSE "send"]
  /\ UNCHANGED <<workerVars, row>>

RecoverReady ==
  /\ task[Recovery].pc = "accepted"
  /\ task' = [task EXCEPT ![Recovery] = Idle]
  /\ UNCHANGED <<workerVars, row>>

-----------------------------------------------------------------------------
Task(t) == WorkerAccepts(t) \/ WorkerRefuses(t) \/ LoseCall(t) \/ CallFailed(t)
             \/ UpdateSynced(t)

Bootstrap == BootstrapBegin \/ BootstrapHealthy \/ BootstrapApplied \/ BootstrapReady
Enforce == EnforceBegin \/ EnforceDestroyed
Recover == RecoverHealthy \/ RecoverReady

RemoteWatchdog == Watchdog /\ UNCHANGED <<row, task, overlap>>
RemoteMachine == Machine /\ UNCHANGED <<row, task, overlap>>

Next ==
  /\ \/ \E t \in Requests, a \in Actions : UpdateDeadline(t, a)
     \/ \E t \in Tasks : Task(t)
     \/ Bootstrap \/ Enforce \/ Recover \/ Crash
     \/ RemoteWatchdog \/ RemoteMachine
  /\ UNCHANGED overlap

Spec == Init /\ [][Next]_vars

\* The worker's part of the scheduling: its loop runs, and an intent that is
\* written and a DELETE that is sent again and again get through.  Nothing keeps
\* the worker from dying, and nobody has to start it again.
Fairness ==
  /\ WF_vars(RemoteMachine /\ Tick) /\ WF_vars(RemoteMachine /\ MachineGone)
  /\ SF_vars(RemoteWatchdog /\ WatchExpired) /\ SF_vars(RemoteWatchdog /\ GraceOver)
  /\ SF_vars(RemoteMachine /\ ProviderDelete)

FairSpec == Spec /\ Fairness

-----------------------------------------------------------------------------
\* A session is ready only when the worker holds a deadline policy of its own:
\* from then on the machine does not depend on the backend to be ended.
ReadyIsArmed == row.state = "ready" => record # None

\* While deadline requests overlap neither a bootstrap nor one another, the worker
\* never ends a machine before the limit the session shows: lost answers, retries
\* and restarts only ever leave it with the later one (update_deadline).
NeverEarly ==
  ~overlap /\ row.state # "destroyed" /\ watch.pc \in {"deleting", "deleted"} =>
    row.at # NoLimit /\ now >= row.at

LimitIs(at) == record # None /\ record.at = at

\* From some time on the worker runs and its watchdog has not been lost to a read
\* that failed.
WatchdogSurvives == <>[](rental = "no" \/ watch.pc \notin {"off", "failed"})

\* A limit the worker has taken is enforced by the worker alone, as long as its
\* watchdog survives: whatever becomes of the backend, and however often the intent
\* cannot be written or the DELETE fails, the machine goes, or the limit is moved
\* or lifted.
ExpiryDestroys ==
  WatchdogSurvives =>
    \A at \in 1..MaxDeadline : LimitIs(at) ~> (~LimitIs(at) \/ rental = "no")

\* When nothing is pending and nothing is under way, the worker enforces the
\* limit the session shows, unless a deadline request overlapped a bootstrap or
\* another deadline request.
BothEnforce ==
  /\ ~overlap /\ row.state = "ready" /\ row.pending = None
  /\ \A t \in Tasks : task[t] = Idle
  => record # None /\ record.at = row.at
=============================================================================
