-------------------------- MODULE WorkerDeadline --------------------------
(***************************************************************************)
(* The deadline on the rented machine: the policy in the worker's state    *)
(* file, the watchdog task that enforces it with the machine's own DELETE, *)
(* restarts of the worker process, and the provider that ends the rental.  *)
(*                                                                         *)
(* The state file is written whole and at once (write, fsync, rename), and *)
(* the worker runs one event loop, so code between two awaits is one       *)
(* action.  The worker and the backend read the same clock.  enforce's own *)
(* wait for the deadline, and its check that the stored policy is still    *)
(* the one it was called with, cannot be reached from watch, which calls   *)
(* it only when the deadline has passed, and are left out.                 *)
(*                                                                         *)
(* The bootstrap execs the worker once and refuses a second run, so        *)
(* nothing in the repository starts a dead worker again.  What the code    *)
(* does when somebody does is modelled; that it happens is not assumed.    *)
(***************************************************************************)
EXTENDS Naturals

CONSTANTS
  MaxDeadline,  \* a bound on deadlines
  Grace,        \* the retrieval grace every caller asks for
  NoLimit,      \* the policy of mode "none"
  None          \* no record, no intent

ASSUME DeadlineBounds == MaxDeadline \in Nat \ {0} /\ Grace \in Nat

ASSUME PolicyValues == NoLimit \notin Nat /\ None \notin Nat /\ NoLimit # None

VARIABLES
  now,
  record,       \* the "deadline" transaction of the worker's state file
  watch,        \* what the watchdog task awaits, and its destroy intent
  rental        \* the machine at the provider: "yes", "deleting" or "no"

workerVars == <<now, record, watch, rental>>

\* A bound on the clock: every limit has passed at MaxDeadline, and a grace that
\* begins by then is over at Horizon.
Horizon == MaxDeadline + Grace

Policies == (1..MaxDeadline) \cup {NoLimit}

StoredEnd(at, intentAt, requested) ==
  [at |-> at, requested |-> requested,
   intentAt |-> IF intentAt = None THEN None ELSE intentAt + Grace]
Stored(at, intentAt, requested) ==
  [at |-> at, intentAt |-> intentAt, requested |-> requested]

Records ==
  [at : Policies, intentAt : (0..Horizon) \cup {None}, requested : BOOLEAN]

ASSUME NoneIsNoRecord == None \notin Records

\* "off": no worker process; "poll": watch sleeps; "grace": enforce waits for
\* the retrieval grace; "deleting" and "deleted": the DELETE is under way, and
\* has been accepted; "ended": watch has returned; "failed": it has raised.
WatchStates == {"off", "poll", "grace", "deleting", "deleted", "ended", "failed"}

WorkerTypeOK ==
  /\ now \in 0..Horizon
  /\ record \in Records \cup {None}
  /\ watch \in [pc : WatchStates, at : Policies \cup {None},
                intentAt : (0..Horizon) \cup {None}]
  /\ rental \in {"yes", "deleting", "no"}

Watching(pc) == [pc |-> pc, at |-> None, intentAt |-> None]

WorkerInit ==
  /\ now = 0
  /\ record = None
  /\ watch = Watching("poll")
  /\ rental = "yes"

WorkerUp == rental # "no" /\ watch.pc # "off"

Limited(r) == r # None /\ r.at # NoLimit
Expired(r) == Limited(r) /\ now >= r.at
Intended(r) == r # None /\ r.intentAt # None

-----------------------------------------------------------------------------
(* Signed deadline updates *)

\* A destruction that has begun and a limit that has passed are final.
Final(r) == Intended(r) \/ Expired(r)

AcceptableLate(at) ==
  at \in {NoLimit} \cup {d \in 1..MaxDeadline : d > now}
Acceptable(at) ==
  ~Final(record) /\ at \in {NoLimit} \cup {d \in 1..MaxDeadline : d > now}

\* The update route: validate, store, and start the watchdog if it is done.
Update(at) ==
  /\ WorkerUp
  /\ Acceptable(at)
  /\ record' = Stored(at, None, FALSE)
  /\ watch' = IF watch.pc \in {"ended", "failed"} THEN Watching("poll") ELSE watch
  /\ UNCHANGED <<now, rental>>

-----------------------------------------------------------------------------
(* The watchdog *)

\* The same intent survives a restart and keeps its time.
IntentNow == now
IntentAt == IF record.intentAt # None THEN record.intentAt ELSE now

\* watch finds the limit passed and enforce records the destroy intent; then it
\* waits for what is left of the grace.
WatchExpired ==
  /\ WorkerUp /\ watch.pc = "poll"
  /\ Expired(record) /\ ~record.requested
  /\ record' = Stored(record.at, IntentAt, FALSE)
  /\ watch' = [pc |-> IF IntentAt + Grace > now THEN "grace" ELSE "deleting",
               at |-> record.at, intentAt |-> IntentAt]
  /\ UNCHANGED <<now, rental>>

\* enforce cannot write the intent, or cannot read the clock once it has: watch
\* tries again after five seconds, and nothing is sent without an intent on disk.
EnforceFails ==
  /\ WorkerUp /\ watch.pc = "poll"
  /\ Expired(record) /\ ~record.requested
  /\ record' \in {record, Stored(record.at, IntentAt, FALSE)}
  /\ UNCHANGED <<now, watch, rental>>

GraceOver ==
  /\ WorkerUp /\ watch.pc = "grace"
  /\ now >= watch.intentAt + Grace
  /\ watch' = [watch EXCEPT !.pc = "deleting"]
  /\ UNCHANGED <<now, record, rental>>

\* The DELETE was answered 200, 202, 204 or 404.
DeleteAnswered ==
  /\ WorkerUp /\ watch.pc = "deleted"
  /\ record' = Stored(watch.at, watch.intentAt, TRUE)
  /\ watch' = Watching("ended")
  /\ UNCHANGED <<now, rental>>

\* Mutant: watch returns after the first DELETE that fails.
DeleteFailedOnce ==
  /\ WorkerUp /\ watch.pc \in {"deleting", "deleted"}
  /\ watch' = Watching("ended")
  /\ UNCHANGED <<now, record, rental>>
\* Any other answer, or none, or the request could not be recorded: watch goes on
\* after five seconds.
DeleteFailed ==
  /\ WorkerUp /\ watch.pc \in {"deleting", "deleted"}
  /\ watch' = Watching("poll")
  /\ UNCHANGED <<now, record, rental>>

\* watch reads the policy and the clock before its try: a read that fails ends the
\* task, and only an update that is accepted, or a restart, starts another.
WatchFails ==
  /\ WorkerUp /\ watch.pc = "poll"
  /\ watch' = Watching("failed")
  /\ UNCHANGED <<now, record, rental>>

\* After a restart watch finds the request it has already made and returns.
WatchReturns ==
  /\ WorkerUp /\ watch.pc = "poll"
  /\ Limited(record) /\ record.requested
  /\ watch' = Watching("ended")
  /\ UNCHANGED <<now, record, rental>>

-----------------------------------------------------------------------------
(* The process, the provider and the clock *)

WorkerCrash ==
  /\ WorkerUp
  /\ watch' = Watching("off")
  /\ UNCHANGED <<now, record, rental>>

\* Somebody starts the worker again; the application's startup hook starts the
\* watchdog.
WorkerStart ==
  /\ rental # "no" /\ watch.pc = "off"
  /\ watch' = Watching("poll")
  /\ UNCHANGED <<now, record, rental>>

ProviderDelete ==
  /\ WorkerUp /\ watch.pc = "deleting"
  /\ rental' = "deleting"
  /\ watch' = [watch EXCEPT !.pc = "deleted"]
  /\ UNCHANGED <<now, record>>

\* The machine goes, and the worker with it.
MachineGone ==
  /\ rental = "deleting"
  /\ rental' = "no"
  /\ watch' = Watching("off")
  /\ UNCHANGED <<now, record>>

Tick ==
  /\ now < IF Intended(record) THEN Horizon ELSE MaxDeadline
  /\ now' = now + 1
  /\ UNCHANGED <<record, watch, rental>>

Watchdog ==
  \/ WatchExpired \/ EnforceFails \/ GraceOver
  \/ DeleteAnswered \/ DeleteFailed \/ WatchReturns \/ WatchFails
Machine == WorkerCrash \/ WorkerStart \/ ProviderDelete \/ MachineGone \/ Tick

WorkerNext == (\E at \in Policies : Update(at)) \/ Watchdog \/ Machine

WorkerSpec == WorkerInit /\ [][WorkerNext]_workerVars

-----------------------------------------------------------------------------
\* The DELETE of the machine is under way only when the limit that is stored now
\* has passed, its intent is on disk and the retrieval grace is over, whatever
\* update or restart came in between (deadline.py, enforce).
DeleteIsDue ==
  watch.pc \in {"grace", "deleting", "deleted"} =>
    /\ Expired(record)
    /\ record.at = watch.at /\ record.intentAt = watch.intentAt
    /\ watch.pc # "grace" => now >= record.intentAt + Grace

\* A destroy intent is never taken back: not by an update that arrives in the
\* grace, not by a restart.
IntentIsFinal ==
  [][Intended(record) =>
       /\ record'.at = record.at
       /\ record'.intentAt = record.intentAt
       /\ record.requested => record'.requested]_workerVars
=============================================================================
