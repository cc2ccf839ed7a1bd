------------------------- MODULE SessionLifecycle -------------------------
(***************************************************************************)
(* One paid session of the local backend: the durable row in SQLite, the   *)
(* provider's instances that carry the session's label, and the asyncio    *)
(* tasks that work on both (HTTP handlers, the boot watchdog, startup      *)
(* recovery).                                                              *)
(*                                                                         *)
(* The backend is one event loop, so code between two awaits is atomic and *)
(* is one action here; at every await another task may run.  A provider    *)
(* call is two steps, the provider acting on it and the task resuming with *)
(* the answer, because the row and the provider can change before, between *)
(* and after them.  Every write goes through the repository's transition,  *)
(* which re-reads the row and only checks SESSION_TRANSITIONS: a task that *)
(* holds an old session object writes over whatever the row now is.        *)
(*                                                                         *)
(* The operators that take r are the synchronous part of a function, run   *)
(* on the row value r that the same segment has already written.           *)
(***************************************************************************)
EXTENDS Integers, FiniteSets, SessionStates

CONSTANTS
  Handlers,         \* slots for concurrent HTTP requests on the session
  Watchdog,         \* the session's boot watchdog, at most one per process
  Recovery,         \* recover_sessions, awaited before requests are served
  MayCrash,         \* the backend process may be killed and restarted
  BoundedProvider   \* the provider settles a create within the boot deadline

ASSUME TasksDistinct ==
  /\ Watchdog \notin Handlers
  /\ Recovery \notin Handlers \cup {Watchdog}

ASSUME FlagsBoolean == MayCrash \in BOOLEAN /\ BoundedProvider \in BOOLEAN

VARIABLES
  row,        \* the sessions row
  task,       \* what each task is awaiting and what it holds
  live,       \* the labelled instances the provider runs and bills
  inflight,   \* creates the provider has accepted but not settled
  creates     \* create calls that reached the provider; ids are 1, 2, ...

vars == <<row, task, live, inflight, creates>>

Tasks == Handlers \cup {Watchdog, Recovery}

None == 0          \* no instance id

---------------------------------------------------------------------------
(* The session row *)

\* Is the write the task wants to make legal on the row as it is now?
Legal(to) == CanMove(row.state, to)

Session ==
  [state : SessionState, instance : Nat, retry : {0, 1},
   destroyRequested : BOOLEAN, residual : SUBSET Nat]

Selected ==
  [state |-> "offer_selected", instance |-> None, retry |-> 0,
   destroyRequested |-> FALSE, residual |-> {}]

\* public_payload's billing_may_continue.
BillingMayContinue(r) ==
  \/ r.state \in DestroyStates
  \/ /\ r.state = "failed"
     /\ r.destroyRequested \/ r.instance # None \/ r.residual # {}

Failed(r) == [r EXCEPT !.state = "failed"]
FailedWith(r, m, ids) ==
  [r EXCEPT !.state = "failed", !.instance = m, !.residual = ids]
Unverified(r, m, ids) == [FailedWith(r, m, ids) EXCEPT !.destroyRequested = TRUE]

\* Mutant: the id of the new host is not written down.
BootingUnrecorded(r, m) == [r EXCEPT !.state = "bootstrapping"]
Booting(r, m) == [r EXCEPT !.state = "bootstrapping", !.instance = m]

\* Mutants: the replacement is not counted, or counted as a second attempt.
ReplacingUncounted(r) ==
  [r EXCEPT !.state = "creating", !.instance = None, !.residual = {}]
ReplacingMiscounted(r) ==
  [r EXCEPT !.state = "creating", !.retry = 2, !.instance = None, !.residual = {}]
Replacing(r) ==
  [r EXCEPT !.state = "creating", !.retry = 1, !.instance = None, !.residual = {}]

Finalized(r) ==
  [r EXCEPT !.state = "destroyed", !.destroyRequested = TRUE,
            !.instance = None, !.residual = {}]

---------------------------------------------------------------------------
(* Tasks.  snap is the session object the function holds across the await  *)
(* and uses after it, NoSession if none; ok and ids are the provider's     *)
(* answer once answered is TRUE.                                           *)

ListCalls == {"c_unknown", "c_rejected", "d_find_new", "d_find_again", "d_find",
              "d_list", "r_list", "f_list", "f_lookup", "v_list"}
CreateCalls == {"c_create", "f_create"}
DeleteCalls == {"d_delete", "f_delete"}
Waits == {"c_offer", "b_health", "b_apply", "b_deadline", "s_recover", "s_resume",
          "j_delta", "j_same", "f_search", "w_sleep"}
Pcs == {"idle", "r_get"} \cup ListCalls \cup CreateCalls \cup DeleteCalls \cup Waits

NoSession == Selected

Task == [pc : Pcs, answered : BOOLEAN, ok : BOOLEAN, ids : SUBSET Nat, snap : Session]

Await(pc, s) ==
  [pc |-> pc, answered |-> FALSE, ok |-> FALSE, ids |-> {}, snap |-> s]
Resting == Await("idle", NoSession)

Waiting(t, pc) == task[t].pc = pc
Answered(t, pc) == task[t].pc = pc /\ task[t].answered

\* Nothing else of a session object is used after an await.
Held(s) == [s EXCEPT !.destroyRequested = FALSE, !.residual = {}]

\* t writes r and awaits the call pc, holding the session object s.
Suspend(t, pc, s, r) ==
  /\ row' = r
  /\ task' = [task EXCEPT ![t] = Await(pc, Held(s))]

End(t, r) ==
  /\ row' = r
  /\ task' = [task EXCEPT ![t] = Resting]

\* The boot deadline, 15 minutes after the row was written, has passed.  With
\* BoundedProvider a create call and what the provider makes of it take less.
BootDeadlinePassed ==
  BoundedProvider => inflight = {} /\ \A t \in Tasks : task[t].pc \notin CreateCalls

\* handle_session_boot_failure up to its first await: failed, then destroying.
BootFailureBegin(r) ==
  \/ r.state = "destroyed" /\ End(Watchdog, r)
  \/ LET d == [r EXCEPT !.state = "destroying"] IN
     /\ r.state # "destroyed"
     /\ Suspend(Watchdog, IF r.instance = None THEN "f_list" ELSE "f_delete", d, d)

WatchdogStops == {"ready", "failed", "destroyed"} \cup DestroyStates

\* The body of wait_until_session_ready's loop after a reconcile that gave a
\* session object in state s: stop, sleep, or give the host up.
WatchdogReturn(r, s) ==
  \/ s \in WatchdogStops /\ End(Watchdog, r)
  \/ s \notin WatchdogStops /\ Suspend(Watchdog, "w_sleep", NoSession, r)
  \/ s \notin WatchdogStops /\ BootDeadlinePassed /\ BootFailureBegin(r)

\* A reconcile, bootstrap or destroy run by t returns a session in state s ...
Return(t, r, s) ==
  IF t = Watchdog THEN WatchdogReturn(r, s) ELSE End(t, r)

\* ... or raises, which only the watchdog survives: it re-reads the row.
Raise(t) == Return(t, row, row.state)

---------------------------------------------------------------------------
(* Verified destruction *)

\* destroy_session up to its first await.
DestroyBegin(t, r) ==
  \/ r.state = "destroyed" /\ Return(t, r, "destroyed")
  \/ /\ r.state \in {"preflight", "offer_selected"}
     /\ Return(t, Finalized(r), "destroyed")
  \/ LET q == IF r.state \in DestroyStates THEN r
              ELSE [r EXCEPT !.state = "destroy_requested",
                             !.destroyRequested = TRUE]
         d == IF q.state = "destroying" THEN q
              ELSE [q EXCEPT !.state = "destroying",
                             !.destroyRequested = TRUE]
     IN /\ r.state \notin {"preflight", "offer_selected", "destroyed"}
        /\ IF q.instance # None
           THEN Suspend(t, "d_delete", d, d)
           ELSE Suspend(t, CASE r.state \in {"confirming", "creating"} -> "d_find_new"
                             [] r.state = "destroy_requested" -> "d_find_again"
                             [] OTHER -> "d_find", q, q)

\* _finalize_session_destroyed, from the session object t holds.
FinalizeSessionDestroyed(t) ==
  LET first == IF task[t].snap.state = "destroy_requested"
               THEN "destroying" ELSE "destroyed"
  IN \/ Legal(first) /\ Return(t, Finalized(row), "destroyed")
     \/ ~Legal(first) /\ Raise(t)

FailDestroy(t, m, ids) ==
  \/ Legal("failed") /\ Return(t, Unverified(row, m, ids), "failed")
  \/ ~Legal("failed") /\ Raise(t)

\* destroy_session without an instance id, once the inventory has answered.
\* An empty inventory proves nothing about a create that may still surface, so
\* for the boot deadline after the row was written the request stays pending.
DestroyFound(t) ==
  LET held == task[t].snap
      ids == task[t].ids
  IN /\ \E pc \in {"d_find_new", "d_find_again", "d_find"} : Answered(t, pc)
     /\ \/ ~task[t].ok /\ FailDestroy(t, row.instance, row.residual)
        \/ \E m \in ids :
             \/ Cardinality(ids) > 1 /\ FailDestroy(t, m, ids)
             \/ /\ ids = {m}
                /\ Legal(held.state)
                /\ LET d == [row EXCEPT !.state = "destroying",
                                        !.instance = m, !.residual = {},
                                        !.destroyRequested =
                                          @ \/ held.state # "destroying"]
                   IN Suspend(t, "d_delete", d, d)
             \/ ids = {m} /\ ~Legal(held.state) /\ Raise(t)
        \/ /\ task[t].ok /\ ids = {} /\ ~Waiting(t, "d_find")
           /\ Return(t, row, held.state)
        \/ /\ task[t].ok /\ ids = {} /\ ~Waiting(t, "d_find_new")
           /\ Waiting(t, "d_find_again") => BootDeadlinePassed
           /\ FinalizeSessionDestroyed(t)
     /\ UNCHANGED <<live, inflight, creates>>

\* destroy_session after the DELETE and the inventory that must verify it.
DestroyListed(t) ==
  LET m == task[t].snap.instance
      ids == task[t].ids
  IN /\ Answered(t, "d_list")
     /\ \/ ~task[t].ok /\ FailDestroy(t, m, {m})
        \/ task[t].ok /\ ids # {} /\ FailDestroy(t, m, ids)
        \/ task[t].ok /\ ids = {} /\ FinalizeSessionDestroyed(t)
     /\ UNCHANGED <<live, inflight, creates>>

---------------------------------------------------------------------------
(* Reconciliation and bootstrap *)

\* reconcile_session_once up to its first await.
ReconcileBegin(t) ==
  \/ row.state = "destroyed" /\ Return(t, row, "destroyed")
  \/ row.state \in DestroyStates /\ DestroyBegin(t, row)
  \/ row.state = "creating" /\ Suspend(t, "r_list", row, row)
  \/ /\ row.state \notin {"destroyed", "creating"} \cup DestroyStates
     /\ IF row.instance = None THEN Return(t, row, row.state)
        ELSE Suspend(t, "r_get", row, row)

\* _activate_session_instance: write the connection under the state s of the
\* session object, then bootstrap or recover the worker behind it.
Activate(t, r, s, m) ==
  LET a == [r EXCEPT !.state = s, !.instance = m, !.residual = {}] IN
  \/ s \in BootStates /\ Suspend(t, "b_health", a, a)
  \/ s \in WorkStates /\ Suspend(t, "s_recover", a, a)
  \/ s \notin BootStates \cup WorkStates /\ Return(t, a, s)

\* reconcile_session_once for a creating session, its inventory answered.
ReconcileListed(t) ==
  LET ids == task[t].ids IN
  /\ Answered(t, "r_list")
  /\ \/ ids = {} /\ Return(t, row, task[t].snap.state)
     \/ \E m \in ids :
          \/ /\ Cardinality(ids) > 1 /\ Legal("failed")
             /\ Return(t, FailedWith(row, m, ids), "failed")
          \/ Cardinality(ids) > 1 /\ ~Legal("failed") /\ Raise(t)
          \/ /\ ids = {m} /\ Legal("bootstrapping")
             /\ \/ Return(t, Booting(row, m), "bootstrapping")
                \/ Activate(t, Booting(row, m), "bootstrapping", m)
          \/ ids = {m} /\ ~Legal("bootstrapping") /\ Raise(t)
  /\ UNCHANGED <<live, inflight, creates>>

\* reconcile_session_once for a known instance, get_instance answered.
ReconcileGot(t) ==
  LET held == task[t].snap IN
  /\ Answered(t, "r_get")
  /\ \/ ~task[t].ok /\ Return(t, row, held.state)
     \/ /\ task[t].ok /\ Legal(held.state)
        /\ Activate(t, row, held.state, held.instance)
     \/ task[t].ok /\ ~Legal(held.state) /\ Raise(t)
  /\ UNCHANGED <<live, inflight, creates>>

\* bootstrap_session: the worker is healthy and claimed, or the call failed.
BootstrapHealth(t) ==
  LET held == task[t].snap
      r == [row EXCEPT !.state = "provisioning"]
  IN /\ Waiting(t, "b_health")
     /\ \/ Raise(t)
        \/ /\ held.instance \in live
           /\ \/ /\ held.state = "bootstrapping" /\ row.state = "bootstrapping"
                 /\ Suspend(t, "b_apply", NoSession, r)
              \/ held.state = "provisioning" /\ Suspend(t, "b_apply", NoSession, row)
              \/ held.state = "validating" /\ Suspend(t, "b_deadline", NoSession, row)
     /\ UNCHANGED <<live, inflight, creates>>

\* bootstrap_session: the manifest is applied, or provisioning failed.
BootstrapApply(t) ==
  LET r == [row EXCEPT !.state = "validating"] IN
  /\ Waiting(t, "b_apply")
  /\ Raise(t) \/ (Legal("validating") /\ Suspend(t, "b_deadline", NoSession, r))
  /\ UNCHANGED <<live, inflight, creates>>

\* bootstrap_session: the worker enforces the deadline, the session is ready.
BootstrapDeadline(t) ==
  /\ Waiting(t, "b_deadline")
  /\ \/ Raise(t)
     \/ Legal("ready") /\ Return(t, [row EXCEPT !.state = "ready"], "ready")
  /\ UNCHANGED <<live, inflight, creates>>

\* recover_session reconnects to the worker of a working session and writes
\* the state it started from; a session with a job goes on in resume_session.
RecoverSession(t) ==
  LET s == task[t].snap.state
      r == [row EXCEPT !.state = s]
  IN /\ Waiting(t, "s_recover")
     /\ \/ Raise(t)
        \/ Legal(s) /\ s = "ready" /\ Return(t, r, s)
        \/ Legal(s) /\ s # "ready" /\ Suspend(t, "s_resume", NoSession, r)
     /\ UNCHANGED <<live, inflight, creates>>

\* resume_session has started the job again, or raised.
ResumeSession(t) ==
  /\ Waiting(t, "s_resume")
  /\ Raise(t)
  /\ UNCHANGED <<live, inflight, creates>>

---------------------------------------------------------------------------
(* The boot watchdog *)

\* wait_until_session_ready wakes and polls.
WatchdogWake ==
  /\ Waiting(Watchdog, "w_sleep")
  /\ ReconcileBegin(Watchdog)
  /\ UNCHANGED <<live, inflight, creates>>

\* Mutant: the failed session forgets the host in every case.
GiveUpForgetting(m, ids) ==
  \/ Legal("failed") /\ End(Watchdog, FailedWith(row, None, {}))
  \/ ~Legal("failed") /\ End(Watchdog, row)

\* handle_session_boot_failure ends by failing the session.
GiveUp(m, ids) ==
  \/ Legal("failed") /\ End(Watchdog, FailedWith(row, m, ids))
  \/ ~Legal("failed") /\ End(Watchdog, row)

\* handle_session_boot_failure, the DELETE answered.
BootFailureDeleted ==
  LET held == task[Watchdog].snap IN
  /\ Answered(Watchdog, "f_delete")
  /\ \/ ~task[Watchdog].ok /\ GiveUp(row.instance, {held.instance})
     \/ task[Watchdog].ok /\ Suspend(Watchdog, "f_list", held, row)
  /\ UNCHANGED <<live, inflight, creates>>

\* Mutant: an inventory that could not be read counts as an empty one.
AbsentUnread(t) == task[t].ids = {}

\* The inventory was read and holds no labelled instance.
Absent(t) == task[t].ok /\ task[t].ids = {}

\* handle_session_boot_failure, the inventory answered: absence opens the one
\* replacement, anything else leaves a failed session.
BootFailureListed ==
  LET held == task[Watchdog].snap
      absent == Absent(Watchdog)
  IN /\ Answered(Watchdog, "f_list")
     /\ \/ ~absent /\ GiveUp(row.instance, {held.instance} \ {None})
        \/ absent /\ held.retry = 1 /\ GiveUp(None, {})
        \/ absent /\ held.retry = 0 /\ GiveUp(None, row.residual)   \* no release
        \/ absent /\ held.retry = 0 /\ Suspend(Watchdog, "f_search", NoSession, row)
     /\ UNCHANGED <<live, inflight, creates>>

\* handle_session_boot_failure, the offer search answered.
BootFailureSearched ==
  /\ Waiting(Watchdog, "f_search")
  /\ \/ GiveUp(None, row.residual)
     \/ Legal("creating") /\ Suspend(Watchdog, "f_create", NoSession, Replacing(row))
     \/ ~Legal("creating") /\ End(Watchdog, row)
  /\ UNCHANGED <<live, inflight, creates>>

\* The replacement's id is written and the watchdog reconciles at once.
AdoptReplacement(r) ==
  \/ Legal("bootstrapping") /\ Suspend(Watchdog, "r_get", r, r)
  \/ ~Legal("bootstrapping") /\ End(Watchdog, row)

BootFailureCreated ==
  /\ Answered(Watchdog, "f_create")
  /\ \E m \in task[Watchdog].ids : AdoptReplacement(Booting(row, m))
  /\ UNCHANGED <<live, inflight, creates>>

\* The create call raised and the inventory answered.
BootFailureLookedUp ==
  LET ids == task[Watchdog].ids IN
  /\ Answered(Watchdog, "f_lookup")
  /\ \/ ids = {} /\ GiveUp(row.instance, row.residual)
     \/ \E m \in ids :
          \/ ids = {m} /\ AdoptReplacement([Booting(row, m) EXCEPT !.residual = {}])
          \/ Cardinality(ids) > 1 /\ GiveUp(m, ids)
  /\ UNCHANGED <<live, inflight, creates>>

---------------------------------------------------------------------------
(* Requests *)

\* A request can be served: recovery has finished and the slot is free.
Free(t) ==
  /\ t \in Handlers
  /\ Waiting(t, "idle")
  /\ Waiting(Recovery, "idle")

\* confirm_session up to the offer revalidation; an expired quote or another
\* worker release fails the session at once.
ConfirmBegin(t) ==
  /\ Free(t)
  /\ row.state \in {"offer_selected", "confirming"}
  /\ Suspend(t, "c_offer", row, row) \/ End(t, Failed(row))
  /\ UNCHANGED <<live, inflight, creates>>

\* confirm_session, the offer revalidated.  The two optimistic saves succeed
\* only on the version this request read, so only in the state it read: so early
\* a row changes only with its state, and no write leads back.
ConfirmOffer(t) ==
  LET c == [row EXCEPT !.state = "creating"] IN
  /\ Waiting(t, "c_offer")
  /\ \/ End(t, row)
     \/ Legal("failed") /\ End(t, Failed(row))
     \/ row.state = task[t].snap.state /\ Suspend(t, "c_create", NoSession, c)
  /\ UNCHANGED <<live, inflight, creates>>

\* Mutant: nobody watches the boot.
ScheduleNobody(t, r) == End(t, r)

\* A watchdog already running is kept.
ScheduleSessionWatchdog(t, r) ==
  /\ row' = r
  /\ task' = [task EXCEPT ![t] = Resting,
                          ![Watchdog] = IF @.pc = "idle" THEN Await("w_sleep", NoSession)
                                        ELSE @]

DestroyWanted ==
  row.destroyRequested /\ row.state \in DestroyStates \cup {"failed"}

\* _finish_created_session.
FinishCreated(t, m) ==
  \/ DestroyWanted /\ DestroyBegin(t, [row EXCEPT !.instance = m])
  \/ ~DestroyWanted /\ row.state # "creating" /\ End(t, row)
  \/ /\ ~DestroyWanted /\ row.state = "creating"
     /\ ScheduleSessionWatchdog(t, Booting(row, m))

\* confirm_session, create_instance returned the new id.
ConfirmCreated(t) ==
  /\ Answered(t, "c_create")
  /\ \E m \in task[t].ids : FinishCreated(t, m)
  /\ UNCHANGED <<live, inflight, creates>>

\* confirm_session, create_instance raised and the inventory answered.
ConfirmLookedUp(t) ==
  LET ids == task[t].ids IN
  /\ Answered(t, "c_unknown") \/ Answered(t, "c_rejected")
  /\ \/ \E m \in ids : FinishCreated(t, m)
     \/ /\ ids = {} /\ Waiting(t, "c_unknown") /\ Legal("creating")
        /\ ScheduleSessionWatchdog(t, [row EXCEPT !.state = "creating"])
     \/ ids = {} /\ Waiting(t, "c_unknown") /\ ~Legal("creating") /\ End(t, row)
     \/ ids = {} /\ Waiting(t, "c_rejected") /\ Legal("failed") /\ End(t, Failed(row))
     \/ ids = {} /\ Waiting(t, "c_rejected") /\ ~Legal("failed") /\ End(t, row)
  /\ UNCHANGED <<live, inflight, creates>>

\* A confirmed destroy, or a GET of a session past its finite deadline.
DestroyRequest(t) ==
  /\ Free(t)
  /\ DestroyBegin(t, row)
  /\ UNCHANGED <<live, inflight, creates>>

\* Mutant: only a booting session is refreshed.
PollBootOnly(t) ==
  /\ Free(t)
  /\ row.state \in {"creating"} \cup BootStates
  /\ ReconcileBegin(t)
  /\ UNCHANGED <<live, inflight, creates>>

\* refresh_session.
Poll(t) ==
  /\ Free(t)
  /\ row.state \in {"creating"} \cup BootStates \cup DestroyStates
  /\ ReconcileBegin(t)
  /\ UNCHANGED <<live, inflight, creates>>

\* submit_job once the fresh manifest is resolved: the atomic claim of a ready
\* session.  The awaits before it touch no session, a lost claim ends there.
SubmitJob(t) ==
  LET running == [row EXCEPT !.state = "running"] IN
  /\ Free(t)
  /\ row.state = "ready"
  /\ \/ Suspend(t, "j_delta", NoSession, [row EXCEPT !.state = "provisioning"])
     \/ Suspend(t, "j_same", NoSession, running)
     \/ End(t, running)
  /\ UNCHANGED <<live, inflight, creates>>

\* submit_job, the manifest applied or not.  After a delta it writes validating,
\* ready and running in one segment; otherwise running under the new digest.
SubmitApplied(t) ==
  LET first == IF Waiting(t, "j_delta") THEN "validating" ELSE "running" IN
  /\ Waiting(t, "j_delta") \/ Waiting(t, "j_same")
  /\ \/ Legal("failed") /\ End(t, Failed(row))
     \/ Legal(first) /\ End(t, [row EXCEPT !.state = "running"])
     \/ End(t, row)
  /\ UNCHANGED <<live, inflight, creates>>

\* _finish_remote_job: success goes through harvesting, a crash or an
\* inconsistent job leaves the session there; failure goes back to ready.
FinishRemoteJob ==
  /\ \/ row.state = "running" /\ row' = [row EXCEPT !.state = "harvesting"]
     \/ row.state \in {"running", "harvesting"} /\ row' = [row EXCEPT !.state = "ready"]
  /\ UNCHANGED <<task, live, inflight, creates>>

---------------------------------------------------------------------------
(* Restart *)

Restarted == [t \in Tasks |-> IF t = Recovery /\ row'.state # "destroyed"
                              THEN Await("v_list", NoSession) ELSE Resting]

\* The rows a process leaves that is killed between two writes of a segment: of
\* confirm_session, a creator that finishes a destroy, destroy_session, its
\* finalization, the job after a delta, and the boot failure.
HalfWritten ==
  \/ \E h \in Handlers :
       \/ /\ Waiting(h, "c_offer") /\ row.state = task[h].snap.state
          /\ row' = [row EXCEPT !.state = "confirming"]
       \/ /\ Answered(h, "c_create") /\ DestroyWanted
          /\ \E m \in task[h].ids : row' = [row EXCEPT !.instance = m]
       \/ /\ Free(h) /\ Legal("destroy_requested")
          /\ row' = [row EXCEPT !.state = "destroy_requested", !.destroyRequested = TRUE]
       \/ /\ Waiting(h, "j_delta") /\ Legal("validating")
          /\ \E s \in {"validating", "ready"} : row' = [row EXCEPT !.state = s]
  \/ /\ \E t \in Tasks : Answered(t, "d_find") \/ Answered(t, "d_find_again")
     /\ row.state = "destroy_requested"
     /\ row' = [row EXCEPT !.state = "destroying", !.destroyRequested = TRUE]
  \/ Waiting(Watchdog, "w_sleep") /\ Legal("failed") /\ row' = Failed(row)

\* The process is killed, at an await or between two writes, and started again.
Crash ==
  /\ MayCrash
  /\ row' = row \/ HalfWritten
  /\ task' = Restarted
  /\ UNCHANGED <<live, inflight, creates>>

\* recover_sessions, the inventory answered.  Nothing else runs yet.
RecoverListed ==
  LET ids == task[Recovery].ids
      fails == {"creating", "repairing"} \cup BootStates \cup WorkStates
  IN /\ Answered(Recovery, "v_list")
     /\ \/ ~task[Recovery].ok /\ End(Recovery, row)
        \/ task[Recovery].ok /\ row.state \in DestroyStates /\ DestroyBegin(Recovery, row)
        \/ /\ task[Recovery].ok /\ row.state \notin DestroyStates
           /\ \/ /\ ids = {} /\ row.instance # None
                 /\ row.state \notin {"confirming", "creating"}
                 /\ End(Recovery, Finalized(row))    \* past its finite deadline
              \/ /\ ids = {} /\ row.state \in fails
                 /\ End(Recovery, FailedWith(row, None, {}))
              \/ ids = {} /\ row.state \notin fails /\ End(Recovery, row)
              \/ \E m \in ids :
                   LET r == IF row.state = "creating" THEN Booting(row, m) ELSE row IN
                   \/ Cardinality(ids) > 1 /\ End(Recovery, FailedWith(row, m, ids))
                   \/ ids = {m} /\ End(Recovery, r)
                   \/ ids = {m} /\ Activate(Recovery, r, r.state, m)
     /\ UNCHANGED <<live, inflight, creates>>

---------------------------------------------------------------------------
(* The provider *)

Answer(t, good, ids) ==
  task' = [task EXCEPT ![t].answered = TRUE, ![t].ok = good, ![t].ids = ids]

Outstanding(t, pcs) == task[t].pc \in pcs /\ ~task[t].answered

\* list_instances returns every labelled instance, or fails.
ListInstances(t) ==
  /\ Outstanding(t, ListCalls)
  /\ Answer(t, TRUE, live) \/ Answer(t, FALSE, {})
  /\ UNCHANGED <<row, live, inflight, creates>>

\* get_instance shows a usable connection, or not (absent, booting, error).
GetInstance(t) ==
  /\ Outstanding(t, {"r_get"})
  /\ \/ task[t].snap.instance \in live /\ Answer(t, TRUE, {task[t].snap.instance})
     \/ Answer(t, FALSE, {})
  /\ UNCHANGED <<row, live, inflight, creates>>

\* destroy_instance: the answer says little about whether the instance is gone.
\* destroy_session ignores it and lists; the watchdog wants TRUE.
DeleteInstance(t) ==
  /\ Outstanding(t, DeleteCalls)
  /\ live' \in {live, live \ {task[t].snap.instance}}
  /\ \/ /\ Waiting(t, "d_delete")
        /\ task' = [task EXCEPT ![t] = Await("d_list", @.snap)]
     \/ /\ Waiting(t, "f_delete")
        /\ \E good \in BOOLEAN : Answer(t, good, {})
  /\ UNCHANGED <<row, inflight, creates>>

\* create_instance: rented and answered; rented but unreadable; accepted with
\* the answer lost; or refused, for good or retryably.
CreateInstance(t) ==
  LET id == creates + 1
      fail(pc) == task' = [task EXCEPT ![t] =
                    Await(IF t = Watchdog THEN "f_lookup" ELSE pc, @.snap)]
  IN /\ Outstanding(t, CreateCalls)
     /\ creates' = id
     /\ \/ Answer(t, TRUE, {id}) /\ live' = live \cup {id} /\ UNCHANGED inflight
        \/ fail("c_rejected") /\ live' \in {live, live \cup {id}} /\ UNCHANGED inflight
        \/ fail("c_unknown") /\ inflight' = inflight \cup {id} /\ UNCHANGED live
        \/ fail("c_unknown") /\ UNCHANGED <<live, inflight>>
     /\ UNCHANGED row

\* An accepted create starts an instance, or comes to nothing.
Settle ==
  /\ \E id \in inflight :
       /\ inflight' = inflight \ {id}
       /\ live' \in {live, live \cup {id}}
  /\ UNCHANGED <<row, task, creates>>

\* A host dies, or the worker destroys its own instance at the deadline.
Vanish ==
  /\ \E id \in live : live' = live \ {id}
  /\ UNCHANGED <<row, task, inflight, creates>>

---------------------------------------------------------------------------
Init ==
  /\ row = Selected
  /\ task = [t \in Tasks |-> Resting]
  /\ live = {} /\ inflight = {} /\ creates = 0

Resume(t) ==
  \/ DestroyFound(t) \/ DestroyListed(t)
  \/ ReconcileListed(t) \/ ReconcileGot(t)
  \/ BootstrapHealth(t) \/ BootstrapApply(t) \/ BootstrapDeadline(t)
  \/ RecoverSession(t) \/ ResumeSession(t)

Request(t) ==
  \/ ConfirmBegin(t) \/ ConfirmOffer(t) \/ ConfirmCreated(t) \/ ConfirmLookedUp(t)
  \/ DestroyRequest(t) \/ Poll(t) \/ SubmitJob(t) \/ SubmitApplied(t)

BootWatchdog ==
  \/ WatchdogWake \/ BootFailureDeleted \/ BootFailureListed
  \/ BootFailureSearched \/ BootFailureCreated \/ BootFailureLookedUp

Provider(t) ==
  ListInstances(t) \/ GetInstance(t) \/ DeleteInstance(t) \/ CreateInstance(t)

Next ==
  \/ \E t \in Tasks : Resume(t) \/ Provider(t)
  \/ \E t \in Handlers : Request(t)
  \/ BootWatchdog
  \/ FinishRemoteJob \/ Crash \/ RecoverListed \/ Settle \/ Vanish

Spec == Init /\ [][Next]_vars

---------------------------------------------------------------------------
\* Every variable has the shape the definitions above give it.
TypeOK ==
  /\ row \in Session
  /\ task \in [Tasks -> Task]
  /\ live \subseteq Nat
  /\ inflight \subseteq Nat
  /\ creates \in Nat

\* The rental promise: whatever requests, watchdog, recovery and crashes do to
\* the row, create calls reach the provider one at a time, at most twice, and
\* only when no labelled instance is billed or may still surface.
R == INSTANCE Rental WITH rented <- creates, pending <- inflight, running <- live

RentalSpec == R!Spec

\* The durable row accounts for every create call before it is made, so that no
\* restart and no late task can open a second replacement.
EveryCreateCounted == creates <= 1 + row.retry

\* A session that boots or works knows the instance to destroy, also after the
\* host was replaced or adopted from the inventory.
InstanceKnown == row.state \in BootStates \cup WorkStates => row.instance # None
=============================================================================
