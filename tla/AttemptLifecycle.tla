-------------------------- MODULE AttemptLifecycle --------------------------
(***************************************************************************)
(* One one-shot attempt, the rental the service offered before it had      *)
(* sessions: its row in SQLite, the provider's instances that carry its    *)
(* label, and the asyncio tasks that work on both.  No route reaches these *)
(* methods any more; the service still has them and the tests use them.    *)
(*                                                                         *)
(* As in SessionLifecycle, code between two awaits is one action, and a    *)
(* task that held an attempt across an await writes the state it saw over  *)
(* whatever the row has become, wherever the transition table allows it.   *)
(* Unlike a session, an attempt keeps no residual ids, its watchdog dies   *)
(* of an exception, and nobody watches an attempt whose creation is not    *)
(* known.  cancel_requested, quotes and messages decide nothing here.      *)
(***************************************************************************)
EXTENDS Naturals, FiniteSets

CONSTANTS
  Handlers,   \* slots for concurrent calls of the service on the attempt
  Watchdog,   \* the attempt's boot watchdog, at most one per process
  Recovery    \* service.recover, awaited before calls are served

ASSUME AttemptTasksDistinct ==
  /\ Watchdog \notin Handlers
  /\ Recovery \notin Handlers \cup {Watchdog}

VARIABLES
  row,        \* the attempts row
  task,       \* what each task is awaiting and the attempt it holds
  live,       \* the labelled instances the provider runs and bills
  inflight,   \* creates the provider has accepted but not settled
  creates     \* create calls that reached the provider; ids are 1, 2, ...

vars == <<row, task, live, inflight, creates>>

Tasks == Handlers \cup {Watchdog, Recovery}

None == 0          \* no instance id

---------------------------------------------------------------------------
(* The row *)

Early == {"idle", "searching", "offer_selected", "confirming"}

Transitions ==
  [idle             |-> {"searching", "cancelled"},
   searching        |-> {"offer_selected", "failed", "cancelled"},
   offer_selected   |-> {"searching", "confirming", "failed", "cancelled"},
   confirming       |-> {"creating", "failed", "cancelled"},
   creating         |-> {"starting", "cancel_requested", "failed"},
   starting         |-> {"ready", "cancel_requested", "destroying", "failed"},
   cancel_requested |-> {"destroying", "cancelled", "failed"},
   destroying       |-> {"cancelled", "failed", "retrying"},
   retrying         |-> {"creating", "cancel_requested", "failed"},
   ready            |-> {"destroying", "failed"},
   failed           |-> {"retrying", "destroying", "cancelled"},
   cancelled        |-> {}]

AttemptState == DOMAIN Transitions

\* Does transition accept the state on the row as it is now?
Legal(to) == row.state \in AttemptState /\ to \in {row.state} \cup Transitions[row.state]

Attempt == [state : AttemptState \cup {"none"}, instance : Nat, retry : {0, 1}]

NoAttempt == [state |-> "none", instance |-> None, retry |-> 0]
Previewed == [NoAttempt EXCEPT !.state = "offer_selected"]
\* Mutant: the id of the created instance is not written down.
StartingUnrecorded(r, m) == [r EXCEPT !.state = "starting"]
Starting(r, m) == [r EXCEPT !.state = "starting", !.instance = m]
Cancelled(r) == [r EXCEPT !.state = "cancelled", !.instance = None]

Retrying(r) == [r EXCEPT !.state = "retrying", !.retry = 1, !.instance = None]

---------------------------------------------------------------------------
(* Tasks *)

ListCalls == {"c_unknown", "c_rejected", "d_find", "d_list", "r_list",
              "f_list", "f_lookup", "v_list"}
CreateCalls == {"c_create", "f_create"}
DeleteCalls == {"d_delete", "f_delete"}
Pcs == {"idle", "p_offer", "c_offer", "r_get", "f_search", "w_sleep"}
         \cup ListCalls \cup CreateCalls \cup DeleteCalls

Task == [pc : Pcs, answered : BOOLEAN, ok : BOOLEAN, ids : SUBSET Nat, held : Attempt]

Await(pc, a) == [pc |-> pc, answered |-> FALSE, ok |-> FALSE, ids |-> {}, held |-> a]
Resting == Await("idle", NoAttempt)

Waiting(t, pc) == task[t].pc = pc
Answered(t, pc) == task[t].pc = pc /\ task[t].answered

\* t writes r and awaits the call pc, holding the attempt a.
Suspend(t, pc, a, r) ==
  /\ row' = r
  /\ task' = [task EXCEPT ![t] = Await(pc, a)]

\* t has returned, or raised; either way it is over.
End(t, r) ==
  /\ row' = r
  /\ task' = [task EXCEPT ![t] = Resting]
Raise(t) == End(t, row)

\* schedule_watchdog keeps a watchdog that runs.
ScheduleWatchdog(t, r) ==
  /\ row' = r
  /\ task' = [task EXCEPT ![t] = Resting,
                          ![Watchdog] = IF @.pc = "idle" THEN Await("w_sleep", NoAttempt)
                                        ELSE @]

\* handle_start_failure up to its first await: failed, then destroying.  An
\* attempt that was ever starting has an instance id until it is cancelled.
StartFailureBegin(r) ==
  \/ r.state = "cancelled" /\ End(Watchdog, r)
  \/ LET d == [r EXCEPT !.state = "destroying"] IN
     r.state # "cancelled" /\ Suspend(Watchdog, "f_delete", d, d)

\* wait_until_ready after a reconcile that gave an attempt in state s: stop,
\* sleep, or give the host up at the boot deadline.
WatchdogReturn(r, s) ==
  \/ s \in {"ready", "cancelled", "failed"} /\ End(Watchdog, r)
  \/ /\ s \notin {"ready", "cancelled", "failed"}
     /\ Suspend(Watchdog, "w_sleep", NoAttempt, r) \/ StartFailureBegin(r)

\* A reconcile or cancel run by t returns an attempt in state s; recover has a
\* starting one watched.
Return(t, r, s) ==
  CASE t = Watchdog -> WatchdogReturn(r, s)
    [] t = Recovery /\ s = "starting" -> ScheduleWatchdog(t, r)
    [] OTHER -> End(t, r)

\* repository.transition by t: write r if its state is legal, and go on to
\* return it; raise otherwise.
Write(t, r) ==
  \/ Legal(r.state) /\ Return(t, r, r.state)
  \/ ~Legal(r.state) /\ Raise(t)

---------------------------------------------------------------------------
(* Cancel and destroy *)

\* _destroy_from_state up to its first await.
DestroyFromState(t, r) ==
  LET d == [r EXCEPT !.state = "destroying"] IN
  IF r.instance = None THEN Suspend(t, "d_find", r, r)
  ELSE Suspend(t, "d_delete", d, d)

Cancel(t, r) ==
  \/ r.state \in {"cancelled", "ready"} /\ Return(t, r, r.state)
  \/ r.state \in Early /\ Return(t, Cancelled(r), "cancelled")
  \/ /\ r.state \in {"creating", "starting", "retrying"}
     /\ DestroyFromState(t, [r EXCEPT !.state = "cancel_requested"])
  \/ /\ r.state \in {"cancel_requested", "destroying", "failed"}
     /\ DestroyFromState(t, r)

\* _destroy_from_state without an instance id, the inventory answered.  What it
\* writes first is the state the attempt had before the call.
DestroyFound(t) ==
  LET held == task[t].held
      ids == task[t].ids
  IN /\ Answered(t, "d_find")
     /\ \/ ids = {} /\ (~task[t].ok \/ held.state = "cancel_requested")
           /\ Write(t, [row EXCEPT !.state = held.state])
        \/ /\ ids = {} /\ task[t].ok /\ held.state # "cancel_requested"
           /\ Write(t, Cancelled(row))
        \/ \E m \in ids :
             LET d == [row EXCEPT !.state = "destroying", !.instance = m] IN
             \/ Legal(held.state) /\ Suspend(t, "d_delete", d, d)
             \/ ~Legal(held.state) /\ Raise(t)
     /\ UNCHANGED <<live, inflight, creates>>

\* A failed destroy names the instance it was about.
DestroyFailed(t) ==
  Write(t, [row EXCEPT !.state = "failed", !.instance = task[t].held.instance])

DestroyDeleted(t) ==
  /\ Answered(t, "d_delete")
  /\ IF task[t].ok THEN Suspend(t, "d_list", task[t].held, row) ELSE DestroyFailed(t)
  /\ UNCHANGED <<live, inflight, creates>>

\* _verified_absent: the inventory was read and holds no labelled instance.
Absent(t) == task[t].ok /\ task[t].ids = {}

DestroyListed(t) ==
  /\ Answered(t, "d_list")
  /\ IF Absent(t) THEN Write(t, Cancelled(row)) ELSE DestroyFailed(t)
  /\ UNCHANGED <<live, inflight, creates>>

---------------------------------------------------------------------------
(* Reconciliation and the watchdog *)

\* reconcile_once up to its first await.
Reconcile(t) ==
  \/ row.state \in {"cancel_requested", "destroying"} /\ Cancel(t, row)
  \/ row.state = "creating" /\ Suspend(t, "r_list", row, row)
  \/ row.state = "starting" /\ Suspend(t, "r_get", row, row)
  \/ /\ row.state \notin {"none", "cancel_requested", "destroying", "creating", "starting"}
     /\ Return(t, row, row.state)

ReconcileListed(t) ==
  /\ Answered(t, "r_list")
  /\ \/ task[t].ids = {} /\ Return(t, row, task[t].held.state)
     \/ \E m \in task[t].ids : Write(t, Starting(row, m))
  /\ UNCHANGED <<live, inflight, creates>>

ReconcileGot(t) ==
  /\ Answered(t, "r_get")
  /\ IF task[t].ok THEN Write(t, [row EXCEPT !.state = "ready"])
     ELSE Return(t, row, task[t].held.state)
  /\ UNCHANGED <<live, inflight, creates>>

WatchdogWake ==
  /\ Waiting(Watchdog, "w_sleep")
  /\ Reconcile(Watchdog)
  /\ UNCHANGED <<live, inflight, creates>>

\* handle_start_failure writes failed and the watchdog ends, or it raises.
GiveUp(m) ==
  \/ Legal("failed") /\ End(Watchdog, [row EXCEPT !.state = "failed", !.instance = m])
  \/ ~Legal("failed") /\ Raise(Watchdog)

StartFailureDeleted ==
  /\ Answered(Watchdog, "f_delete")
  /\ IF task[Watchdog].ok THEN Suspend(Watchdog, "f_list", task[Watchdog].held, row)
     ELSE GiveUp(row.instance)
  /\ UNCHANGED <<live, inflight, creates>>

\* The inventory answered: verified absence opens the one replacement.  The
\* second line of the last case is a worker release that changed.
StartFailureListed ==
  LET again == task[Watchdog].held.retry = 1 IN
  /\ Answered(Watchdog, "f_list")
  /\ \/ ~Absent(Watchdog) /\ GiveUp(row.instance)
     \/ Absent(Watchdog) /\ again /\ GiveUp(None)
     \/ /\ Absent(Watchdog) /\ ~again /\ Legal("retrying")
        /\ \/ Suspend(Watchdog, "f_search", NoAttempt, Retrying(row))
           \/ End(Watchdog, [Retrying(row) EXCEPT !.state = "failed"])
     \/ Absent(Watchdog) /\ ~again /\ ~Legal("retrying") /\ Raise(Watchdog)
  /\ UNCHANGED <<live, inflight, creates>>

\* The offer search answered.
StartFailureSearched ==
  LET c == [row EXCEPT !.state = "creating", !.retry = 1] IN
  /\ Waiting(Watchdog, "f_search")
  /\ \/ GiveUp(row.instance)
     \/ Legal("creating") /\ Suspend(Watchdog, "f_create", NoAttempt, c)
     \/ ~Legal("creating") /\ Raise(Watchdog)
  /\ UNCHANGED <<live, inflight, creates>>

\* The replacement was created, or it was looked up after the call raised; with
\* an id the loop goes on, and reconciles at once.
StartFailureCreated ==
  /\ Answered(Watchdog, "f_create") \/ Answered(Watchdog, "f_lookup")
  /\ \/ task[Watchdog].ids = {} /\ GiveUp(row.instance)
     \/ \E m \in task[Watchdog].ids :
          LET s == Starting(row, m) IN
          \/ Legal("starting") /\ Suspend(Watchdog, "r_get", s, s)
          \/ ~Legal("starting") /\ Raise(Watchdog)
  /\ UNCHANGED <<live, inflight, creates>>

---------------------------------------------------------------------------
(* The service's calls *)

\* A call can be served: recovery has finished and the slot is free.
Free(t) == Waiting(t, "idle") /\ Waiting(Recovery, "idle")

\* preview_offer asks for the offer unless the key already has an attempt ...
PreviewBegin(t) ==
  /\ Free(t) /\ row.state = "none"
  /\ Suspend(t, "p_offer", NoAttempt, row)
  /\ UNCHANGED <<live, inflight, creates>>

\* ... and creates the attempt, or takes the one another call created meanwhile.
PreviewOffer(t) ==
  /\ Waiting(t, "p_offer")
  /\ \/ End(t, row)
     \/ row.state = "none" /\ End(t, Previewed)
  /\ UNCHANGED <<live, inflight, creates>>

\* confirm up to the offer's revalidation; an expired quote or a changed worker
\* release fails the attempt at once.
ConfirmBegin(t) ==
  /\ Free(t) /\ row.state \in {"offer_selected", "confirming"}
  /\ Suspend(t, "c_offer", row, row) \/ End(t, [row EXCEPT !.state = "failed"])
  /\ UNCHANGED <<live, inflight, creates>>

\* Mutant: the two saves do not compare versions.
UnchangedIgnored(t) == TRUE

\* The optimistic save finds the version this call read.  So early a row changes
\* only with its state, and no write leads back.
Unchanged(t) == row.state = task[t].held.state

\* The offer answered: gone, or saved as confirming and as creating.
ConfirmOffer(t) ==
  /\ Waiting(t, "c_offer")
  /\ \/ Write(t, [row EXCEPT !.state = "failed"])
     \/ ~Unchanged(t) /\ End(t, row)
     \/ Unchanged(t) /\ Suspend(t, "c_create", NoAttempt, [row EXCEPT !.state = "creating"])
  /\ UNCHANGED <<live, inflight, creates>>

\* _finish_created_instance: cancelled meanwhile, moved on, or starting.
FinishCreated(t, m) ==
  \/ row.state = "cancel_requested" /\ Cancel(t, [row EXCEPT !.instance = m])
  \/ row.state \notin {"cancel_requested", "creating"} /\ End(t, row)
  \/ row.state = "creating" /\ ScheduleWatchdog(t, Starting(row, m))

ConfirmCreated(t) ==
  /\ Answered(t, "c_create")
  /\ \E m \in task[t].ids : FinishCreated(t, m)
  /\ UNCHANGED <<live, inflight, creates>>

\* create_instance raised and the inventory answered: a retryable error leaves
\* the attempt creating, with nobody to watch it.
ConfirmLookedUp(t) ==
  /\ Answered(t, "c_unknown") \/ Answered(t, "c_rejected")
  /\ \/ \E m \in task[t].ids : FinishCreated(t, m)
     \/ /\ task[t].ids = {}
        /\ Write(t, [row EXCEPT !.state = IF Waiting(t, "c_unknown") THEN "creating"
                                          ELSE "failed"])
  /\ UNCHANGED <<live, inflight, creates>>

\* cancel, destroy (which differs for a ready attempt only) and refresh.
CancelCall(t) ==
  /\ Free(t)
  /\ Cancel(t, row) \/ (row.state = "ready" /\ DestroyFromState(t, row))
  /\ UNCHANGED <<live, inflight, creates>>

Refresh(t) ==
  /\ Free(t)
  /\ Reconcile(t)
  /\ UNCHANGED <<live, inflight, creates>>

---------------------------------------------------------------------------
(* Restart *)

\* The rows of a process killed between two writes of a segment: confirm, a
\* creator that finds its attempt cancelled, cancel, its adopted instance, and
\* the boot failure.
HalfWritten ==
  \/ \E h \in Handlers :
       \/ /\ Waiting(h, "c_offer") /\ Unchanged(h)
          /\ row' = [row EXCEPT !.state = "confirming"]
       \/ /\ Answered(h, "c_create") /\ row.state = "cancel_requested"
          /\ \E m \in task[h].ids : row' = [row EXCEPT !.instance = m]
       \/ /\ Free(h) /\ row.state = "starting"
          /\ row' = [row EXCEPT !.state = "cancel_requested"]
  \/ \E t \in Tasks :
       /\ Answered(t, "d_find") /\ Legal(task[t].held.state)
       /\ \E m \in task[t].ids :
            row' = [row EXCEPT !.state = task[t].held.state, !.instance = m]
  \/ /\ Waiting(Watchdog, "w_sleep") /\ Legal("failed")
     /\ row' = [row EXCEPT !.state = "failed"]

Crash ==
  /\ row' = row \/ HalfWritten
  /\ task' = [t \in Tasks |-> IF t = Recovery /\ row'.state \notin {"none", "cancelled"}
                              THEN Await("v_list", NoAttempt) ELSE Resting]
  /\ UNCHANGED <<live, inflight, creates>>

\* recover, its one inventory answered or failed.
Recover ==
  LET ids == task[Recovery].ids
      m == CHOOSE i \in ids : TRUE
      found == IF ids # {} /\ row.instance = None THEN [row EXCEPT !.instance = m]
               ELSE row
  IN /\ Answered(Recovery, "v_list")
     /\ CASE ~task[Recovery].ok -> Return(Recovery, row, row.state)
          [] task[Recovery].ok /\ row.state = "creating" /\ ids # {} ->
               Return(Recovery, Starting(row, m), "starting")
          [] task[Recovery].ok /\ row.state = "starting" -> Reconcile(Recovery)
          [] task[Recovery].ok /\ row.state \in {"cancel_requested", "destroying"} ->
               Cancel(Recovery, found)
          [] OTHER -> End(Recovery, row)
     /\ UNCHANGED <<live, inflight, creates>>

---------------------------------------------------------------------------
(* The provider *)

Answer(t, good, ids) ==
  task' = [task EXCEPT ![t].answered = TRUE, ![t].ok = good, ![t].ids = ids]

Outstanding(t, pcs) == task[t].pc \in pcs /\ ~task[t].answered

\* list_instances returns every labelled instance, or fails.
ListInstances(t) ==
  /\ Outstanding(t, ListCalls)
  /\ Answer(t, TRUE, live) \/ Answer(t, FALSE, {})
  /\ UNCHANGED <<row, live, inflight, creates>>

\* get_instance and the readiness probe: the instance serves, or it does not.
GetInstance(t) ==
  /\ Outstanding(t, {"r_get"})
  /\ Answer(t, FALSE, {}) \/ (task[t].held.instance \in live /\ Answer(t, TRUE, {}))
  /\ UNCHANGED <<row, live, inflight, creates>>

\* destroy_instance: the answer does not say whether the instance is gone.
DeleteInstance(t) ==
  /\ Outstanding(t, DeleteCalls)
  /\ live' \in {live, live \ {task[t].held.instance}}
  /\ \E good \in BOOLEAN : Answer(t, good, {})
  /\ UNCHANGED <<row, inflight, creates>>

\* create_instance: rented and answered; rented but unreadable; accepted with
\* the answer lost; or refused, for good or retryably.
CreateInstance(t) ==
  LET id == creates + 1
      fail(pc) == task' = [task EXCEPT ![t] =
                    Await(IF t = Watchdog THEN "f_lookup" ELSE pc, @.held)]
  IN /\ Outstanding(t, CreateCalls)
     /\ creates' = id
     /\ \/ Answer(t, TRUE, {id}) /\ live' = live \cup {id} /\ UNCHANGED inflight
        \/ fail("c_rejected") /\ live' \in {live, live \cup {id}} /\ UNCHANGED inflight
        \/ fail("c_unknown") /\ inflight' = inflight \cup {id} /\ UNCHANGED live
        \/ fail("c_unknown") /\ UNCHANGED <<live, inflight>>
     /\ UNCHANGED row

\* An accepted create starts an instance, or comes to nothing.
Settle ==
  /\ \E id \in inflight :
       /\ inflight' = inflight \ {id}
       /\ live' \in {live, live \cup {id}}
  /\ UNCHANGED <<row, task, creates>>

\* A host dies.
Vanish ==
  /\ \E id \in live : live' = live \ {id}
  /\ UNCHANGED <<row, task, inflight, creates>>

---------------------------------------------------------------------------
Init ==
  /\ row = NoAttempt
  /\ task = [t \in Tasks |-> Resting]
  /\ live = {} /\ inflight = {} /\ creates = 0

Resume(t) ==
  \/ DestroyFound(t) \/ DestroyDeleted(t) \/ DestroyListed(t)
  \/ ReconcileListed(t) \/ ReconcileGot(t)

Call(t) ==
  \/ PreviewBegin(t) \/ PreviewOffer(t)
  \/ ConfirmBegin(t) \/ ConfirmOffer(t) \/ ConfirmCreated(t) \/ ConfirmLookedUp(t)
  \/ CancelCall(t) \/ Refresh(t)

BootWatchdog ==
  \/ WatchdogWake \/ StartFailureDeleted \/ StartFailureListed
  \/ StartFailureSearched \/ StartFailureCreated

Provider(t) ==
  ListInstances(t) \/ GetInstance(t) \/ DeleteInstance(t) \/ CreateInstance(t)

Next ==
  \/ \E t \in Tasks : Resume(t) \/ Provider(t)
  \/ \E t \in Handlers : Call(t)
  \/ BootWatchdog \/ Crash \/ Recover \/ Settle \/ Vanish

Spec == Init /\ [][Next]_vars

---------------------------------------------------------------------------
\* Every variable has the shape the definitions above give it, and an attempt
\* that boots, serves or is watched has the id by which it can be destroyed.
TypeOK ==
  /\ row \in Attempt
  /\ row.state \in {"starting", "ready"} => row.instance # None
  /\ /\ task[Watchdog].pc \in {"w_sleep", "r_get", "d_delete", "d_list"}
     /\ row.state # "cancelled"
     => row.instance # None
  /\ task \in [Tasks -> Task]
  /\ live \subseteq Nat
  /\ inflight \subseteq Nat
  /\ creates \in Nat

\* The rental promise of Rental, kept by attempts: create calls reach the
\* provider one at a time, at most twice, and only when no labelled instance is
\* billed or may still surface, whatever calls, watchdog and restarts do.
R == INSTANCE Rental WITH rented <- creates, pending <- inflight, running <- live
RentalSpec == R!Spec
=============================================================================
