----------------------- MODULE AttemptLifecycleProofs -----------------------
(***************************************************************************)
(* Proofs about AttemptLifecycle: an attempt that boots, serves or is      *)
(* watched has an id to destroy, and attempts implement Rental.  A segment *)
(* of the code ends its task, lets it await a call, or schedules the       *)
(* watchdog, with one new row; the two lemmas SuspendKeeps and             *)
(* ScheduleKeeps say when that is safe, and the rest of the module is that *)
(* every segment only does it then.                                        *)
(***************************************************************************)
EXTENDS AttemptLifecycle, TLAPS

\* No create call was made for the attempt yet.
Fresh == Early \cup {"none"}

\* The ids an attempt may name: those whose create call is settled.
Ids == {None} \cup (1..creates \ inflight)

\* The watchdog between the verified absence of one host and the next.
Replacing == {"f_search", "f_create", "f_lookup"}

\* The calls each task awaits.
Place(t) ==
  CASE t = Watchdog -> {"idle", "w_sleep", "r_list", "r_get", "d_delete", "d_list",
                        "f_delete", "f_list"} \cup Replacing
    [] t = Recovery -> {"idle", "v_list", "r_get", "d_find", "d_delete", "d_list"}
    [] OTHER -> {"idle", "p_offer", "c_offer", "c_create", "c_unknown", "c_rejected",
                 "r_list", "r_get", "d_find", "d_delete", "d_list"}

\* The attempts a task may hold across the call pc.
Suits(pc, a) ==
  /\ pc = "c_offer" => a.state \in {"offer_selected", "confirming"}
  /\ pc = "d_find" => a.state \in {"cancel_requested", "destroying", "failed"}
  /\ pc = "r_list" => a.state = "creating"
  /\ pc = "r_get" => a.state = "starting"
  /\ pc \in {"d_delete", "d_list", "r_get"} => a.instance # None

Placed ==
  \A t \in Tasks : task[t].pc \in Place(t) /\ Suits(task[t].pc, task[t].held)

\* Recovery ends before any call is served or anything is watched.
RecoveryAlone ==
  task[Recovery].pc # "idle" => \A u \in Tasks \ {Recovery} : task[u].pc = "idle"

FreshUntouched ==
  row.state \in Fresh =>
    /\ creates = 0 /\ row.retry = 0
    /\ \A t \in Tasks : task[t].pc \in {"idle", "p_offer", "c_offer", "v_list"}

Numbered ==
  /\ inflight \subseteq 1..creates
  /\ live \subseteq Ids \ {None}
  /\ row.instance \in Ids
  /\ \A t \in Tasks : task[t].held.instance \in Ids /\ task[t].ids \subseteq Ids \ {None}

\* A row that a running watchdog or recovery reconciles has an id.
Watched ==
  /\ task[Watchdog].pc \notin {"idle"} \cup Replacing \/ task[Recovery].pc = "r_get"
  /\ row.state # "cancelled"
  => row.instance # None

\* The first create is settled before anything is watched or replaced.
FirstIsSettled == creates >= 1 /\ 1 \notin inflight
FirstSettled == creates >= 2 \/ task[Watchdog].pc # "idle" => FirstIsSettled

\* The row counts the replacement before it is made.
Counted == creates <= 1 + row.retry

OneCreator ==
  \A t \in Tasks : Outstanding(t, {"c_create"}) =>
    creates = 0 /\ \A u \in Tasks \ {t} : ~Outstanding(u, {"c_create"})

\* The watchdog replaces a host once, and only while nothing is billed.
NothingRuns == creates <= 1 /\ live = {}
Replaced ==
  /\ task[Watchdog].pc \in {"f_delete", "f_list"} /\ task[Watchdog].held.retry = 0
     => creates <= 1
  /\ task[Watchdog].pc \in Replacing => row.retry = 1
  /\ task[Watchdog].pc = "f_search" \/ Outstanding(Watchdog, {"f_create"}) => NothingRuns
  /\ Answered(Watchdog, "f_list") /\ Absent(Watchdog) /\ creates <= 1 => live = {}

AInv ==
  /\ TypeOK
  /\ Placed
  /\ RecoveryAlone
  /\ FreshUntouched
  /\ Numbered
  /\ Watched
  /\ FirstSettled
  /\ Counted
  /\ OneCreator
  /\ Replaced

---------------------------------------------------------------------------
(* The two ways a segment ends *)

\* Row r may replace the row, as far as the row alone tells.
Follows(r) ==
  /\ r \in Attempt
  /\ r.instance \in Ids
  /\ r.state \in {"starting", "ready"} => r.instance # None
  /\ row.retry = 1 => r.retry = 1
  /\ r.state \in Fresh => row.state \in Fresh /\ r.retry = 0

\* r forgets no instance of an attempt that is not over.
Kept(r) ==
  r.state # "cancelled" /\ r.instance = None => row.state # "cancelled" /\ row.instance = None

\* t may go on to await pc with the attempt a, leaving the row r.
Allowed(t, pc, a, r) ==
  /\ Follows(r)
  /\ Kept(r) \/ (t = Watchdog /\ pc \in {"idle"} \cup Replacing)
  /\ a \in Attempt /\ a.instance \in Ids
  /\ pc \in Place(t) /\ Suits(pc, a)
  /\ t # Recovery /\ pc # "idle" => task[Recovery].pc = "idle"
  /\ t = Recovery => task[Recovery].pc # "idle"
  /\ t = Watchdog => task[Watchdog].pc # "idle"
  /\ \/ t = Watchdog /\ pc \notin {"idle"} \cup Replacing
     \/ t = Recovery /\ pc = "r_get"
     => r.state = "cancelled" \/ r.instance # None
  /\ r.state \in Fresh => pc \in {"idle", "p_offer", "c_offer"}
  /\ pc \in {"f_delete", "f_list"} /\ a.retry = 0 => creates <= 1
  /\ pc \in Replacing => r.retry = 1
  /\ pc \in {"f_search", "f_create"} => NothingRuns
  /\ pc = "c_create" => row.state \in Fresh

\* The watchdog is none of the others, and the three kinds of tasks differ.
LEMMA TasksDiffer ==
  /\ Watchdog \in Tasks /\ Recovery \in Tasks /\ Watchdog # Recovery
  /\ \A h \in Handlers : h \in Tasks /\ h # Watchdog /\ h # Recovery
  /\ \A t \in Tasks : t = Watchdog \/ t = Recovery \/ t \in Handlers
BY AttemptTasksDistinct DEF Tasks

LEMMA AwaitShape ==
  ASSUME NEW pc \in Pcs, NEW a \in Attempt
  PROVE  /\ Await(pc, a) \in Task
         /\ Await(pc, a).pc = pc /\ Await(pc, a).held = a
         /\ ~Await(pc, a).answered /\ Await(pc, a).ids = {}
BY DEF Await, Task

LEMMA PlaceIsPc == \A t : Place(t) \subseteq Pcs
BY DEF Place, Pcs, Replacing, ListCalls, CreateCalls, DeleteCalls

LEMMA RowFields ==
  ASSUME NEW r \in Attempt
  PROVE  /\ r.state \in AttemptState \cup {"none"}
         /\ r.instance \in Nat /\ r.retry \in {0, 1}
BY DEF Attempt

LEMMA Places ==
  /\ Place(Watchdog) = {"idle", "w_sleep", "r_list", "r_get", "d_delete", "d_list",
                        "f_delete", "f_list"} \cup Replacing
  /\ Place(Recovery) = {"idle", "v_list", "r_get", "d_find", "d_delete", "d_list"}
  /\ \A h \in Handlers :
       Place(h) = {"idle", "p_offer", "c_offer", "c_create", "c_unknown", "c_rejected",
                   "r_list", "r_get", "d_find", "d_delete", "d_list"}
BY TasksDiffer DEF Place

LEMMA States ==
  AttemptState = {"idle", "searching", "offer_selected", "confirming", "creating",
                  "starting", "cancel_requested", "destroying", "retrying", "ready",
                  "failed", "cancelled"}
BY DEF AttemptState, Transitions

LEMMA RowMoved ==
  ASSUME NEW r \in Attempt, NEW s \in AttemptState
  PROVE  /\ [r EXCEPT !.state = s] \in Attempt
         /\ [r EXCEPT !.state = s].state = s
         /\ [r EXCEPT !.state = s].instance = r.instance
         /\ [r EXCEPT !.state = s].retry = r.retry
BY DEF Attempt

LEMMA SuspendKeeps ==
  ASSUME AInv, NEW t \in Tasks, NEW pc, NEW a, NEW r,
         Allowed(t, pc, a, r), Suspend(t, pc, a, r),
         UNCHANGED <<live, inflight, creates>>
  PROVE  AInv'
<1>1. row' = r /\ task' = [task EXCEPT ![t] = Await(pc, a)]
  BY DEF Suspend
<1>2. TypeOK /\ task \in [Tasks -> Task]
  BY DEF AInv, TypeOK
<1>3. pc \in Pcs /\ a \in Attempt
  BY PlaceIsPc DEF Allowed
<1>4. /\ task'[t] \in Task /\ task'[t].pc = pc /\ task'[t].held = a
      /\ ~task'[t].answered /\ task'[t].ids = {}
      /\ task' \in [Tasks -> Task]
      /\ \A u \in Tasks \ {t} : task'[u] = task[u]
  BY <1>1, <1>2, <1>3, AwaitShape
<1>5. Ids' = Ids
  BY DEF Ids
<1>6. r \in Attempt /\ row \in Attempt /\ creates \in Nat
  BY <1>2 DEF Allowed, Follows, TypeOK
<1>7. /\ Watchdog \in Tasks /\ Recovery \in Tasks /\ Watchdog # Recovery
  BY TasksDiffer
<1>8. task'[Recovery].pc # "idle" =>
        t = Recovery \/ (pc = "idle" /\ task[Recovery].pc # "idle")
  BY <1>4, <1>7 DEF Allowed
<1>9. Watched'
  <2> SUFFICES ASSUME \/ task'[Watchdog].pc \notin {"idle"} \cup Replacing
                      \/ task'[Recovery].pc = "r_get",
                      r.state # "cancelled", r.instance = None
               PROVE  FALSE
    BY <1>1 DEF Watched
  <2>1. t = Watchdog => task'[Watchdog].pc = pc
    BY <1>4
  <2>2. t = Recovery => task'[Recovery].pc = pc
    BY <1>4
  <2>3. CASE t = Watchdog
    <3>1. pc \in {"idle"} \cup Replacing
      BY <2>1, <2>3, <1>6 DEF Allowed
    <3>2. task[Recovery].pc = "r_get"
      BY <2>1, <2>3, <3>1, <1>4, <1>7
    <3>3. task[Watchdog].pc = "idle"
      BY <3>2, <1>7 DEF AInv, RecoveryAlone
    <3> QED
      BY <2>3, <3>3 DEF Allowed
  <2>4. CASE t = Recovery
    <3>1. pc # "r_get"
      BY <2>4 DEF Allowed
    <3>2. task[Watchdog].pc = "idle"
      BY <2>4, <1>7 DEF Allowed, AInv, RecoveryAlone
    <3> QED
      BY <2>2, <2>4, <3>1, <3>2, <1>4, <1>7
  <2>5. CASE t # Watchdog /\ t # Recovery
    BY <2>5, <1>4, <1>7 DEF Allowed, Kept, AInv, Watched
  <2> QED
    BY <2>3, <2>4, <2>5
<1>10. TypeOK'
  <2>1. r.state \in {"starting", "ready"} => r.instance # None
    BY DEF Allowed, Follows
  <2>2. task'[Watchdog].pc \in {"w_sleep", "r_get", "d_delete", "d_list"}
        => task'[Watchdog].pc \notin {"idle"} \cup Replacing
    BY DEF Replacing
  <2> QED
    BY <1>1, <1>2, <1>4, <1>6, <1>9, <2>1, <2>2 DEF TypeOK, Watched
<1>11. Placed'
  BY <1>4 DEF AInv, Placed, Allowed
<1>12. RecoveryAlone'
  BY <1>4, <1>7, <1>8 DEF AInv, RecoveryAlone, Allowed
<1>13. FreshUntouched'
  BY <1>1, <1>4 DEF AInv, FreshUntouched, Allowed, Follows
<1>14. Numbered'
  <2>1. /\ inflight' \subseteq 1..creates' /\ live' \subseteq Ids' \ {None}
        /\ row'.instance \in Ids'
    BY <1>1, <1>5 DEF AInv, Numbered, Allowed, Follows
  <2>2. ASSUME NEW u \in Tasks
        PROVE  task'[u].held.instance \in Ids /\ task'[u].ids \subseteq Ids \ {None}
    BY <1>4 DEF AInv, Numbered, Allowed
  <2> QED
    BY <1>5, <2>1, <2>2 DEF Numbered
<1>15. FirstSettled'
  BY <1>4, <1>7 DEF AInv, FirstSettled, FirstIsSettled, Allowed
<1>16. Counted'
  BY <1>1, <1>6, RowFields DEF AInv, Counted, Allowed, Follows
<1>17. OneCreator'
  <2>1. \A u \in Tasks \ {t} : Outstanding(u, {"c_create"})' <=> Outstanding(u, {"c_create"})
    BY <1>4 DEF Outstanding
  <2>2. CASE pc = "c_create"
    <3>1. creates = 0 /\ \A u \in Tasks : ~Outstanding(u, {"c_create"})
      BY <2>2 DEF Allowed, AInv, FreshUntouched, Outstanding
    <3> QED
      BY <2>1, <3>1 DEF OneCreator
  <2>3. CASE pc # "c_create"
    <3>1. ~Outstanding(t, {"c_create"})'
      BY <2>3, <1>4 DEF Outstanding
    <3> QED
      BY <2>1, <3>1 DEF AInv, OneCreator
  <2> QED
    BY <2>2, <2>3
<1>18. Replaced'
  <2>1. CASE t = Watchdog
    BY <2>1, <1>1, <1>4, <1>7
    DEF Replaced, Allowed, Outstanding, Answered, NothingRuns
  <2>2. CASE t # Watchdog
    <3>1. task'[Watchdog] = task[Watchdog]
      BY <2>2, <1>4, <1>7
    <3> QED
      BY <3>1, <1>1
      DEF AInv, Replaced, Allowed, Follows, Outstanding, Answered, NothingRuns, Absent
  <2> QED
    BY <2>1, <2>2
<1> QED
  BY <1>9, <1>10, <1>11, <1>12, <1>13, <1>14, <1>15, <1>16, <1>17, <1>18 DEF AInv

\* t runs outside the watchdog's replacement.
Runs(t) ==
  /\ t # Recovery => task[Recovery].pc = "idle"
  /\ t = Recovery => task[t].pc # "idle"
  /\ t = Watchdog => task[t].pc \notin {"idle"} \cup Replacing

LEMMA NothingHeld ==
  /\ NoAttempt \in Attempt /\ NoAttempt.instance = None /\ None \in Ids
  /\ \A t : "idle" \in Place(t) /\ Suits("idle", NoAttempt)
  /\ Resting = Await("idle", NoAttempt)
BY DEF NoAttempt, Attempt, None, Ids, Place, Suits, Resting

LEMMA EndKeeps ==
  ASSUME AInv, NEW t \in Tasks, NEW r,
         Follows(r), Kept(r) \/ t = Watchdog,
         t \in {Watchdog, Recovery} => task[t].pc # "idle",
         End(t, r), UNCHANGED <<live, inflight, creates>>
  PROVE  AInv'
<1>1. Suspend(t, "idle", NoAttempt, r)
  BY NothingHeld DEF End, Suspend
<1>2. Allowed(t, "idle", NoAttempt, r)
  BY NothingHeld DEF Allowed, Replacing
<1> QED
  BY <1>1, <1>2, SuspendKeeps

LEMMA ScheduleKeeps ==
  ASSUME AInv, NEW t \in Tasks \ {Watchdog}, NEW r,
         Follows(r), Kept(r), Runs(t),
         r.state = "cancelled" \/ r.instance # None, FirstIsSettled,
         ScheduleWatchdog(t, r), UNCHANGED <<live, inflight, creates>>
  PROVE  AInv'
<1> DEFINE Sleep == Await("w_sleep", NoAttempt)
<1>0. /\ Watchdog \in Tasks /\ Recovery \in Tasks /\ Watchdog # Recovery
  BY TasksDiffer
<1>1. TypeOK /\ task \in [Tasks -> Task]
  BY DEF AInv, TypeOK
<1>2. CASE task[Watchdog].pc # "idle"
  <2>1. End(t, r)
    BY <1>0, <1>1, <1>2 DEF ScheduleWatchdog, End
  <2> QED
    BY <2>1, EndKeeps DEF Runs
<1>3. CASE task[Watchdog].pc = "idle"
  <2>1. row' = r /\ task' = [task EXCEPT ![t] = Resting, ![Watchdog] = Sleep]
    BY <1>0, <1>1, <1>3 DEF ScheduleWatchdog
  <2>2. /\ Resting \in Task /\ Resting.pc = "idle" /\ Resting.held = NoAttempt
        /\ Resting.ids = {} /\ Sleep \in Task /\ Sleep.pc = "w_sleep"
        /\ Sleep.held = NoAttempt /\ Sleep.ids = {}
    BY NothingHeld, AwaitShape DEF Pcs
  <2> HIDE DEF Sleep
  <2>3. /\ task'[t] = Resting /\ task'[Watchdog] = Sleep
        /\ \A u \in Tasks \ {t, Watchdog} : task'[u] = task[u]
        /\ task' \in [Tasks -> Task]
    BY <1>0, <1>1, <2>1, <2>2
  <2>4. task'[Recovery].pc = "idle"
    BY <1>0, <2>2, <2>3 DEF Runs
  <2>5. Ids' = Ids
    BY DEF Ids
  <2>6. r \in Attempt /\ row \in Attempt /\ creates \in Nat /\ r.state \notin Fresh
    BY <1>1 DEF Follows, TypeOK, FirstIsSettled, AInv, FreshUntouched
  <2>7. Watched' /\ RecoveryAlone'
    BY <2>1, <2>4 DEF Watched, RecoveryAlone
  <2>8. TypeOK'
    BY <1>1, <2>1, <2>3, <2>6 DEF TypeOK, Follows
  <2>9. Placed'
    <3>1. "w_sleep" \in Place(Watchdog) /\ Suits("w_sleep", NoAttempt)
      BY Places DEF Suits
    <3> QED
      BY <2>2, <2>3, <3>1, NothingHeld DEF AInv, Placed
  <2>10. FreshUntouched'
    BY <2>1, <2>6 DEF FreshUntouched
  <2>11. Numbered'
    <3>1. /\ inflight' \subseteq 1..creates' /\ live' \subseteq Ids' \ {None}
          /\ row'.instance \in Ids'
      BY <2>1, <2>5 DEF AInv, Numbered, Follows
    <3>2. ASSUME NEW u \in Tasks
          PROVE  task'[u].held.instance \in Ids /\ task'[u].ids \subseteq Ids \ {None}
      BY <2>2, <2>3, NothingHeld DEF AInv, Numbered
    <3> QED
      BY <2>5, <3>1, <3>2 DEF Numbered
  <2>12. FirstSettled'
    BY DEF FirstSettled, FirstIsSettled
  <2>13. Counted'
    BY <2>1, <2>6, RowFields DEF AInv, Counted, Follows
  <2>14. OneCreator'
    <3>1. \A u \in Tasks : Outstanding(u, {"c_create"})' => Outstanding(u, {"c_create"})
      BY <2>2, <2>3 DEF Outstanding
    <3> QED
      BY <3>1 DEF AInv, OneCreator
  <2>15. Replaced'
    BY <2>2, <2>3 DEF Replaced, Replacing, Outstanding, Answered
  <2> QED
    BY <2>7, <2>8, <2>9, <2>10, <2>11, <2>12, <2>13, <2>14, <2>15 DEF AInv
<1> QED
  BY <1>2, <1>3

---------------------------------------------------------------------------
(* What the segments are built from *)

\* An id in use belongs to a settled create, so the first create is settled.
LEMMA KnownSettles ==
  ASSUME AInv, NEW m \in Ids, m # None
  PROVE  FirstIsSettled
<1>1. m \in 1..creates /\ m \notin inflight /\ creates \in Nat
  BY DEF Ids, AInv, TypeOK
<1> QED
  BY <1>1 DEF AInv, FirstSettled, FirstIsSettled

LEMMA RowFollows ==
  ASSUME AInv
  PROVE  Follows(row) /\ Kept(row)
BY DEF AInv, TypeOK, Numbered, FreshUntouched, Follows, Kept

LEMMA WatchdogIsBooted ==
  ASSUME AInv, task[Watchdog].pc \notin {"idle"} \cup Replacing
  PROVE  row.state \notin Fresh /\ FirstIsSettled
BY TasksDiffer DEF AInv, FirstSettled, FirstIsSettled, FreshUntouched

\* A state that the transition table accepts leads out of no cancelled attempt.
LEMMA LegalStates ==
  ASSUME NEW to, Legal(to)
  PROVE  /\ row.state = "cancelled" => to = "cancelled"
         /\ to = "ready" => row.state \in {"starting", "ready"}
BY DEF Legal, AttemptState, Transitions

\* A row that a task writes if its state is legal.
Rewrites(r) ==
  /\ r \in Attempt /\ r.instance \in Ids /\ r.state \notin Fresh
  /\ row.retry = 1 => r.retry = 1
  /\ r.state = "starting" => r.instance # None
  /\ r.instance = None => r.state = "cancelled" \/ row.instance = None

LEMMA LegalFollows ==
  ASSUME AInv, NEW r, Rewrites(r), Legal(r.state)
  PROVE  Follows(r) /\ Kept(r)
<1>1. row.state \in {"starting", "ready"} => row.instance # None
  BY DEF AInv, TypeOK
<1> QED
  BY <1>1, LegalStates DEF Rewrites, Follows, Kept

LEMMA StartFailureKeeps ==
  ASSUME AInv, NEW r, Follows(r), Kept(r), Runs(Watchdog), StartFailureBegin(r),
         UNCHANGED <<live, inflight, creates>>
  PROVE  AInv'
<1> DEFINE d == [r EXCEPT !.state = "destroying"]
<1>1. CASE End(Watchdog, r)
  BY <1>1, EndKeeps, TasksDiffer DEF Runs
<1>2. CASE r.state # "cancelled" /\ Suspend(Watchdog, "f_delete", d, d)
  <2>1. r.instance # None
    BY <1>2 DEF Kept, Runs, AInv, Watched
  <2>2. /\ d \in Attempt /\ d.state = "destroying" /\ d.instance = r.instance
        /\ d.retry = r.retry
    BY RowMoved, States DEF Follows
  <2> HIDE DEF d
  <2>3. row.retry = 0 \/ row.retry = 1
    BY DEF AInv, TypeOK, Attempt
  <2>4. r.retry = 0 => creates <= 1
    BY <2>3 DEF Follows, AInv, Counted
  <2>5. Follows(d) /\ Kept(d)
    BY <2>1, <2>2 DEF Follows, Kept, Fresh, Early
  <2>6. "f_delete" \in Place(Watchdog) /\ Suits("f_delete", d)
    BY Places DEF Suits
  <2>7. Allowed(Watchdog, "f_delete", d, d)
    BY <2>1, <2>2, <2>4, <2>5, <2>6, TasksDiffer
    DEF Allowed, Runs, Follows, Replacing, Fresh, Early
  <2> QED
    BY <1>2, <2>7, SuspendKeeps, TasksDiffer
<1> QED
  BY <1>1, <1>2 DEF StartFailureBegin

LEMMA ReturnKeeps ==
  ASSUME AInv, NEW t \in Tasks, NEW r, NEW s, Runs(t), Follows(r), Kept(r),
         t = Recovery /\ s = "starting"
           => FirstIsSettled /\ (r.state = "cancelled" \/ r.instance # None),
         Return(t, r, s), UNCHANGED <<live, inflight, creates>>
  PROVE  AInv'
<1>1. CASE t = Watchdog
  <2>1. CASE End(Watchdog, r)
    BY <1>1, <2>1, EndKeeps DEF Runs
  <2>2. CASE Suspend(Watchdog, "w_sleep", NoAttempt, r)
    <3>1. r.state = "cancelled" \/ r.instance # None
      BY <1>1 DEF Kept, Runs, AInv, Watched
    <3>2. "w_sleep" \in Place(Watchdog) /\ Suits("w_sleep", NoAttempt)
      BY Places DEF Suits
    <3>3. r.state \notin Fresh
      BY <1>1, WatchdogIsBooted DEF Runs, Follows
    <3>4. Allowed(Watchdog, "w_sleep", NoAttempt, r)
      BY <1>1, <3>1, <3>2, <3>3, NothingHeld, TasksDiffer DEF Allowed, Runs, Replacing
    <3> QED
      BY <1>1, <2>2, <3>4, SuspendKeeps
  <2>3. CASE StartFailureBegin(r)
    BY <1>1, <2>3, StartFailureKeeps
  <2> QED
    BY <1>1, <2>1, <2>2, <2>3, TasksDiffer DEF Return, WatchdogReturn
<1>2. CASE t = Recovery /\ s = "starting"
  <2>1. ScheduleWatchdog(t, r)
    BY <1>2, TasksDiffer DEF Return
  <2> QED
    BY <1>2, <2>1, ScheduleKeeps, TasksDiffer
<1>3. CASE t # Watchdog /\ ~(t = Recovery /\ s = "starting")
  <2>1. End(t, r)
    BY <1>3 DEF Return
  <2> QED
    BY <1>3, <2>1, EndKeeps DEF Runs
<1> QED
  BY <1>1, <1>2, <1>3

\* An attempt that recovery returns in the state it is in can be watched.
LEMMA OwnReturnKeeps ==
  ASSUME AInv, NEW t \in Tasks, NEW r, Runs(t), Follows(r), Kept(r),
         Return(t, r, r.state), UNCHANGED <<live, inflight, creates>>
  PROVE  AInv'
<1>1. r.state = "starting" => r.instance # None /\ FirstIsSettled
  BY KnownSettles DEF Follows
<1> QED
  BY <1>1, ReturnKeeps

LEMMA WriteKeeps ==
  ASSUME AInv, NEW t \in Tasks, NEW r, Runs(t), Rewrites(r), Write(t, r),
         UNCHANGED <<live, inflight, creates>>
  PROVE  AInv'
<1>1. CASE Legal(r.state) /\ Return(t, r, r.state)
  BY <1>1, LegalFollows, OwnReturnKeeps
<1>2. CASE Raise(t)
  BY <1>2, RowFollows, EndKeeps DEF Raise, Runs
<1> QED
  BY <1>1, <1>2 DEF Write

---------------------------------------------------------------------------
(* Cancel, reconcile and the answers to their calls *)

LEMMA AttemptIds ==
  ASSUME AInv
  PROVE  /\ row \in Attempt /\ row.instance \in Ids /\ None \in Ids
         /\ Ids \subseteq Nat
         /\ \A t \in Tasks : /\ task[t] \in Task /\ task[t].held \in Attempt
                             /\ task[t].held.instance \in Ids
                             /\ task[t].ids \subseteq Ids \ {None}
BY DEF AInv, TypeOK, Numbered, Ids, None, Task

\* A task that awaits a call outside the replacement runs its next segment.
LEMMA BusyRuns ==
  ASSUME AInv, NEW t \in Tasks, task[t].pc \notin {"idle"} \cup Replacing
  PROVE  Runs(t)
BY TasksDiffer DEF AInv, RecoveryAlone, Runs

LEMMA FreeRuns ==
  ASSUME NEW t \in Handlers, Free(t)
  PROVE  Runs(t)
BY TasksDiffer DEF Free, Waiting, Runs

LEMMA DestroyFromStateKeeps ==
  ASSUME AInv, NEW t \in Tasks, NEW r, Runs(t), Follows(r), Kept(r),
         r.state \notin Fresh \cup {"cancelled"},
         r.instance = None => r.state \in {"cancel_requested", "destroying", "failed"},
         DestroyFromState(t, r), UNCHANGED <<live, inflight, creates>>
  PROVE  AInv'
<1> DEFINE d == [r EXCEPT !.state = "destroying"]
<1>0. /\ d \in Attempt /\ d.state = "destroying" /\ d.instance = r.instance
      /\ d.retry = r.retry
  BY RowMoved, States DEF Follows
<1>1. t \in {Watchdog, Recovery} => task[t].pc # "idle"
  BY DEF Runs
<1>2. CASE r.instance = None /\ Suspend(t, "d_find", r, r)
  <2>1. t # Watchdog
    BY <1>2 DEF Kept, Runs, AInv, Watched
  <2>2. "d_find" \in Place(t) /\ Suits("d_find", r)
    BY <1>2, <2>1, Places, TasksDiffer DEF Suits
  <2>3. Allowed(t, "d_find", r, r)
    BY <1>1, <2>1, <2>2 DEF Allowed, Runs, Follows, Replacing
  <2> QED
    BY <1>2, <2>3, SuspendKeeps
<1>3. CASE r.instance # None /\ Suspend(t, "d_delete", d, d)
  <2> HIDE DEF d
  <2>1. Follows(d) /\ Kept(d)
    BY <1>0, <1>3 DEF Follows, Kept, Fresh, Early
  <2>2. "d_delete" \in Place(t) /\ Suits("d_delete", d)
    BY <1>0, <1>3, Places, TasksDiffer DEF Suits
  <2>3. Allowed(t, "d_delete", d, d)
    BY <1>0, <1>1, <1>3, <2>1, <2>2
    DEF Allowed, Runs, Follows, Replacing, Fresh, Early
  <2> QED
    BY <1>3, <2>3, SuspendKeeps
<1> QED
  BY <1>2, <1>3 DEF DestroyFromState

LEMMA CancelKeeps ==
  ASSUME AInv, NEW t \in Tasks, NEW r, Runs(t), Follows(r), Kept(r),
         Cancel(t, r), UNCHANGED <<live, inflight, creates>>
  PROVE  AInv'
<1>1. CASE r.state \in {"cancelled", "ready"} /\ Return(t, r, r.state)
  BY <1>1, OwnReturnKeeps
<1>2. CASE Return(t, Cancelled(r), "cancelled")
  <2>1. /\ Cancelled(r) \in Attempt /\ Cancelled(r).state = "cancelled"
        /\ Cancelled(r).instance = None /\ Cancelled(r).retry = r.retry
    BY States DEF Cancelled, Follows, None, Attempt
  <2>2. Follows(Cancelled(r)) /\ Kept(Cancelled(r))
    BY <2>1 DEF Follows, Kept, Ids, Fresh, Early
  <2> QED
    BY <1>2, <2>2, ReturnKeeps
<1>3. CASE /\ r.state \in {"creating", "starting", "retrying"}
           /\ DestroyFromState(t, [r EXCEPT !.state = "cancel_requested"])
  <2> DEFINE c == [r EXCEPT !.state = "cancel_requested"]
  <2>1. /\ c \in Attempt /\ c.state = "cancel_requested" /\ c.instance = r.instance
        /\ c.retry = r.retry
    BY RowMoved, States DEF Follows
  <2> HIDE DEF c
  <2>2. Follows(c) /\ Kept(c)
    BY <1>3, <2>1 DEF Follows, Kept, Fresh, Early
  <2>3. c.state \notin Fresh \cup {"cancelled"}
    BY <2>1 DEF Fresh, Early
  <2>4. DestroyFromState(t, c)
    BY <1>3 DEF c
  <2> QED
    BY <2>1, <2>2, <2>3, <2>4, DestroyFromStateKeeps
<1>4. CASE /\ r.state \in {"cancel_requested", "destroying", "failed"}
           /\ DestroyFromState(t, r)
  BY <1>4, DestroyFromStateKeeps DEF Fresh, Early
<1> QED
  BY <1>1, <1>2, <1>3, <1>4 DEF Cancel

LEMMA ReconcileKeeps ==
  ASSUME AInv, NEW t \in Tasks, Runs(t), t = Recovery => row.state = "starting",
         Reconcile(t), UNCHANGED <<live, inflight, creates>>
  PROVE  AInv'
<1>0. Follows(row) /\ Kept(row) /\ row \in Attempt /\ row.instance \in Ids
  BY RowFollows, AttemptIds
<1>1. t \in {Watchdog, Recovery} => task[t].pc # "idle"
  BY DEF Runs
<1>2. row.state \in {"starting", "ready"} => row.instance # None
  BY DEF AInv, TypeOK
<1>3. t = Watchdog => row.state = "cancelled" \/ row.instance # None
  BY DEF AInv, Watched, Runs
<1>4. CASE Cancel(t, row)
  BY <1>0, <1>4, CancelKeeps
<1>5. CASE row.state = "creating" /\ Suspend(t, "r_list", row, row)
  <2>1. "r_list" \in Place(t) /\ Suits("r_list", row)
    BY <1>5, Places, TasksDiffer DEF Suits
  <2>2. Allowed(t, "r_list", row, row)
    BY <1>0, <1>1, <1>3, <1>5, <2>1 DEF Allowed, Runs, Replacing, Fresh, Early
  <2> QED
    BY <1>5, <2>2, SuspendKeeps
<1>6. CASE row.state = "starting" /\ Suspend(t, "r_get", row, row)
  <2>1. "r_get" \in Place(t) /\ Suits("r_get", row)
    BY <1>2, <1>6, Places, TasksDiffer DEF Suits
  <2>2. Allowed(t, "r_get", row, row)
    BY <1>0, <1>1, <1>2, <1>6, <2>1 DEF Allowed, Runs, Replacing, Fresh, Early
  <2> QED
    BY <1>6, <2>2, SuspendKeeps
<1>7. CASE Return(t, row, row.state)
  BY <1>0, <1>7, OwnReturnKeeps
<1> QED
  BY <1>4, <1>5, <1>6, <1>7 DEF Reconcile

LEMMA DestroyFailedKeeps ==
  ASSUME AInv, NEW t \in Tasks, task[t].pc \in {"d_delete", "d_list"},
         DestroyFailed(t), UNCHANGED <<live, inflight, creates>>
  PROVE  AInv'
<1> DEFINE m == task[t].held.instance
           f == [row EXCEPT !.state = "failed", !.instance = m]
<1>1. m # None /\ m \in Ids /\ m \in Nat
  BY AttemptIds DEF AInv, Placed, Suits
<1>2. /\ f \in Attempt /\ f.state = "failed" /\ f.instance = m /\ f.retry = row.retry
  BY <1>1, States, AttemptIds DEF Attempt
<1>3. Runs(t)
  BY BusyRuns DEF Replacing
<1>4. Write(t, f)
  BY DEF DestroyFailed
<1> HIDE DEF m, f
<1>5. Rewrites(f)
  BY <1>1, <1>2 DEF Rewrites, Fresh, Early
<1> QED
  BY <1>3, <1>4, <1>5, WriteKeeps

LEMMA CancelledKeeps ==
  ASSUME AInv, NEW t \in Tasks, Runs(t), Write(t, Cancelled(row)),
         UNCHANGED <<live, inflight, creates>>
  PROVE  AInv'
<1>1. /\ Cancelled(row) \in Attempt /\ Cancelled(row).state = "cancelled"
      /\ Cancelled(row).instance = None /\ Cancelled(row).retry = row.retry
  BY States, AttemptIds DEF Cancelled, None, Attempt
<1>2. Rewrites(Cancelled(row))
  BY <1>1, AttemptIds DEF Rewrites, Fresh, Early
<1> QED
  BY <1>2, WriteKeeps

\* A task that writes another state and nothing else.
LEMMA MoveKeeps ==
  ASSUME AInv, NEW t \in Tasks, NEW s \in AttemptState \ Early, Runs(t),
         s = "starting" => row.instance # None,
         Write(t, [row EXCEPT !.state = s]), UNCHANGED <<live, inflight, creates>>
  PROVE  AInv'
<1> DEFINE w == [row EXCEPT !.state = s]
<1>1. w \in Attempt /\ w.state = s /\ w.instance = row.instance /\ w.retry = row.retry
  BY RowMoved, AttemptIds
<1>2. s \notin Fresh
  BY States DEF Fresh
<1> HIDE DEF w
<1>3. Rewrites(w)
  BY <1>1, <1>2, AttemptIds DEF Rewrites
<1>4. Write(t, w)
  BY DEF w
<1> QED
  BY <1>3, <1>4, WriteKeeps

LEMMA DestroyFoundKeeps ==
  ASSUME AInv, NEW t \in Tasks, DestroyFound(t)
  PROVE  AInv'
<1> DEFINE held == task[t].held
<1>1. /\ task[t].pc = "d_find" /\ held.state \in {"cancel_requested", "destroying", "failed"}
      /\ t # Watchdog
  BY Places DEF DestroyFound, Answered, AInv, Placed, Suits, Replacing
<1>2. Runs(t)
  BY <1>1, BusyRuns DEF Replacing
<1>3. UNCHANGED <<live, inflight, creates>>
  BY DEF DestroyFound
<1>4. CASE Write(t, [row EXCEPT !.state = held.state])
  BY <1>1, <1>2, <1>3, <1>4, MoveKeeps, States DEF Early
<1>5. CASE Write(t, Cancelled(row))
  BY <1>2, <1>3, <1>5, CancelledKeeps
<1>6. CASE Raise(t)
  BY <1>1, <1>3, <1>6, RowFollows, EndKeeps DEF Raise
<1>7. ASSUME NEW m \in task[t].ids, Legal(held.state),
             Suspend(t, "d_delete", [row EXCEPT !.state = "destroying", !.instance = m],
                                    [row EXCEPT !.state = "destroying", !.instance = m])
      PROVE  AInv'
  <2> DEFINE d == [row EXCEPT !.state = "destroying", !.instance = m]
  <2>1. m \in Ids /\ m # None /\ m \in Nat
    BY AttemptIds
  <2>2. /\ d \in Attempt /\ d.state = "destroying" /\ d.instance = m
        /\ d.retry = row.retry
    BY <2>1, States, AttemptIds DEF Attempt
  <2>3. Suspend(t, "d_delete", d, d)
    BY <1>7
  <2> HIDE DEF d
  <2>4. Follows(d) /\ Kept(d)
    BY <2>1, <2>2 DEF Follows, Kept, Fresh, Early
  <2>5. "d_delete" \in Place(t) /\ Suits("d_delete", d)
    BY <2>1, <2>2, Places, TasksDiffer DEF Suits
  <2>6. Allowed(t, "d_delete", d, d)
    BY <1>1, <1>2, <2>1, <2>2, <2>4, <2>5 DEF Allowed, Runs, Replacing, Fresh, Early
  <2> QED
    BY <1>3, <2>3, <2>6, SuspendKeeps
<1> QED
  BY <1>4, <1>5, <1>6, <1>7 DEF DestroyFound

LEMMA DestroyDeletedKeeps ==
  ASSUME AInv, NEW t \in Tasks, DestroyDeleted(t)
  PROVE  AInv'
<1>1. task[t].pc = "d_delete" /\ UNCHANGED <<live, inflight, creates>>
  BY DEF DestroyDeleted, Answered
<1>2. CASE Suspend(t, "d_list", task[t].held, row)
  <2>1. task[t].held.instance # None /\ Runs(t)
    BY <1>1, BusyRuns DEF AInv, Placed, Suits, Replacing
  <2>2. "d_list" \in Place(t) /\ Suits("d_list", task[t].held)
    BY <2>1, Places, TasksDiffer DEF Suits
  <2>3. row.state \notin Fresh
    BY <1>1 DEF AInv, FreshUntouched
  <2>4. t = Watchdog => row.state = "cancelled" \/ row.instance # None
    BY <1>1 DEF AInv, Watched, Replacing
  <2>5. Allowed(t, "d_list", task[t].held, row)
    BY <1>1, <2>1, <2>2, <2>3, <2>4, RowFollows, AttemptIds DEF Allowed, Runs, Replacing
  <2> QED
    BY <1>1, <1>2, <2>5, SuspendKeeps
<1>3. CASE DestroyFailed(t)
  BY <1>1, <1>3, DestroyFailedKeeps
<1> QED
  BY <1>2, <1>3 DEF DestroyDeleted

LEMMA DestroyListedKeeps ==
  ASSUME AInv, NEW t \in Tasks, DestroyListed(t)
  PROVE  AInv'
<1>1. task[t].pc = "d_list" /\ UNCHANGED <<live, inflight, creates>>
  BY DEF DestroyListed, Answered
<1>2. Runs(t)
  BY <1>1, BusyRuns DEF Replacing
<1> QED
  BY <1>1, <1>2, CancelledKeeps, DestroyFailedKeeps DEF DestroyListed

\* A host that was found is written down with the state starting.
LEMMA StartingRow ==
  ASSUME AInv, NEW m \in Ids \ {None}
  PROVE  /\ Starting(row, m) \in Attempt /\ Starting(row, m).state = "starting"
         /\ Starting(row, m).instance = m /\ Starting(row, m).retry = row.retry
         /\ Rewrites(Starting(row, m)) /\ FirstIsSettled
<1>1. /\ Starting(row, m) \in Attempt /\ Starting(row, m).state = "starting"
      /\ Starting(row, m).instance = m /\ Starting(row, m).retry = row.retry
  BY States, AttemptIds DEF Starting, Attempt
<1> QED
  BY <1>1, KnownSettles DEF Rewrites, Fresh, Early

LEMMA ReconcileListedKeeps ==
  ASSUME AInv, NEW t \in Tasks, ReconcileListed(t)
  PROVE  AInv'
<1>1. /\ task[t].pc = "r_list" /\ task[t].held.state = "creating"
      /\ UNCHANGED <<live, inflight, creates>>
  BY DEF ReconcileListed, Answered, AInv, Placed, Suits
<1>2. Runs(t)
  BY <1>1, BusyRuns DEF Replacing
<1>3. CASE Return(t, row, task[t].held.state)
  BY <1>1, <1>2, <1>3, RowFollows, ReturnKeeps
<1>4. ASSUME NEW m \in task[t].ids, Write(t, Starting(row, m)) PROVE AInv'
  BY <1>1, <1>2, <1>4, StartingRow, AttemptIds, WriteKeeps
<1> QED
  BY <1>3, <1>4 DEF ReconcileListed

LEMMA ReconcileGotKeeps ==
  ASSUME AInv, NEW t \in Tasks, ReconcileGot(t)
  PROVE  AInv'
<1>1. /\ task[t].pc = "r_get" /\ task[t].held.instance # None
      /\ UNCHANGED <<live, inflight, creates>>
  BY DEF ReconcileGot, Answered, AInv, Placed, Suits
<1>2. Runs(t)
  BY <1>1, BusyRuns DEF Replacing
<1>3. CASE Write(t, [row EXCEPT !.state = "ready"])
  BY <1>1, <1>2, <1>3, MoveKeeps, States DEF Early
<1>4. CASE Return(t, row, task[t].held.state)
  <2>1. FirstIsSettled
    BY <1>1, AttemptIds, KnownSettles
  <2>2. t = Recovery => row.state = "cancelled" \/ row.instance # None
    BY <1>1 DEF AInv, Watched
  <2> QED
    BY <1>1, <1>2, <1>4, <2>1, <2>2, RowFollows, ReturnKeeps
<1> QED
  BY <1>3, <1>4 DEF ReconcileGot

---------------------------------------------------------------------------
(* The watchdog *)

LEMMA WatchdogWakeKeeps ==
  ASSUME AInv, WatchdogWake
  PROVE  AInv'
<1>1. Runs(Watchdog)
  BY BusyRuns, TasksDiffer DEF WatchdogWake, Waiting, Replacing
<1> QED
  BY <1>1, ReconcileKeeps, TasksDiffer DEF WatchdogWake

LEMMA GiveUpKeeps ==
  ASSUME AInv, task[Watchdog].pc # "idle", NEW m \in {None, row.instance}, GiveUp(m),
         UNCHANGED <<live, inflight, creates>>
  PROVE  AInv'
<1> DEFINE f == [row EXCEPT !.state = "failed", !.instance = m]
<1>1. m \in Ids /\ m \in Nat
  BY AttemptIds
<1>2. /\ f \in Attempt /\ f.state = "failed" /\ f.instance = m /\ f.retry = row.retry
  BY <1>1, States, AttemptIds DEF Attempt
<1>3. CASE End(Watchdog, f)
  <2> HIDE DEF f
  <2>1. Follows(f)
    BY <1>1, <1>2 DEF Follows, Fresh, Early
  <2> QED
    BY <1>3, <2>1, EndKeeps, TasksDiffer
<1>4. CASE Raise(Watchdog)
  BY <1>4, RowFollows, EndKeeps, TasksDiffer DEF Raise
<1> QED
  BY <1>3, <1>4 DEF GiveUp

LEMMA StartFailureDeletedKeeps ==
  ASSUME AInv, StartFailureDeleted
  PROVE  AInv'
<1>1. task[Watchdog].pc = "f_delete" /\ UNCHANGED <<live, inflight, creates>>
  BY DEF StartFailureDeleted, Answered
<1>2. CASE Suspend(Watchdog, "f_list", task[Watchdog].held, row)
  <2>1. Runs(Watchdog) /\ row.state \notin Fresh
    BY <1>1, BusyRuns, WatchdogIsBooted, TasksDiffer DEF Replacing
  <2>2. "f_list" \in Place(Watchdog) /\ Suits("f_list", task[Watchdog].held)
    BY Places DEF Suits
  <2>3. row.state = "cancelled" \/ row.instance # None
    BY <1>1 DEF AInv, Watched, Replacing
  <2>4. task[Watchdog].held.retry = 0 => creates <= 1
    BY <1>1 DEF AInv, Replaced
  <2>5. Allowed(Watchdog, "f_list", task[Watchdog].held, row)
    BY <2>1, <2>2, <2>3, <2>4, RowFollows, AttemptIds, TasksDiffer
    DEF Allowed, Runs, Replacing
  <2> QED
    BY <1>1, <1>2, <2>5, SuspendKeeps, TasksDiffer
<1>3. CASE GiveUp(row.instance)
  BY <1>1, <1>3, GiveUpKeeps
<1> QED
  BY <1>2, <1>3 DEF StartFailureDeleted

LEMMA StartFailureListedKeeps ==
  ASSUME AInv, StartFailureListed
  PROVE  AInv'
<1>1. task[Watchdog].pc = "f_list" /\ UNCHANGED <<live, inflight, creates>>
  BY DEF StartFailureListed, Answered
<1>2. Runs(Watchdog) /\ row.state \notin Fresh
  BY <1>1, BusyRuns, WatchdogIsBooted, TasksDiffer DEF Replacing
<1>3. CASE GiveUp(row.instance) \/ GiveUp(None)
  BY <1>1, <1>3, GiveUpKeeps
<1>4. CASE Raise(Watchdog)
  BY <1>1, <1>4, RowFollows, EndKeeps, TasksDiffer DEF Raise
<1> DEFINE n == Retrying(row)
           f == [n EXCEPT !.state = "failed"]
<1>5. /\ n \in Attempt /\ n.state = "retrying" /\ n.instance = None /\ n.retry = 1
  BY States, AttemptIds DEF Retrying, Attempt, None
<1> HIDE DEF n
<1>6. /\ f \in Attempt /\ f.state = "failed" /\ f.instance = None /\ f.retry = 1
  BY <1>5, RowMoved, States
<1> HIDE DEF f
<1>7. Follows(n) /\ Follows(f)
  BY <1>5, <1>6 DEF Follows, Ids, Fresh, Early
<1>8. CASE Absent(Watchdog) /\ task[Watchdog].held.retry # 1
           /\ Suspend(Watchdog, "f_search", NoAttempt, n)
  <2>1. task[Watchdog].held.retry = 0
    BY <1>8, AttemptIds, TasksDiffer DEF Attempt
  <2>2. NothingRuns
    BY <1>1, <1>8, <2>1 DEF AInv, Replaced, NothingRuns, StartFailureListed
  <2>3. "f_search" \in Place(Watchdog) /\ Suits("f_search", NoAttempt)
    BY Places DEF Suits, Replacing
  <2>4. Allowed(Watchdog, "f_search", NoAttempt, n)
    BY <1>2, <1>5, <1>7, <2>2, <2>3, NothingHeld, TasksDiffer
    DEF Allowed, Runs, Replacing, Fresh, Early
  <2> QED
    BY <1>1, <1>8, <2>4, SuspendKeeps, TasksDiffer
<1>9. CASE End(Watchdog, f)
  BY <1>1, <1>7, <1>9, EndKeeps, TasksDiffer
<1> QED
  BY <1>3, <1>4, <1>8, <1>9 DEF StartFailureListed, n, f

LEMMA StartFailureSearchedKeeps ==
  ASSUME AInv, StartFailureSearched
  PROVE  AInv'
<1> DEFINE c == [row EXCEPT !.state = "creating", !.retry = 1]
<1>1. task[Watchdog].pc = "f_search" /\ UNCHANGED <<live, inflight, creates>>
  BY DEF StartFailureSearched, Waiting
<1>2. CASE GiveUp(row.instance)
  BY <1>1, <1>2, GiveUpKeeps
<1>3. CASE Raise(Watchdog)
  BY <1>1, <1>3, RowFollows, EndKeeps, TasksDiffer DEF Raise
<1>4. CASE Suspend(Watchdog, "f_create", NoAttempt, c)
  <2>1. /\ c \in Attempt /\ c.state = "creating" /\ c.instance = row.instance
        /\ c.retry = 1
    BY States, AttemptIds DEF Attempt
  <2> HIDE DEF c
  <2>2. row.state \notin Fresh
    BY <1>1, TasksDiffer DEF AInv, FreshUntouched
  <2>3. Follows(c)
    BY <2>1, AttemptIds DEF Follows, Fresh, Early
  <2>4. NothingRuns /\ task[Recovery].pc = "idle"
    BY <1>1, TasksDiffer DEF AInv, Replaced, RecoveryAlone
  <2>5. "f_create" \in Place(Watchdog) /\ Suits("f_create", NoAttempt)
    BY Places DEF Suits, Replacing
  <2>6. Allowed(Watchdog, "f_create", NoAttempt, c)
    BY <1>1, <2>1, <2>3, <2>4, <2>5, NothingHeld, TasksDiffer
    DEF Allowed, Replacing, Fresh, Early
  <2> QED
    BY <1>1, <1>4, <2>6, SuspendKeeps, TasksDiffer
<1> QED
  BY <1>2, <1>3, <1>4 DEF StartFailureSearched

LEMMA StartFailureCreatedKeeps ==
  ASSUME AInv, StartFailureCreated
  PROVE  AInv'
<1>1. /\ task[Watchdog].pc \in {"f_create", "f_lookup"}
      /\ UNCHANGED <<live, inflight, creates>>
  BY DEF StartFailureCreated, Answered
<1>2. CASE GiveUp(row.instance)
  BY <1>1, <1>2, GiveUpKeeps
<1>3. CASE Raise(Watchdog)
  BY <1>1, <1>3, RowFollows, EndKeeps, TasksDiffer DEF Raise
<1>4. ASSUME NEW m \in task[Watchdog].ids, Legal("starting"),
             Suspend(Watchdog, "r_get", Starting(row, m), Starting(row, m))
      PROVE  AInv'
  <2> DEFINE s == Starting(row, m)
  <2>1. m \in Ids \ {None}
    BY AttemptIds, TasksDiffer
  <2>2. /\ s \in Attempt /\ s.state = "starting" /\ s.instance = m /\ Rewrites(s)
    BY <2>1, StartingRow
  <2> HIDE DEF s
  <2>3. Follows(s) /\ Kept(s)
    BY <1>4, <2>2, LegalFollows
  <2>4. "r_get" \in Place(Watchdog) /\ Suits("r_get", s)
    BY <2>1, <2>2, Places DEF Suits
  <2>5. task[Recovery].pc = "idle"
    BY <1>1, TasksDiffer DEF AInv, RecoveryAlone
  <2>6. Allowed(Watchdog, "r_get", s, s)
    BY <1>1, <2>1, <2>2, <2>3, <2>4, <2>5, TasksDiffer
    DEF Allowed, Replacing, Fresh, Early
  <2>7. Suspend(Watchdog, "r_get", s, s)
    BY <1>4 DEF s
  <2> QED
    BY <1>1, <2>6, <2>7, SuspendKeeps, TasksDiffer
<1> QED
  BY <1>2, <1>3, <1>4 DEF StartFailureCreated

---------------------------------------------------------------------------
(* The service's calls *)

LEMMA PreviewKeeps ==
  ASSUME AInv, NEW t \in Handlers, PreviewBegin(t) \/ PreviewOffer(t)
  PROVE  AInv'
<1>0. t \in Tasks /\ t # Watchdog /\ t # Recovery
  BY TasksDiffer
<1>1. CASE PreviewBegin(t)
  <2>1. "p_offer" \in Place(t) /\ Suits("p_offer", NoAttempt)
    BY Places DEF Suits
  <2>2. Allowed(t, "p_offer", NoAttempt, row)
    BY <1>0, <1>1, <2>1, RowFollows, NothingHeld
    DEF Allowed, PreviewBegin, Free, Waiting, Replacing
  <2> QED
    BY <1>0, <1>1, <2>2, SuspendKeeps DEF PreviewBegin
<1>2. CASE PreviewOffer(t)
  <2>1. CASE End(t, row)
    BY <1>0, <1>2, <2>1, RowFollows, EndKeeps DEF PreviewOffer
  <2>2. CASE row.state = "none" /\ End(t, Previewed)
    <3>1. /\ Previewed \in Attempt /\ Previewed.state = "offer_selected"
          /\ Previewed.instance = None /\ Previewed.retry = 0
      BY States DEF Previewed, NoAttempt, Attempt, None
    <3>2. row.retry = 0 /\ row.instance = None
      BY <2>2 DEF AInv, FreshUntouched, Fresh, Numbered, Ids, None
    <3>3. Follows(Previewed) /\ Kept(Previewed)
      BY <2>2, <3>1, <3>2, NothingHeld DEF Follows, Kept, Fresh, Early
    <3> QED
      BY <1>0, <1>2, <2>2, <3>3, EndKeeps DEF PreviewOffer
  <2> QED
    BY <1>2, <2>1, <2>2 DEF PreviewOffer
<1> QED
  BY <1>1, <1>2

LEMMA ConfirmBeginKeeps ==
  ASSUME AInv, NEW t \in Handlers, ConfirmBegin(t)
  PROVE  AInv'
<1> DEFINE f == [row EXCEPT !.state = "failed"]
<1>0. t \in Tasks /\ t # Watchdog /\ t # Recovery
  BY TasksDiffer
<1>1. /\ row.state \in {"offer_selected", "confirming"} /\ task[Recovery].pc = "idle"
      /\ UNCHANGED <<live, inflight, creates>>
  BY DEF ConfirmBegin, Free, Waiting
<1>2. CASE Suspend(t, "c_offer", row, row)
  <2>1. "c_offer" \in Place(t) /\ Suits("c_offer", row)
    BY <1>1, Places DEF Suits
  <2>2. Allowed(t, "c_offer", row, row)
    BY <1>0, <1>1, <2>1, RowFollows, AttemptIds DEF Allowed, Replacing
  <2> QED
    BY <1>0, <1>1, <1>2, <2>2, SuspendKeeps
<1>3. CASE End(t, f)
  <2>1. f \in Attempt /\ f.state = "failed" /\ f.instance = row.instance
        /\ f.retry = row.retry
    BY RowMoved, States, AttemptIds
  <2> HIDE DEF f
  <2>2. Follows(f) /\ Kept(f)
    BY <1>1, <2>1, AttemptIds DEF Follows, Kept, Fresh, Early
  <2> QED
    BY <1>0, <1>1, <1>3, <2>2, EndKeeps
<1> QED
  BY <1>2, <1>3 DEF ConfirmBegin

LEMMA ConfirmOfferKeeps ==
  ASSUME AInv, NEW t \in Handlers, ConfirmOffer(t)
  PROVE  AInv'
<1> DEFINE c == [row EXCEPT !.state = "creating"]
<1>0. t \in Tasks /\ t # Watchdog /\ t # Recovery
  BY TasksDiffer
<1>1. /\ task[t].pc = "c_offer" /\ task[t].held.state \in {"offer_selected", "confirming"}
      /\ UNCHANGED <<live, inflight, creates>>
  BY <1>0 DEF ConfirmOffer, Waiting, AInv, Placed, Suits
<1>2. Runs(t)
  BY <1>0, <1>1, BusyRuns DEF Replacing
<1>3. CASE Write(t, [row EXCEPT !.state = "failed"])
  BY <1>0, <1>1, <1>2, <1>3, MoveKeeps, States DEF Early
<1>4. CASE End(t, row)
  BY <1>0, <1>1, <1>4, RowFollows, EndKeeps
<1>5. CASE Unchanged(t) /\ Suspend(t, "c_create", NoAttempt, c)
  <2>1. row.state \in {"offer_selected", "confirming"}
    BY <1>1, <1>5 DEF Unchanged
  <2>2. c \in Attempt /\ c.state = "creating" /\ c.instance = row.instance
        /\ c.retry = row.retry
    BY RowMoved, States, AttemptIds
  <2> HIDE DEF c
  <2>3. Follows(c) /\ Kept(c)
    BY <2>1, <2>2, AttemptIds DEF Follows, Kept, Fresh, Early
  <2>4. "c_create" \in Place(t) /\ Suits("c_create", NoAttempt)
    BY Places DEF Suits
  <2>5. Allowed(t, "c_create", NoAttempt, c)
    BY <1>0, <1>2, <2>1, <2>2, <2>3, <2>4, NothingHeld
    DEF Allowed, Runs, Replacing, Fresh, Early
  <2> QED
    BY <1>0, <1>1, <1>5, <2>5, SuspendKeeps
<1> QED
  BY <1>3, <1>4, <1>5 DEF ConfirmOffer

LEMMA FinishCreatedKeeps ==
  ASSUME AInv, NEW t \in Handlers, task[t].pc # "idle", NEW m \in task[t].ids,
         task[t].pc \in {"c_create", "c_unknown", "c_rejected"},
         FinishCreated(t, m), UNCHANGED <<live, inflight, creates>>
  PROVE  AInv'
<1>0. t \in Tasks /\ t # Watchdog /\ t # Recovery
  BY TasksDiffer
<1>1. m \in Ids /\ m # None /\ m \in Nat
  BY <1>0, AttemptIds
<1>2. Runs(t)
  BY <1>0, BusyRuns DEF Replacing
<1>3. CASE row.state = "cancel_requested" /\ Cancel(t, [row EXCEPT !.instance = m])
  <2> DEFINE r == [row EXCEPT !.instance = m]
  <2>1. r \in Attempt /\ r.state = row.state /\ r.instance = m /\ r.retry = row.retry
    BY <1>1, AttemptIds DEF Attempt
  <2> HIDE DEF r
  <2>2. Follows(r) /\ Kept(r)
    BY <1>1, <1>3, <2>1 DEF Follows, Kept, Fresh, Early
  <2>3. Cancel(t, r)
    BY <1>3 DEF r
  <2> QED
    BY <1>0, <1>2, <2>2, <2>3, CancelKeeps
<1>4. CASE End(t, row)
  BY <1>0, <1>4, RowFollows, EndKeeps
<1>5. CASE row.state = "creating" /\ ScheduleWatchdog(t, Starting(row, m))
  <2>1. Follows(Starting(row, m)) /\ Kept(Starting(row, m)) /\ FirstIsSettled
    BY <1>1, StartingRow DEF Follows, Kept, Rewrites
  <2> QED
    BY <1>0, <1>1, <1>2, <1>5, <2>1, StartingRow, ScheduleKeeps
<1> QED
  BY <1>3, <1>4, <1>5 DEF FinishCreated

LEMMA ConfirmLookedUpKeeps ==
  ASSUME AInv, NEW t \in Handlers, ConfirmLookedUp(t)
  PROVE  AInv'
<1>0. t \in Tasks /\ t # Watchdog /\ t # Recovery
  BY TasksDiffer
<1>1. task[t].pc \in {"c_unknown", "c_rejected"} /\ UNCHANGED <<live, inflight, creates>>
  BY DEF ConfirmLookedUp, Answered
<1>2. Runs(t)
  BY <1>0, <1>1, BusyRuns DEF Replacing
<1>3. CASE \E m \in task[t].ids : FinishCreated(t, m)
  BY <1>1, <1>3, FinishCreatedKeeps
<1>4. ASSUME NEW s \in {"creating", "failed"}, Write(t, [row EXCEPT !.state = s])
      PROVE  AInv'
  BY <1>0, <1>1, <1>2, <1>4, MoveKeeps, States DEF Early
<1> QED
  BY <1>3, <1>4 DEF ConfirmLookedUp

LEMMA CancelCallKeeps ==
  ASSUME AInv, NEW t \in Handlers, CancelCall(t) \/ Refresh(t)
  PROVE  AInv'
<1>1. t \in Tasks /\ t # Recovery /\ Runs(t) /\ UNCHANGED <<live, inflight, creates>>
  BY TasksDiffer, FreeRuns DEF CancelCall, Refresh
<1>2. row.state = "ready" => row.instance # None
  BY DEF AInv, TypeOK
<1>3. CASE Cancel(t, row)
  BY <1>1, <1>3, RowFollows, CancelKeeps
<1>4. CASE row.state = "ready" /\ DestroyFromState(t, row)
  BY <1>1, <1>2, <1>4, RowFollows, DestroyFromStateKeeps DEF Fresh, Early
<1>5. CASE Reconcile(t)
  BY <1>1, <1>5, ReconcileKeeps
<1> QED
  BY <1>3, <1>4, <1>5 DEF CancelCall, Refresh

LEMMA CallKeeps ==
  ASSUME AInv, NEW t \in Handlers, Call(t)
  PROVE  AInv'
<1>1. CASE ConfirmCreated(t)
  BY <1>1, FinishCreatedKeeps DEF ConfirmCreated, Answered
<1> QED
  BY <1>1, PreviewKeeps, ConfirmBeginKeeps, ConfirmOfferKeeps, ConfirmLookedUpKeeps,
     CancelCallKeeps DEF Call

---------------------------------------------------------------------------
(* Restart *)

\* A row of a process killed between two writes is one its segment could leave.
LEMMA HalfWrittenFollows ==
  ASSUME AInv, row' = row \/ HalfWritten
  PROVE  Follows(row')
<1>0. row \in Attempt /\ row.instance \in Ids /\ row.retry \in {0, 1}
  BY AttemptIds, RowFields
<1>1. ASSUME NEW s \in AttemptState, row' = [row EXCEPT !.state = s],
             s \notin {"starting", "ready"},
             s \in Fresh => row.state \in Fresh
      PROVE  Follows(row')
  <2>1. row' \in Attempt /\ row'.state = s /\ row'.instance = row.instance
        /\ row'.retry = row.retry
    BY <1>0, <1>1, RowMoved
  <2> QED
    BY <1>0, <1>1, <2>1 DEF Follows, AInv, FreshUntouched
<1>2. ASSUME NEW s \in {row.state, "cancel_requested", "destroying", "failed"},
             NEW t \in Tasks, NEW m \in task[t].ids,
             row' = [row EXCEPT !.state = s, !.instance = m]
      PROVE  Follows(row')
  <2>1. m \in Ids /\ m # None /\ m \in Nat
    BY AttemptIds
  <2>2. row' \in Attempt /\ row'.state = s /\ row'.instance = m
        /\ row'.retry = row.retry
    BY <1>0, <1>2, <2>1, States DEF Attempt
  <2> QED
    BY <1>0, <1>2, <2>1, <2>2 DEF Follows, AInv, FreshUntouched, Fresh, Early
<1>3. ASSUME NEW h \in Handlers, task[h].pc = "c_offer", Unchanged(h)
      PROVE  row.state \in Fresh
  BY <1>3, TasksDiffer DEF AInv, Placed, Suits, Unchanged, Fresh, Early
<1>4. ASSUME NEW t \in Tasks, task[t].pc = "d_find"
      PROVE  task[t].held.state \in {"cancel_requested", "destroying", "failed"}
  BY <1>4 DEF AInv, Placed, Suits
<1>5. CASE row' = row
  BY <1>5, RowFollows
<1>6. ASSUME NEW h \in Handlers, Waiting(h, "c_offer"), Unchanged(h),
             row' = [row EXCEPT !.state = "confirming"]
      PROVE  Follows(row')
  BY <1>1, <1>3, <1>6, States DEF Waiting
<1>7. ASSUME NEW h \in Handlers, NEW m \in task[h].ids, row' = [row EXCEPT !.instance = m]
      PROVE  Follows(row')
  <2>1. row' = [row EXCEPT !.state = row.state, !.instance = m]
    BY <1>0, <1>7 DEF Attempt
  <2> QED
    BY <1>2, <2>1, TasksDiffer
<1>8. CASE row' = [row EXCEPT !.state = "cancel_requested"]
  BY <1>1, <1>8, States DEF Fresh, Early
<1>9. CASE row' = [row EXCEPT !.state = "failed"]
  BY <1>1, <1>9, States DEF Fresh, Early
<1>10. ASSUME NEW t \in Tasks, task[t].pc = "d_find", NEW m \in task[t].ids,
              row' = [row EXCEPT !.state = task[t].held.state, !.instance = m]
       PROVE  Follows(row')
  BY <1>2, <1>4, <1>10
<1> QED
  BY <1>5, <1>6, <1>7, <1>8, <1>9, <1>10 DEF HalfWritten, Answered

LEMMA CrashKeeps ==
  ASSUME AInv, Crash
  PROVE  AInv'
<1> DEFINE List == Await("v_list", NoAttempt)
<1>1. Follows(row') /\ UNCHANGED <<live, inflight, creates>>
  BY HalfWrittenFollows DEF Crash
<1>2. /\ List \in Task /\ List.pc = "v_list" /\ List.held = NoAttempt /\ List.ids = {}
      /\ Resting \in Task /\ Resting.pc = "idle" /\ Resting.held = NoAttempt
      /\ Resting.ids = {}
  BY AwaitShape, NothingHeld DEF Pcs, ListCalls
<1> HIDE DEF List
<1>3. /\ task' \in [Tasks -> Task]
      /\ task'[Recovery] \in {Resting, List}
      /\ \A u \in Tasks \ {Recovery} : task'[u] = Resting
  BY <1>2, TasksDiffer DEF Crash, List
<1>4. Ids' = Ids
  BY <1>1 DEF Ids
<1>5. \A u \in Tasks : /\ task'[u].pc \in {"idle", "v_list"} /\ task'[u].ids = {}
                       /\ task'[u].held = NoAttempt
                       /\ u # Recovery => task'[u].pc = "idle"
  BY <1>2, <1>3
<1>6. task'[Watchdog].pc = "idle" /\ task'[Recovery].pc # "r_get"
  BY <1>5, TasksDiffer
<1>7. TypeOK'
  BY <1>1, <1>3, <1>6 DEF AInv, TypeOK, Follows
<1>8. Placed'
  <2>1. "v_list" \in Place(Recovery) /\ Suits("v_list", NoAttempt)
    BY Places DEF Suits
  <2> QED
    BY <1>5, <2>1, NothingHeld DEF Placed
<1>9. RecoveryAlone' /\ Watched' /\ FirstSettled'
  BY <1>1, <1>5, <1>6
  DEF AInv, RecoveryAlone, Watched, FirstSettled, FirstIsSettled
<1>10. FreshUntouched'
  BY <1>1, <1>5 DEF AInv, FreshUntouched, Follows
<1>11. Numbered'
  BY <1>1, <1>4, <1>5, NothingHeld DEF AInv, Numbered, Follows
<1>12. Counted'
  <2>1. row' \in Attempt /\ row.retry \in {0, 1} /\ creates \in Nat
    BY <1>1, AttemptIds, RowFields DEF Follows, AInv, TypeOK
  <2> QED
    BY <1>1, <2>1, RowFields DEF AInv, Counted, Follows
<1>13. OneCreator' /\ Replaced'
  BY <1>5, <1>6 DEF OneCreator, Replaced, Replacing, Outstanding, Answered
<1> QED
  BY <1>7, <1>8, <1>9, <1>10, <1>11, <1>12, <1>13 DEF AInv

LEMMA RecoverKeeps ==
  ASSUME AInv, Recover
  PROVE  AInv'
<1> DEFINE ids == task[Recovery].ids
           m == CHOOSE i \in ids : TRUE
           found == IF ids # {} /\ row.instance = None THEN [row EXCEPT !.instance = m]
                    ELSE row
<1>1. /\ Recovery \in Tasks /\ Recovery # Watchdog /\ task[Recovery].pc = "v_list"
      /\ UNCHANGED <<live, inflight, creates>>
  BY TasksDiffer DEF Recover, Answered
<1>2. Runs(Recovery)
  BY <1>1, BusyRuns DEF Replacing
<1>3. ids # {} => m \in Ids /\ m # None /\ m \in Nat
  BY <1>1, AttemptIds
<1>4. CASE Return(Recovery, row, row.state)
  BY <1>1, <1>2, <1>4, RowFollows, OwnReturnKeeps
<1>5. CASE row.state = "creating" /\ ids # {} /\ Return(Recovery, Starting(row, m), "starting")
  <2> HIDE DEF m
  <2>1. Follows(Starting(row, m)) /\ Kept(Starting(row, m)) /\ FirstIsSettled
    BY <1>3, <1>5, StartingRow DEF Follows, Kept, Rewrites
  <2> QED
    BY <1>1, <1>2, <1>3, <1>5, <2>1, StartingRow, ReturnKeeps
<1>6. CASE row.state = "starting" /\ Reconcile(Recovery)
  BY <1>1, <1>2, <1>6, ReconcileKeeps
<1>7. CASE row.state \in {"cancel_requested", "destroying"} /\ Cancel(Recovery, found)
  <2> HIDE DEF m
  <2>1. CASE ids # {} /\ row.instance = None
    <3>1. found = [row EXCEPT !.instance = m]
      BY <2>1
    <3>2. /\ found \in Attempt /\ found.state = row.state /\ found.instance = m
          /\ found.retry = row.retry
      BY <1>3, <2>1, <3>1, AttemptIds DEF Attempt
    <3> QED
      BY <1>3, <1>7, <2>1, <3>2, <1>1, <1>2, CancelKeeps DEF Follows, Kept, Fresh, Early
  <2>2. CASE ~(ids # {} /\ row.instance = None)
    BY <1>1, <1>2, <1>7, <2>2, RowFollows, CancelKeeps
  <2> QED
    BY <2>1, <2>2
<1>8. CASE End(Recovery, row)
  BY <1>1, <1>8, RowFollows, EndKeeps
<1> QED
  BY <1>4, <1>5, <1>6, <1>7, <1>8 DEF Recover

---------------------------------------------------------------------------
(* The provider *)

LEMMA AnswerShape ==
  ASSUME AInv, NEW t \in Tasks, NEW good \in BOOLEAN, NEW found \in SUBSET Nat,
         Answer(t, good, found)
  PROVE  /\ task' \in [Tasks -> Task]
         /\ task'[t].pc = task[t].pc /\ task'[t].held = task[t].held
         /\ task'[t].answered /\ task'[t].ok = good /\ task'[t].ids = found
         /\ \A u \in Tasks \ {t} : task'[u] = task[u]
<1>1. task \in [Tasks -> Task]
  BY DEF AInv, TypeOK
<1>2. task' = [task EXCEPT ![t] = [task[t] EXCEPT !.answered = TRUE, !.ok = good,
                                                  !.ids = found]]
  BY <1>1 DEF Answer, Task
<1>3. [task[t] EXCEPT !.answered = TRUE, !.ok = good, !.ids = found] \in Task
  BY <1>1 DEF Task
<1> QED
  BY <1>1, <1>2, <1>3 DEF Task

\* An answer that reports what runs, or nothing, about a world that only shrinks.
LEMMA AnswerKeeps ==
  ASSUME AInv, NEW t \in Tasks, NEW good \in BOOLEAN, NEW found \in SUBSET live,
         Answer(t, good, found), task[t].pc \notin {"idle"} \cup CreateCalls,
         task[t].pc = "f_list" /\ good /\ found = {} => live' = {},
         live' \subseteq live, UNCHANGED <<row, inflight, creates>>
  PROVE  AInv'
<1>0. live \subseteq Nat /\ live \subseteq Ids \ {None} /\ Ids' = Ids
  BY DEF AInv, TypeOK, Numbered, Ids
<1>1. /\ task' \in [Tasks -> Task]
      /\ task'[t].pc = task[t].pc /\ task'[t].held = task[t].held
      /\ task'[t].answered /\ task'[t].ok = good /\ task'[t].ids = found
      /\ \A u \in Tasks \ {t} : task'[u] = task[u]
  BY <1>0, AnswerShape
<1>2. \A u \in Tasks : task'[u].pc = task[u].pc /\ task'[u].held = task[u].held
  BY <1>1
<1>3. \A u \in Tasks, pc \in CreateCalls :
        Outstanding(u, {pc})' <=> Outstanding(u, {pc})
  BY <1>1 DEF Outstanding
<1>4. TypeOK'
  BY <1>0, <1>1, <1>2, TasksDiffer DEF AInv, TypeOK
<1>5. Placed' /\ RecoveryAlone' /\ FreshUntouched' /\ Watched'
  BY <1>2, TasksDiffer DEF AInv, Placed, RecoveryAlone, FreshUntouched, Watched
<1>6. Numbered'
  <2>1. ASSUME NEW u \in Tasks
        PROVE  task'[u].held.instance \in Ids /\ task'[u].ids \subseteq Ids \ {None}
    BY <1>0, <1>1, AttemptIds
  <2> QED
    BY <1>0, <2>1 DEF AInv, Numbered
<1>7. FirstSettled' /\ Counted'
  BY <1>2, TasksDiffer DEF AInv, FirstSettled, FirstIsSettled, Counted
<1>8. OneCreator'
  BY <1>3 DEF AInv, OneCreator, CreateCalls
<1>9. Replaced'
  <2>1. Outstanding(Watchdog, {"f_create"})' <=> Outstanding(Watchdog, {"f_create"})
    BY <1>3, TasksDiffer DEF CreateCalls
  <2>2. (Answered(Watchdog, "f_list") /\ Absent(Watchdog) /\ creates <= 1 => live = {})'
    BY <1>1, TasksDiffer DEF AInv, Replaced, Answered, Absent
  <2> QED
    BY <1>2, <2>1, <2>2, TasksDiffer DEF AInv, Replaced, NothingRuns
<1> QED
  BY <1>4, <1>5, <1>6, <1>7, <1>8, <1>9 DEF AInv

LEMMA AnswersKeep ==
  ASSUME AInv, NEW t \in Tasks, ListInstances(t) \/ GetInstance(t) \/ DeleteInstance(t)
  PROVE  AInv'
<1>1. CASE ListInstances(t)
  <2>1. /\ task[t].pc \notin {"idle"} \cup CreateCalls
        /\ UNCHANGED <<row, live, inflight, creates>>
    BY <1>1 DEF ListInstances, Outstanding, ListCalls, CreateCalls
  <2>2. Answer(t, TRUE, live) \/ Answer(t, FALSE, {})
    BY <1>1 DEF ListInstances
  <2> QED
    BY <2>1, <2>2, AnswerKeeps
<1>2. CASE GetInstance(t)
  <2>1. /\ task[t].pc = "r_get" /\ UNCHANGED <<row, live, inflight, creates>>
        /\ Answer(t, FALSE, {}) \/ Answer(t, TRUE, {})
    BY <1>2 DEF GetInstance, Outstanding
  <2> QED
    BY <2>1, AnswerKeeps DEF CreateCalls
<1>3. CASE DeleteInstance(t)
  <2>1. /\ task[t].pc \in DeleteCalls /\ live' \subseteq live
        /\ UNCHANGED <<row, inflight, creates>>
    BY <1>3 DEF DeleteInstance, Outstanding
  <2>2. PICK good \in BOOLEAN : Answer(t, good, {})
    BY <1>3 DEF DeleteInstance
  <2> QED
    BY <2>1, <2>2, AnswerKeeps DEF CreateCalls, DeleteCalls
<1> QED
  BY <1>1, <1>2, <1>3

\* A create call reaches the provider when nothing runs or may still start.
LEMMA CreateIsRent ==
  ASSUME AInv, NEW t \in Tasks, CreateInstance(t)
  PROVE  /\ R!Rent
         /\ live = {} /\ inflight = {} /\ creates \in {0, 1}
         /\ live' \cap inflight' = {} /\ live' \cup inflight' \subseteq {creates + 1}
         /\ creates' = creates + 1
         /\ \/ t = Watchdog /\ task[t].pc = "f_create" /\ row.retry = 1 /\ creates = 1
            \/ t \in Handlers /\ task[t].pc = "c_create" /\ creates = 0
<1>0. creates \in Nat /\ inflight \subseteq 1..creates /\ live \subseteq 1..creates
  BY DEF AInv, TypeOK, Numbered, Ids
<1>1. task[t].pc \in {"c_create", "f_create"} /\ ~task[t].answered
  BY DEF CreateInstance, Outstanding, CreateCalls
<1>2. /\ creates' = creates + 1
      /\ \/ live' \in {live, live \cup {creates + 1}} /\ inflight' = inflight
         \/ live' = live /\ inflight' = inflight \cup {creates + 1}
  BY DEF CreateInstance
<1>3. ASSUME live = {}, inflight = {}, creates \in {0, 1}
      PROVE  /\ R!Rent
             /\ live' \cap inflight' = {} /\ live' \cup inflight' \subseteq {creates + 1}
  BY <1>2, <1>3 DEF R!Rent
<1>4. CASE task[t].pc = "c_create"
  <2>1. creates = 0
    BY <1>1, <1>4 DEF AInv, OneCreator, Outstanding
  <2>2. t \in Handlers
    BY <1>4, Places, TasksDiffer DEF AInv, Placed, Replacing
  <2>3. live = {} /\ inflight = {}
    BY <1>0, <2>1
  <2> QED
    BY <1>2, <1>3, <1>4, <2>1, <2>2, <2>3
<1>5. CASE task[t].pc = "f_create"
  <2>1. t = Watchdog
    BY <1>5, Places, TasksDiffer DEF AInv, Placed
  <2>2. NothingRuns /\ row.retry = 1 /\ FirstIsSettled
    BY <1>1, <1>5, <2>1 DEF AInv, Replaced, Outstanding, Replacing, FirstSettled
  <2>3. creates = 1 /\ live = {} /\ inflight = {}
    BY <1>0, <2>2 DEF NothingRuns, FirstIsSettled
  <2> QED
    BY <1>2, <1>3, <1>5, <2>1, <2>2, <2>3
<1> QED
  BY <1>1, <1>4, <1>5

LEMMA CreateShape ==
  ASSUME AInv, NEW t \in Tasks, CreateInstance(t)
  PROVE  /\ task' \in [Tasks -> Task]
         /\ \A u \in Tasks \ {t} : task'[u] = task[u]
         /\ task'[t].held = task[t].held
         /\ \/ task'[t].pc = task[t].pc /\ task'[t].answered
               /\ task'[t].ids = {creates + 1} /\ inflight' = inflight
            \/ task'[t].ids = {} /\ ~task'[t].answered
               /\ \/ t = Watchdog /\ task'[t].pc = "f_lookup"
                  \/ t # Watchdog /\ task'[t].pc \in {"c_rejected", "c_unknown"}
<1>1. task \in [Tasks -> Task] /\ task[t].held \in Attempt /\ creates + 1 \in Nat
  BY AttemptIds DEF AInv, TypeOK
<1>2. CASE Answer(t, TRUE, {creates + 1}) /\ UNCHANGED inflight
  BY <1>1, <1>2, AnswerShape
<1>3. ASSUME NEW pc \in {"c_rejected", "c_unknown"},
             task' = [task EXCEPT ![t] =
               Await(IF t = Watchdog THEN "f_lookup" ELSE pc, @.held)]
      PROVE  /\ task' \in [Tasks -> Task]
             /\ \A u \in Tasks \ {t} : task'[u] = task[u]
             /\ task'[t].held = task[t].held
             /\ task'[t].ids = {} /\ ~task'[t].answered
             /\ \/ t = Watchdog /\ task'[t].pc = "f_lookup"
                \/ t # Watchdog /\ task'[t].pc \in {"c_rejected", "c_unknown"}
  <2> DEFINE p == IF t = Watchdog THEN "f_lookup" ELSE pc
  <2>1. p \in Pcs
    BY DEF Pcs, ListCalls
  <2>2. task' = [task EXCEPT ![t] = Await(p, task[t].held)]
    BY <1>1, <1>3
  <2> HIDE DEF p
  <2>3. /\ task' \in [Tasks -> Task] /\ task'[t].pc = p /\ task'[t].held = task[t].held
        /\ task'[t].ids = {} /\ ~task'[t].answered
        /\ \A u \in Tasks \ {t} : task'[u] = task[u]
    BY <1>1, <2>1, <2>2, AwaitShape
  <2> QED
    BY <2>3 DEF p
<1> QED
  BY <1>2, <1>3 DEF CreateInstance

LEMMA CreateKeeps ==
  ASSUME AInv, NEW t \in Tasks, CreateInstance(t)
  PROVE  AInv'
<1>0. row' = row /\ creates \in Nat /\ row \in Attempt
  BY AttemptIds DEF CreateInstance, AInv, TypeOK
<1>1. /\ live = {} /\ inflight = {} /\ creates \in {0, 1}
      /\ live' \cap inflight' = {} /\ live' \cup inflight' \subseteq {creates + 1}
      /\ creates' = creates + 1
      /\ \/ t = Watchdog /\ task[t].pc = "f_create" /\ row.retry = 1 /\ creates = 1
         \/ t \in Handlers /\ task[t].pc = "c_create" /\ creates = 0
  BY CreateIsRent
<1>2. /\ task' \in [Tasks -> Task]
      /\ \A u \in Tasks \ {t} : task'[u] = task[u]
      /\ task'[t].held = task[t].held
      /\ \/ task'[t].pc = task[t].pc /\ task'[t].answered
            /\ task'[t].ids = {creates + 1} /\ inflight' = inflight
         \/ task'[t].ids = {} /\ ~task'[t].answered
            /\ \/ t = Watchdog /\ task'[t].pc = "f_lookup"
               \/ t # Watchdog /\ task'[t].pc \in {"c_rejected", "c_unknown"}
  BY CreateShape
<1>3. creates = 0 => task[Watchdog].pc = "idle"
  BY DEF AInv, FirstSettled, FirstIsSettled
<1>4. Ids \subseteq Ids' /\ (inflight' = {} => creates + 1 \in Ids' \ {None})
  BY <1>0, <1>1 DEF Ids, None
<1>5. \/ t = Watchdog /\ task'[Watchdog].pc \in {"f_create", "f_lookup"}
         /\ task'[Recovery] = task[Recovery] /\ row.retry = 1 /\ creates = 1
      \/ t \in Handlers /\ task'[t].pc \in {"c_create", "c_rejected", "c_unknown"}
         /\ task'[Watchdog] = task[Watchdog] /\ task'[Recovery] = task[Recovery]
         /\ task[Watchdog].pc = "idle" /\ creates = 0
  BY <1>1, <1>2, <1>3, TasksDiffer
<1>6. TypeOK'
  BY <1>0, <1>1, <1>2, <1>5 DEF AInv, TypeOK
<1>7. Placed'
  <2>1. task'[t].pc \in Place(t) /\ Suits(task'[t].pc, task'[t].held)
    BY <1>5, Places, TasksDiffer DEF Suits, Replacing
  <2> QED
    BY <1>2, <2>1 DEF AInv, Placed
<1>8. RecoveryAlone'
  <2>1. task[Recovery].pc = "idle"
    BY <1>1, TasksDiffer DEF AInv, RecoveryAlone
  <2> QED
    BY <1>5, <2>1 DEF RecoveryAlone
<1>9. FreshUntouched'
  BY <1>0, <1>1 DEF AInv, FreshUntouched
<1>10. Numbered'
  <2>1. inflight' \subseteq 1..creates' /\ live' \subseteq Ids' \ {None}
    BY <1>0, <1>1 DEF Ids, None
  <2>2. ASSUME NEW u \in Tasks
        PROVE  task'[u].held.instance \in Ids' /\ task'[u].ids \subseteq Ids' \ {None}
    BY <1>1, <1>2, <1>4, AttemptIds
  <2> QED
    BY <1>0, <1>4, <2>1, <2>2 DEF AInv, Numbered
<1>11. Watched'
  BY <1>0, <1>1, <1>5 DEF AInv, Watched, Replacing
<1>12. FirstSettled'
  <2>1. CASE creates = 0 /\ task'[Watchdog].pc = "idle"
    BY <1>1, <2>1 DEF FirstSettled
  <2>2. CASE creates = 1
    BY <1>1, <2>2 DEF FirstSettled, FirstIsSettled
  <2> QED
    BY <1>5, <2>1, <2>2
<1>13. Counted'
  BY <1>0, <1>1, RowFields DEF Counted
<1>14. OneCreator'
  <2>1. ~task[t].answered
    BY DEF CreateInstance, Outstanding
  <2>2. \A u \in Tasks \ {t} : ~Outstanding(u, {"c_create"})
    BY <1>1, <2>1 DEF AInv, OneCreator, Outstanding
  <2>3. ASSUME NEW u \in Tasks PROVE ~Outstanding(u, {"c_create"})'
    BY <1>2, <2>2 DEF Outstanding
  <2> QED
    BY <2>3 DEF OneCreator
<1>15. Replaced'
  <2>1. task'[Watchdog].pc \in {"f_create", "f_lookup"} => row.retry = 1
    BY <1>5
  <2>2. task'[Watchdog].pc = "f_create" => task'[Watchdog].answered
    BY <1>2, <1>5
  <2> QED
    BY <1>0, <1>5, <2>1, <2>2 DEF Replaced, Replacing, Outstanding, Answered
<1> QED
  BY <1>6, <1>7, <1>8, <1>9, <1>10, <1>11, <1>12, <1>13, <1>14, <1>15 DEF AInv

\* A create that settles or a host that dies concerns no replacement under way.
LEMMA WorldKeeps ==
  ASSUME AInv, Settle \/ Vanish
  PROVE  AInv'
<1>1. UNCHANGED <<row, task, creates>> /\ inflight' \subseteq inflight
      /\ live' \subseteq live \cup (inflight \ inflight')
  BY DEF Settle, Vanish
<1>2. creates \in Nat /\ inflight \subseteq 1..creates /\ live \subseteq Ids \ {None}
  BY DEF AInv, TypeOK, Numbered
<1>3. Ids \subseteq Ids' /\ live' \subseteq Ids' \ {None} /\ live' \subseteq Nat
      /\ inflight' \subseteq 1..creates
  BY <1>1, <1>2 DEF Ids, None
<1>4. task[Watchdog].pc # "idle" /\ creates <= 1 => live' \subseteq live
  <2> SUFFICES ASSUME task[Watchdog].pc # "idle", creates <= 1 PROVE inflight = {}
    BY <1>1
  <2> QED
    BY <1>2 DEF AInv, FirstSettled, FirstIsSettled
<1>5. TypeOK'
  BY <1>1, <1>2, <1>3 DEF AInv, TypeOK
<1>6. Placed' /\ RecoveryAlone' /\ FreshUntouched' /\ Watched' /\ Counted'
  BY <1>1 DEF AInv, Placed, RecoveryAlone, FreshUntouched, Watched, Counted
<1>7. Numbered'
  BY <1>1, <1>3 DEF AInv, Numbered
<1>8. FirstSettled' /\ OneCreator'
  BY <1>1 DEF AInv, FirstSettled, FirstIsSettled, OneCreator, Outstanding
<1>9. Replaced'
  BY <1>1, <1>4 DEF AInv, Replaced, NothingRuns, Outstanding, Answered, Absent
<1> QED
  BY <1>5, <1>6, <1>7, <1>8, <1>9 DEF AInv

---------------------------------------------------------------------------
(* The theorems *)

LEMMA InitHolds == Init => AInv
<1> SUFFICES ASSUME Init PROVE AInv
  OBVIOUS
<1>1. /\ row = NoAttempt /\ live = {} /\ inflight = {} /\ creates = 0
      /\ row \in Attempt /\ row.state = "none" /\ row.instance = None /\ row.retry = 0
  BY DEF Init, NoAttempt, Attempt, None
<1>2. /\ Resting \in Task /\ Resting.pc = "idle" /\ Resting.held = NoAttempt
      /\ Resting.ids = {}
  BY AwaitShape, NothingHeld DEF Pcs
<1>3. task \in [Tasks -> Task] /\ \A t \in Tasks : task[t] = Resting
  BY <1>2 DEF Init
<1>4. task[Watchdog] = Resting /\ task[Recovery] = Resting
  BY <1>3, TasksDiffer
<1>5. TypeOK
  BY <1>1, <1>2, <1>3, <1>4 DEF TypeOK
<1>6. Placed /\ RecoveryAlone /\ FreshUntouched /\ Watched
  BY <1>1, <1>2, <1>3, <1>4, NothingHeld
  DEF Placed, RecoveryAlone, FreshUntouched, Watched, Fresh
<1>7. Numbered
  BY <1>1, <1>2, <1>3, NothingHeld DEF Numbered
<1>8. FirstSettled /\ Counted /\ OneCreator /\ Replaced
  BY <1>1, <1>2, <1>3, <1>4
  DEF FirstSettled, Counted, OneCreator, Replaced, Replacing, Outstanding, Answered
<1> QED
  BY <1>5, <1>6, <1>7, <1>8 DEF AInv

LEMMA NextHolds == AInv /\ [Next]_vars => AInv'
<1> SUFFICES ASSUME AInv, [Next]_vars PROVE AInv'
  OBVIOUS
<1>1. ASSUME NEW t \in Tasks, Resume(t) PROVE AInv'
  BY <1>1, DestroyFoundKeeps, DestroyDeletedKeeps, DestroyListedKeeps,
     ReconcileListedKeeps, ReconcileGotKeeps DEF Resume
<1>2. ASSUME NEW t \in Tasks, Provider(t) PROVE AInv'
  BY <1>2, AnswersKeep, CreateKeeps DEF Provider
<1>3. CASE BootWatchdog
  BY <1>3, WatchdogWakeKeeps, StartFailureDeletedKeeps, StartFailureListedKeeps,
     StartFailureSearchedKeeps, StartFailureCreatedKeeps DEF BootWatchdog
<1>4. CASE UNCHANGED vars
  BY <1>4
  DEF vars, AInv, TypeOK, Placed, RecoveryAlone, FreshUntouched, Numbered, Ids, Watched,
      FirstSettled, FirstIsSettled, Counted, OneCreator, Replaced, NothingRuns,
      Outstanding, Answered, Absent
<1> QED
  BY <1>1, <1>2, <1>3, <1>4, CallKeeps, CrashKeeps, RecoverKeeps, WorldKeeps DEF Next

\* The inductive invariant of one-shot attempts.
THEOREM AttemptInvariance == Spec => []AInv
BY InitHolds, NextHolds, PTL DEF Spec

\* Whatever a stale task writes over the row of an attempt, and wherever the
\* process dies, an attempt that is starting, ready or watched names the instance by
\* which cancel and destroy can end its bill.
THEOREM AttemptTypeCorrect == Spec => []TypeOK
<1>1. AInv => TypeOK
  BY DEF AInv
<1> QED
  BY <1>1, AttemptInvariance, PTL

\* What is not a create call leaves the rented machines alone, or ends them.
LEMMA OtherIsWorld ==
  ASSUME AInv, [Next]_vars, \A t \in Tasks : ~CreateInstance(t)
  PROVE  [R!Next]_<<creates, inflight, live>>
<1>1. CASE Settle \/ Vanish
  BY <1>1 DEF Settle, Vanish, R!Next, R!Settle, R!Stop
<1>2. ASSUME NEW t \in Tasks, Provider(t) PROVE [R!Next]_<<creates, inflight, live>>
  <2>1. CASE DeleteInstance(t)
    <3>1. UNCHANGED <<creates, inflight>>
      BY <2>1 DEF DeleteInstance
    <3>2. live' = live \/ \E id \in live : live' = live \ {id}
      <4>1. live' \in {live, live \ {task[t].held.instance}}
        BY <2>1 DEF DeleteInstance
      <4>2. CASE task[t].held.instance \in live
        BY <4>1, <4>2
      <4>3. CASE task[t].held.instance \notin live
        BY <4>1, <4>3
      <4> QED
        BY <4>2, <4>3
    <3> QED
      BY <3>1, <3>2 DEF R!Next, R!Stop
  <2>2. CASE ListInstances(t) \/ GetInstance(t)
    BY <2>2 DEF ListInstances, GetInstance
  <2> QED
    BY <1>2, <2>1, <2>2 DEF Provider
<1>3. ASSUME NEW t \in Tasks, Resume(t) PROVE UNCHANGED <<creates, inflight, live>>
  BY <1>3
  DEF Resume, DestroyFound, DestroyDeleted, DestroyListed, ReconcileListed, ReconcileGot
<1>4. ASSUME NEW t \in Handlers, Call(t) PROVE UNCHANGED <<creates, inflight, live>>
  BY <1>4
  DEF Call, PreviewBegin, PreviewOffer, ConfirmBegin, ConfirmOffer, ConfirmCreated,
      ConfirmLookedUp, CancelCall, Refresh
<1>5. CASE BootWatchdog \/ Crash \/ Recover
  BY <1>5
  DEF BootWatchdog, WatchdogWake, StartFailureDeleted, StartFailureListed,
      StartFailureSearched, StartFailureCreated, Crash, Recover
<1>6. CASE UNCHANGED vars
  BY <1>6 DEF vars
<1> QED
  BY <1>1, <1>2, <1>3, <1>4, <1>5, <1>6 DEF Next

\* One-shot attempts keep the promise of Rental, for any number of concurrent
\* calls, restarts and lost answers and however late the provider settles a create:
\* two machines at most, never at the same time, and none while an accepted create
\* may still surface.
THEOREM AttemptIsRental == Spec => RentalSpec
<1>1. Init => R!Init
  BY DEF Init, R!Init
<1>2. AInv /\ [Next]_vars => [R!Next]_<<creates, inflight, live>>
  <2> SUFFICES ASSUME AInv, [Next]_vars PROVE [R!Next]_<<creates, inflight, live>>
    OBVIOUS
  <2>1. CASE \E t \in Tasks : CreateInstance(t)
    BY <2>1, CreateIsRent DEF R!Next
  <2>2. CASE \A t \in Tasks : ~CreateInstance(t)
    BY <2>2, OtherIsWorld
  <2> QED
    BY <2>1, <2>2
<1> QED
  BY <1>1, <1>2, AttemptInvariance, PTL DEF Spec, RentalSpec, R!Spec
=============================================================================
