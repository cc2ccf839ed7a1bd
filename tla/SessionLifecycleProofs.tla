----------------------- MODULE SessionLifecycleProofs -----------------------
(***************************************************************************)
(* Proofs about SessionLifecycle, for any set of handlers, with or without *)
(* crashes and whether or not the provider is bounded.                     *)
(***************************************************************************)
EXTENDS SessionLifecycle, TLAPS

(***************************************************************************)
(* The inductive invariant.  A create call is charged from the moment the  *)
(* task awaits it; a session that has not left Early has charged none, and *)
(* the retry count the watchdog holds across its awaits is the row's.  Ids *)
(* come from the calls already made, so none of them is None.  A bounded   *)
(* provider has settled every create before the watchdog gives a host up,  *)
(* and the inventory that opens the replacement was empty.                 *)
(***************************************************************************)
Early == {"preflight", "offer_selected", "confirming"}
Placed == BootStates \cup WorkStates \cup {"repairing"}
BootFailureCalls == {"f_delete", "f_list", "f_search"}
ReplacementCalls == {"f_create"} \cup BootFailureCalls
SnapCalls == {"c_offer", "r_get", "s_recover"}
SpecialCalls == CreateCalls \cup ReplacementCalls \cup SnapCalls \cup {"v_list"}

Creating(t, pc) == task[t].pc = pc /\ ~task[t].answered
Due(pc) == IF \E t \in Tasks : Creating(t, pc) THEN 1 ELSE 0

Charged == creates + Due("c_create") + Due("f_create") <= 1 + row.retry
EarlyUncharged ==
  row.state \in Early =>
    creates = 0 /\ \A t \in Tasks : ~Creating(t, "c_create") /\ ~Creating(t, "f_create")
OneConfirmer ==
  \A t, u \in Tasks : Creating(t, "c_create") /\ Creating(u, "c_create") => t = u
OnlyWatchdogReplaces ==
  \A t \in Tasks : task[t].pc \in ReplacementCalls => t = Watchdog
RetryHeld ==
  /\ task[Watchdog].pc \in {"f_delete", "f_list"} => task[Watchdog].snap.retry = row.retry
  /\ task[Watchdog].pc = "f_search" => row.retry = 0

\* The session object s suits the call pc that is awaited with it.
Suits(pc, s) ==
  /\ pc = "c_offer" => s.state \in Early
  /\ pc = "r_get" => s.instance # None
  /\ pc = "s_recover" => s.state \in WorkStates
SnapsSuit == \A t \in Tasks : Suits(task[t].pc, task[t].snap)

Known(r) == r.state \in Placed => r.instance # None

\* The ids that a row or a task can hold.
Ids == {None} \cup (1..creates \ inflight)
Numbered ==
  /\ live \cup inflight \subseteq 1..creates
  /\ live \cap inflight = {}
  /\ row.instance \in Ids
  /\ \A t \in Tasks :
       task[t].snap.instance \in Ids /\ task[t].ids \subseteq Ids \ {None}

AnyCreating(t) == Creating(t, "c_create") \/ Creating(t, "f_create")
OneCreate ==
  BoundedProvider =>
    \A t \in Tasks : AnyCreating(t) =>
      live = {} /\ inflight = {} /\ \A u \in Tasks : AnyCreating(u) => u = t

\* The watchdog has seen that its host is gone.
FoundAbsent ==
  \/ task[Watchdog].pc = "f_search"
  \/ Answered(Watchdog, "f_list") /\ Absent(Watchdog)
BootFailureAlone ==
  BoundedProvider =>
    /\ task[Watchdog].pc \in BootFailureCalls =>
         /\ inflight = {} /\ row.state \notin Early
         /\ \A t \in Tasks : ~AnyCreating(t)
    /\ FoundAbsent => live = {}

IInv ==
  /\ TypeOK
  /\ Charged
  /\ EarlyUncharged
  /\ OneConfirmer
  /\ OnlyWatchdogReplaces
  /\ RetryHeld
  /\ SnapsSuit
  /\ Known(row)
  /\ Numbered
  /\ OneCreate
  /\ BootFailureAlone

(***************************************************************************)
(* Every step but the start and the arrival of a create call is quiet: the *)
(* row keeps its retry count, stays out of Early and knows its host where  *)
(* it has one, no task begins to create, the watchdog gives a host up only *)
(* past the boot deadline, and recovery begins only with a process.        *)
(***************************************************************************)

\* No write forgets the host of a session that nobody asked to destroy, unless
\* the inventory showed that it is gone.
Shown(r) ==
  \/ r.instance # None \/ r.destroyRequested
  \/ row.instance = None /\ ~row.destroyRequested
  \/ FoundAbsent
  \/ Answered(Recovery, "v_list") /\ Absent(Recovery)

Keeps(r) ==
  /\ r \in Session /\ r.retry = row.retry
  /\ r.state \in Early => row.state \in Early
  /\ Known(r)
  /\ r.instance \in Ids /\ Shown(r)

\* Recovery starts to list only in a process that runs nothing else.
RecoveryEnters ==
  \/ task'[Recovery].pc # "v_list"
  \/ task[Recovery].pc = "v_list"
  \/ /\ ~task'[Recovery].answered
     /\ \A u \in Tasks \ {Recovery} : task'[u].pc = "idle"

Quiet ==
  /\ Keeps(row')
  /\ task' \in [Tasks -> Task]
  /\ \A t \in Tasks :
       /\ task'[t].pc \in CreateCalls /\ ~task'[t].answered => task'[t] = task[t]
       /\ task'[t].pc \in ReplacementCalls => t = Watchdog
       /\ Suits(task'[t].pc, task'[t].snap)
       /\ task'[t].snap.instance \in Ids
       /\ task'[t].ids \subseteq task[t].ids \cup (Ids' \ {None})
  /\ RecoveryEnters
  /\ task'[Watchdog].pc \in {"f_delete", "f_list"} => task'[Watchdog].snap.retry = row.retry
  /\ task'[Watchdog].pc = "f_search" => row.retry = 0
  /\ \/ task'[Watchdog].pc \notin BootFailureCalls
     \/ task[Watchdog].pc \in BootFailureCalls
     \/ BootDeadlinePassed /\ row'.state \notin Early
  /\ FoundAbsent' => FoundAbsent \/ live' = {}

---------------------------------------------------------------------------
LEMMA WatchdogIsTask == Watchdog \in Tasks /\ Recovery \in Tasks
BY DEF Tasks

\* An empty session object names no instance.
LEMMA NoneIsId == None \in Ids /\ NoSession.instance \in Ids
BY DEF Ids, NoSession, Selected, None

LEMMA IdsAreNat == Ids \subseteq Nat
BY DEF Ids, None

LEMMA SelectedType == Selected \in Session /\ NoSession \in Session
BY DEF Selected, NoSession, Session, SessionState, None

\* A new task record is well typed.
LEMMA AwaitType ==
  ASSUME NEW pc \in Pcs, NEW s \in Session
  PROVE  Await(pc, s) \in Task
BY DEF Await, Task

\* What is held of a session object keeps its state, its id and its retry count.
LEMMA HeldSession ==
  ASSUME NEW s \in Session
  PROVE  /\ Held(s) \in Session
         /\ Held(s).retry = s.retry /\ Held(s).state = s.state
         /\ Held(s).instance = s.instance
BY DEF Held, Session

LEMMA HeldNothing == Held(NoSession) = NoSession
<1> DEFINE s == NoSession
           h == Held(s)
<1>1. s \in Session /\ s.destroyRequested = FALSE /\ s.residual = {}
  BY SelectedType DEF NoSession, Selected
<1> HIDE DEF s
<1>2. h = [s EXCEPT !.destroyRequested = s.destroyRequested, !.residual = s.residual]
  BY <1>1 DEF Held
<1>3. h = s
  BY <1>1, <1>2 DEF Session
<1> QED
  BY <1>3 DEF s

LEMMA RestingType == Resting \in Task
BY SelectedType, AwaitType DEF Resting, Pcs

\* No legal write leads back into Early.
LEMMA LegalEarly ==
  ASSUME TypeOK, NEW s \in Early, Legal(s)
  PROVE  row.state \in Early
BY DEF TypeOK, Early, Legal, CanMove, SESSION_TRANSITIONS, SessionState, Session

\* A call of the boot failure that the watchdog may turn to.
FailureOrder(pc, s) ==
  /\ pc # "v_list"
  /\ pc \in {"f_delete", "f_list"} =>
       /\ s.retry = row.retry
       /\ task[Watchdog].pc \in BootFailureCalls
            \/ (BootDeadlinePassed /\ row'.state \notin Early)
  /\ pc = "f_search" => row.retry = 0 /\ FoundAbsent

\* A task that turns to a call which is not a create takes a quiet step, if what
\* it holds there is what the invariant asks.
LEMMA TurnQuiet ==
  ASSUME IInv, NEW t \in Tasks, NEW pc \in Pcs \ CreateCalls, NEW s \in Session,
         Keeps(row'), task' = [task EXCEPT ![t] = Await(pc, s)],
         pc \in ReplacementCalls => t = Watchdog,
         FailureOrder(pc, s), Suits(pc, s), s.instance \in Ids
  PROVE  Quiet
<1>1. Await(pc, s) \in Task
  BY AwaitType
<1>2. task \in [Tasks -> Task]
  BY DEF IInv, TypeOK
<1>3. task'[t] = Await(pc, s) /\ \A u \in Tasks \ {t} : task'[u] = task[u]
  BY <1>2
<1>4. /\ Await(pc, s).pc = pc /\ Await(pc, s).snap = s
      /\ Await(pc, s).ids = {} /\ Await(pc, s).answered = FALSE
  BY DEF Await
<1>5. task' \in [Tasks -> Task]
  BY <1>1, <1>2
<1>6. \A u \in Tasks :
        /\ task'[u].pc \in CreateCalls /\ ~task'[u].answered => task'[u] = task[u]
        /\ task'[u].pc \in ReplacementCalls => u = Watchdog
        /\ Suits(task'[u].pc, task'[u].snap)
        /\ task'[u].snap.instance \in Ids
        /\ task'[u].ids \subseteq task[u].ids \cup (Ids' \ {None})
  BY <1>3, <1>4 DEF IInv, OnlyWatchdogReplaces, SnapsSuit, Numbered
<1>7. /\ task'[Watchdog].pc \in {"f_delete", "f_list"}
           => task'[Watchdog].snap.retry = row.retry
      /\ task'[Watchdog].pc = "f_search" => row.retry = 0
  BY <1>3, <1>4, WatchdogIsTask DEF IInv, RetryHeld, FailureOrder
<1>8. \/ task'[Watchdog].pc \notin BootFailureCalls
      \/ task[Watchdog].pc \in BootFailureCalls
      \/ BootDeadlinePassed /\ row'.state \notin Early
  BY <1>3, <1>4, WatchdogIsTask DEF FailureOrder, FoundAbsent, Answered, BootFailureCalls
<1>9. FoundAbsent' => FoundAbsent \/ live' = {}
  BY <1>3, <1>4, WatchdogIsTask DEF FailureOrder, FoundAbsent, Answered, Absent
<1>10. RecoveryEnters
  BY <1>3, <1>4, WatchdogIsTask DEF FailureOrder, RecoveryEnters
<1> QED
  BY <1>5, <1>6, <1>7, <1>8, <1>9, <1>10 DEF Quiet

LEMMA MoveQuiet ==
  ASSUME IInv, NEW t \in Tasks, NEW pc \in Pcs \ CreateCalls, NEW s \in Session,
         NEW r, Keeps(r), Suspend(t, pc, s, r),
         pc \in ReplacementCalls => t = Watchdog,
         FailureOrder(pc, s), Suits(pc, s), s.instance \in Ids
  PROVE  Quiet
<1> DEFINE h == Held(s)
<1>1. h \in Session /\ h.retry = s.retry /\ h.state = s.state /\ h.instance = s.instance
  BY HeldSession
<1>2. Keeps(row') /\ task' = [task EXCEPT ![t] = Await(pc, h)]
  BY DEF Suspend
<1> HIDE DEF h
<1>3. FailureOrder(pc, h) /\ Suits(pc, h)
  BY <1>1 DEF FailureOrder, Suits
<1> QED
  BY <1>1, <1>2, <1>3, TurnQuiet

\* A call that needs nothing of the session object held across it.
LEMMA PlainCall ==
  ASSUME NEW pc \in Pcs \ SpecialCalls, NEW s
  PROVE  /\ pc \notin CreateCalls /\ pc \notin ReplacementCalls
         /\ FailureOrder(pc, s) /\ Suits(pc, s)
BY DEF SpecialCalls, ReplacementCalls, BootFailureCalls, SnapCalls, FailureOrder, Suits

\* A call that reads the session object after the await.
LEMMA SnapCall ==
  ASSUME NEW pc \in SnapCalls, NEW s
  PROVE  pc \in Pcs \ CreateCalls /\ pc \notin ReplacementCalls /\ FailureOrder(pc, s)
BY DEF Pcs, Waits, CreateCalls, ReplacementCalls, BootFailureCalls, SnapCalls, FailureOrder

LEMMA SuspendQuiet ==
  ASSUME IInv, NEW t \in Tasks, NEW pc \in Pcs \ SpecialCalls, NEW s \in Session,
         s.instance \in Ids, NEW r, Keeps(r), Suspend(t, pc, s, r)
  PROVE  Quiet
BY MoveQuiet, PlainCall

LEMMA SnapQuiet ==
  ASSUME IInv, NEW t \in Tasks, NEW pc \in SnapCalls, NEW s \in Session, Suits(pc, s),
         s.instance \in Ids, NEW r, Keeps(r), Suspend(t, pc, s, r)
  PROVE  Quiet
BY MoveQuiet, SnapCall

LEMMA EndQuiet ==
  ASSUME IInv, NEW t \in Tasks, NEW r, Keeps(r), End(t, r)
  PROVE  Quiet
<1>1. "idle" \in Pcs \ SpecialCalls
  BY DEF Pcs, CreateCalls, ReplacementCalls, SpecialCalls, BootFailureCalls, SnapCalls
<1>2. Suspend(t, "idle", NoSession, r)
  BY HeldNothing DEF End, Suspend, Resting
<1> QED
  BY <1>1, <1>2, SelectedType, NoneIsId, SuspendQuiet

LEMMA BootFailureBeginQuiet ==
  ASSUME IInv, NEW r, Keeps(r), BootDeadlinePassed, BootFailureBegin(r)
  PROVE  Quiet
<1>1. CASE r.state = "destroyed" /\ End(Watchdog, r)
  BY <1>1, EndQuiet, WatchdogIsTask
<1>2. CASE r.state # "destroyed"
  <2> DEFINE d == [r EXCEPT !.state = "destroying"]
             pc == IF r.instance = None THEN "f_list" ELSE "f_delete"
  <2>1. Suspend(Watchdog, pc, d, d)
    BY <1>2 DEF BootFailureBegin, End
  <2>2. /\ Keeps(d) /\ d \in Session /\ d.retry = row.retry /\ d.state = "destroying"
        /\ d.instance \in Ids
    BY DEF Keeps, Shown, Known, Session, SessionState, Early, Placed, BootStates, WorkStates
  <2>3. pc \in {"f_list", "f_delete"} /\ pc \in Pcs \ CreateCalls
    BY DEF Pcs, ListCalls, DeleteCalls, CreateCalls
  <2>4. row'.state \notin Early
    BY <2>1, <2>2 DEF Suspend, Early
  <2> HIDE DEF d, pc
  <2>5. FailureOrder(pc, d) /\ Suits(pc, d)
    BY <2>2, <2>3, <2>4 DEF FailureOrder, Suits
  <2> QED
    BY <2>1, <2>2, <2>3, <2>5, WatchdogIsTask, MoveQuiet
<1> QED
  BY <1>1, <1>2 DEF BootFailureBegin

LEMMA ReturnQuiet ==
  ASSUME IInv, NEW t \in Tasks, NEW r, NEW s, Keeps(r), Return(t, r, s)
  PROVE  Quiet
<1>1. CASE End(t, r)
  BY <1>1, EndQuiet
<1>2. CASE Suspend(Watchdog, "w_sleep", NoSession, r)
  <2>1. "w_sleep" \in Pcs \ SpecialCalls
    BY DEF Pcs, Waits, CreateCalls, ReplacementCalls, SpecialCalls, BootFailureCalls,
         SnapCalls
  <2> QED
    BY <1>2, <2>1, SuspendQuiet, SelectedType, NoneIsId, WatchdogIsTask
<1>3. CASE BootDeadlinePassed /\ BootFailureBegin(r)
  BY <1>3, BootFailureBeginQuiet
<1> QED
  BY <1>1, <1>2, <1>3 DEF Return, WatchdogReturn

LEMMA KeepsRow ==
  ASSUME IInv
  PROVE  Keeps(row)
BY DEF IInv, TypeOK, Keeps, Numbered, Shown

LEMMA RaiseQuiet ==
  ASSUME IInv, NEW t \in Tasks, Raise(t)
  PROVE  Quiet
BY KeepsRow, ReturnQuiet DEF Raise

---------------------------------------------------------------------------
(* The shared segments *)

LEMMA KeepsFinalized ==
  ASSUME NEW r, Keeps(r)
  PROVE  Keeps(Finalized(r))
<1>1. r \in Session
  BY DEF Keeps
<1> QED
  BY <1>1, NoneIsId
  DEF Keeps, Shown, Known, Finalized, Session, SessionState, Early, None, Placed, BootStates,
      WorkStates

LEMMA KeepsFailed ==
  ASSUME NEW r, Keeps(r), NEW m \in Ids, NEW ids \in SUBSET Nat
  PROVE  Keeps(Failed(r)) /\ Keeps(Unverified(r, m, ids))
<1>1. r \in Session /\ m \in Nat
  BY IdsAreNat DEF Keeps
<1>2. Keeps(Unverified(r, m, ids))
  BY <1>1
  DEF Keeps, Shown, Known, FailedWith, Unverified, Session, SessionState, Early, Placed,
      BootStates, WorkStates
<1>3. Keeps(Failed(r))
  BY <1>1
  DEF Keeps, Shown, Known, Failed, Session, SessionState, Early, Placed, BootStates,
      WorkStates
<1> QED
  BY <1>2, <1>3

\* A failed session may be written without its host once the host is gone.
LEMMA KeepsFailedWith ==
  ASSUME NEW r, Keeps(r), NEW m \in Ids, NEW ids \in SUBSET Nat,
         \/ m = r.instance \/ m # None
         \/ FoundAbsent
         \/ Answered(Recovery, "v_list") /\ Absent(Recovery)
  PROVE  Keeps(FailedWith(r, m, ids))
<1>1. r \in Session /\ m \in Nat
  BY IdsAreNat DEF Keeps
<1>2. Shown(FailedWith(r, m, ids))
  BY <1>1 DEF Keeps, Shown, FailedWith, Session
<1> QED
  BY <1>1, <1>2
  DEF Keeps, Known, FailedWith, Session, SessionState, Early, Placed, BootStates, WorkStates

LEMMA KeepsBooting ==
  ASSUME NEW r, Keeps(r), NEW m \in Ids \ {None}
  PROVE  Keeps(Booting(r, m))
<1>1. r \in Session /\ m \in Nat
  BY IdsAreNat DEF Keeps
<1> QED
  BY <1>1 DEF Keeps, Shown, Known, Booting, Session, SessionState, Early

LEMMA DestroyBeginQuiet ==
  ASSUME IInv, NEW t \in Tasks, NEW r, Keeps(r), DestroyBegin(t, r)
  PROVE  Quiet
<1> DEFINE q == IF r.state \in DestroyStates THEN r
                ELSE [r EXCEPT !.state = "destroy_requested", !.destroyRequested = TRUE]
           d == IF q.state = "destroying" THEN q
                ELSE [q EXCEPT !.state = "destroying", !.destroyRequested = TRUE]
           find == CASE r.state \in {"confirming", "creating"} -> "d_find_new"
                     [] r.state = "destroy_requested" -> "d_find_again"
                     [] OTHER -> "d_find"
<1>1. CASE r.state = "destroyed" /\ Return(t, r, "destroyed")
  BY <1>1, ReturnQuiet
<1>2. CASE Return(t, Finalized(r), "destroyed")
  BY <1>2, KeepsFinalized, ReturnQuiet
<1>3. r \in Session
  BY DEF Keeps
<1>4. Keeps(q) /\ q \in Session /\ q.instance \in Ids
  BY <1>3
  DEF Keeps, Shown, Known, Session, SessionState, Early, DestroyStates, Placed, BootStates,
      WorkStates
<1>5. Keeps(d) /\ d \in Session /\ d.instance \in Ids
  BY <1>4 DEF Keeps, Shown, Known, Session, SessionState, Early, Placed, BootStates, WorkStates
<1>6. find \in {"d_find_new", "d_find_again", "d_find"}
  OBVIOUS
<1>7. find \in Pcs \ SpecialCalls
  BY <1>6 DEF Pcs, ListCalls, CreateCalls, ReplacementCalls, SpecialCalls, BootFailureCalls,
         SnapCalls
<1>8. "d_delete" \in Pcs \ SpecialCalls
  BY DEF Pcs, DeleteCalls, CreateCalls, ReplacementCalls, SpecialCalls, BootFailureCalls,
         SnapCalls
<1>9. \/ r.state = "destroyed" /\ Return(t, r, "destroyed")
      \/ Return(t, Finalized(r), "destroyed")
      \/ Suspend(t, "d_delete", d, d)
      \/ Suspend(t, find, q, q)
  BY DEF DestroyBegin
<1> HIDE DEF q, d, find
<1>10. CASE Suspend(t, "d_delete", d, d)
  BY <1>5, <1>8, <1>10, SuspendQuiet
<1>11. CASE Suspend(t, find, q, q)
  BY <1>4, <1>7, <1>11, SuspendQuiet
<1> QED
  BY <1>1, <1>2, <1>9, <1>10, <1>11

LEMMA FinalizeQuiet ==
  ASSUME IInv, NEW t \in Tasks, FinalizeSessionDestroyed(t)
  PROVE  Quiet
BY KeepsRow, KeepsFinalized, ReturnQuiet, RaiseQuiet DEF FinalizeSessionDestroyed

LEMMA FailDestroyQuiet ==
  ASSUME IInv, NEW t \in Tasks, NEW m \in Ids, NEW ids \in SUBSET Nat,
         FailDestroy(t, m, ids)
  PROVE  Quiet
BY KeepsRow, KeepsFailed, ReturnQuiet, RaiseQuiet DEF FailDestroy

LEMMA ReconcileBeginQuiet ==
  ASSUME IInv, NEW t \in Tasks, ReconcileBegin(t)
  PROVE  Quiet
<1>1. "r_list" \in Pcs \ SpecialCalls /\ "r_get" \in SnapCalls
  BY DEF Pcs, ListCalls, CreateCalls, ReplacementCalls, SpecialCalls, BootFailureCalls,
         SnapCalls
<1>2. row \in Session /\ row.instance \in Ids
  BY DEF IInv, TypeOK, Numbered
<1>3. CASE row.instance # None /\ Suspend(t, "r_get", row, row)
  <2>1. Suits("r_get", row)
    BY <1>3 DEF Suits
  <2> QED
    BY <1>1, <1>2, <1>3, <2>1, KeepsRow, SnapQuiet
<1> QED
  BY <1>1, <1>2, <1>3, KeepsRow, ReturnQuiet, DestroyBeginQuiet, SuspendQuiet
  DEF ReconcileBegin

\* The session object written is r in a state s that the row may legally be in.
LEMMA ActivateQuiet ==
  ASSUME IInv, NEW t \in Tasks, NEW r, Keeps(r), NEW s \in SessionState,
         s \in Early => row.state \in Early, NEW m \in Ids \ {None}, Activate(t, r, s, m)
  PROVE  Quiet
<1> DEFINE a == [r EXCEPT !.state = s, !.instance = m, !.residual = {}]
<1>1. r \in Session /\ m \in Nat
  BY IdsAreNat DEF Keeps
<1>2. Keeps(a) /\ a \in Session /\ a.state = s /\ a.instance \in Ids
  BY <1>1 DEF Keeps, Shown, Known, Session
<1>3. "b_health" \in Pcs \ SpecialCalls /\ "s_recover" \in SnapCalls
  BY DEF Pcs, Waits, CreateCalls, ReplacementCalls, SpecialCalls, BootFailureCalls,
         SnapCalls
<1>4. \/ Suspend(t, "b_health", a, a)
      \/ s \in WorkStates /\ Suspend(t, "s_recover", a, a)
      \/ Return(t, a, s)
  BY DEF Activate
<1> HIDE DEF a
<1>5. s \in WorkStates => Suits("s_recover", a)
  BY <1>2 DEF Suits
<1> QED
  BY <1>2, <1>3, <1>4, <1>5, SuspendQuiet, SnapQuiet, ReturnQuiet

---------------------------------------------------------------------------
(* The steps of every task *)

\* What a task holds is well typed.
LEMMA HeldType ==
  ASSUME IInv, NEW t \in Tasks
  PROVE  /\ task[t].snap \in Session
         /\ task[t].snap.state \in SessionState
         /\ task[t].snap.instance \in Ids
         /\ task[t].ids \in SUBSET Nat /\ task[t].ids \subseteq Ids \ {None}
         /\ Suits(task[t].pc, task[t].snap)
         /\ row \in Session
         /\ row.instance \in Ids
         /\ row.residual \in SUBSET Nat
BY DEF IInv, TypeOK, Task, Session, SnapsSuit, Numbered

LEMMA DestroyFoundQuiet ==
  ASSUME IInv, NEW t \in Tasks, DestroyFound(t)
  PROVE  Quiet
<1> DEFINE held == task[t].snap
           d(m) == [row EXCEPT !.state = "destroying", !.instance = m, !.residual = {},
                               !.destroyRequested = @ \/ held.state # "destroying"]
<1>1. \/ FailDestroy(t, row.instance, row.residual)
      \/ \E m \in task[t].ids : FailDestroy(t, m, task[t].ids)
      \/ \E m \in task[t].ids : Suspend(t, "d_delete", d(m), d(m))
      \/ Raise(t)
      \/ Return(t, row, held.state)
      \/ FinalizeSessionDestroyed(t)
  BY DEF DestroyFound
<1>2. ASSUME NEW m \in Ids \ {None}
      PROVE  Keeps(d(m)) /\ d(m) \in Session /\ d(m).instance \in Ids
  BY HeldType, IdsAreNat
  DEF Keeps, Shown, Known, Session, SessionState, Early, Placed, BootStates, WorkStates
<1>3. "d_delete" \in Pcs \ SpecialCalls
  BY DEF Pcs, DeleteCalls, CreateCalls, ReplacementCalls, SpecialCalls, BootFailureCalls,
         SnapCalls
<1> HIDE DEF d
<1> QED
  BY <1>1, <1>2, <1>3, HeldType, KeepsRow, FailDestroyQuiet, SuspendQuiet, RaiseQuiet,
     ReturnQuiet, FinalizeQuiet

LEMMA DestroyListedQuiet ==
  ASSUME IInv, NEW t \in Tasks, DestroyListed(t)
  PROVE  Quiet
<1>1. {task[t].snap.instance} \in SUBSET Nat
  BY HeldType, IdsAreNat
<1> QED
  BY <1>1, HeldType, FailDestroyQuiet, FinalizeQuiet DEF DestroyListed

LEMMA ReconcileListedQuiet ==
  ASSUME IInv, NEW t \in Tasks, ReconcileListed(t)
  PROVE  Quiet
<1>1. \/ Return(t, row, task[t].snap.state)
      \/ \E m \in task[t].ids : Return(t, FailedWith(row, m, task[t].ids), "failed")
      \/ Raise(t)
      \/ \E m \in task[t].ids : Return(t, Booting(row, m), "bootstrapping")
      \/ \E m \in task[t].ids : Activate(t, Booting(row, m), "bootstrapping", m)
  BY DEF ReconcileListed
<1>2. \A m \in task[t].ids : Keeps(FailedWith(row, m, task[t].ids)) /\ Keeps(Booting(row, m))
  BY HeldType, KeepsRow, KeepsFailedWith, KeepsBooting
<1>3. "bootstrapping" \in SessionState /\ "bootstrapping" \notin Early
  BY DEF SessionState, Early
<1> QED
  BY <1>1, <1>2, <1>3, HeldType, KeepsRow, ReturnQuiet, RaiseQuiet, ActivateQuiet

LEMMA ReconcileGotQuiet ==
  ASSUME IInv, NEW t \in Tasks, ReconcileGot(t)
  PROVE  Quiet
<1>1. \/ Return(t, row, task[t].snap.state)
      \/ /\ Legal(task[t].snap.state)
         /\ Activate(t, row, task[t].snap.state, task[t].snap.instance)
      \/ Raise(t)
  BY DEF ReconcileGot
<1>2. TypeOK
  BY DEF IInv
<1>3. task[t].snap.instance # None
  BY HeldType DEF ReconcileGot, Answered, Suits
<1> QED
  BY <1>1, <1>2, <1>3, HeldType, KeepsRow, ReturnQuiet, RaiseQuiet, ActivateQuiet, LegalEarly

\* Writing only another state.
LEMMA KeepsState ==
  ASSUME IInv, NEW s \in SessionState \ Early, s \in Placed => row.state \in Placed
  PROVE  Keeps([row EXCEPT !.state = s])
<1>1. row \in Session /\ Known(row) /\ row.instance \in Ids
  BY HeldType, WatchdogIsTask DEF IInv
<1> QED
  BY <1>1 DEF Keeps, Shown, Known, Session

\* The legal moves to a state with a host, but for bootstrapping and repairing,
\* start from one.
LEMMA LegalPlaced ==
  ASSUME TypeOK, NEW s \in WorkStates \cup {"validating"}, Legal(s)
  PROVE  row.state \in Placed
BY DEF TypeOK, Legal, CanMove, SESSION_TRANSITIONS, SessionState, Session, Placed,
       BootStates, WorkStates

LEMMA BootstrapHealthQuiet ==
  ASSUME IInv, NEW t \in Tasks, BootstrapHealth(t)
  PROVE  Quiet
<1>1. {"b_apply", "b_deadline"} \subseteq Pcs \ SpecialCalls
  BY DEF Pcs, Waits, CreateCalls, ReplacementCalls, SpecialCalls, BootFailureCalls,
         SnapCalls
<1>2. "provisioning" \in SessionState \ Early
  BY DEF SessionState, Early
<1>3. row.state = "bootstrapping" => row.state \in Placed
  BY DEF Placed, BootStates
<1> QED
  BY <1>1, <1>2, <1>3, KeepsRow, KeepsState, SelectedType, NoneIsId, SuspendQuiet, RaiseQuiet
  DEF BootstrapHealth

LEMMA BootstrapApplyQuiet ==
  ASSUME IInv, NEW t \in Tasks, BootstrapApply(t)
  PROVE  Quiet
<1>1. "b_deadline" \in Pcs \ SpecialCalls
  BY DEF Pcs, Waits, CreateCalls, ReplacementCalls, SpecialCalls, BootFailureCalls,
         SnapCalls
<1>2. "validating" \in SessionState \ Early
  BY DEF SessionState, Early
<1>3. Legal("validating") => row.state \in Placed
  BY LegalPlaced DEF IInv
<1> QED
  BY <1>1, <1>2, <1>3, KeepsState, SelectedType, NoneIsId, SuspendQuiet, RaiseQuiet
  DEF BootstrapApply

LEMMA BootstrapDeadlineQuiet ==
  ASSUME IInv, NEW t \in Tasks, BootstrapDeadline(t)
  PROVE  Quiet
<1>1. "ready" \in SessionState \ Early
  BY DEF SessionState, Early
<1>2. Legal("ready") => row.state \in Placed
  BY LegalPlaced DEF IInv, WorkStates
<1> QED
  BY <1>1, <1>2, KeepsState, ReturnQuiet, RaiseQuiet DEF BootstrapDeadline

LEMMA RecoverSessionQuiet ==
  ASSUME IInv, NEW t \in Tasks, RecoverSession(t)
  PROVE  Quiet
<1> DEFINE s == task[t].snap.state
           r == [row EXCEPT !.state = s]
<1>1. Raise(t) \/ (Legal(s) /\ (Return(t, r, s) \/ Suspend(t, "s_resume", NoSession, r)))
  BY DEF RecoverSession
<1>2. ASSUME Legal(s) PROVE Keeps(r)
  <2>1. s \in WorkStates
    BY HeldType DEF RecoverSession, Waiting, Suits
  <2>2. row.state \in Placed
    BY <1>2, <2>1, LegalPlaced DEF IInv
  <2>3. s \in SessionState \ Early
    BY <2>1 DEF WorkStates, SessionState, Early
  <2> HIDE DEF s
  <2> QED
    BY <2>2, <2>3, KeepsState
<1>3. "s_resume" \in Pcs \ SpecialCalls
  BY DEF Pcs, Waits, CreateCalls, ReplacementCalls, SpecialCalls, BootFailureCalls,
         SnapCalls
<1> HIDE DEF s, r
<1> QED
  BY <1>1, <1>2, <1>3, SelectedType, NoneIsId, SuspendQuiet, ReturnQuiet, RaiseQuiet

LEMMA ResumeQuiet ==
  ASSUME IInv, NEW t \in Tasks, Resume(t)
  PROVE  Quiet /\ UNCHANGED <<live, inflight, creates>>
<1>1. UNCHANGED <<live, inflight, creates>>
  BY DEF Resume, DestroyFound, DestroyListed, ReconcileListed, ReconcileGot,
         BootstrapHealth, BootstrapApply, BootstrapDeadline, RecoverSession, ResumeSession
<1>2. CASE ResumeSession(t)
  BY <1>2, RaiseQuiet DEF ResumeSession
<1> QED
  BY <1>1, <1>2, DestroyFoundQuiet, DestroyListedQuiet, ReconcileListedQuiet,
     ReconcileGotQuiet, BootstrapHealthQuiet, BootstrapApplyQuiet,
     BootstrapDeadlineQuiet, RecoverSessionQuiet
  DEF Resume

---------------------------------------------------------------------------
(* The boot watchdog *)

LEMMA GiveUpQuiet ==
  ASSUME IInv, NEW m \in Ids, NEW ids \in SUBSET Nat, GiveUp(m, ids),
         m = row.instance \/ m # None \/ FoundAbsent
  PROVE  Quiet
BY WatchdogIsTask, KeepsRow, KeepsFailedWith, EndQuiet DEF GiveUp

LEMMA AdoptReplacementQuiet ==
  ASSUME IInv, NEW r, Keeps(r), r.instance # None, AdoptReplacement(r)
  PROVE  Quiet
<1>1. "r_get" \in SnapCalls /\ Suits("r_get", r)
  BY DEF SnapCalls, Suits
<1>2. r \in Session /\ r.instance \in Ids
  BY DEF Keeps
<1> QED
  BY <1>1, <1>2, WatchdogIsTask, KeepsRow, SnapQuiet, EndQuiet DEF AdoptReplacement

\* Moving on to another call of the replacement.
LEMMA ReplacementQuiet ==
  ASSUME IInv, NEW pc \in {"f_list", "f_search"}, NEW s \in Session,
         pc = "f_list" => s.retry = row.retry,
         pc = "f_search" => row.retry = 0 /\ FoundAbsent,
         task[Watchdog].pc \in BootFailureCalls, s.instance \in Ids,
         Suspend(Watchdog, pc, s, row)
  PROVE  Quiet
<1>1. pc \in Pcs \ CreateCalls
  BY DEF Pcs, ListCalls, Waits, CreateCalls
<1>2. FailureOrder(pc, s) /\ Suits(pc, s)
  BY DEF FailureOrder, Suits
<1> QED
  BY <1>1, <1>2, WatchdogIsTask, KeepsRow, MoveQuiet

LEMMA BootFailureDeletedQuiet ==
  ASSUME IInv, BootFailureDeleted
  PROVE  Quiet
<1> DEFINE held == task[Watchdog].snap
<1>1. /\ held \in Session /\ held.instance \in Ids /\ row.instance \in Ids
      /\ {held.instance} \in SUBSET Nat
  BY HeldType, WatchdogIsTask, IdsAreNat
<1>2. held.retry = row.retry /\ task[Watchdog].pc \in BootFailureCalls
  BY DEF BootFailureDeleted, Answered, IInv, RetryHeld, BootFailureCalls
<1>3. GiveUp(row.instance, {held.instance}) \/ Suspend(Watchdog, "f_list", held, row)
  BY DEF BootFailureDeleted
<1> HIDE DEF held
<1> QED
  BY <1>1, <1>2, <1>3, GiveUpQuiet, ReplacementQuiet

LEMMA BootFailureListedQuiet ==
  ASSUME IInv, BootFailureListed
  PROVE  Quiet
<1> DEFINE held == task[Watchdog].snap
<1>1. /\ held \in Session /\ row.instance \in Ids /\ None \in Ids
      /\ {held.instance} \ {None} \in SUBSET Nat /\ row.residual \in SUBSET Nat
  BY HeldType, WatchdogIsTask, IdsAreNat, NoneIsId
<1>2. held.retry = row.retry /\ task[Watchdog].pc \in BootFailureCalls
  BY DEF BootFailureListed, Answered, IInv, RetryHeld, BootFailureCalls
<1>3. \/ GiveUp(row.instance, {held.instance} \ {None})
      \/ FoundAbsent /\ GiveUp(None, {})
      \/ FoundAbsent /\ GiveUp(None, row.residual)
      \/ held.retry = 0 /\ FoundAbsent /\ Suspend(Watchdog, "f_search", NoSession, row)
  BY DEF BootFailureListed, FoundAbsent
<1> HIDE DEF held
<1> QED
  BY <1>1, <1>2, <1>3, GiveUpQuiet, ReplacementQuiet, SelectedType, NoneIsId

LEMMA BootFailureCreatedQuiet ==
  ASSUME IInv, BootFailureCreated
  PROVE  Quiet
<1>1. PICK m \in task[Watchdog].ids : AdoptReplacement(Booting(row, m))
  BY DEF BootFailureCreated
<1>2. m \in Ids \ {None} /\ row \in Session
  BY HeldType, WatchdogIsTask
<1>3. Keeps(Booting(row, m)) /\ Booting(row, m).instance # None
  BY <1>2, KeepsRow, KeepsBooting DEF Booting, Session
<1> QED
  BY <1>1, <1>3, AdoptReplacementQuiet

LEMMA BootFailureLookedUpQuiet ==
  ASSUME IInv, BootFailureLookedUp
  PROVE  Quiet
<1> DEFINE r(m) == [Booting(row, m) EXCEPT !.residual = {}]
<1>1. \/ GiveUp(row.instance, row.residual)
      \/ \E m \in task[Watchdog].ids : AdoptReplacement(r(m))
      \/ \E m \in task[Watchdog].ids : GiveUp(m, task[Watchdog].ids)
  BY DEF BootFailureLookedUp
<1>2. ASSUME NEW m \in Ids \ {None} PROVE Keeps(r(m)) /\ r(m).instance # None
  BY HeldType, WatchdogIsTask, IdsAreNat
  DEF Keeps, Shown, Known, Booting, Session, SessionState, Early
<1> HIDE DEF r
<1> QED
  BY <1>1, <1>2, HeldType, WatchdogIsTask, GiveUpQuiet, AdoptReplacementQuiet

---------------------------------------------------------------------------
(* Requests *)

LEMMA HandlerIsTask == \A t \in Handlers : t \in Tasks
BY DEF Tasks

LEMMA ConfirmBeginQuiet ==
  ASSUME IInv, NEW t \in Tasks, ConfirmBegin(t)
  PROVE  Quiet
<1>1. "c_offer" \in SnapCalls
  BY DEF SnapCalls
<1>2. row \in Session /\ Suits("c_offer", row) /\ row.instance \in Ids
  BY HeldType DEF ConfirmBegin, Early, Suits
<1>3. Keeps(Failed(row))
  BY KeepsRow, KeepsFailed, NoneIsId
<1>4. Suspend(t, "c_offer", row, row) \/ End(t, Failed(row))
  BY DEF ConfirmBegin
<1> QED
  BY <1>1, <1>2, <1>3, <1>4, KeepsRow, SnapQuiet, EndQuiet

\* A watchdog that starts to poll.
LEMMA ScheduleQuiet ==
  ASSUME IInv, NEW t \in Handlers, NEW r, Keeps(r), ScheduleSessionWatchdog(t, r)
  PROVE  Quiet
<1>1. Resting \in Task /\ Await("w_sleep", NoSession) \in Task
  BY RestingType, AwaitType, SelectedType DEF Pcs, Waits
<1>2. task \in [Tasks -> Task] /\ t \in Tasks /\ t # Watchdog /\ Watchdog \in Tasks
  BY HandlerIsTask, WatchdogIsTask, TasksDistinct DEF IInv, TypeOK
<1>3. /\ row' = r
      /\ task' = [task EXCEPT ![t] = Resting,
                   ![Watchdog] = IF @.pc = "idle" THEN Await("w_sleep", NoSession) ELSE @]
  BY DEF ScheduleSessionWatchdog
<1>4. /\ task'[t] = Resting
      /\ task'[Watchdog] = Await("w_sleep", NoSession) \/ task'[Watchdog] = task[Watchdog]
      /\ \A u \in Tasks \ {t, Watchdog} : task'[u] = task[u]
  BY <1>2, <1>3
<1>5. /\ Resting.pc = "idle" /\ Resting.ids = {} /\ Resting.snap = NoSession
      /\ Await("w_sleep", NoSession).pc = "w_sleep" /\ Await("w_sleep", NoSession).ids = {}
      /\ Await("w_sleep", NoSession).snap = NoSession
  BY DEF Resting, Await
<1>6. Keeps(row') /\ task' \in [Tasks -> Task]
  BY <1>1, <1>2, <1>3
<1>7. \A u \in Tasks :
        /\ task'[u].pc \in CreateCalls /\ ~task'[u].answered => task'[u] = task[u]
        /\ task'[u].pc \in ReplacementCalls => u = Watchdog
        /\ Suits(task'[u].pc, task'[u].snap)
        /\ task'[u].snap.instance \in Ids
        /\ task'[u].ids \subseteq task[u].ids \cup (Ids' \ {None})
  BY <1>4, <1>5, NoneIsId
  DEF IInv, OnlyWatchdogReplaces, SnapsSuit, Suits, CreateCalls, ReplacementCalls,
      BootFailureCalls, Numbered
<1>8. /\ task'[Watchdog].pc \in {"f_delete", "f_list"}
           => task'[Watchdog].snap.retry = row.retry
      /\ task'[Watchdog].pc = "f_search" => row.retry = 0
  BY <1>2, <1>4, <1>5 DEF IInv, RetryHeld
<1>9. /\ task'[Watchdog].pc \notin BootFailureCalls \/ task[Watchdog].pc \in BootFailureCalls
      /\ FoundAbsent' => FoundAbsent
      /\ RecoveryEnters
  BY <1>2, <1>4, <1>5, WatchdogIsTask, TasksDistinct
  DEF BootFailureCalls, FoundAbsent, Answered, Absent, RecoveryEnters
<1> QED
  BY <1>6, <1>7, <1>8, <1>9 DEF Quiet

LEMMA FinishCreatedQuiet ==
  ASSUME IInv, NEW t \in Handlers, NEW m \in Ids \ {None}, FinishCreated(t, m)
  PROVE  Quiet
<1> DEFINE r == [row EXCEPT !.instance = m]
<1>1. DestroyBegin(t, r) \/ End(t, row) \/ ScheduleSessionWatchdog(t, Booting(row, m))
  BY DEF FinishCreated
<1>2. Keeps(r)
  BY HeldType, HandlerIsTask, IdsAreNat DEF Keeps, Shown, Known, Session
<1> HIDE DEF r
<1> QED
  BY <1>1, <1>2, HandlerIsTask, KeepsRow, KeepsBooting, DestroyBeginQuiet, EndQuiet,
     ScheduleQuiet

LEMMA ConfirmCreatedQuiet ==
  ASSUME IInv, NEW t \in Handlers, ConfirmCreated(t)
  PROVE  Quiet
BY HeldType, HandlerIsTask, FinishCreatedQuiet DEF ConfirmCreated

LEMMA ConfirmLookedUpQuiet ==
  ASSUME IInv, NEW t \in Handlers, ConfirmLookedUp(t)
  PROVE  Quiet
<1>1. Keeps([row EXCEPT !.state = "creating"])
  BY KeepsState DEF SessionState, Early, Placed, BootStates, WorkStates
<1>2. Keeps(Failed(row))
  BY KeepsRow, KeepsFailed, NoneIsId
<1> QED
  BY <1>1, <1>2, HeldType, HandlerIsTask, KeepsRow, FinishCreatedQuiet, ScheduleQuiet,
     EndQuiet
  DEF ConfirmLookedUp

LEMMA SubmitJobQuiet ==
  ASSUME IInv, NEW t \in Tasks, SubmitJob(t)
  PROVE  Quiet
<1>1. {"j_delta", "j_same"} \subseteq Pcs \ SpecialCalls
  BY DEF Pcs, Waits, CreateCalls, ReplacementCalls, SpecialCalls, BootFailureCalls,
         SnapCalls
<1>2. Keeps([row EXCEPT !.state = "provisioning"]) /\ Keeps([row EXCEPT !.state = "running"])
  BY KeepsState DEF SubmitJob, SessionState, Early, Placed, WorkStates
<1> QED
  BY <1>1, <1>2, SelectedType, NoneIsId, SuspendQuiet, EndQuiet DEF SubmitJob

LEMMA SubmitAppliedQuiet ==
  ASSUME IInv, NEW t \in Tasks, SubmitApplied(t)
  PROVE  Quiet
<1>1. ASSUME Legal("validating") \/ Legal("running")
      PROVE  Keeps([row EXCEPT !.state = "running"])
  <2>1. row.state \in Placed
    BY <1>1, LegalPlaced DEF IInv, WorkStates
  <2> QED
    BY <2>1, KeepsState DEF SessionState, Early
<1>2. Keeps(Failed(row))
  BY KeepsRow, KeepsFailed, NoneIsId
<1> QED
  BY <1>1, <1>2, KeepsRow, EndQuiet DEF SubmitApplied

LEMMA RecoverListedQuiet ==
  ASSUME IInv, RecoverListed
  PROVE  Quiet
<1> DEFINE r(m) == IF row.state = "creating" THEN Booting(row, m) ELSE row
           ids == task[Recovery].ids
<1>1. Recovery \in Tasks
  BY DEF Tasks
<1>2. \/ End(Recovery, row)
      \/ DestroyBegin(Recovery, row)
      \/ End(Recovery, Finalized(row))
      \/ Absent(Recovery) /\ End(Recovery, FailedWith(row, None, {}))
      \/ \E m \in ids : End(Recovery, FailedWith(row, m, ids))
      \/ \E m \in ids : End(Recovery, r(m))
      \/ \E m \in ids : Activate(Recovery, r(m), r(m).state, m)
  BY DEF RecoverListed, Absent
<1>3. ids \in SUBSET Nat /\ ids \subseteq Ids \ {None} /\ None \in Ids
  BY <1>1, HeldType, NoneIsId
<1>4. ASSUME NEW m \in Ids \ {None} PROVE Keeps(r(m))
  BY KeepsRow, KeepsBooting
<1>5. /\ Keeps(Finalized(row))
      /\ Absent(Recovery) => Keeps(FailedWith(row, None, {}))
      /\ \A m \in ids : Keeps(FailedWith(row, m, ids))
  BY <1>3, KeepsRow, KeepsFinalized, KeepsFailedWith DEF RecoverListed
<1> HIDE DEF r, ids
<1>6. ASSUME NEW m \in ids, Activate(Recovery, r(m), r(m).state, m) PROVE Quiet
  <2>1. m \in Ids \ {None} /\ Keeps(r(m))
    BY <1>3, <1>4
  <2>2. r(m).state \in SessionState /\ (r(m).state \in Early => row.state \in Early)
    BY <2>1 DEF Keeps, Session
  <2> QED
    BY <1>1, <1>6, <2>1, <2>2, ActivateQuiet
<1>7. ASSUME NEW m \in ids, End(Recovery, r(m)) PROVE Quiet
  BY <1>1, <1>3, <1>4, <1>7, EndQuiet
<1> QED
  BY <1>1, <1>2, <1>5, <1>6, <1>7, KeepsRow, EndQuiet, DestroyBeginQuiet

---------------------------------------------------------------------------
(* Steps that leave the tasks alone or reset them *)

LEMMA StillQuiet ==
  ASSUME IInv, task' = task, Keeps(row')
  PROVE  Quiet
<1>1. task \in [Tasks -> Task]
  BY DEF IInv, TypeOK
<1> QED
  BY <1>1
  DEF IInv, OnlyWatchdogReplaces, RetryHeld, SnapsSuit, Numbered, Quiet, FoundAbsent, Answered,
      Absent, RecoveryEnters

LEMMA FinishRemoteJobQuiet ==
  ASSUME IInv, FinishRemoteJob
  PROVE  Quiet
<1>1. Keeps([row EXCEPT !.state = "harvesting"]) /\ Keeps([row EXCEPT !.state = "ready"])
  BY KeepsState DEF FinishRemoteJob, SessionState, Early, Placed, WorkStates
<1> QED
  BY <1>1, StillQuiet DEF FinishRemoteJob

LEMMA CrashQuiet ==
  ASSUME IInv, Crash
  PROVE  Quiet
<1>1. row \in Session /\ row.instance \in Ids
  BY HeldType, WatchdogIsTask
<1>2. Keeps(row')
  <2>1. CASE row' = row
    BY <2>1, KeepsRow
  <2>2. CASE \E h \in Handlers : /\ Waiting(h, "c_offer") /\ row.state = task[h].snap.state
                               /\ row' = [row EXCEPT !.state = "confirming"]
    <3>1. PICK h \in Handlers : /\ Waiting(h, "c_offer") /\ row.state = task[h].snap.state
                               /\ row' = [row EXCEPT !.state = "confirming"]
      BY <2>2
    <3>2. row.state \in Early
      BY <3>1, HandlerIsTask, HeldType DEF Waiting, Suits
    <3> QED
      BY <1>1, <3>1, <3>2
      DEF Keeps, Shown, Known, Session, SessionState, Placed, BootStates, WorkStates
  <2>3. CASE \E h \in Handlers : \E m \in task[h].ids : row' = [row EXCEPT !.instance = m]
    <3>1. PICK h \in Handlers : \E m \in task[h].ids : row' = [row EXCEPT !.instance = m]
      BY <2>3
    <3>2. \A m \in task[h].ids : m \in Nat /\ m \in Ids \ {None}
      BY <3>1, HandlerIsTask, HeldType
    <3> QED
      BY <1>1, <3>1, <3>2 DEF Keeps, Shown, Known, Session
  <2>4. CASE \E s \in {"destroy_requested", "destroying"} :
               row' = [row EXCEPT !.state = s, !.destroyRequested = TRUE]
    BY <1>1, <2>4
    DEF Keeps, Shown, Known, Session, SessionState, Early, Placed, BootStates, WorkStates
  <2>5. CASE /\ Legal("validating")
             /\ \E s \in {"validating", "ready"} : row' = [row EXCEPT !.state = s]
    <3>1. row.state \in Placed
      BY <2>5, LegalPlaced DEF IInv
    <3> QED
      BY <2>5, <3>1, KeepsState DEF SessionState, Early
  <2>6. CASE row' = Failed(row)
    BY <2>6, KeepsRow, KeepsFailed, NoneIsId
  <2> QED
    BY <2>1, <2>2, <2>3, <2>4, <2>5, <2>6 DEF Crash, HalfWritten
<1>3. Resting \in Task /\ Await("v_list", NoSession) \in Task
  BY RestingType, AwaitType, SelectedType DEF Pcs, ListCalls
<1>4. task' = [t \in Tasks |-> IF t = Recovery /\ row'.state # "destroyed"
                               THEN Await("v_list", NoSession) ELSE Resting]
  BY DEF Crash, Restarted
<1>5. \A t \in Tasks : task'[t] = Await("v_list", NoSession) \/ task'[t] = Resting
  BY <1>4
<1>6. /\ Resting.pc = "idle" /\ Resting.ids = {} /\ Resting.snap = NoSession
      /\ Await("v_list", NoSession).pc = "v_list" /\ Await("v_list", NoSession).ids = {}
      /\ Await("v_list", NoSession).snap = NoSession
      /\ ~Await("v_list", NoSession).answered
  BY DEF Resting, Await
<1>7. task' \in [Tasks -> Task]
  BY <1>3, <1>4
<1>8. RecoveryEnters
  BY <1>4, <1>6, WatchdogIsTask DEF RecoveryEnters
<1>9. \A t \in Tasks :
        /\ task'[t].pc \in {"idle", "v_list"} /\ task'[t].ids = {}
        /\ task'[t].snap.instance \in Ids
  BY <1>5, <1>6, NoneIsId
<1>10. task'[Watchdog].pc = "idle"
  BY <1>4, <1>6, WatchdogIsTask, TasksDistinct
<1> QED
  BY <1>2, <1>7, <1>8, <1>9, <1>10, WatchdogIsTask
  DEF Quiet, CreateCalls, ReplacementCalls, BootFailureCalls, Suits, FoundAbsent, Answered

---------------------------------------------------------------------------
(* The provider *)

\* An answer changes what it answers, of that task.
LEMMA AnswerShape ==
  ASSUME IInv, NEW t \in Tasks, NEW good \in BOOLEAN, NEW ids \in SUBSET Nat,
         Answer(t, good, ids)
  PROVE  /\ task'[t].answered /\ task'[t].ok = good /\ task'[t].ids = ids
         /\ task'[t].pc = task[t].pc /\ task'[t].snap = task[t].snap
         /\ task'[t] \in Task
         /\ \A u \in Tasks \ {t} : task'[u] = task[u]
<1>1. task \in [Tasks -> Task] /\ task[t] \in Task
  BY DEF IInv, TypeOK
<1>2. task' = [task EXCEPT ![t].answered = TRUE, ![t].ok = good, ![t].ids = ids]
  BY DEF Answer
<1>3. task'[t] = [task[t] EXCEPT !.answered = TRUE, !.ok = good, !.ids = ids]
  BY <1>1, <1>2
<1>4. \A u \in Tasks \ {t} : task'[u] = task[u]
  BY <1>1, <1>2
<1> QED
  BY <1>1, <1>3, <1>4 DEF Task

LEMMA AnswerQuiet ==
  ASSUME IInv, NEW t \in Tasks, NEW good \in BOOLEAN, NEW ids \in SUBSET Nat,
         ids \subseteq Ids' \ {None},
         task[t].pc = "f_list" /\ good /\ ids = {} => live' = {},
         Answer(t, good, ids), row' = row
  PROVE  Quiet /\ task'[t].answered
<1>1. task \in [Tasks -> Task]
  BY DEF IInv, TypeOK
<1>2. task' = [task EXCEPT ![t].answered = TRUE, ![t].ok = good, ![t].ids = ids]
  BY DEF Answer
<1>3. /\ task'[t] \in Task
      /\ task'[t].answered /\ task'[t].pc = task[t].pc /\ task'[t].snap = task[t].snap
      /\ task'[t].ok = good /\ task'[t].ids = ids
  BY AnswerShape
<1>4. \A u \in Tasks \ {t} : task'[u] = task[u]
  BY AnswerShape
<1>5. task' \in [Tasks -> Task]
  <2>1. task' = [u \in Tasks |-> task'[u]]
    BY <1>1, <1>2
  <2>2. \A u \in Tasks : task'[u] \in Task
    BY <1>1, <1>3, <1>4
  <2> QED
    BY <2>1, <2>2
<1>6. Keeps(row')
  BY KeepsRow
<1>7. \A u \in Tasks :
        /\ task'[u].pc \in CreateCalls /\ ~task'[u].answered => task'[u] = task[u]
        /\ task'[u].pc \in ReplacementCalls => u = Watchdog
        /\ Suits(task'[u].pc, task'[u].snap)
        /\ task'[u].snap.instance \in Ids
        /\ task'[u].ids \subseteq task[u].ids \cup (Ids' \ {None})
  BY <1>3, <1>4 DEF IInv, OnlyWatchdogReplaces, SnapsSuit, Numbered
<1>8. /\ task'[Watchdog].pc \in {"f_delete", "f_list"}
           => task'[Watchdog].snap.retry = row.retry
      /\ task'[Watchdog].pc = "f_search" => row.retry = 0
  BY <1>3, <1>4, WatchdogIsTask DEF IInv, RetryHeld
<1>9. /\ \/ task'[Watchdog].pc \notin BootFailureCalls
         \/ task[Watchdog].pc \in BootFailureCalls
      /\ FoundAbsent' => FoundAbsent \/ live' = {}
      /\ RecoveryEnters
  BY <1>3, <1>4, WatchdogIsTask DEF FoundAbsent, Answered, Absent, RecoveryEnters
<1>10. Quiet
  BY <1>5, <1>6, <1>7, <1>8, <1>9 DEF Quiet
<1> QED
  BY <1>3, <1>10

LEMMA LookupQuiet ==
  ASSUME IInv, NEW t \in Tasks, NEW pc \in Pcs \ SpecialCalls,
         task' = [task EXCEPT ![t] = Await(pc, @.snap)], row' = row
  PROVE  Quiet /\ task'[t].pc = pc
<1>1. task \in [Tasks -> Task] /\ task[t].snap \in Session /\ task[t].snap.instance \in Ids
  BY HeldType DEF IInv, TypeOK
<1>2. Keeps(row') /\ task' = [task EXCEPT ![t] = Await(pc, task[t].snap)]
  BY <1>1, KeepsRow
<1>3. Quiet
  BY <1>1, <1>2, TurnQuiet, PlainCall
<1>4. task'[t].pc = pc
  BY <1>1 DEF Await
<1> QED
  BY <1>3, <1>4

LEMMA ProviderQuiet ==
  ASSUME IInv, NEW t \in Tasks, ListInstances(t) \/ GetInstance(t) \/ DeleteInstance(t)
  PROVE  Quiet /\ creates' = creates /\ inflight' = inflight /\ live' \subseteq live
<1>1. live \subseteq Nat /\ live \subseteq Ids \ {None}
  BY DEF IInv, TypeOK, Numbered, Ids, None
<1>2. CASE ListInstances(t)
  <2>1. Ids' = Ids /\ UNCHANGED <<row, live, inflight, creates>>
    BY <1>2 DEF ListInstances, Ids
  <2> QED
    BY <1>1, <1>2, <2>1, AnswerQuiet DEF ListInstances
<1>3. CASE GetInstance(t)
  <2>1. task[t].snap.instance \in live => {task[t].snap.instance} \in SUBSET Nat
    BY <1>1
  <2>2. task[t].pc # "f_list" /\ Ids' = Ids
    BY <1>3 DEF GetInstance, Outstanding, Ids
  <2> QED
    BY <1>1, <1>3, <2>1, <2>2, AnswerQuiet DEF GetInstance
<1>4. CASE DeleteInstance(t)
  <2>1. "d_list" \in Pcs \ SpecialCalls
    BY DEF Pcs, ListCalls, CreateCalls, ReplacementCalls, SpecialCalls, BootFailureCalls,
         SnapCalls
  <2>2. Quiet
    BY <1>4, <2>1, AnswerQuiet, LookupQuiet DEF DeleteInstance, Waiting
  <2> QED
    BY <1>1, <1>4, <2>2 DEF DeleteInstance
<1> QED
  BY <1>2, <1>3, <1>4

---------------------------------------------------------------------------
(* Quiet steps preserve the invariant *)

\* Due is a number, and a task that awaits a create of this kind makes it 1.
LEMMA DueValue ==
  ASSUME NEW pc
  PROVE  /\ Due(pc) \in {0, 1}
         /\ \A t \in Tasks : Creating(t, pc) => Due(pc) = 1
         /\ (\A t \in Tasks : ~Creating(t, pc)) => Due(pc) = 0
BY DEF Due

LEMMA DueValueNext ==
  ASSUME NEW pc
  PROVE  /\ Due(pc)' \in {0, 1}
         /\ (\A t \in Tasks : ~Creating(t, pc)') => Due(pc)' = 0
         /\ (\A t \in Tasks : Creating(t, pc)' => Creating(t, pc)) => Due(pc)' <= Due(pc)
BY DEF Due

LEMMA QuietCreating ==
  ASSUME Quiet, NEW t \in Tasks, NEW pc \in CreateCalls
  PROVE  Creating(t, pc)' => Creating(t, pc)
BY DEF Quiet, Creating

LEMMA QuietParts ==
  ASSUME IInv, Quiet
  PROVE  (OneConfirmer /\ OnlyWatchdogReplaces /\ RetryHeld /\ SnapsSuit /\ Known(row))'
<1>1. OneConfirmer'
  <2>1. "c_create" \in CreateCalls
    BY DEF CreateCalls
  <2> QED
    BY <2>1, QuietCreating DEF IInv, OneConfirmer
<1>2. OnlyWatchdogReplaces' /\ SnapsSuit'
  BY DEF Quiet, OnlyWatchdogReplaces, SnapsSuit
<1>3. RetryHeld' /\ Known(row)'
  BY DEF Quiet, Keeps, Shown, Known, RetryHeld
<1> QED
  BY <1>1, <1>2, <1>3

\* What every step does to the row and to recovery.
Follows == Shown(row') /\ RecoveryEnters

\* The ids that a quiet step leaves around are of calls already made.
LEMMA QuietNumbered ==
  ASSUME IInv, Quiet, creates' \in {creates, creates + 1},
         live' \cup inflight' \subseteq live \cup inflight \cup 1..creates',
         live' \cap inflight' = {}, inflight' \cap 1..creates \subseteq inflight
  PROVE  Numbered'
<1>1. 1..creates \subseteq 1..creates'
  BY DEF IInv, TypeOK
<1>2. Ids \subseteq Ids'
  BY <1>1 DEF Ids
<1>3. \A t \in Tasks :
        task'[t].snap.instance \in Ids' /\ task'[t].ids \subseteq Ids' \ {None}
  BY <1>2 DEF Quiet, IInv, Numbered
<1>4. row'.instance \in Ids'
  BY <1>2 DEF Quiet, Keeps
<1> QED
  BY <1>1, <1>3, <1>4 DEF IInv, Numbered

\* A quiet step starts no create, and what runs after it ran or was settled.
LEMMA QuietAlone ==
  ASSUME IInv, Quiet, inflight' \subseteq inflight, live' \subseteq live \cup inflight
  PROVE  (OneCreate /\ BootFailureAlone)'
<1>1. \A t \in Tasks : AnyCreating(t)' => AnyCreating(t)
  BY QuietCreating DEF AnyCreating, CreateCalls
<1>2. OneCreate'
  BY <1>1 DEF IInv, OneCreate
<1>3. ASSUME BoundedProvider, task'[Watchdog].pc \in BootFailureCalls
      PROVE  /\ inflight = {} /\ row'.state \notin Early
             /\ \A t \in Tasks : ~AnyCreating(t)
  <2>1. CASE task[Watchdog].pc \in BootFailureCalls
    BY <1>3, <2>1 DEF Quiet, Keeps, IInv, BootFailureAlone
  <2>2. CASE BootDeadlinePassed /\ row'.state \notin Early
    BY <1>3, <2>2 DEF BootDeadlinePassed, AnyCreating, Creating, CreateCalls
  <2> QED
    BY <1>3, <2>1, <2>2 DEF Quiet
<1>4. ASSUME BoundedProvider, FoundAbsent' PROVE live' = {}
  <2>1. task'[Watchdog].pc \in BootFailureCalls
    BY <1>4 DEF FoundAbsent, Answered, BootFailureCalls
  <2>2. inflight = {}
    BY <1>3, <1>4, <2>1
  <2>3. CASE FoundAbsent
    BY <1>4, <2>2, <2>3 DEF IInv, BootFailureAlone
  <2> QED
    BY <1>4, <2>3 DEF Quiet
<1>5. BootFailureAlone'
  BY <1>1, <1>3, <1>4 DEF BootFailureAlone
<1> QED
  BY <1>2, <1>5

LEMMA QuietStep ==
  ASSUME IInv, Quiet, creates' = creates, inflight' \subseteq inflight,
         live' \subseteq live \cup (inflight \ inflight')
  PROVE  IInv' /\ Follows
<1>1. TypeOK'
  BY DEF Quiet, Keeps, IInv, TypeOK
<1>2. \A t \in Tasks : /\ Creating(t, "c_create")' => Creating(t, "c_create")
                       /\ Creating(t, "f_create")' => Creating(t, "f_create")
  BY QuietCreating DEF CreateCalls
<1>3. Charged'
  <2>1. Due("c_create")' <= Due("c_create") /\ Due("f_create")' <= Due("f_create")
    BY <1>2, DueValueNext
  <2>2. row'.retry = row.retry /\ row.retry \in {0, 1} /\ creates \in Nat
    BY DEF Quiet, Keeps, IInv, TypeOK, Session
  <2>3. /\ Due("c_create") \in {0, 1} /\ Due("c_create")' \in {0, 1}
        /\ Due("f_create") \in {0, 1} /\ Due("f_create")' \in {0, 1}
    BY DueValue, DueValueNext
  <2>4. creates + Due("c_create") + Due("f_create") <= 1 + row.retry
    BY DEF IInv, Charged
  <2>5. creates + Due("c_create")' + Due("f_create")' <= 1 + row.retry
    BY <2>1, <2>2, <2>3, <2>4
  <2> QED
    BY <2>2, <2>5 DEF Charged
<1>4. EarlyUncharged'
  BY <1>2 DEF Quiet, Keeps, IInv, EarlyUncharged
<1>5. Numbered'
  BY QuietNumbered DEF IInv, Numbered
<1>6. Follows
  BY DEF Quiet, Keeps, Follows
<1> QED
  BY <1>1, <1>3, <1>4, <1>5, <1>6, QuietParts, QuietAlone DEF IInv

---------------------------------------------------------------------------
(* The three steps that are not quiet: a task turns to a create call, and  *)
(* the call reaches the provider.                                          *)

LEMMA StartCreate ==
  ASSUME IInv, NEW t \in Tasks, NEW pc \in CreateCalls, NEW r \in Session,
         pc = "f_create" => t = Watchdog,
         r.state = "creating",
         Suspend(t, pc, NoSession, r),
         \A u \in Tasks : ~Creating(u, pc),
         r.retry = (IF pc = "f_create" THEN row.retry + 1 ELSE row.retry),
         pc = "c_create" => creates = 0 /\ Due("f_create") = 0,
         BoundedProvider =>
           /\ live = {} /\ inflight = {} /\ \A u \in Tasks : ~AnyCreating(u)
           /\ t = Watchdog \/ task[Watchdog].pc \notin BootFailureCalls,
         r.instance \in Ids, Shown(r),
         UNCHANGED <<live, inflight, creates>>
  PROVE  IInv' /\ Follows
<1>1. Await(pc, NoSession) \in Task
  BY AwaitType, SelectedType DEF Pcs
<1>2. task \in [Tasks -> Task]
  BY DEF IInv, TypeOK
<1>3. task' = [task EXCEPT ![t] = Await(pc, NoSession)] /\ row' = r
  BY HeldNothing DEF Suspend
<1>4. task'[t] = Await(pc, NoSession) /\ \A u \in Tasks \ {t} : task'[u] = task[u]
  BY <1>2, <1>3
<1>5. task'[t].pc = pc
  BY <1>4 DEF Await
<1>6. TypeOK'
  BY <1>1, <1>2, <1>3 DEF IInv, TypeOK
<1>7. pc = "c_create" \/ pc = "f_create"
  BY DEF CreateCalls
<1>8. \A u \in Tasks, q \in CreateCalls \ {pc} : Creating(u, q)' => Creating(u, q)
  BY <1>4, <1>5 DEF Creating
<1>9. \A u \in Tasks : Creating(u, pc)' => u = t
  BY <1>4 DEF Creating
<1>10. OneConfirmer'
  BY <1>7, <1>8, <1>9 DEF IInv, OneConfirmer, CreateCalls
<1>11. OnlyWatchdogReplaces'
  BY <1>4, <1>5, <1>7 DEF IInv, OnlyWatchdogReplaces, ReplacementCalls, BootFailureCalls
<1>12. SnapsSuit' /\ Known(row)'
  BY <1>3, <1>4, <1>5, <1>7
  DEF IInv, SnapsSuit, Suits, Known, Placed, BootStates, WorkStates
<1>13. RetryHeld'
  <2>1. CASE t = Watchdog
    BY <1>5, <1>7, <2>1 DEF RetryHeld
  <2>2. CASE t # Watchdog
    BY <1>3, <1>4, <1>7, <2>2, WatchdogIsTask DEF IInv, RetryHeld
  <2> QED
    BY <2>1, <2>2
<1>14. EarlyUncharged'
  BY <1>3 DEF EarlyUncharged, Early
<1>15. Charged'
  <2>1. row.retry \in {0, 1} /\ creates \in Nat /\ row'.retry \in {0, 1}
    BY <1>3 DEF IInv, TypeOK, Session
  <2>2. creates + Due("c_create") + Due("f_create") <= 1 + row.retry
    BY DEF IInv, Charged
  <2>3. CASE pc = "c_create"
    <3>1. Due("f_create")' <= Due("f_create")
      BY <1>8, <2>3, DueValueNext DEF CreateCalls
    <3> QED
      BY <1>3, <2>1, <2>3, <3>1, DueValueNext DEF Charged
  <2>4. CASE pc = "f_create"
    <3>1. Due("c_create")' <= Due("c_create") /\ Due("c_create") \in {0, 1}
          /\ Due("c_create")' \in {0, 1} /\ Due("f_create")' \in {0, 1}
      BY <1>8, <2>4, DueValue, DueValueNext DEF CreateCalls
    <3>2. Due("f_create") = 0
      BY <2>4, DueValue
    <3>3. row'.retry = row.retry + 1
      BY <1>3, <2>4
    <3>4. creates + Due("c_create")' + Due("f_create")' <= 1 + row'.retry
      BY <2>1, <2>2, <3>1, <3>2, <3>3
    <3> QED
      BY <3>4 DEF Charged
  <2> QED
    BY <1>7, <2>3, <2>4
<1>16. Numbered'
  <2>1. task'[t].ids = {} /\ task'[t].snap.instance \in Ids
    BY <1>4, NoneIsId DEF Await
  <2>2. Ids' = Ids
    BY DEF Ids
  <2> QED
    BY <1>3, <1>4, <2>1, <2>2 DEF IInv, Numbered
<1>17. (OneCreate /\ BootFailureAlone)'
  <2> SUFFICES ASSUME BoundedProvider PROVE (OneCreate /\ BootFailureAlone)'
    BY DEF OneCreate, BootFailureAlone
  <2>1. live' = {} /\ inflight' = {}
    OBVIOUS
  <2>2. \A u \in Tasks \ {t} : ~AnyCreating(u)'
    BY <1>4 DEF AnyCreating, Creating
  <2>3. task'[Watchdog].pc \notin BootFailureCalls
    BY <1>4, <1>5, <1>7, WatchdogIsTask DEF BootFailureCalls
  <2> QED
    BY <2>1, <2>2, <2>3 DEF OneCreate, BootFailureAlone
<1>18. Follows
  BY <1>3, <1>4, <1>5, <1>7, WatchdogIsTask DEF Follows, RecoveryEnters
<1> QED
  BY <1>6, <1>10, <1>11, <1>12, <1>13, <1>14, <1>15, <1>16, <1>17, <1>18 DEF IInv

LEMMA ConfirmOfferStep ==
  ASSUME IInv, NEW t \in Handlers, ConfirmOffer(t)
  PROVE  IInv' /\ Follows
<1> DEFINE c == [row EXCEPT !.state = "creating"]
<1>1. UNCHANGED <<live, inflight, creates>>
  BY DEF ConfirmOffer
<1>2. CASE End(t, row) \/ End(t, Failed(row))
  BY <1>1, <1>2, HandlerIsTask, KeepsRow, KeepsFailed, NoneIsId, EndQuiet, QuietStep
<1>3. CASE row.state = task[t].snap.state /\ Suspend(t, "c_create", NoSession, c)
  <2>1. row.state \in Early
    BY <1>3, HandlerIsTask, HeldType DEF ConfirmOffer, Waiting, Suits
  <2>2. creates = 0 /\ \A u \in Tasks : ~Creating(u, "c_create") /\ ~Creating(u, "f_create")
    BY <2>1 DEF IInv, EarlyUncharged
  <2>3. Due("f_create") = 0
    BY <2>2, DueValue
  <2>4. /\ c \in Session /\ c.state = "creating" /\ c.retry = row.retry
        /\ c.instance \in Ids /\ Shown(c)
    BY HeldType, HandlerIsTask DEF Session, SessionState, Shown
  <2>5. "c_create" \in CreateCalls /\ t \in Tasks
    BY HandlerIsTask DEF CreateCalls
  <2>6. live = {} /\ inflight = {}
    BY <2>2 DEF IInv, Numbered
  <2>7. /\ \A u \in Tasks : ~AnyCreating(u)
        /\ BoundedProvider => task[Watchdog].pc \notin BootFailureCalls
    BY <2>1, <2>2 DEF AnyCreating, IInv, BootFailureAlone
  <2> HIDE DEF c
  <2> QED
    BY <1>1, <1>3, <2>2, <2>3, <2>4, <2>5, <2>6, <2>7, StartCreate
<1> QED
  BY <1>2, <1>3 DEF ConfirmOffer

LEMMA BootFailureSearchedStep ==
  ASSUME IInv, BootFailureSearched
  PROVE  IInv' /\ Follows
<1> DEFINE r == Replacing(row)
<1>1. UNCHANGED <<live, inflight, creates>>
  BY DEF BootFailureSearched
<1>2. /\ row \in Session /\ row.residual \in SUBSET Nat /\ None \in Ids
      /\ FoundAbsent
  BY HeldType, WatchdogIsTask, NoneIsId DEF BootFailureSearched, Waiting, FoundAbsent
<1>3. CASE GiveUp(None, row.residual)
  BY <1>1, <1>2, <1>3, GiveUpQuiet, QuietStep
<1>4. CASE End(Watchdog, row)
  BY <1>1, <1>4, WatchdogIsTask, KeepsRow, EndQuiet, QuietStep
<1>5. CASE Suspend(Watchdog, "f_create", NoSession, r)
  <2>1. task[Watchdog].pc = "f_search"
    BY DEF BootFailureSearched, Waiting
  <2>2. row.retry = 0
    BY <2>1 DEF IInv, RetryHeld
  <2>3. \A u \in Tasks : ~Creating(u, "f_create")
    BY <2>1 DEF IInv, OnlyWatchdogReplaces, ReplacementCalls, BootFailureCalls, Creating
  <2>4. /\ r \in Session /\ r.state = "creating" /\ r.retry = 1
        /\ r.instance \in Ids /\ Shown(r)
    BY <1>2, IdsAreNat DEF Replacing, Session, SessionState, Shown
  <2>5. "f_create" \in CreateCalls
    BY DEF CreateCalls
  <2>6. BoundedProvider =>
          live = {} /\ inflight = {} /\ \A u \in Tasks : ~AnyCreating(u)
    BY <2>1 DEF IInv, BootFailureAlone, FoundAbsent, BootFailureCalls
  <2> HIDE DEF r
  <2> QED
    BY <1>1, <1>5, <2>2, <2>3, <2>4, <2>5, <2>6, WatchdogIsTask, StartCreate
<1> QED
  BY <1>3, <1>4, <1>5 DEF BootFailureSearched

LEMMA CreateInstanceStep ==
  ASSUME IInv, NEW t \in Tasks, CreateInstance(t)
  PROVE  IInv' /\ Follows
<1>1. /\ creates \in Nat /\ live \subseteq Nat /\ inflight \subseteq Nat
      /\ row.retry \in {0, 1} /\ creates' = creates + 1 /\ row' = row
  BY DEF IInv, TypeOK, Session, CreateInstance
<1>2. PICK pc \in CreateCalls : Creating(t, pc)
  BY DEF CreateInstance, Outstanding, Creating
<1>3. live' \subseteq Nat /\ inflight' \subseteq Nat
  <2>1. /\ live' \in {live, live \cup {creates + 1}}
        /\ inflight' \in {inflight, inflight \cup {creates + 1}}
    BY DEF CreateInstance
  <2>2. creates + 1 \in Nat
    BY <1>1
  <2> QED
    BY <1>1, <2>1, <2>2
<1>4. Quiet /\ ~Creating(t, "c_create")' /\ ~Creating(t, "f_create")'
  <2>1. {"f_lookup", "c_rejected", "c_unknown"} \subseteq Pcs \ SpecialCalls
    BY DEF Pcs, ListCalls, CreateCalls, ReplacementCalls, SpecialCalls, BootFailureCalls,
         SnapCalls
  <2>2. CASE Answer(t, TRUE, {creates + 1}) /\ inflight' = inflight
    <3>1. {creates + 1} \in SUBSET Nat
      BY <1>1
    <3>3. creates + 1 \in Ids' \ {None}
      BY <1>1, <2>2 DEF IInv, Numbered, Ids, None
    <3>2. task[t].pc # "f_list"
      BY <1>2 DEF Creating, CreateCalls
    <3> QED
      BY <1>1, <2>2, <3>1, <3>2, <3>3, AnswerQuiet DEF Creating
  <2>3. ASSUME NEW q \in {"f_lookup", "c_rejected", "c_unknown"},
               task' = [task EXCEPT ![t] = Await(q, @.snap)]
        PROVE  Quiet /\ ~Creating(t, "c_create")' /\ ~Creating(t, "f_create")'
    BY <1>1, <2>1, <2>3, LookupQuiet DEF Creating
  <2>4. \/ Answer(t, TRUE, {creates + 1}) /\ inflight' = inflight
        \/ \E q \in {"f_lookup", "c_rejected", "c_unknown"} :
              task' = [task EXCEPT ![t] = Await(q, @.snap)]
    BY DEF CreateInstance
  <2> QED
    BY <2>2, <2>3, <2>4
<1>5. TypeOK'
  BY <1>1, <1>3, <1>4 DEF Quiet, Keeps, IInv, TypeOK
<1>6. \A u \in Tasks, q \in CreateCalls : Creating(u, q)' => Creating(u, q)
  BY <1>4, QuietCreating
<1>7. \A u \in Tasks : ~Creating(u, pc)'
  BY <1>2, <1>4, <1>6 DEF IInv, OneConfirmer, OnlyWatchdogReplaces, ReplacementCalls,
     CreateCalls, Creating
<1>8. Charged'
  <2>1. /\ Due("c_create")' <= Due("c_create") /\ Due("f_create")' <= Due("f_create")
        /\ Due("c_create") \in {0, 1} /\ Due("f_create") \in {0, 1}
        /\ Due("c_create")' \in {0, 1} /\ Due("f_create")' \in {0, 1}
    BY <1>6, DueValue, DueValueNext DEF CreateCalls
  <2>2. Due(pc) = 1 /\ Due(pc)' = 0
    BY <1>2, <1>7, DueValue, DueValueNext
  <2>3. creates + Due("c_create") + Due("f_create") <= 1 + row.retry
    BY DEF IInv, Charged
  <2>4. pc = "c_create" \/ pc = "f_create"
    BY DEF CreateCalls
  <2>5. creates' + Due("c_create")' + Due("f_create")' <= 1 + row.retry
    BY <1>1, <2>1, <2>2, <2>3, <2>4
  <2> QED
    BY <1>1, <2>5 DEF Charged
<1>9. row.state \notin Early
  BY <1>2 DEF IInv, EarlyUncharged, CreateCalls
<1>10. EarlyUncharged'
  BY <1>1, <1>9 DEF EarlyUncharged
<1>11. Numbered'
  <2>1. \/ live' \in {live, live \cup {creates + 1}} /\ inflight' = inflight
        \/ live' = live /\ inflight' = inflight \cup {creates + 1}
    BY DEF CreateInstance
  <2>2. creates + 1 \in 1..creates' /\ creates + 1 \notin 1..creates
    BY <1>1
  <2>3. live \cup inflight \subseteq 1..creates /\ live \cap inflight = {}
    BY DEF IInv, Numbered
  <2>4. creates' \in {creates, creates + 1}
    BY <1>1
  <2>5. /\ live' \cup inflight' \subseteq live \cup inflight \cup 1..creates'
        /\ live' \cap inflight' = {} /\ inflight' \cap 1..creates \subseteq inflight
    BY <2>1, <2>2, <2>3
  <2> QED
    BY <1>4, <2>4, <2>5, QuietNumbered
<1>12. (OneCreate /\ BootFailureAlone)'
  <2> SUFFICES ASSUME BoundedProvider PROVE (OneCreate /\ BootFailureAlone)'
    BY DEF OneCreate, BootFailureAlone
  <2>1. AnyCreating(t)
    BY <1>2 DEF AnyCreating, CreateCalls
  <2>2. \A u \in Tasks : ~AnyCreating(u)'
    BY <1>4, <1>6, <2>1 DEF IInv, OneCreate, AnyCreating, CreateCalls
  <2>3. task[Watchdog].pc \notin BootFailureCalls /\ ~BootDeadlinePassed
    BY <1>2, <2>1 DEF IInv, BootFailureAlone, BootDeadlinePassed, Creating
  <2>4. task'[Watchdog].pc \notin BootFailureCalls
    BY <1>4, <2>3 DEF Quiet
  <2> QED
    BY <2>2, <2>4 DEF OneCreate, BootFailureAlone, FoundAbsent, Answered, BootFailureCalls
<1> QED
  BY <1>4, <1>5, <1>8, <1>10, <1>11, <1>12, QuietParts DEF IInv, Quiet, Keeps, Follows

---------------------------------------------------------------------------
(* The invariant *)

LEMMA InitInv == Init => IInv
<1> SUFFICES ASSUME Init PROVE IInv
  OBVIOUS
<1>1. \A t \in Tasks : task[t] = Resting
  BY DEF Init
<1>2. Resting.pc = "idle"
  BY DEF Resting, Await
<1>3. TypeOK
  BY RestingType, SelectedType DEF Init, TypeOK
<1>4. \A t \in Tasks, pc \in CreateCalls : ~Creating(t, pc)
  BY <1>1, <1>2 DEF Creating, CreateCalls
<1>5. Charged
  <2>1. Due("c_create") = 0 /\ Due("f_create") = 0
    BY <1>4, DueValue DEF CreateCalls
  <2>2. creates = 0 /\ row.retry \in {0, 1}
    BY <1>3 DEF Init, TypeOK, Session
  <2> QED
    BY <2>1, <2>2 DEF Charged
<1>6. EarlyUncharged /\ OneConfirmer
  BY <1>4 DEF Init, EarlyUncharged, OneConfirmer, CreateCalls
<1>7. OnlyWatchdogReplaces /\ RetryHeld /\ SnapsSuit
  BY <1>1, <1>2, WatchdogIsTask
  DEF OnlyWatchdogReplaces, RetryHeld, SnapsSuit, Suits, ReplacementCalls, BootFailureCalls
<1>8. Known(row) /\ Numbered
  BY <1>1, NoneIsId
  DEF Init, Known, NoSession, Selected, Placed, BootStates, WorkStates, Numbered, Resting,
      Await
<1>9. OneCreate /\ BootFailureAlone
  BY <1>1, <1>2, <1>4, WatchdogIsTask
  DEF OneCreate, BootFailureAlone, FoundAbsent, Answered, BootFailureCalls, AnyCreating,
      CreateCalls
<1> QED
  BY <1>3, <1>5, <1>6, <1>7, <1>8, <1>9 DEF IInv

\* Requests, but for the revalidated offer that starts a create.
LEMMA RequestStep ==
  ASSUME IInv, NEW t \in Handlers, Request(t)
  PROVE  IInv' /\ Follows
<1>1. UNCHANGED <<live, inflight, creates>>
  BY DEF Request, ConfirmBegin, ConfirmOffer, ConfirmCreated, ConfirmLookedUp,
         DestroyRequest, Poll, SubmitJob, SubmitApplied
<1>2. CASE ConfirmOffer(t)
  BY <1>2, ConfirmOfferStep
<1>3. CASE DestroyRequest(t)
  BY <1>1, <1>3, HandlerIsTask, KeepsRow, DestroyBeginQuiet, QuietStep DEF DestroyRequest
<1>4. CASE Poll(t)
  BY <1>1, <1>4, HandlerIsTask, ReconcileBeginQuiet, QuietStep DEF Poll
<1>5. CASE \/ ConfirmBegin(t) \/ ConfirmCreated(t) \/ ConfirmLookedUp(t)
           \/ SubmitJob(t) \/ SubmitApplied(t)
  BY <1>1, <1>5, HandlerIsTask, ConfirmBeginQuiet, ConfirmCreatedQuiet,
     ConfirmLookedUpQuiet, SubmitJobQuiet, SubmitAppliedQuiet, QuietStep
<1> QED
  BY <1>2, <1>3, <1>4, <1>5 DEF Request

LEMMA WatchdogStep ==
  ASSUME IInv, BootWatchdog
  PROVE  IInv' /\ Follows
<1>1. UNCHANGED <<live, inflight, creates>>
  BY DEF BootWatchdog, WatchdogWake, BootFailureDeleted, BootFailureListed,
         BootFailureSearched, BootFailureCreated, BootFailureLookedUp
<1>2. CASE WatchdogWake
  BY <1>1, <1>2, WatchdogIsTask, ReconcileBeginQuiet, QuietStep DEF WatchdogWake
<1>3. CASE BootFailureSearched
  BY <1>3, BootFailureSearchedStep
<1> QED
  BY <1>1, <1>2, <1>3, BootFailureDeletedQuiet, BootFailureListedQuiet,
     BootFailureCreatedQuiet, BootFailureLookedUpQuiet, QuietStep DEF BootWatchdog

LEMMA StepInv == IInv /\ [Next]_vars => IInv' /\ Follows
<1> SUFFICES ASSUME IInv, [Next]_vars PROVE IInv' /\ Follows
  OBVIOUS
<1>1. CASE \E t \in Tasks : Resume(t)
  BY <1>1, ResumeQuiet, QuietStep
<1>2. CASE \E t \in Tasks : Provider(t)
  <2>1. PICK t \in Tasks : Provider(t)
    BY <1>2
  <2>2. CASE CreateInstance(t)
    BY <2>2, CreateInstanceStep
  <2>3. CASE ListInstances(t) \/ GetInstance(t) \/ DeleteInstance(t)
    BY <2>3, ProviderQuiet, QuietStep
  <2> QED
    BY <2>1, <2>2, <2>3 DEF Provider
<1>3. CASE \E t \in Handlers : Request(t)
  BY <1>3, RequestStep
<1>4. CASE BootWatchdog
  BY <1>4, WatchdogStep
<1>5. CASE FinishRemoteJob
  BY <1>5, FinishRemoteJobQuiet, QuietStep DEF FinishRemoteJob
<1>6. CASE Crash
  BY <1>6, CrashQuiet, QuietStep DEF Crash
<1>7. CASE RecoverListed
  BY <1>7, RecoverListedQuiet, QuietStep DEF RecoverListed
<1>8. CASE Settle \/ Vanish
  <2>1. row' = row /\ task' = task /\ creates' = creates
    BY <1>8 DEF Settle, Vanish
  <2>2. inflight' \subseteq inflight /\ live' \subseteq live \cup (inflight \ inflight')
    BY <1>8 DEF Settle, Vanish
  <2> QED
    BY <2>1, <2>2, KeepsRow, StillQuiet, QuietStep
<1>9. CASE UNCHANGED vars
  BY <1>9, KeepsRow, StillQuiet, QuietStep DEF vars
<1> QED
  BY <1>1, <1>2, <1>3, <1>4, <1>5, <1>6, <1>7, <1>8, <1>9 DEF Next

\* The invariant holds in every reachable state, whatever the handlers, crashes
\* and late answers of the provider do.
THEOREM Invariance == Spec => []IInv
<1>1. IInv /\ [Next]_vars => IInv'
  BY StepInv
<1> QED
  BY <1>1, InitInv, PTL DEF Spec

\* Every variable keeps its type: in particular a session row is never written
\* with a state or an identity outside its domain by any segment of the code.
THEOREM TypeCorrect == Spec => []TypeOK
<1>1. IInv => TypeOK
  BY DEF IInv
<1> QED
  BY <1>1, Invariance, PTL

\* The row accounts for every create call before the provider sees it: whatever
\* requests, stale tasks, restarts and late answers do, the calls never outnumber
\* the one confirmation and the one replacement that retry_count records.
THEOREM CreatesCounted == Spec => []EveryCreateCounted
<1>1. IInv => EveryCreateCounted
  <2> SUFFICES ASSUME IInv PROVE EveryCreateCounted
    OBVIOUS
  <2>1. creates \in Nat /\ row.retry \in {0, 1}
    BY DEF IInv, TypeOK, Session
  <2>2. Due("c_create") \in {0, 1} /\ Due("f_create") \in {0, 1}
    BY DueValue
  <2> QED
    BY <2>1, <2>2 DEF IInv, Charged, EveryCreateCounted
<1> QED
  BY <1>1, Invariance, PTL

\* A session that boots or works names its host, whichever task wrote the row:
\* stale reconciles, adopted replacements and restarts never leave a billed
\* instance that destroy_session would have to search for.
THEOREM InstanceAlwaysKnown == Spec => []InstanceKnown
<1>1. IInv => InstanceKnown
  BY DEF IInv, Known, Placed, InstanceKnown
<1> QED
  BY <1>1, Invariance, PTL

---------------------------------------------------------------------------
(* The rental promise, step by step *)

\* The call reaches a provider that runs and expects nothing for the session.
LEMMA CreateIsRent ==
  ASSUME BoundedProvider, IInv, NEW t \in Tasks, CreateInstance(t)
  PROVE  R!Rent
<1>1. PICK pc \in CreateCalls : Creating(t, pc)
  BY DEF CreateInstance, Outstanding, Creating
<1>2. live = {} /\ inflight = {}
  BY <1>1 DEF IInv, OneCreate, AnyCreating, CreateCalls
<1>3. creates < 2
  <2>1. creates \in Nat /\ row.retry \in {0, 1}
    BY DEF IInv, TypeOK, Session
  <2>2. /\ Due("c_create") \in {0, 1} /\ Due("f_create") \in {0, 1}
        /\ Due("c_create") = 1 \/ Due("f_create") = 1
    BY <1>1, DueValue DEF CreateCalls
  <2>3. creates + Due("c_create") + Due("f_create") <= 1 + row.retry
    BY DEF IInv, Charged
  <2> QED
    BY <2>1, <2>2, <2>3
<1>4. creates' = creates + 1
  BY DEF CreateInstance
<1>5. \/ live' \in {{}, {creates'}} /\ inflight' = {}
      \/ live' = {} /\ inflight' = {creates'}
  BY <1>2, <1>4 DEF CreateInstance
<1> QED
  BY <1>2, <1>3, <1>4, <1>5 DEF R!Rent

\* Every other step of the session leaves the machines alone, or is the provider
\* settling a request or losing a machine.
LEMMA OtherIsProvider ==
  ASSUME [Next]_vars, \A t \in Tasks : ~CreateInstance(t)
  PROVE  \/ R!Settle \/ R!Stop
         \/ UNCHANGED <<creates, inflight, live>>
<1>1. CASE \E t \in Tasks : Resume(t)
  BY <1>1 DEF Resume, DestroyFound, DestroyListed, ReconcileListed, ReconcileGot,
     BootstrapHealth, BootstrapApply, BootstrapDeadline, RecoverSession, ResumeSession
<1>2. CASE \E t \in Tasks : Provider(t)
  <2>1. PICK t \in Tasks : ListInstances(t) \/ GetInstance(t) \/ DeleteInstance(t)
    BY <1>2 DEF Provider
  <2>2. CASE ListInstances(t) \/ GetInstance(t)
    BY <2>2 DEF ListInstances, GetInstance
  <2>3. CASE DeleteInstance(t)
    BY <2>3 DEF DeleteInstance, R!Stop
  <2> QED
    BY <2>1, <2>2, <2>3
<1>3. CASE \E t \in Handlers : Request(t)
  BY <1>3 DEF Request, ConfirmBegin, ConfirmOffer, ConfirmCreated, ConfirmLookedUp,
     DestroyRequest, Poll, SubmitJob, SubmitApplied
<1>4. CASE BootWatchdog
  BY <1>4 DEF BootWatchdog, WatchdogWake, BootFailureDeleted, BootFailureListed,
     BootFailureSearched, BootFailureCreated, BootFailureLookedUp
<1>5. CASE FinishRemoteJob \/ Crash \/ RecoverListed
  BY <1>5 DEF FinishRemoteJob, Crash, RecoverListed
<1>6. CASE Settle
  BY <1>6 DEF Settle, R!Settle
<1>7. CASE Vanish
  BY <1>7 DEF Vanish, R!Stop
<1>8. CASE UNCHANGED vars
  BY <1>8 DEF vars
<1> QED
  BY <1>1, <1>2, <1>3, <1>4, <1>5, <1>6, <1>7, <1>8 DEF Next

\* With a provider that settles a create within the boot deadline, the session
\* keeps the rental promise: it asks for a machine at most twice, and only when
\* none of its own runs or may still start, in spite of stale tasks, concurrent
\* confirmations and restarts.
THEOREM SessionIsRental ==
  ASSUME BoundedProvider
  PROVE  Spec => RentalSpec
<1>1. Init => R!Init
  BY DEF Init, R!Init
<1>2. IInv /\ [Next]_vars => [R!Next]_<<creates, inflight, live>>
  BY CreateIsRent, OtherIsProvider DEF R!Next
<1>3. Spec => []IInv
  BY Invariance
<1> QED
  BY <1>1, <1>2, <1>3, PTL DEF Spec, RentalSpec, R!Spec
=============================================================================
