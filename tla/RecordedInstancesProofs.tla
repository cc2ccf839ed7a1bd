----------------------- MODULE RecordedInstancesProofs -----------------------
(***************************************************************************)
(* Proofs about RecordedInstances: an instance that the row once named and *)
(* that is still billed is never hidden by a failed session.  The history  *)
(* of ids is related to the row by what every step does to the row, which  *)
(* SessionLifecycleProofs shows (Follows).                                 *)
(***************************************************************************)
EXTENDS RecordedInstances, SessionLifecycleProofs

\* Recovery lists the inventory before the process does anything else.
RecoveryAlone ==
  task[Recovery].pc = "v_list" => \A u \in Tasks \ {Recovery} : task[u].pc = "idle"

\* Recovery has read an inventory without a labelled instance.
RecoveryFoundNone == Answered(Recovery, "v_list") /\ Absent(Recovery)

RecordedHere == recorded \subseteq Ids \ {None} /\ row.instance \in recorded \cup {None}

\* A session that names no host and that nobody asked to destroy has none.
ForgottenIsGone ==
  /\ BoundedProvider
  /\ (row.instance = None /\ ~row.destroyRequested) \/ RecoveryFoundNone
  => recorded \cap live = {}

RInv ==
  /\ IInv
  /\ RecoveryAlone
  /\ RecordedHere
  /\ ForgottenIsGone

---------------------------------------------------------------------------
\* While recovery awaits its inventory, nothing else of the process moves.
LEMMA RecoveryWaits ==
  ASSUME RecoveryAlone, task[Recovery].pc = "v_list", [Next]_vars
  PROVE  \/ ListInstances(Recovery) \/ RecoverListed \/ Crash
         \/ UNCHANGED <<task, row>> /\ (Settle \/ Vanish \/ UNCHANGED vars)
         \/ FinishRemoteJob
<1>1. \A u \in Tasks : task[u].pc = "idle" \/ (u = Recovery /\ task[u].pc = "v_list")
  BY DEF RecoveryAlone
<1>2. task[Watchdog].pc = "idle"
  BY <1>1, WatchdogIsTask, TasksDistinct
<1>3. ASSUME NEW t \in Tasks PROVE ~Resume(t)
  BY <1>1
  DEF Resume, DestroyFound, DestroyListed, ReconcileListed, ReconcileGot, BootstrapHealth,
      BootstrapApply, BootstrapDeadline, RecoverSession, ResumeSession, Waiting, Answered
<1>4. ASSUME NEW t \in Tasks, Provider(t) PROVE ListInstances(Recovery)
  BY <1>1, <1>4
  DEF Provider, ListInstances, GetInstance, DeleteInstance, CreateInstance, Outstanding,
      ListCalls, CreateCalls, DeleteCalls
<1>5. ASSUME NEW t \in Handlers PROVE ~Request(t)
  <2>1. task[t].pc = "idle" /\ ~Waiting(Recovery, "idle")
    BY <1>1, HandlerIsTask, TasksDistinct DEF Waiting
  <2> QED
    BY <2>1
    DEF Request, ConfirmBegin, ConfirmOffer, ConfirmCreated, ConfirmLookedUp,
        DestroyRequest, Poll, SubmitJob, SubmitApplied, Free, Waiting, Answered
<1>6. ~BootWatchdog
  BY <1>2
  DEF BootWatchdog, WatchdogWake, BootFailureDeleted, BootFailureListed,
      BootFailureSearched, BootFailureCreated, BootFailureLookedUp, Waiting, Answered
<1>7. CASE Settle \/ Vanish \/ UNCHANGED vars
  BY <1>7 DEF Settle, Vanish, vars
<1> QED
  BY <1>3, <1>4, <1>5, <1>6, <1>7 DEF Next

\* What starts to run is new: it is no id that anything has held.
LEMMA NewIsFresh ==
  ASSUME IInv, [Next]_vars
  PROVE  Ids \subseteq Ids' /\ Ids \cap live' \subseteq live
<1>1. /\ creates \in Nat /\ live \subseteq 1..creates /\ inflight \subseteq 1..creates
      /\ None \notin live
  BY DEF IInv, TypeOK, Numbered, None
<1>2. CASE \E t \in Tasks : CreateInstance(t)
  <2>1. /\ creates' = creates + 1
        /\ live' \subseteq live \cup {creates + 1}
        /\ inflight' \subseteq inflight \cup {creates + 1}
    BY <1>2 DEF CreateInstance
  <2>2. creates + 1 \notin 1..creates /\ creates + 1 # None /\ 1..creates \subseteq 1..creates'
    BY <1>1, <2>1 DEF None
  <2> QED
    BY <2>1, <2>2 DEF Ids
<1>3. CASE \A t \in Tasks : ~CreateInstance(t)
  <2>1. \/ R!Settle \/ R!Stop
        \/ UNCHANGED <<creates, inflight, live>>
    BY <1>3, OtherIsProvider
  <2>2. /\ creates' = creates /\ inflight' \subseteq inflight
        /\ live' \subseteq live \cup inflight
    BY <2>1 DEF R!Settle, R!Stop
  <2>3. None \notin inflight
    BY <1>1 DEF None
  <2> QED
    BY <2>2, <2>3 DEF Ids
<1> QED
  BY <1>2, <1>3

LEMMA RecordedInit == RecordingInit => RInv
<1> SUFFICES ASSUME RecordingInit PROVE RInv
  OBVIOUS
<1>1. IInv
  BY InitInv DEF RecordingInit
<1>2. Resting.pc = "idle"
  BY DEF Resting, Await
<1>3. task[Recovery].pc = "idle"
  BY <1>2, WatchdogIsTask DEF RecordingInit, Init
<1>4. row.instance = None /\ recorded = {}
  BY DEF RecordingInit, Init, Selected
<1> QED
  BY <1>1, <1>3, <1>4
  DEF RInv, RecoveryAlone, RecordedHere, ForgottenIsGone

\* What recovery does with the inventory concerns no other task.
LEMMA RecoverListedOnly ==
  ASSUME RecoverListed
  PROVE  \E x : task' = [task EXCEPT ![Recovery] = x] /\ ~x.answered
<1> DEFINE Mine == \E x : task' = [task EXCEPT ![Recovery] = x] /\ ~x.answered
<1>0. ~Resting.answered /\ \A pc, s : ~Await(pc, s).answered
  BY DEF Resting, Await
<1>1. ASSUME NEW r, End(Recovery, r) PROVE Mine
  BY <1>0, <1>1 DEF End
<1>2. ASSUME NEW r, NEW s, Return(Recovery, r, s) PROVE Mine
  BY <1>1, <1>2, TasksDistinct DEF Return
<1>3. ASSUME NEW pc, NEW s, NEW r, Suspend(Recovery, pc, s, r) PROVE Mine
  BY <1>0, <1>3 DEF Suspend
<1>4. ASSUME DestroyBegin(Recovery, row) PROVE Mine
  <2> HIDE DEF Mine
  <2>1. \/ \E r, s : Return(Recovery, r, s)
        \/ \E pc, s, r : Suspend(Recovery, pc, s, r)
    BY <1>4 DEF DestroyBegin
  <2> QED
    BY <2>1, <1>2, <1>3
<1>5. ASSUME NEW r, NEW s, NEW m, Activate(Recovery, r, s, m) PROVE Mine
  <2> HIDE DEF Mine
  <2>1. \/ \E a : Return(Recovery, a, s)
        \/ \E pc, a : Suspend(Recovery, pc, a, a)
    BY <1>5 DEF Activate
  <2> QED
    BY <2>1, <1>2, <1>3
<1> HIDE DEF Mine
<1>6. \/ \E r : End(Recovery, r)
      \/ DestroyBegin(Recovery, row)
      \/ \E r, m : Activate(Recovery, r, r.state, m)
  BY DEF RecoverListed
<1>7. Mine
  BY <1>1, <1>4, <1>5, <1>6
<1> QED
  BY <1>7 DEF Mine

LEMMA RecoveryAloneStep ==
  ASSUME RInv, [Next]_vars
  PROVE  RecoveryAlone'
<1> SUFFICES ASSUME task'[Recovery].pc = "v_list"
             PROVE  \A u \in Tasks \ {Recovery} : task'[u].pc = "idle"
  BY DEF RecoveryAlone
<1>1. RecoveryEnters
  BY StepInv DEF RInv, Follows
<1>2. CASE task[Recovery].pc = "v_list"
  <2>1. \A u \in Tasks \ {Recovery} : task[u].pc = "idle"
    BY <1>2 DEF RInv, RecoveryAlone
  <2>2. task \in [Tasks -> Task] /\ Recovery \in Tasks /\ live \in SUBSET Nat
    BY WatchdogIsTask DEF RInv, IInv, TypeOK
  <2>3. CASE ListInstances(Recovery)
    BY <2>1, <2>2, <2>3, AnswerShape DEF RInv, ListInstances
  <2>4. CASE RecoverListed
    BY <2>1, <2>2, <2>4, RecoverListedOnly
  <2>5. CASE Crash
    BY <2>5 DEF Crash, Restarted, Resting, Await
  <2>6. CASE UNCHANGED task
    BY <2>1, <2>6
  <2>7. CASE FinishRemoteJob
    BY <2>1, <2>7 DEF FinishRemoteJob
  <2> QED
    BY <1>2, <2>3, <2>4, <2>5, <2>6, <2>7, RecoveryWaits DEF RInv
<1> QED
  BY <1>1, <1>2 DEF RecoveryEnters

\* Between the answer of recovery's inventory and its use the row keeps its host.
LEMMA FoundNoneStep ==
  ASSUME RInv, RecordingNext, BoundedProvider, RecoveryFoundNone'
  PROVE  recorded' \cap live' = {}
<1>1. [Next]_vars /\ recorded' = recorded \cup ({row'.instance} \ {None})
  BY DEF RecordingNext
<1>2. task[Recovery].pc = "v_list"
  BY <1>1, StepInv DEF RInv, Follows, RecoveryEnters, RecoveryFoundNone, Answered
<1>3. /\ task \in [Tasks -> Task] /\ Recovery \in Tasks /\ row \in Session
      /\ live \in SUBSET Nat
  BY WatchdogIsTask DEF RInv, IInv, TypeOK
<1>4. CASE ListInstances(Recovery)
  <2>1. Answer(Recovery, TRUE, live) \/ Answer(Recovery, FALSE, {})
    BY <1>4 DEF ListInstances
  <2>2. live' = {}
    BY <1>3, <1>4, <2>1, AnswerShape DEF RInv, ListInstances, RecoveryFoundNone, Absent
  <2> QED
    BY <2>2
<1>5. CASE FinishRemoteJob \/ UNCHANGED <<task, row>>
  <2>1. row'.instance = row.instance /\ task' = task
    BY <1>3, <1>5 DEF FinishRemoteJob, Session
  <2>2. recorded' = recorded
    BY <1>1, <2>1 DEF RInv, RecordedHere
  <2>3. recorded \cap live = {}
    BY <2>1 DEF RInv, ForgottenIsGone, RecoveryFoundNone, Answered, Absent
  <2>4. recorded \subseteq Ids /\ Ids \cap live' \subseteq live
    BY <1>1, NewIsFresh DEF RInv, RecordedHere
  <2> QED
    BY <2>2, <2>3, <2>4
<1>6. CASE RecoverListed
  BY <1>3, <1>6, RecoverListedOnly DEF RecoveryFoundNone, Answered
<1>7. CASE Crash
  BY <1>3, <1>7 DEF Crash, Restarted, Resting, Await, RecoveryFoundNone, Answered
<1> QED
  BY <1>1, <1>2, <1>4, <1>5, <1>6, <1>7, RecoveryWaits DEF RInv

\* No step forgets a host that may still be billed.
LEMMA ForgottenStep ==
  ASSUME RInv, RecordingNext, BoundedProvider,
         row'.instance = None, ~row'.destroyRequested
  PROVE  recorded' \cap live' = {}
<1>1. [Next]_vars /\ recorded' = recorded
  BY DEF RecordingNext
<1>2. recorded \subseteq Ids /\ Ids \cap live' \subseteq live
  BY <1>1, NewIsFresh DEF RInv, RecordedHere
<1>3. Shown(row')
  BY <1>1, StepInv DEF RInv, Follows
<1>4. FoundAbsent => live = {}
  BY DEF RInv, IInv, BootFailureAlone
<1>5. recorded \cap live = {}
  <2>1. CASE row'.instance # None \/ row'.destroyRequested
    BY <2>1
  <2> QED
    BY <1>3, <1>4, <2>1 DEF Shown, RInv, ForgottenIsGone, RecoveryFoundNone
<1> QED
  BY <1>1, <1>2, <1>5

LEMMA RecordedStep == RInv /\ [RecordingNext]_<<vars, recorded>> => RInv'
<1> SUFFICES ASSUME RInv, [RecordingNext]_<<vars, recorded>> PROVE RInv'
  OBVIOUS
<1>1. [Next]_vars
  BY DEF RecordingNext
<1>2. IInv' /\ RecoveryAlone'
  BY <1>1, StepInv, RecoveryAloneStep DEF RInv
<1>3. CASE RecordingNext
  <2>1. RecordedHere'
    <3>1. recorded \subseteq Ids \ {None} /\ Ids \subseteq Ids'
      BY <1>1, NewIsFresh DEF RInv, RecordedHere
    <3>2. row'.instance \in Ids'
      BY <1>2 DEF IInv, Numbered
    <3> QED
      BY <1>3, <3>1, <3>2 DEF RecordingNext, RecordedHere
  <2>2. ForgottenIsGone'
    BY <1>3, FoundNoneStep, ForgottenStep DEF ForgottenIsGone
  <2> QED
    BY <1>2, <2>1, <2>2 DEF RInv
<1>4. CASE UNCHANGED <<vars, recorded>>
  BY <1>2, <1>4
  DEF vars, RInv, RecordedHere, ForgottenIsGone, RecoveryFoundNone, Answered, Absent, Ids
<1> QED
  BY <1>3, <1>4

\* With a provider that settles a create within the boot deadline, no failed
\* session hides an instance that its row once named and that is still billed: the
\* row keeps an id or the destroy request that keeps the billing warning up,
\* whichever of the stale tasks wrote last.
THEOREM RecordedStaysVisible ==
  ASSUME BoundedProvider
  PROVE  RecordingSpec => []RecordedInstanceVisible
<1>1. RInv => RecordedInstanceVisible
  BY DEF RInv, ForgottenIsGone, RecordedInstanceVisible, BillingMayContinue
<1> QED
  BY <1>1, RecordedInit, RecordedStep, PTL DEF RecordingSpec
=============================================================================
