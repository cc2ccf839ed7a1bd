------------------------ MODULE SessionDeadlineProofs ------------------------
(***************************************************************************)
(* Proofs about SessionDeadline, for any number of deadline requests, with *)
(* or without overlaps, and for every bound, grace and first limit.        *)
(***************************************************************************)
EXTENDS SessionDeadline, TLAPS

\* A task that carries a policy to the worker holds one, and a policy that was
\* accepted is on the worker's disk.
Carrying == {"health", "apply", "send", "accepted"}
PolicyHeld == \A t \in Tasks : task[t].pc \in Carrying => task[t].at \in Policies
AcceptedIsStored == \A t \in Tasks : task[t].pc = "accepted" => record # None

\* The inductive invariant: the watchdog of a worker that is past its limit holds
\* the policy and the intent that are on its disk (DeleteIsDue).
IntentHeld == watch.pc \in {"grace", "deleting", "deleted"} => Intended(record)
WorkerInv == WorkerTypeOK /\ DeleteIsDue /\ IntentHeld
IInv == TypeOK /\ DeleteIsDue /\ IntentHeld /\ ReadyIsArmed /\ PolicyHeld /\ AcceptedIsStored

\* What no step of the worker takes back.
IntentKept ==
  Intended(record) => /\ record'.at = record.at
                      /\ record'.intentAt = record.intentAt
                      /\ record.requested => record'.requested
RecordKept == record # None => record' # None

WorkerBehaved == WorkerInv' /\ IntentKept /\ RecordKept

---------------------------------------------------------------------------
(* The worker *)

LEMMA Numbers ==
  /\ Grace \in Nat /\ MaxDeadline \in Nat /\ Horizon \in Nat
  /\ MaxDeadline <= Horizon /\ NoLimit \notin Nat /\ None \notin Nat
  /\ NoLimit # None /\ None \notin Policies
BY DeadlineBounds, PolicyValues DEF Horizon, Policies

LEMMA RecordTyped ==
  ASSUME WorkerTypeOK, record # None
  PROVE  /\ record = Stored(record.at, record.intentAt, record.requested)
         /\ record.at \in Policies /\ record.intentAt \in (0..Horizon) \cup {None}
         /\ record.requested \in BOOLEAN
BY DEF WorkerTypeOK, Records, Stored

LEMMA StoredTyped ==
  ASSUME NEW at \in Policies, NEW i \in (0..Horizon) \cup {None}, NEW r \in BOOLEAN
  PROVE  /\ Stored(at, i, r) \in Records /\ Stored(at, i, r) # None
         /\ Stored(at, i, r).at = at /\ Stored(at, i, r).intentAt = i
         /\ Stored(at, i, r).requested = r
BY NoneIsNoRecord DEF Stored, Records

LEMMA WatchingTyped ==
  ASSUME NEW pc \in WatchStates
  PROVE  /\ Watching(pc) \in [pc : WatchStates, at : Policies \cup {None},
                            intentAt : (0..Horizon) \cup {None}]
         /\ Watching(pc).pc = pc
BY DEF Watching

\* A step that writes neither the record nor a watchdog in its grace.
LEMMA WatchStep ==
  ASSUME WorkerInv, UNCHANGED <<now, record>>, rental' \in {"yes", "deleting", "no"},
         NEW pc \in {"off", "poll", "ended", "failed"}, watch' = Watching(pc)
  PROVE  WorkerBehaved
<1>1. WorkerTypeOK'
  BY WatchingTyped DEF WorkerInv, WorkerTypeOK, WatchStates
<1>2. (DeleteIsDue /\ IntentHeld)'
  BY WatchingTyped DEF DeleteIsDue, IntentHeld, WatchStates
<1>3. IntentKept /\ RecordKept
  BY DEF IntentKept, RecordKept
<1> QED BY <1>1, <1>2, <1>3 DEF WorkerBehaved, WorkerInv

LEMMA UpdateStep ==
  ASSUME WorkerInv, NEW at, Update(at)
  PROVE  WorkerBehaved /\ record' # None
<1>1. at \in Policies
  BY DEF Update, Acceptable, Policies
<1>2. /\ record' \in Records /\ record' # None
  BY <1>1, StoredTyped DEF Update
<1>3. watch.pc \notin {"grace", "deleting", "deleted"}
  BY DEF WorkerInv, DeleteIsDue, Update, Acceptable, Final
<1>4. watch' = watch \/ watch' = Watching("poll")
  BY DEF Update
<1>5. WorkerTypeOK'
  BY <1>2, <1>4, WatchingTyped DEF WorkerInv, WorkerTypeOK, Update, WatchStates
<1>6. (DeleteIsDue /\ IntentHeld)'
  BY <1>3, <1>4, WatchingTyped DEF DeleteIsDue, IntentHeld, WatchStates
<1>7. IntentKept /\ RecordKept
  BY <1>2 DEF IntentKept, RecordKept, Update, Acceptable, Final
<1> QED BY <1>2, <1>5, <1>6, <1>7 DEF WorkerBehaved, WorkerInv

LEMMA WatchExpiredStep ==
  ASSUME WorkerInv, WatchExpired
  PROVE  WorkerBehaved
<1> DEFINE i == IntentAt
<1>1. /\ record # None /\ record.at \in Nat /\ record.at \in Policies
      /\ now \in 0..Horizon /\ now >= record.at /\ record.requested = FALSE
  BY RecordTyped, Numbers
     DEF WorkerInv, WorkerTypeOK, WatchExpired, Expired, Limited, Policies
<1>2. i \in 0..Horizon /\ (record.intentAt # None => i = record.intentAt)
  BY <1>1, RecordTyped DEF IntentAt, WorkerInv
<1>3. /\ record' = Stored(record.at, i, FALSE) /\ record' \in Records
      /\ record' # None /\ record'.at = record.at /\ record'.intentAt = i
  BY <1>1, <1>2, StoredTyped DEF WatchExpired
<1>4. /\ watch' \in [pc : WatchStates, at : Policies \cup {None},
                    intentAt : (0..Horizon) \cup {None}]
      /\ watch'.at = record.at /\ watch'.intentAt = i
      /\ watch'.pc \in {"grace", "deleting"}
      /\ watch'.pc = "deleting" => ~(i + Grace > now)
  BY <1>1, <1>2 DEF WatchExpired, WatchStates
<1>5. now' = now /\ rental' = rental
  BY DEF WatchExpired
<1>6. WorkerTypeOK'
  BY <1>3, <1>4, <1>5 DEF WorkerInv, WorkerTypeOK
<1>7. Expired(record)'
  BY <1>1, <1>3, <1>5, Numbers DEF Expired, Limited
<1>8. (DeleteIsDue /\ IntentHeld)'
  <2>1. watch'.pc = "deleting" => now' >= i + Grace
    BY <1>1, <1>2, <1>4, <1>5, Numbers
  <2>2. i # None
    BY <1>2, Numbers
  <2> HIDE DEF i
  <2> QED BY <1>3, <1>4, <1>7, <2>1, <2>2 DEF DeleteIsDue, IntentHeld, Intended
<1>9. IntentKept /\ RecordKept
  BY <1>1, <1>2, <1>3 DEF IntentKept, RecordKept, Intended
<1> QED BY <1>6, <1>8, <1>9 DEF WorkerBehaved, WorkerInv

LEMMA EnforceFailsStep ==
  ASSUME WorkerInv, EnforceFails
  PROVE  WorkerBehaved
<1> DEFINE i == IntentAt
<1>1. /\ record # None /\ record.at \in Nat /\ record.at \in Policies
      /\ now \in 0..Horizon /\ record.requested = FALSE
  BY RecordTyped, Numbers
     DEF WorkerInv, WorkerTypeOK, EnforceFails, Expired, Limited, Policies
<1>2. i \in 0..Horizon /\ (record.intentAt # None => i = record.intentAt)
  BY <1>1, RecordTyped DEF IntentAt, WorkerInv
<1>3. /\ record' \in Records /\ record'.at = record.at /\ record' # None
      /\ record.intentAt # None => record'.intentAt = record.intentAt
  <2>1. CASE record' = record
    BY <1>1, <2>1 DEF WorkerInv, WorkerTypeOK
  <2>2. CASE record' = Stored(record.at, i, FALSE)
    BY <1>1, <1>2, <2>2, StoredTyped
  <2> QED BY <2>1, <2>2 DEF EnforceFails
<1>4. WorkerTypeOK'
  BY <1>3 DEF EnforceFails, WorkerInv, WorkerTypeOK
<1>5. (DeleteIsDue /\ IntentHeld)'
  <2>1. watch'.pc = "poll"
    BY DEF EnforceFails
  <2> QED BY <2>1 DEF DeleteIsDue, IntentHeld
<1>6. IntentKept /\ RecordKept
  BY <1>1, <1>3 DEF IntentKept, RecordKept, Intended
<1> QED BY <1>4, <1>5, <1>6 DEF WorkerBehaved, WorkerInv

LEMMA GraceOverStep ==
  ASSUME WorkerInv, GraceOver
  PROVE  WorkerBehaved
<1>1. WorkerTypeOK'
  BY DEF WorkerInv, WorkerTypeOK, GraceOver, WatchStates
<1>2. (DeleteIsDue /\ IntentHeld)'
  BY DEF WorkerInv, WorkerTypeOK, DeleteIsDue, IntentHeld, GraceOver, Expired, Limited,
         Intended
<1>3. IntentKept /\ RecordKept
  BY DEF IntentKept, RecordKept, GraceOver
<1> QED BY <1>1, <1>2, <1>3 DEF WorkerBehaved, WorkerInv

LEMMA DeleteAnsweredStep ==
  ASSUME WorkerInv, DeleteAnswered
  PROVE  WorkerBehaved
<1>1. /\ Expired(record) /\ record # None
      /\ record.at = watch.at /\ record.intentAt = watch.intentAt
  BY DEF WorkerInv, DeleteIsDue, DeleteAnswered, Expired, Limited
<1>2. record' = Stored(record.at, record.intentAt, TRUE)
  BY <1>1 DEF DeleteAnswered
<1>3. /\ record' \in Records /\ record' # None /\ record'.at = record.at
      /\ record'.intentAt = record.intentAt /\ record'.requested = TRUE
  BY <1>1, <1>2, RecordTyped, StoredTyped DEF WorkerInv
<1>4. WorkerTypeOK'
  BY <1>3, WatchingTyped DEF WorkerInv, WorkerTypeOK, DeleteAnswered, WatchStates
<1>5. (DeleteIsDue /\ IntentHeld)'
  BY WatchingTyped DEF DeleteIsDue, IntentHeld, DeleteAnswered, WatchStates
<1>6. IntentKept /\ RecordKept
  BY <1>3 DEF IntentKept, RecordKept
<1> QED BY <1>4, <1>5, <1>6 DEF WorkerBehaved, WorkerInv

LEMMA WatchdogStep ==
  ASSUME WorkerInv, Watchdog
  PROVE  WorkerBehaved
<1>1. CASE WatchExpired BY <1>1, WatchExpiredStep
<1>2. CASE GraceOver BY <1>2, GraceOverStep
<1>3. CASE DeleteAnswered BY <1>3, DeleteAnsweredStep
<1>4. CASE DeleteFailed
  BY <1>4, WatchStep DEF DeleteFailed, WorkerInv, WorkerTypeOK
<1>5. CASE WatchReturns
  BY <1>5, WatchStep DEF WatchReturns, WorkerInv, WorkerTypeOK
<1>6. CASE EnforceFails BY <1>6, EnforceFailsStep
<1>7. CASE WatchFails
  BY <1>7, WatchStep DEF WatchFails, WorkerInv, WorkerTypeOK
<1> QED BY <1>1, <1>2, <1>3, <1>4, <1>5, <1>6, <1>7 DEF Watchdog

LEMMA MachineStep ==
  ASSUME WorkerInv, Machine
  PROVE  WorkerBehaved
<1>1. CASE WorkerCrash
  BY <1>1, WatchStep DEF WorkerCrash, WorkerInv, WorkerTypeOK
<1>2. CASE WorkerStart
  BY <1>2, WatchStep DEF WorkerStart, WorkerInv, WorkerTypeOK
<1>3. CASE MachineGone
  BY <1>3, WatchStep DEF MachineGone
<1>4. CASE ProviderDelete
  <2>1. WorkerTypeOK'
    BY <1>4 DEF ProviderDelete, WorkerInv, WorkerTypeOK, WatchStates
  <2>2. (DeleteIsDue /\ IntentHeld)'
    BY <1>4 DEF ProviderDelete, WorkerInv, WorkerTypeOK, DeleteIsDue, IntentHeld,
               Expired, Limited, Intended
  <2>3. IntentKept /\ RecordKept
    BY <1>4 DEF ProviderDelete, IntentKept, RecordKept
  <2> QED BY <2>1, <2>2, <2>3 DEF WorkerBehaved, WorkerInv
<1>5. CASE Tick
  <2>1. now \in 0..Horizon /\ now' = now + 1 /\ now < Horizon
    BY <1>5, Numbers DEF Tick, WorkerInv, WorkerTypeOK
  <2>2. now' \in 0..Horizon
    BY <2>1, Numbers
  <2>3. WorkerTypeOK'
    BY <1>5, <2>2 DEF Tick, WorkerInv, WorkerTypeOK
  <2>4. ASSUME Expired(record) PROVE Expired(record)'
    <3>1. record # None /\ record.at \in Nat
      BY <2>4, RecordTyped, Numbers DEF Expired, Limited, Policies, WorkerInv
    <3> QED BY <1>5, <2>1, <2>4, <3>1, Numbers DEF Expired, Limited, Tick
  <2>5. ASSUME record.intentAt \in 0..Horizon, now >= record.intentAt + Grace
        PROVE  now' >= record.intentAt + Grace
    BY <2>1, <2>5, Numbers
  <2>6. (DeleteIsDue /\ IntentHeld)'
    <3> SUFFICES ASSUME watch'.pc \in {"grace", "deleting", "deleted"}
                 PROVE  /\ Expired(record)'
                        /\ record'.at = watch'.at /\ record'.intentAt = watch'.intentAt
                        /\ watch'.pc # "grace" => now' >= record'.intentAt + Grace
                        /\ Intended(record)'
      BY DEF DeleteIsDue, IntentHeld
    <3>1. /\ Expired(record) /\ record.at = watch.at
          /\ record.intentAt = watch.intentAt
          /\ watch.pc # "grace" => now >= record.intentAt + Grace
          /\ Intended(record) /\ record.intentAt \in 0..Horizon
      BY <1>5, RecordTyped DEF Tick, WorkerInv, DeleteIsDue, IntentHeld, Intended
    <3>2. Expired(record)' BY <2>4, <3>1
    <3> QED BY <1>5, <2>5, <3>1, <3>2 DEF Tick, Intended
  <2>7. IntentKept /\ RecordKept
    BY <1>5 DEF Tick, IntentKept, RecordKept
  <2> QED BY <2>3, <2>6, <2>7 DEF WorkerBehaved, WorkerInv
<1> QED BY <1>1, <1>2, <1>3, <1>4, <1>5 DEF Machine

---------------------------------------------------------------------------
(* The session *)

LEMMA InvSplit == IInv <=> TypeOK /\ WorkerInv /\ ReadyIsArmed /\ PolicyHeld /\ AcceptedIsStored
BY DEF IInv, WorkerInv, TypeOK

LEMMA TasksDistinct == Refresh \in Tasks /\ Recovery \in Tasks /\ Refresh # Recovery
                       /\ Requests \subseteq Tasks /\ Refresh \notin Requests
BY SessionParameters DEF Tasks

Slots == [pc : {"idle", "health", "apply", "send", "accepted", "failed", "destroy"},
          at : Policies \cup {None}, seen : Live \cup {None}]
SessionRows == [state : Live \cup {"destroyed"}, at : Policies,
                pending : Policies \cup {None}, action : Actions \cup {None}]

\* A step of the backend alone: it leaves rows and tasks of their types, makes no
\* session ready before the worker has a policy, and carries policies only.
LEMMA BackendStep ==
  ASSUME IInv, UNCHANGED <<workerVars, overlap>>,
         row' \in SessionRows, task' \in [Tasks -> Slots],
         row'.state = "ready" => row.state = "ready" \/ record # None,
         \A t \in Tasks : task'[t].pc \in Carrying => task'[t].at \in Policies,
         \A t \in Tasks : task'[t].pc = "accepted" => task[t].pc = "accepted"
  PROVE  IInv' /\ IntentKept /\ RecordKept
<1>1. WorkerInv'
  BY DEF IInv, TypeOK, WorkerInv, WorkerTypeOK, DeleteIsDue, IntentHeld, Expired, Limited,
         Intended, workerVars
<1>2. TypeOK'
  BY <1>1 DEF IInv, TypeOK, WorkerInv, SessionRows, Slots
<1>3. (ReadyIsArmed /\ PolicyHeld /\ AcceptedIsStored)'
  BY DEF IInv, ReadyIsArmed, PolicyHeld, AcceptedIsStored, workerVars
<1>4. IntentKept /\ RecordKept
  BY DEF IntentKept, RecordKept, workerVars
<1> QED BY <1>1, <1>2, <1>3, <1>4, InvSplit DEF IInv, WorkerInv

\* A step of the worker alone.
LEMMA WorkerStep ==
  ASSUME IInv, WorkerBehaved, UNCHANGED <<row, task, overlap>>
  PROVE  IInv' /\ IntentKept /\ RecordKept
<1>1. TypeOK'
  BY DEF IInv, TypeOK, WorkerBehaved, WorkerInv
<1>2. (ReadyIsArmed /\ PolicyHeld /\ AcceptedIsStored)'
  BY DEF IInv, ReadyIsArmed, PolicyHeld, AcceptedIsStored, WorkerBehaved, RecordKept
<1> QED BY <1>1, <1>2 DEF IInv, WorkerBehaved, WorkerInv

LEMMA WorkerAcceptsStep ==
  ASSUME IInv, NEW t \in Tasks, WorkerAccepts(t), UNCHANGED overlap
  PROVE  IInv' /\ IntentKept /\ RecordKept
<1>1. WorkerBehaved /\ record' # None
  BY UpdateStep, InvSplit DEF WorkerAccepts
<1>2. TypeOK'
  BY <1>1 DEF IInv, TypeOK, WorkerBehaved, WorkerInv, WorkerAccepts
<1>3. (ReadyIsArmed /\ PolicyHeld /\ AcceptedIsStored)'
  BY <1>1 DEF IInv, TypeOK, ReadyIsArmed, PolicyHeld, AcceptedIsStored, WorkerAccepts, Carrying
<1> QED BY <1>1, <1>2, <1>3 DEF IInv, WorkerBehaved, WorkerInv

Kept == IInv' /\ IntentKept /\ RecordKept

LEMMA RowTyped ==
  ASSUME IInv
  PROVE  row \in SessionRows /\ task \in [Tasks -> Slots]
BY DEF IInv, TypeOK, SessionRows, Slots

LEMMA IdleTyped == Idle \in Slots /\ Idle.pc = "idle"
BY DEF Idle, Slots

\* One task moves on, and the row stays or keeps the worker's side of "ready".
LEMMA TaskStep ==
  ASSUME IInv, UNCHANGED <<workerVars, overlap>>, NEW t \in Tasks, NEW s \in Slots,
         task' = [task EXCEPT ![t] = s], row' \in SessionRows,
         row'.state = "ready" => row.state = "ready" \/ record # None,
         s.pc \in Carrying => s.at \in Policies,
         s.pc = "accepted" => task[t].pc = "accepted"
  PROVE  Kept
<1>1. task' \in [Tasks -> Slots]
  BY RowTyped
<1>2. \A u \in Tasks : task'[u] = IF u = t THEN s ELSE task[u]
  BY RowTyped
<1>3. \A u \in Tasks : task'[u].pc \in Carrying => task'[u].at \in Policies
  BY <1>2 DEF IInv, PolicyHeld
<1>4. \A u \in Tasks : task'[u].pc = "accepted" => task[u].pc = "accepted"
  BY <1>2
<1> QED BY <1>1, <1>3, <1>4, BackendStep DEF Kept

\* A task only changes what it awaits, or rests.
LEMMA MovesOn ==
  ASSUME IInv, UNCHANGED <<workerVars, overlap>>, NEW t \in Tasks, row' = row,
         \/ task' = [task EXCEPT ![t] = Idle]
         \/ /\ task' = [task EXCEPT ![t].pc = "failed"]
         \/ /\ task[t].pc \in Carrying
            /\ task' = [task EXCEPT ![t].pc = "apply"]
         \/ /\ task[t].pc \in Carrying
            /\ task' = [task EXCEPT ![t].pc = "send"]
  PROVE  Kept
<1>1. row' \in SessionRows /\ task[t] \in Slots
  BY RowTyped
<1>2. CASE task' = [task EXCEPT ![t] = Idle]
  BY <1>1, <1>2, IdleTyped, TaskStep DEF Carrying
<1>3. ASSUME NEW p \in {"failed", "apply", "send"}, p # "failed" => task[t].pc \in Carrying,
             task' = [task EXCEPT ![t].pc = p]
      PROVE  Kept
  <2> DEFINE s == [task[t] EXCEPT !.pc = p]
  <2>1. s \in Slots /\ s.pc = p /\ s.at = task[t].at
    BY <1>1 DEF Slots
  <2>2. task' = [task EXCEPT ![t] = s]
    BY <1>3
  <2>3. p # "failed" => s.at \in Policies
    BY <1>3, <2>1 DEF IInv, PolicyHeld
  <2> HIDE DEF s
  <2> QED BY <1>1, <2>1, <2>2, <2>3, TaskStep DEF Carrying
<1> QED BY <1>2, <1>3

LEMMA UpdateDeadlineStep ==
  ASSUME IInv, NEW t \in Requests, NEW a \in Actions, UpdateDeadline(t, a),
         UNCHANGED overlap
  PROVE  Kept
<1>1. DeadlineIntent(a) \in Policies
  BY DEF UpdateDeadline
<1>2. row' \in SessionRows /\ row'.state = row.state
  BY <1>1, RowTyped DEF UpdateDeadline, SessionRows
<1>3. Sending(DeadlineIntent(a), None) \in Slots
  BY <1>1 DEF Sending, Slots
<1> QED BY <1>1, <1>2, <1>3, TaskStep, TasksDistinct DEF UpdateDeadline, Sending, Carrying

LEMMA UpdateSyncedStep ==
  ASSUME IInv, NEW t \in Tasks, UpdateSynced(t), UNCHANGED overlap
  PROVE  Kept
<1>1. task[t].at \in Policies
  BY DEF UpdateSynced, IInv, PolicyHeld, Carrying
<1>2. row' \in SessionRows /\ row'.state = row.state
  BY <1>1, RowTyped DEF UpdateSynced, SessionRows
<1> QED BY <1>2, IdleTyped, TaskStep DEF UpdateSynced, Carrying

LEMMA CallStep ==
  ASSUME IInv, NEW t \in Tasks, Task(t), UNCHANGED overlap
  PROVE  Kept
<1>1. CASE WorkerAccepts(t) BY <1>1, WorkerAcceptsStep DEF Kept
<1>2. CASE WorkerRefuses(t) BY <1>2, MovesOn DEF WorkerRefuses
<1>3. CASE LoseCall(t) BY <1>3, MovesOn DEF LoseCall
<1>4. CASE CallFailed(t) BY <1>4, MovesOn DEF CallFailed
<1>5. CASE UpdateSynced(t) BY <1>5, UpdateSyncedStep
<1> QED BY <1>1, <1>2, <1>3, <1>4, <1>5 DEF Task

LEMMA BootstrapStep ==
  ASSUME IInv, Bootstrap, UNCHANGED overlap
  PROVE  Kept
<1> USE TasksDistinct
<1>0. row \in SessionRows /\ task \in [Tasks -> Slots]
  BY RowTyped
<1>1. CASE BootstrapBegin
  <2> DEFINE s == [pc |-> "health", at |-> row.at, seen |-> row.state]
  <2>1. s \in Slots /\ s.pc = "health" /\ s.at \in Policies
    BY <1>0, <1>1 DEF BootstrapBegin, Slots, SessionRows, BootStates, Live
  <2>2. task' = [task EXCEPT ![Refresh] = s] /\ row' = row /\ UNCHANGED workerVars
    BY <1>1 DEF BootstrapBegin
  <2> HIDE DEF s
  <2> QED BY <1>0, <2>1, <2>2, TaskStep
<1>2. CASE BootstrapHealthy
  <2> DEFINE s == [pc |-> "apply", at |-> row.at, seen |-> "provisioning"]
  <2>1. CASE /\ row' = [row EXCEPT !.state = "provisioning"]
             /\ task' = [task EXCEPT ![Refresh] = s]
    <3>1. s \in Slots /\ s.pc = "apply" /\ s.at \in Policies
      BY <1>0 DEF Slots, SessionRows, Live
    <3>2. row' \in SessionRows /\ row'.state = "provisioning"
      BY <1>0, <2>1 DEF SessionRows, Live
    <3>3. UNCHANGED workerVars BY <1>2 DEF BootstrapHealthy
    <3> HIDE DEF s
    <3> QED BY <2>1, <3>1, <3>2, <3>3, TaskStep
  <2>2. CASE row' = row /\ (\/ task' = [task EXCEPT ![Refresh].pc = "apply"]
                            \/ task' = [task EXCEPT ![Refresh].pc = "send"])
    BY <1>2, <2>2, MovesOn DEF BootstrapHealthy, Carrying
  <2> QED BY <1>2, <2>1, <2>2 DEF BootstrapHealthy
<1>3. CASE BootstrapApplied
  <2> DEFINE s == Sending(row.at, "validating")
  <2>1. s \in Slots /\ s.pc = "send" /\ s.at \in Policies
    BY <1>0 DEF Sending, Slots, SessionRows, Live
  <2>2. row' \in SessionRows /\ row'.state = "validating"
    BY <1>0, <1>3 DEF BootstrapApplied, SessionRows, Live
  <2>3. task' = [task EXCEPT ![Refresh] = s] /\ UNCHANGED workerVars
    BY <1>3 DEF BootstrapApplied
  <2> HIDE DEF s
  <2> QED BY <2>1, <2>2, <2>3, TaskStep
<1>4. CASE BootstrapReady
  <2>1. record # None
    BY <1>4 DEF BootstrapReady, IInv, AcceptedIsStored
  <2>2. row' \in SessionRows
    BY <1>0, <1>4 DEF BootstrapReady, SessionRows, Live
  <2> QED BY <1>4, <2>1, <2>2, IdleTyped, TaskStep DEF BootstrapReady, Carrying
<1> QED BY <1>1, <1>2, <1>3, <1>4 DEF Bootstrap

LEMMA EnforceStep ==
  ASSUME IInv, Enforce, UNCHANGED overlap
  PROVE  Kept
<1> USE TasksDistinct
<1>0. row \in SessionRows /\ task \in [Tasks -> Slots]
  BY RowTyped
<1>1. CASE EnforceBegin
  <2> DEFINE s == [Idle EXCEPT !.pc = "destroy"]
  <2>1. s \in Slots /\ s.pc = "destroy"
    BY DEF Idle, Slots
  <2>2. task' = [task EXCEPT ![Refresh] = s] /\ row' = row /\ UNCHANGED workerVars
    BY <1>1 DEF EnforceBegin
  <2> HIDE DEF s
  <2> QED BY <1>0, <2>1, <2>2, TaskStep DEF Carrying
<1>2. CASE EnforceDestroyed
  <2>1. WorkerBehaved
    BY <1>2, InvSplit, WatchStep DEF EnforceDestroyed
  <2>2. row' \in SessionRows /\ row'.state = "destroyed"
    BY <1>0, <1>2 DEF EnforceDestroyed, SessionRows
  <2>3. task' \in [Tasks -> Slots]
        /\ \A u \in Tasks : task'[u] = Idle \/ task'[u] = task[u]
    BY <1>0, <1>2, IdleTyped DEF EnforceDestroyed
  <2>4. TypeOK'
    BY <2>1, <2>2, <2>3 DEF IInv, TypeOK, WorkerBehaved, WorkerInv, SessionRows, Slots
  <2>5. (ReadyIsArmed /\ PolicyHeld /\ AcceptedIsStored)'
    BY <2>1, <2>2, <2>3, IdleTyped
       DEF IInv, ReadyIsArmed, PolicyHeld, AcceptedIsStored, Carrying, WorkerBehaved,
           RecordKept
  <2> QED BY <2>1, <2>4, <2>5 DEF Kept, IInv, WorkerBehaved, WorkerInv
<1> QED BY <1>1, <1>2 DEF Enforce

LEMMA CrashStep ==
  ASSUME IInv, Crash, UNCHANGED overlap
  PROVE  Kept
<1>0. row \in SessionRows /\ task \in [Tasks -> Slots]
  BY RowTyped
<1> DEFINE s == [pc |-> "health", at |-> row.at, seen |-> "ready"]
<1>1. s \in Slots /\ s.pc = "health" /\ s.at \in Policies
  BY <1>0 DEF Slots, SessionRows, Live
<1>2. \A u \in Tasks : task'[u] = Idle \/ task'[u] = s
  BY DEF Crash
<1>3. task' \in [Tasks -> Slots]
  BY <1>1, <1>2, IdleTyped DEF Crash
<1>4. row' = row /\ UNCHANGED workerVars
  BY DEF Crash
<1> HIDE DEF s
<1> QED BY <1>0, <1>1, <1>2, <1>3, <1>4, IdleTyped, BackendStep DEF Carrying, Kept

LEMMA RecoverStep ==
  ASSUME IInv, Recover, UNCHANGED overlap
  PROVE  Kept
<1>1. CASE RecoverHealthy
  BY <1>1, TasksDistinct, MovesOn DEF RecoverHealthy, Carrying
<1>2. CASE RecoverReady
  BY <1>2, TasksDistinct, MovesOn DEF RecoverReady
<1> QED BY <1>1, <1>2 DEF Recover

---------------------------------------------------------------------------
(* The theorems *)

LEMMA InitStep == Init => IInv
<1> SUFFICES ASSUME Init PROVE IInv
  OBVIOUS
<1>1. WorkerInv
  BY Numbers, WatchingTyped
     DEF Init, WorkerInit, WorkerInv, WorkerTypeOK, DeleteIsDue, IntentHeld, WatchStates
<1>2. TypeOK
  BY <1>1, IdleTyped, SessionParameters
     DEF Init, TypeOK, WorkerInv, SessionRows, Slots, Live
<1>3. ReadyIsArmed /\ PolicyHeld /\ AcceptedIsStored
  BY DEF Init, Idle, ReadyIsArmed, PolicyHeld, AcceptedIsStored, Carrying
<1> QED BY <1>1, <1>2, <1>3, InvSplit

LEMMA NextStep ==
  ASSUME IInv, [Next]_vars
  PROVE  Kept
<1>1. CASE UNCHANGED vars
  <2>1. row' = row /\ task' = task /\ UNCHANGED <<workerVars, overlap>>
    BY <1>1 DEF vars
  <2> QED BY <2>1, RowTyped, BackendStep DEF Kept, IInv, PolicyHeld
<1>2. CASE Next
  <2>0. UNCHANGED overlap
    BY <1>2 DEF Next
  <2>1. CASE \E t \in Requests, a \in Actions : UpdateDeadline(t, a)
    BY <2>0, <2>1, UpdateDeadlineStep
  <2>2. CASE \E t \in Tasks : Task(t)
    BY <2>0, <2>2, CallStep
  <2>3. CASE Bootstrap BY <2>0, <2>3, BootstrapStep
  <2>4. CASE Enforce BY <2>0, <2>4, EnforceStep
  <2>5. CASE Recover BY <2>0, <2>5, RecoverStep
  <2>6. CASE Crash BY <2>0, <2>6, CrashStep
  <2>7. CASE RemoteWatchdog
    BY <2>7, InvSplit, WatchdogStep, WorkerStep DEF RemoteWatchdog, Kept
  <2>8. CASE RemoteMachine
    BY <2>8, InvSplit, MachineStep, WorkerStep DEF RemoteMachine, Kept
  <2> QED BY <1>2, <2>1, <2>2, <2>3, <2>4, <2>5, <2>6, <2>7, <2>8 DEF Next
<1> QED BY <1>1, <1>2

\* The invariant holds throughout, for any number of overlapping deadline requests.
THEOREM DeadlineInvariance == Spec => []IInv
BY InitStep, NextStep, PTL DEF Spec, Kept

\* Rows, tasks, the policy on the worker's disk and its watchdog keep their types
\* (update_deadline, bootstrap_session, DeadlineWatchdog).
THEOREM DeadlineTypeCorrect == Spec => []TypeOK
BY DeadlineInvariance, PTL DEF IInv

\* The worker sends the DELETE only for a limit that is stored and has passed,
\* with its intent on disk and its grace over (DeadlineWatchdog.enforce).
THEOREM DeletesAreDue == Spec => []DeleteIsDue
BY DeadlineInvariance, PTL DEF IInv

\* A ready session has a worker with a deadline policy (bootstrap_session).
THEOREM ReadyArmed == Spec => []ReadyIsArmed
BY DeadlineInvariance, PTL DEF IInv

\* A destroy intent on the worker's disk is never taken back, by an update or by a
\* restart (DeadlineWatchdog.update, enforce).
THEOREM IntentsAreFinal == Spec => IntentIsFinal
<1>1. IInv /\ [Next]_vars => [IntentKept]_workerVars
  BY NextStep DEF Kept
<1>2. [IntentKept]_workerVars =>
        [Intended(record) =>
           /\ record'.at = record.at
           /\ record'.intentAt = record.intentAt
           /\ record.requested => record'.requested]_workerVars
  BY DEF IntentKept
<1> QED BY <1>1, <1>2, DeadlineInvariance, PTL DEF Spec, IntentIsFinal

---------------------------------------------------------------------------
(* Deadline requests one at a time, and none during a bootstrap *)

\* What the row shows and what the worker has agree only while a deadline request
\* overlaps neither a bootstrap nor another deadline request.
OneRequest == \A q, r \in Requests : q = r

Busy == Carrying \cup {"failed"}

\* A pending policy is later than the limit the row shows; the worker has the one
\* or the other; and the one task that may change that carries the policy it
\* should, a request the pending one, a bootstrap or recovery the one shown.
PendingFits ==
  row.pending # None => row.at # NoLimit /\ (row.pending = NoLimit \/ row.pending > row.at)
RecordFits ==
  record # None => record.at = row.at \/ (row.pending # None /\ record.at = row.pending)
Wanted(t) == IF t \in Requests THEN row.pending ELSE row.at
TaskFits(t) ==
  task[t].pc \in Busy =>
    /\ \A u \in Tasks : task[u].pc \in Busy => u = t
    /\ task[t].pc \in Carrying => task[t].at = Wanted(t)
    /\ task[t].pc = "accepted" => record # None /\ record.at = task[t].at

Apart == ~overlap /\ row.state # "destroyed"
Agreed == Apart => PendingFits /\ RecordFits /\ \A t \in Tasks : TaskFits(t)
AgreeInv == IInv /\ Agreed

\* One task moves on, alone; or it rests and leaves the policies as they are.
LEMMA TaskMoves ==
  ASSUME AgreeInv, Apart, NEW t \in Tasks, NEW s, task' = [task EXCEPT ![t] = s],
         PendingFits', RecordFits',
         \/ /\ \A u \in Tasks \ {t} : task[u].pc \notin Busy
            /\ s.pc \in Carrying => s.at = Wanted(t)'
            /\ s.pc = "accepted" => record' # None /\ record'.at = s.at
         \/ /\ s.pc \notin Busy /\ UNCHANGED record
            /\ row'.at = row.at /\ row'.pending = row.pending
  PROVE  Agreed'
<1>1. \A u \in Tasks : task'[u] = IF u = t THEN s ELSE task[u]
  BY RowTyped DEF AgreeInv
<1>2. \A u \in Tasks : TaskFits(u)
  BY DEF AgreeInv, Agreed
<1>3. CASE /\ \A u \in Tasks \ {t} : task[u].pc \notin Busy
           /\ s.pc \in Carrying => s.at = Wanted(t)'
           /\ s.pc = "accepted" => record' # None /\ record'.at = s.at
  <2>1. ASSUME NEW u \in Tasks PROVE TaskFits(u)'
    BY <1>1, <1>3 DEF TaskFits, Wanted
  <2> QED BY <2>1 DEF Agreed
<1>4. CASE /\ s.pc \notin Busy /\ UNCHANGED record
           /\ row'.at = row.at /\ row'.pending = row.pending
  <2>1. ASSUME NEW u \in Tasks PROVE TaskFits(u)'
    BY <1>1, <1>2, <1>4 DEF TaskFits, Wanted
  <2> QED BY <2>1 DEF Agreed
<1> QED BY <1>3, <1>4

\* Only one task is busy, and none while a request or a bootstrap can begin.
LEMMA OthersIdle ==
  ASSUME AgreeInv, Apart, NEW t \in Tasks, task[t].pc \in Busy
  PROVE  /\ \A u \in Tasks \ {t} : task[u].pc \notin Busy
         /\ TaskFits(t) /\ PendingFits /\ RecordFits
BY DEF AgreeInv, Agreed, TaskFits

LEMMA IdleIsFree == Idle.pc \notin Busy /\ Idle.pc \notin Carrying
BY DEF Idle, Busy, Carrying

\* A destroyed session is not brought back.
LEMMA DestroyedStays ==
  ASSUME IInv, Next, row.state = "destroyed"
  PROVE  row'.state = "destroyed"
<1>1. row \in SessionRows
  BY RowTyped
<1>2. \A s \in {"validating", "ready"} : ~CanMove("destroyed", s)
  BY DEF CanMove, SESSION_TRANSITIONS, SessionState
<1>3. CASE row' = row
  BY <1>3
<1>4. ASSUME NEW t \in Requests, NEW a \in Actions, UpdateDeadline(t, a)
      PROVE  row'.state = "destroyed"
  BY <1>1, <1>4 DEF UpdateDeadline, SessionRows
<1>5. ASSUME NEW t \in Tasks, Task(t)
      PROVE  row'.state = "destroyed"
  BY <1>1, <1>5 DEF Task, WorkerAccepts, WorkerRefuses, LoseCall, CallFailed, UpdateSynced,
                    SessionRows
<1>6. CASE Bootstrap
  BY <1>1, <1>2, <1>6 DEF Bootstrap, BootstrapBegin, BootstrapHealthy, BootstrapApplied,
                          BootstrapReady, SessionRows
<1>7. CASE Enforce
  BY <1>1, <1>7 DEF Enforce, EnforceBegin, EnforceDestroyed, SessionRows
<1>8. CASE Recover \/ Crash \/ RemoteWatchdog \/ RemoteMachine
  BY <1>8 DEF Recover, RecoverHealthy, RecoverReady, Crash, RemoteWatchdog, RemoteMachine
<1> QED BY <1>4, <1>5, <1>6, <1>7, <1>8 DEF Next

LEMMA AgreeUpdateDeadline ==
  ASSUME OneRequest, AgreeInv, Apart, NEW t \in Requests, NEW a \in Actions,
         UpdateDeadline(t, a)
  PROVE  Agreed'
<1> DEFINE p == DeadlineIntent(a)
           s == Sending(p, None)
<1>1. t \in Tasks /\ row \in SessionRows /\ PendingFits /\ RecordFits
  BY RowTyped DEF Tasks, AgreeInv, Agreed
<1>2. \A u \in Tasks : task[u].pc \notin Busy
  BY IdleIsFree DEF UpdateDeadline, Serving, Tasks, OneRequest, Apart
<1>3. s.pc = "send" /\ s.at = p
  BY DEF Sending
<1>4. p \in Policies \ {row.at}
  BY DEF UpdateDeadline
<1>5. row.pending # None => p = row.pending
  BY DEF DeadlineIntent
<1>6. p # None /\ row.at # NoLimit /\ (p = NoLimit \/ p > row.at)
  <2>1. CASE row.pending # None
    BY <1>1, <1>5, <2>1 DEF PendingFits
  <2>2. CASE row.pending = None /\ a = "disable"
    BY <1>4, <2>2, Numbers DEF DeadlineIntent
  <2>3. CASE row.pending = None /\ a # "disable"
    <3>1. row.at # NoLimit /\ DEADLINE_ACTION_SECONDS[a] \in {1, 2}
      BY <2>3 DEF UpdateDeadline, IntentAllowed, DEADLINE_ACTION_SECONDS, Actions
    <3>2. row.at \in 1..MaxDeadline
      BY <1>1, <3>1 DEF SessionRows, Policies
    <3>3. p = row.at + DEADLINE_ACTION_SECONDS[a]
      BY <2>3 DEF DeadlineIntent
    <3> HIDE DEF p
    <3> QED BY <1>4, <3>1, <3>2, <3>3, Numbers
  <2> QED BY <2>1, <2>2, <2>3
<1> HIDE DEF p, s
<1>7. /\ row' = [row EXCEPT !.pending = p, !.action = a]
      /\ task' = [task EXCEPT ![t] = s] /\ UNCHANGED record
  BY DEF UpdateDeadline, p, s, workerVars
<1>8. row'.at = row.at /\ row'.pending = p
  BY <1>1, <1>7 DEF SessionRows
<1>9. PendingFits' /\ RecordFits'
  BY <1>1, <1>5, <1>6, <1>7, <1>8 DEF PendingFits, RecordFits
<1> QED BY <1>1, <1>2, <1>3, <1>7, <1>8, <1>9, TaskMoves DEF Wanted

\* A call of the worker, or its loss: what the worker takes is what was sent.
LEMMA AgreeCall ==
  ASSUME AgreeInv, Apart, NEW t \in Tasks, Task(t)
  PROVE  Agreed'
<1>1. row \in SessionRows /\ task[t] \in Slots
  BY RowTyped DEF AgreeInv
<1>2. task[t].pc \in Busy
  BY DEF Task, WorkerAccepts, WorkerRefuses, LoseCall, CallFailed, UpdateSynced, Busy,
         Carrying
<1>3. /\ \A u \in Tasks \ {t} : task[u].pc \notin Busy
      /\ TaskFits(t) /\ PendingFits /\ RecordFits
  BY <1>2, OthersIdle
<1>4. CASE WorkerAccepts(t)
  <2> DEFINE s == [task[t] EXCEPT !.pc = "accepted"]
  <2>1. s.pc = "accepted" /\ s.at = task[t].at
    BY <1>1 DEF Slots
  <2>2. task' = [task EXCEPT ![t] = s] /\ row' = row /\ task[t].pc = "send"
    BY <1>4 DEF WorkerAccepts
  <2>3. task[t].at = Wanted(t) /\ task[t].at \in Policies
    BY <1>3, <2>2 DEF TaskFits, Busy, Carrying, AgreeInv, IInv, PolicyHeld
  <2>4. record' # None /\ record'.at = task[t].at
    <3>1. record' = Stored(task[t].at, None, FALSE)
      BY <1>4 DEF WorkerAccepts, Update
    <3>2. None \in (0..Horizon) \cup {None} /\ FALSE \in BOOLEAN
      OBVIOUS
    <3> QED BY <2>3, <3>1, <3>2, StoredTyped
  <2>5. PendingFits' /\ RecordFits'
    BY <1>3, <2>2, <2>3, <2>4, Numbers DEF PendingFits, RecordFits, Wanted
  <2>6. Wanted(t)' = Wanted(t)
    BY <2>2 DEF Wanted
  <2> HIDE DEF s
  <2> QED BY <1>3, <2>1, <2>2, <2>3, <2>4, <2>5, <2>6, TaskMoves
<1>5. CASE WorkerRefuses(t) \/ LoseCall(t)
  <2> DEFINE s == [task[t] EXCEPT !.pc = "failed"]
  <2>1. s.pc = "failed"
    BY <1>1 DEF Slots
  <2>2. task' = [task EXCEPT ![t] = s] /\ row' = row /\ record' = record
    BY <1>5 DEF WorkerRefuses, LoseCall, workerVars
  <2>3. PendingFits' /\ RecordFits'
    BY <1>3, <2>2 DEF PendingFits, RecordFits
  <2> HIDE DEF s
  <2> QED BY <1>3, <2>1, <2>2, <2>3, TaskMoves DEF Carrying
<1>6. CASE CallFailed(t)
  <2>1. PendingFits' /\ RecordFits'
    BY <1>3, <1>6 DEF PendingFits, RecordFits, CallFailed, workerVars
  <2> QED BY <1>3, <1>6, <2>1, IdleIsFree, TaskMoves DEF CallFailed, workerVars
<1>7. CASE UpdateSynced(t)
  <2>1. record' = record /\ record # None /\ record.at = task[t].at
    BY <1>3, <1>7 DEF UpdateSynced, TaskFits, Busy, Carrying, workerVars
  <2>2. row'.at = task[t].at /\ row'.pending = None
    BY <1>1, <1>7 DEF UpdateSynced, SessionRows
  <2>3. PendingFits' /\ RecordFits'
    BY <2>1, <2>2 DEF PendingFits, RecordFits
  <2>4. task' = [task EXCEPT ![t] = Idle]
    BY <1>7 DEF UpdateSynced
  <2>5. Idle.pc # "accepted"
    BY DEF Idle
  <2> QED BY <1>3, <2>3, <2>4, <2>5, IdleIsFree, TaskMoves
<1> QED BY <1>4, <1>5, <1>6, <1>7 DEF Task

LEMMA PoliciesStay ==
  ASSUME AgreeInv, Apart, row'.at = row.at, row'.pending = row.pending, record' = record
  PROVE  PendingFits' /\ RecordFits'
BY DEF AgreeInv, Agreed, PendingFits, RecordFits

LEMMA AgreeBootstrap ==
  ASSUME AgreeInv, Apart, Bootstrap
  PROVE  Agreed'
<1>1. /\ row \in SessionRows /\ Refresh \in Tasks /\ Refresh \notin Requests
      /\ task[Refresh] \in Slots
  BY RowTyped, TasksDistinct DEF AgreeInv
<1>2. /\ row'.at = row.at /\ row'.pending = row.pending /\ record' = record
  BY <1>1 DEF Bootstrap, BootstrapBegin, BootstrapHealthy, BootstrapApplied, BootstrapReady,
              SessionRows, workerVars
<1>3. PendingFits' /\ RecordFits' /\ Wanted(Refresh)' = row.at
  BY <1>1, <1>2, PoliciesStay DEF Wanted
<1>4. task[Refresh].pc \in Carrying =>
        /\ \A u \in Tasks \ {Refresh} : task[u].pc \notin Busy
        /\ task[Refresh].at = row.at
  BY <1>1, OthersIdle DEF Busy, TaskFits, Wanted
<1>5. CASE BootstrapBegin
  <2> DEFINE s == [pc |-> "health", at |-> row.at, seen |-> row.state]
  <2>1. \A u \in Tasks : task[u].pc \notin Busy
    BY <1>5, IdleIsFree DEF BootstrapBegin, Serving, Tasks, Apart
  <2>2. s.pc = "health" /\ s.at = row.at /\ task' = [task EXCEPT ![Refresh] = s]
    BY <1>5 DEF BootstrapBegin
  <2> HIDE DEF s
  <2> QED BY <1>1, <1>3, <2>1, <2>2, TaskMoves
<1>6. CASE BootstrapHealthy
  <2>1. task[Refresh].pc = "health"
    BY <1>6 DEF BootstrapHealthy
  <2>2. PICK s : /\ task' = [task EXCEPT ![Refresh] = s] /\ s.pc \in {"apply", "send"}
                 /\ s.at \in {row.at, task[Refresh].at}
    <3> DEFINE fresh == [pc |-> "apply", at |-> row.at, seen |-> "provisioning"]
    <3>1. CASE task' = [task EXCEPT ![Refresh] = fresh]
      <4>1. fresh.pc = "apply" /\ fresh.at = row.at
        OBVIOUS
      <4> HIDE DEF fresh
      <4> QED BY <3>1, <4>1
    <3>2. ASSUME NEW p \in {"apply", "send"}, task' = [task EXCEPT ![Refresh].pc = p]
          PROVE  \E s : /\ task' = [task EXCEPT ![Refresh] = s]
                        /\ s.pc \in {"apply", "send"}
                        /\ s.at \in {row.at, task[Refresh].at}
      <4> DEFINE s == [task[Refresh] EXCEPT !.pc = p]
      <4>1. s.pc = p /\ s.at = task[Refresh].at /\ task' = [task EXCEPT ![Refresh] = s]
        BY <1>1, <3>2 DEF Slots
      <4> HIDE DEF s
      <4> QED BY <4>1
    <3> QED BY <1>6, <3>1, <3>2 DEF BootstrapHealthy
  <2>3. s.at = row.at /\ \A u \in Tasks \ {Refresh} : task[u].pc \notin Busy
    BY <1>4, <2>1, <2>2 DEF Carrying
  <2> QED BY <1>1, <1>3, <2>2, <2>3, TaskMoves
<1>7. CASE BootstrapApplied
  <2> DEFINE s == Sending(row.at, "validating")
  <2>1. s.pc = "send" /\ s.at = row.at /\ task' = [task EXCEPT ![Refresh] = s]
    BY <1>7 DEF BootstrapApplied, Sending
  <2>2. \A u \in Tasks \ {Refresh} : task[u].pc \notin Busy
    BY <1>4, <1>7 DEF BootstrapApplied, Carrying
  <2> HIDE DEF s
  <2> QED BY <1>1, <1>3, <2>1, <2>2, TaskMoves
<1>8. CASE BootstrapReady
  BY <1>1, <1>2, <1>3, <1>8, IdleIsFree, TaskMoves DEF BootstrapReady
<1> QED BY <1>5, <1>6, <1>7, <1>8 DEF Bootstrap

LEMMA AgreeEnforce ==
  ASSUME AgreeInv, Apart, Enforce
  PROVE  Agreed'
<1>1. CASE EnforceBegin
  <2> DEFINE s == [Idle EXCEPT !.pc = "destroy"]
  <2>1. s.pc = "destroy"
    BY DEF Idle
  <2>2. task' = [task EXCEPT ![Refresh] = s] /\ row' = row /\ record' = record
    BY <1>1 DEF EnforceBegin, workerVars
  <2> HIDE DEF s
  <2> QED BY <2>1, <2>2, PoliciesStay, TaskMoves, TasksDistinct DEF Busy, Carrying
<1>2. CASE EnforceDestroyed
  <2>1. row'.state = "destroyed"
    BY <1>2, RowTyped DEF EnforceDestroyed, AgreeInv, SessionRows
  <2> QED BY <2>1 DEF Agreed, Apart
<1> QED BY <1>1, <1>2 DEF Enforce

LEMMA AgreeRestart ==
  ASSUME AgreeInv, Apart, Recover \/ Crash
  PROVE  Agreed'
<1>1. /\ row' = row /\ record' = record /\ PendingFits' /\ RecordFits'
      /\ Recovery \in Tasks /\ Recovery \notin Requests /\ task \in [Tasks -> Slots]
  <2>1. row' = row /\ record' = record
    BY DEF Recover, RecoverHealthy, RecoverReady, Crash, workerVars
  <2>2. PendingFits' /\ RecordFits'
    BY <2>1, PoliciesStay
  <2> QED BY <2>1, <2>2, TasksDistinct, SessionParameters, RowTyped DEF AgreeInv
<1>2. CASE RecoverHealthy
  <2>1. PICK p \in {"apply", "send"} : task' = [task EXCEPT ![Recovery].pc = p]
    BY <1>2 DEF RecoverHealthy
  <2> DEFINE s == [task[Recovery] EXCEPT !.pc = p]
  <2>2. s.pc = p /\ s.at = task[Recovery].at /\ task' = [task EXCEPT ![Recovery] = s]
    BY <1>1, <2>1 DEF Slots
  <2>3. task[Recovery].pc \in Carrying
    BY <1>2 DEF RecoverHealthy, Carrying
  <2>4. /\ \A u \in Tasks \ {Recovery} : task[u].pc \notin Busy
        /\ s.at = Wanted(Recovery)'
    BY <1>1, <2>2, <2>3, OthersIdle DEF Busy, TaskFits, Wanted
  <2> HIDE DEF s
  <2> QED BY <1>1, <2>2, <2>4, TaskMoves
<1>3. CASE RecoverReady
  BY <1>1, <1>3, IdleIsFree, TaskMoves DEF RecoverReady
<1>4. CASE Crash
  <2>1. \A u \in Tasks \ {Recovery} : task'[u] = Idle
    BY <1>1, <1>4 DEF Crash
  <2>2. \/ task'[Recovery] = Idle
        \/ task'[Recovery].pc = "health" /\ task'[Recovery].at = row.at
    BY <1>1, <1>4 DEF Crash
  <2>3. ASSUME NEW u \in Tasks PROVE TaskFits(u)'
    BY <1>1, <2>1, <2>2, IdleIsFree DEF TaskFits, Wanted
  <2> QED BY <1>1, <2>3 DEF Agreed
<1> QED BY <1>2, <1>3, <1>4 DEF Recover

LEMMA AgreeWorker ==
  ASSUME AgreeInv, Apart, RemoteWatchdog \/ RemoteMachine
  PROVE  Agreed'
<1>1. UNCHANGED <<row, task, overlap>>
  BY DEF RemoteWatchdog, RemoteMachine
<1>2. record' = record \/ (record # None /\ record' # None /\ record'.at = record.at)
  <2>1. CASE Watchdog
    <3>1. CASE record # None /\ record' = Stored(record.at, IntentAt, FALSE)
      <4>1. record # None /\ record' = Stored(record.at, IntentAt, FALSE)
        BY <3>1
      <4>2. record.at \in Policies /\ IntentAt \in (0..Horizon) \cup {None}
        BY <4>1, RecordTyped DEF AgreeInv, IInv, TypeOK, WorkerTypeOK, IntentAt
      <4> QED BY <4>1, <4>2, StoredTyped
    <3>2. CASE DeleteAnswered
      <4>1. Intended(record) /\ record # None
        BY <3>2 DEF DeleteAnswered, AgreeInv, IInv, IntentHeld, Intended
      <4>2. IntentKept /\ RecordKept
        BY <3>2, InvSplit, DeleteAnsweredStep DEF AgreeInv, WorkerBehaved
      <4> QED BY <4>1, <4>2 DEF IntentKept, RecordKept
    <3>3. WatchExpired \/ EnforceFails =>
            \/ record # None /\ record' = Stored(record.at, IntentAt, FALSE)
            \/ record' = record
      BY DEF WatchExpired, EnforceFails, Expired, Limited
    <3> QED BY <2>1, <3>1, <3>2, <3>3
               DEF Watchdog, GraceOver, DeleteFailed, WatchReturns, WatchFails
  <2>2. CASE Machine
    BY <2>2 DEF Machine, WorkerCrash, WorkerStart, ProviderDelete, MachineGone, Tick
  <2> QED BY <2>1, <2>2 DEF RemoteWatchdog, RemoteMachine
<1>3. PendingFits' /\ RecordFits'
  BY <1>1, <1>2 DEF AgreeInv, Agreed, PendingFits, RecordFits
<1>4. ASSUME NEW t \in Tasks PROVE TaskFits(t)'
  BY <1>1, <1>2 DEF AgreeInv, Agreed, TaskFits, Wanted
<1> QED BY <1>3, <1>4 DEF Agreed

LEMMA AgreeInit == Init => AgreeInv
<1> SUFFICES ASSUME Init PROVE AgreeInv
  OBVIOUS
<1>1. PendingFits /\ RecordFits
  BY DEF Init, WorkerInit, PendingFits, RecordFits
<1>2. \A t \in Tasks : TaskFits(t)
  BY IdleIsFree DEF Init, TaskFits
<1> QED BY <1>1, <1>2, InitStep DEF AgreeInv, Agreed

LEMMA AgreeStep ==
  ASSUME OneRequest, AgreeInv, [Next]_vars
  PROVE  AgreeInv'
<1>1. IInv'
  BY NextStep DEF AgreeInv, Kept
<1>2. CASE UNCHANGED vars
  BY <1>1, <1>2 DEF vars, workerVars, AgreeInv, Agreed, Apart, PendingFits, RecordFits,
                    TaskFits, Wanted
<1>3. CASE Next /\ Apart
  BY <1>1, <1>3, AgreeUpdateDeadline, AgreeCall, AgreeBootstrap, AgreeEnforce, AgreeRestart,
     AgreeWorker DEF Next, AgreeInv
<1>4. CASE Next /\ ~Apart
  <2>1. overlap' = overlap /\ (row.state = "destroyed" => row'.state = "destroyed")
    BY <1>4, DestroyedStays DEF Next, AgreeInv
  <2> QED BY <1>1, <1>4, <2>1 DEF AgreeInv, Agreed, Apart
<1> QED BY <1>2, <1>3, <1>4

\* With one deadline request at a time, pending, shown and stored policies agree as
\* AgreeInv says, unless a request overlaps a bootstrap or recovery.
THEOREM AgreeInvariance == ASSUME OneRequest PROVE Spec => []AgreeInv
BY AgreeInit, AgreeStep, PTL DEF Spec

\* With deadline requests one at a time and apart from a bootstrap, the worker ends
\* no machine before the limit its session shows: the limit it enforces is that one
\* or a later one whose answer was lost (update_deadline, recover_session).
THEOREM NeverEndsEarly == ASSUME OneRequest PROVE Spec => []NeverEarly
<1>1. AgreeInv => NeverEarly
  <2> SUFFICES ASSUME AgreeInv, Apart, watch.pc \in {"deleting", "deleted"}
               PROVE  row.at # NoLimit /\ now >= row.at
    BY DEF NeverEarly, Apart
  <2>1. record # None /\ record.at # NoLimit /\ now >= record.at
    BY DEF AgreeInv, IInv, DeleteIsDue, Expired, Limited
  <2>2. PendingFits /\ RecordFits
    BY DEF AgreeInv, Agreed
  <2>3. CASE record.at = row.at
    BY <2>1, <2>3
  <2>4. CASE row.pending # None /\ record.at = row.pending
    <3>1. row.at # NoLimit /\ row.pending # NoLimit /\ row.pending > row.at
      BY <2>1, <2>2, <2>4 DEF PendingFits
    <3>2. row.at \in Nat /\ row.pending \in Nat /\ now \in Nat
      BY <2>4, <3>1, RowTyped, Numbers
         DEF AgreeInv, SessionRows, Policies, IInv, TypeOK, WorkerTypeOK
    <3> QED BY <2>1, <2>4, <3>1, <3>2
  <2> QED BY <2>1, <2>2, <2>3, <2>4 DEF RecordFits
<1> QED BY <1>1, AgreeInvariance, PTL

\* Under the same condition, once nothing is pending or under way, backend and
\* worker enforce one and the same limit.
THEOREM BothSidesEnforce == ASSUME OneRequest PROVE Spec => []BothEnforce
<1>1. AgreeInv => BothEnforce
  BY DEF AgreeInv, Agreed, Apart, RecordFits, BothEnforce, IInv, ReadyIsArmed
<1> QED BY <1>1, AgreeInvariance, PTL
=============================================================================
