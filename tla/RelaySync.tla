----------------------------- MODULE RelaySync -----------------------------
(***************************************************************************)
(* How the results of one remote job reach the local disk: the events the  *)
(* relay stores, the preview it caches, the output it downloads in chunks, *)
(* resumes, verifies and publishes, the job and session rows its caller    *)
(* writes, and the reviewed destruction of the session.                    *)
(*                                                                         *)
(* Two tasks synchronise the job: the one that finishes it, and the one    *)
(* that retrieves what it can when the deadline has passed.  The backend   *)
(* runs one event loop, so a handler is what happens between two awaits.   *)
(* A handler is the sequence of the durable writes it makes: it leaves the *)
(* last of them, and a crash inside it leaves any earlier one.             *)
(***************************************************************************)
EXTENDS Naturals, FiniteSets, SequencesExt

CONSTANTS
  Finisher, Preparer,  \* the tasks that synchronise the job
  Size,                \* the chunks of the job's output
  Worlds,              \* what may happen around it, see world
  None

ASSUME RelayParameters ==
  /\ Size \in Nat \ {0}
  /\ Worlds \subseteq [filesystems : {1, 2}, damage : Nat, crashes : Nat,
                       deadline : BOOLEAN]
  /\ Finisher # Preparer

VARIABLES
  log,       \* the worker's event log of the job
  local,     \* what is durable here: files, transfer rows, events, job, session
  task,      \* what each task awaits
  review,    \* the destroy review, and what the user was shown
  world      \* the filesystems of parts and outputs, the damaged chunks and the
             \* crashes yet to come, and whether the deadline may pass

vars == <<log, local, task, review, world>>

Syncers == {Finisher, Preparer}

\* An output is published from one of two part files, or a copy of one; a task
\* that still writes to an unlinked file keeps another.
Inodes == 1..4

EventTypes == {"b_preview", "execution_success", "execution_error"}
TransferStates == {"transferring", "verified", "failed", "abandoned"}
JobStates == {"running", "harvesting", "succeeded", "failed"}
States == {"running", "harvesting", "ready", "destroying", "destroyed"}

Idle == [pc |-> "idle", cursor |-> 0, until |-> 0, fd |-> None, current |-> 0,
         ok |-> FALSE, finish |-> FALSE]

Reviews == [shown : {0, 1}, session : States, stale : BOOLEAN]

\* Python's None is no file and no review.
ASSUME NoneIsNothing == None \notin Inodes \cup Reviews

TypeOK ==
  /\ log \in BoundedSeq(EventTypes, 2)
  /\ local.events \in 0..Len(log)
  /\ local.job \in JobStates /\ local.session \in States
  /\ local.row \in [state : TransferStates, offset : 0..Size] \cup {None}
  /\ {local.part, local.dest} \subseteq Inodes \cup {None}
  /\ \A i \in Inodes : local.file[i] \in BoundedSeq({"good", "bad"}, Size)
  /\ {local.preview.file, local.preview.row} \subseteq BOOLEAN
  /\ task \in [Syncers ->
       [pc : {"idle", "events", "preview", "recache", "job", "download", "expired",
               "ended"},
        cursor : 0..2, until : 0..2, fd : Inodes \cup {None}, current : 0..Size,
        ok : BOOLEAN, finish : BOOLEAN]]
  /\ review \in Reviews \cup {None}
  /\ world.damage \in Nat /\ world.crashes \in Nat

Init ==
  /\ log = <<>>
  /\ local = [events |-> 0, job |-> "running", session |-> "running", row |-> None,
              part |-> None, dest |-> None, file |-> [i \in Inodes |-> <<>>],
              preview |-> [file |-> FALSE, row |-> FALSE]]
  /\ task = [s \in Syncers |-> Idle]
  /\ review = None
  /\ world \in Worlds

WorkerUp == local.session # "destroyed"

Active(l) == l.job \in {"running", "harvesting"}

Whole(content) == content = [i \in 1..Size |-> "good"]
Content(l, i) == IF i = None THEN <<>> ELSE l.file[i]

-----------------------------------------------------------------------------
(* Handlers *)

\* A session row that changed makes its review stale.
ReviewAfter(l) ==
  IF review # None /\ l.session # local.session
  THEN [review EXCEPT !.stale = TRUE] ELSE review

\* The task resumes and makes these writes.  It then awaits what "then" says, or
\* the process has ended after one of them.
Handle(s, writes, then, whole) ==
  /\ \E k \in IF whole THEN {Len(writes)} ELSE DOMAIN writes :
       local' = writes[k] /\ review' = ReviewAfter(writes[k])
  /\ task' = IF whole THEN [task EXCEPT ![s] = then] ELSE [t \in Syncers |-> Idle]
  /\ UNCHANGED log

\* The faults a handler meets are taken from those that are yet to come.
Meets(crashes, damage) ==
  /\ world.crashes >= crashes /\ world.damage >= damage
  /\ world' = [world EXCEPT !.crashes = @ - crashes, !.damage = @ - damage]

Crashes(whole) == IF whole THEN 0 ELSE 1

Pending(finish) ==
  [Idle EXCEPT !.pc = "events", !.cursor = local.events, !.finish = finish]

\* An error ends the finisher.  The retrieval tries again, or gives up and goes on
\* to the destruction.
Failing(s) ==
  IF s = Finisher THEN {[Idle EXCEPT !.pc = "ended"]}
  ELSE {[Idle EXCEPT !.pc = "expired"]} \cup IF task[s].finish THEN {} ELSE {Pending(FALSE)}

-----------------------------------------------------------------------------
(* The transfer row *)

CanSave(l, offset) == l.row = None \/ offset >= l.row.offset

\* Offsets never move backwards: the save raises, and leaves the row alone.
save_transfer(l, offset, state) ==
  IF CanSave(l, offset)
  THEN [l EXCEPT !.row = [state |-> state, offset |-> offset]] ELSE l

reset_transfer(l) == [l EXCEPT !.row = None]

Unlinked(l) == [l EXCEPT !.part = None]

-----------------------------------------------------------------------------
(* Verification and publication *)

\* Mutant: a refused stream takes the published file with it.
RejectPublished(l) ==
  LET gone == reset_transfer([Unlinked(l) EXCEPT !.dest = None])
  IN <<gone, save_transfer(gone, 0, "failed")>>

\* Mutant: a complete part file stays where it is when it is refused.
RejectInPlace(l) == <<save_transfer(l, Len(Content(l, l.part)), "failed")>>

\* A stream that is refused: a complete part file is dropped with its row.
Reject(l) ==
  IF Len(Content(l, l.part)) >= Size
  THEN LET dropped == reset_transfer(Unlinked(l))
       IN <<Unlinked(l), dropped, save_transfer(dropped, 0, "failed")>>
  ELSE <<save_transfer(l, Len(Content(l, l.part)), "failed")>>

Free(l) == CHOOSE i \in Inodes :
  i \notin {l.part, l.dest} /\ \A s \in Syncers : task[s].fd # i

\* The file appears under its final name: the part file itself, or a verified
\* copy of it.
Linked(l) ==
  IF world.filesystems = 2
  THEN [l EXCEPT !.dest = Free(l), !.file[Free(l)] = Content(l, l.part)]
  ELSE [l EXCEPT !.dest = l.part]

CanPublish(l) ==
  IF l.dest # None THEN Whole(Content(l, l.dest))
  ELSE l.part # None /\ (world.filesystems = 2 => Whole(Content(l, l.part)))

\* Mutant: the row is written before the file has its name.
PublishedEarly(l) ==
  LET v == save_transfer(l, Size, "verified")
      linked == IF v.dest # None THEN v ELSE Linked(v)
  IN <<v, linked, Unlinked(linked)>>

Published(l) ==
  LET linked == IF l.dest # None THEN l ELSE Linked(l)
  IN <<linked, Unlinked(linked), save_transfer(Unlinked(linked), Size, "verified")>>

\* Mutant: only the size is verified.
AcceptedUnread(l, ok) == CanPublish(l)

\* ok: the digest of the received stream is the expected one.
Accepted(l, ok) == ok /\ CanPublish(l)

Completed(l, ok) == IF Accepted(l, ok) THEN Published(l) ELSE Reject(l)

-----------------------------------------------------------------------------
(* The end of a synchronisation *)

\* The caller stores the outcome: four rows one after the other.
Finish(l, state) ==
  IF state = "succeeded"
  THEN IF l.session \notin {"running", "harvesting"} THEN <<l>>
       ELSE LET h == [l EXCEPT !.session = "harvesting"]
                j == [h EXCEPT !.job = "harvesting"]
                d == [j EXCEPT !.job = "succeeded"]
            IN <<h, j, d, [d EXCEPT !.session = "ready"]>>
  ELSE LET f == [l EXCEPT !.job = "failed"]
       IN <<f, IF l.session \in {"running", "harvesting"}
               THEN [f EXCEPT !.session = "ready"] ELSE f>>

\* What a task does with the outcome of sync_job.
Returned(s, l, state) ==
  IF task[s].finish /\ Active(l) THEN Finish(l, state) ELSE <<l>>

Continuing(s) ==
  IF s = Finisher THEN {[Idle EXCEPT !.pc = "ended"]}
  ELSE IF task[s].finish THEN {[Idle EXCEPT !.pc = "expired"]} ELSE {Pending(TRUE)}

-----------------------------------------------------------------------------
(* sync_job *)

SyncBegin ==
  /\ task[Finisher] = Idle
  /\ Active(local) /\ local.session \in {"running", "harvesting"}
  /\ task' = [task EXCEPT ![Finisher] = Pending(TRUE)]
  /\ UNCHANGED <<log, local, review, world>>

\* The deadline has passed: a first synchronisation, and if it finds the job ended,
\* a second one that finishes it.
ExpireBegin ==
  /\ world.deadline /\ task[Preparer] = Idle
  /\ local.session \in {"running", "harvesting", "ready"}
  /\ task' = [task EXCEPT ![Preparer] =
       IF Active(local) /\ local.session # "ready"
       THEN Pending(FALSE)
       ELSE [Idle EXCEPT !.pc = "expired"]]
  /\ UNCHANGED <<log, local, review, world>>

\* Events are stored up to the first preview, which is fetched before the next.
FirstPreview(from, until) ==
  LET previews == {i \in (from + 1)..until : log[i] = "b_preview"}
  IN IF previews = {} THEN until ELSE CHOOSE i \in previews : \A j \in previews : i <= j

\* Mutant: events are inserted without the look-up of their identity.
StoredAgain(l, cursor) == [l EXCEPT !.events = @ + cursor]

Stored(l, cursor) == [l EXCEPT !.events = IF cursor > @ THEN cursor ELSE @]

\* Mutant: only the previews of this answer are fetched.
CachedAlways(l) == FALSE

\* A stored preview without a verified row is fetched again.
Uncached(l) ==
  ~l.preview.row /\ \E i \in 1..l.events : log[i] = "b_preview"

AfterEvents(s, l, cursor, until) ==
  [task[s] EXCEPT !.cursor = cursor, !.until = until,
     !.pc = IF cursor < until \/ (cursor > task[s].cursor /\ log[cursor] = "b_preview")
            THEN "preview" ELSE IF Uncached(l) THEN "recache" ELSE "job"]

EventsAnswered(s, whole) ==
  /\ task[s].pc = "events" /\ WorkerUp
  /\ LET cursor == FirstPreview(task[s].cursor, Len(log))
         l == Stored(local, cursor)
     IN Handle(s, <<l>>, AfterEvents(s, l, cursor, Len(log)), whole)
  /\ Meets(Crashes(whole), 0)

\* The file is renamed into the cache and then its row is written.
PreviewAnswered(s, whole) ==
  /\ task[s].pc \in {"preview", "recache"} /\ WorkerUp
  /\ LET file == [local EXCEPT !.preview.file = TRUE]
         row == [file EXCEPT !.preview.row = TRUE]
     IN Handle(s, <<file, row, Stored(row, task[s].until)>>,
               [task[s] EXCEPT !.cursor = task[s].until, !.pc = "job"], whole)
  /\ Meets(Crashes(whole), 0)

\* The remote state, once the events it comes with are all stored.
RemoteState ==
  CASE log # <<>> /\ Last(log) = "execution_success" -> "succeeded"
    [] log # <<>> /\ Last(log) = "execution_error" -> "failed"
    [] OTHER -> "running"

\* The part file as it is found, and the row that follows it.
Resumed(l) ==
  LET size == Len(Content(l, l.part))
      r == IF l.row # None /\ l.row.offset > size THEN reset_transfer(l) ELSE l
  IN <<r, save_transfer(r, size, "transferring")>>

Opened(l) ==
  IF l.part # None THEN l
  ELSE [l EXCEPT !.part = Free(l), !.file[Free(l)] = <<>>]

Verified(l) == l.row # None /\ l.row.state = "verified"

\* The writes of the verification and of what its caller does with its outcome,
\* and what the task then awaits.
Ending(s, before, ok) ==
  LET l == Last(before)
      completed == before \o Completed(l, ok)
  IN IF Accepted(l, ok)
     THEN completed \o Returned(s, Last(completed), "succeeded")
     ELSE completed

Awaits(s, l, ok) == IF Accepted(l, ok) THEN Continuing(s) ELSE Failing(s)

RemoteRunning(s) == IF s = Finisher THEN {Idle} ELSE Failing(s)

Download(s, l, content) ==
  [task[s] EXCEPT !.pc = "download", !.fd = l.part, !.current = Len(content),
                  !.ok = \A i \in DOMAIN content : content[i] = "good"]

\* Its record of the job must be of the events that are stored.
JobAnswered(s, whole) ==
  /\ task[s].pc = "job" /\ WorkerUp
  /\ LET resumed == Resumed(local)
         content == Content(local, local.part)
         opened == Append(resumed, Opened(Last(resumed)))
         ok == Whole(content)
         Then(writes, next) == \E t \in next : Handle(s, writes, t, whole)
     IN CASE task[s].cursor # Len(log) -> Then(<<local>>, Failing(s))
          [] task[s].cursor = Len(log) /\ RemoteState = "running" ->
               Then(<<local>>, RemoteRunning(s))
          [] task[s].cursor = Len(log) /\ RemoteState = "failed" ->
               Then(Returned(s, local, "failed"), Continuing(s))
          [] task[s].cursor = Len(log) /\ RemoteState = "succeeded" ->
               IF Verified(local)
               THEN IF Whole(Content(local, local.dest))
                    THEN Then(Returned(s, local, "succeeded"), Continuing(s))
                    ELSE Then(<<local>>, Failing(s))
               ELSE IF Len(content) < Size
               THEN Then(opened, {Download(s, Last(opened), content)})
               ELSE Then(Ending(s, resumed, ok), Awaits(s, Last(resumed), ok))
  /\ Meets(Crashes(whole), 0)

\* on_chunk: the file is written and the row follows it.
ChunkGot(s, c, whole) ==
  /\ task[s].pc = "download" /\ WorkerUp
  /\ task[s].current < Size
  /\ LET t == task[s]
         written == [local EXCEPT !.file[t.fd] =
                       IF t.current < Len(@) THEN [@ EXCEPT ![t.current + 1] = c]
                       ELSE Append(@, c)]
         got == [t EXCEPT !.current = @ + 1, !.ok = @ /\ c = "good"]
     IN \E then \in IF CanSave(written, got.current) THEN {got} ELSE Failing(s) :
          Handle(s, <<written, save_transfer(written, got.current, "transferring")>>,
                 then, whole)
  /\ Meets(Crashes(whole), IF c = "bad" THEN 1 ELSE 0)

\* The stream has ended with its receipt.
StreamEnded(s, whole) ==
  /\ task[s].pc = "download" /\ task[s].current = Size /\ WorkerUp
  /\ \E then \in Awaits(s, local, task[s].ok) :
       Handle(s, Ending(s, <<local>>, task[s].ok), then, whole)
  /\ Meets(Crashes(whole), 0)

\* A call is lost, or its answer is refused.
LoseCall(s) ==
  /\ task[s].pc \in {"events", "preview", "recache", "job", "download"}
  /\ LET l == IF task[s].pc = "download"
              THEN save_transfer(local, task[s].current, "failed") ELSE local
     IN \E then \in Failing(s) : Handle(s, <<l>>, then, TRUE)
  /\ UNCHANGED world

-----------------------------------------------------------------------------
(* Destruction *)

Unverified(l) == IF l.row # None /\ ~Verified(l) THEN 1 ELSE 0

review_destroy ==
  /\ local.session # "destroyed"
  /\ review' = [shown |-> Unverified(local), session |-> local.session,
                stale |-> FALSE]
  /\ UNCHANGED <<log, local, task, world>>

\* Five minutes.
ReviewExpires ==
  /\ review # None
  /\ review' = [review EXCEPT !.stale = TRUE]
  /\ UNCHANGED <<log, local, task, world>>

\* Mutant: the review is not compared with the session as it is now.
ReviewedOnce == review # None /\ review.shown = Unverified(local)

Reviewed == review # None /\ ~review.stale /\ review.shown = Unverified(local)

\* The token is spent whether or not the outputs are still the ones shown.
destroy ==
  /\ review # None /\ local.session # "destroyed"
  /\ review' = None
  /\ local' = IF Reviewed THEN [local EXCEPT !.session = "destroying"] ELSE local
  /\ UNCHANGED <<log, task, world>>

Expired ==
  /\ task[Preparer].pc = "expired"
  /\ local.session # "destroyed"
  /\ Handle(Preparer, <<[local EXCEPT !.session = "destroying"]>>, Idle, TRUE)
  /\ UNCHANGED world

\* The machine is proved absent, and what was not retrieved is given up.
Abandoned(l) ==
  IF Unverified(l) = 1 THEN [l EXCEPT !.row.state = "abandoned"] ELSE l

Destroyed(whole) ==
  /\ local.session = "destroying"
  /\ LET d == [local EXCEPT !.session = "destroyed"]
         a == Abandoned(d)
         f == IF Active(a) THEN [a EXCEPT !.job = "failed"] ELSE a
     IN Handle(Preparer, <<d, a, f>>, task[Preparer], whole)
  /\ Meets(Crashes(whole), 0)

-----------------------------------------------------------------------------
(* The worker's execution *)

Emit(e) ==
  /\ WorkerUp
  /\ log = <<>> \/ (log = <<"b_preview">> /\ e # "b_preview")
  /\ log' = Append(log, e)
  /\ UNCHANGED <<local, task, review, world>>

\* The backend is restarted, and takes the job up again.
Restart ==
  /\ \E s \in Syncers : task[s] # Idle
  /\ task' = [s \in Syncers |-> Idle]
  /\ UNCHANGED <<log, local, review, world>>

Sync(s, whole) ==
  \/ EventsAnswered(s, whole) \/ PreviewAnswered(s, whole) \/ JobAnswered(s, whole)
  \/ \E c \in {"good", "bad"} : ChunkGot(s, c, whole)
  \/ StreamEnded(s, whole)

Next ==
  \/ SyncBegin \/ ExpireBegin
  \/ \E s \in Syncers : LoseCall(s) \/ (\E whole \in BOOLEAN : Sync(s, whole))
  \/ review_destroy \/ ReviewExpires \/ destroy \/ Expired
  \/ \E whole \in BOOLEAN : Destroyed(whole)
  \/ Restart
  \/ \E e \in EventTypes : Emit(e)

Spec == Init /\ [][Next]_vars

-----------------------------------------------------------------------------
\* The row says verified only while the file under its final name is the whole
\* output, through crashes between the rename and the row, damaged chunks, and two
\* tasks that write the same part file (relay.py, download_output).
VerifiedIsPublished == Verified(local) => Whole(Content(local, local.dest))

\* Nothing but the whole output ever stands under its final name.  This needs that
\* no chunk is damaged while two tasks write the part file.
PublishedIsWhole == local.dest # None => Whole(Content(local, local.dest))

HasPreview == \E i \in DOMAIN log : log[i] = "b_preview"

\* A job succeeds only with its output published, every event of its log stored,
\* and its preview cached and known to be.
SucceededIsPublished ==
  local.job = "succeeded" =>
    /\ Whole(Content(local, local.dest))
    /\ local.events = Len(log)
    /\ HasPreview => local.preview.row

\* A published output is never lost again: not to a later attempt that is refused,
\* not to a second task, not to the destruction.
OutputNeverLost ==
  [][Whole(Content(local, local.dest)) => Whole(Content(local', local'.dest))]_vars

\* A destruction the user confirms begins from the session state and with the
\* unverified outputs of the review it answers.
DestroyedAsReviewed ==
  [][local.session # "destroying" /\ local'.session = "destroying"
       /\ review # None /\ review' = None =>
       review.session = local.session /\ review.shown = Unverified(local)]_vars

\* The polling goes on, calls get through in the end, and a backend whose finisher
\* has ended with an error is restarted.
Fairness ==
  /\ WF_vars(SyncBegin)
  /\ WF_vars(task[Finisher].pc = "ended" /\ Restart)
  /\ SF_vars(EventsAnswered(Finisher, TRUE)) /\ SF_vars(PreviewAnswered(Finisher, TRUE))
  /\ SF_vars(JobAnswered(Finisher, TRUE)) /\ SF_vars(StreamEnded(Finisher, TRUE))
  /\ SF_vars(ChunkGot(Finisher, "good", TRUE))

FairSpec == Spec /\ Fairness

\* No crash, damaged chunk or lost call leaves files and rows from which the output
\* of a remote success cannot be retrieved any more.
RemoteSuccessArrives ==
  RemoteState = "succeeded" ~>
    (local.job = "succeeded" \/ local.session \in {"destroying", "destroyed"})

=============================================================================
