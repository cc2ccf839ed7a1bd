--------------------------- MODULE ArtifactUpload ---------------------------
(***************************************************************************)
(* The upload of one local dependency to the rented machine: the backend's *)
(* tasks that apply a manifest send it chunk by chunk and keep a transfer  *)
(* row; the worker appends to a partial file, keeps a transfer record in   *)
(* its state file, and puts the file in place when it is whole and         *)
(* verifies.  Calls are lost or arrive late, and both sides crash.         *)
(*                                                                         *)
(* A file is a sequence of chunks.  The worker runs one event loop, and    *)
(* nothing in its handling of a chunk lets another request in; a crash may *)
(* fall between any two of its writes.                                     *)
(***************************************************************************)
EXTENDS Naturals, Sequences

CONSTANTS
  Clients,      \* the backend's tasks that may apply the manifest at once
  Size,         \* the chunks of the file
  MaxFaults     \* a bound on lost calls, crashes and the other faults together

ASSUME UploadConstants == Size \in Nat \ {0} /\ MaxFaults \in Nat

VARIABLES
  row,          \* the backend's transfer row, shared by the tasks
  client,       \* what each task awaits, and the offset it is at
  late,         \* chunks whose sender has given up and that may still arrive
  up,           \* the worker: down, up, or up and knowing the manifest's file
  part,         \* the partial file
  file,         \* the file in place
  record,       \* the worker's transfer record
  harm,         \* what has happened that is more than a call that fails
  faults

disk == <<part, file, record>>
vars == <<row, client, late, up, disk, harm, faults>>

Chunk == 1..Size
Damaged == 0
Whole == [i \in Chunk |-> i]
Offsets == 0..Size

NoRow == [state |-> "none", offset |-> 0]
Row == [state : {"none", "transferring", "failed", "verified"}, offset : Offsets]
Record == [state : {"none", "receiving", "verified"}, offset : Offsets]
Resting == [pc |-> "idle", offset |-> 0, answer |-> "none"]
Answer == {"no", "receiving", "verified"}
Client == [pc : {"idle", "status", "put", "answered"}, offset : Offsets,
           answer : Answer \cup {"none"}]

Become(c, pc, offset) == client' = [client EXCEPT ![c] =
                            [pc |-> pc, offset |-> offset, answer |-> "none"]]
Rest(c) == client' = [client EXCEPT ![c] = Resting]
Fault == faults < MaxFaults /\ faults' = faults + 1
Harm(what) == Fault /\ harm' = harm \cup {what}

-----------------------------------------------------------------------------
(* The backend *)

\* save_transfer refuses an offset that moves backwards.
MaySave(offset) == offset >= row.offset
SaveRow(state, offset) == row' = [state |-> state, offset |-> offset]

\* apply_manifest was answered that the file is needed.  A row that says
\* verified ends the upload before it begins.
Begin(c) ==
  /\ client[c].pc = "idle" /\ up # "down" /\ file = <<>>
  /\ up' = "known"
  /\ IF row.state = "verified" THEN UNCHANGED client
                               ELSE Become(c, "status", row.offset)
  /\ UNCHANGED <<row, late, disk, harm, faults>>

\* The upload failed: the row keeps its offset.
Failed(c) == SaveRow("failed", row.offset) /\ Rest(c)

\* The upload starts at the offset settled on, if the row may still say so.
SendFrom(c, offset) ==
  IF offset < Size
    THEN SaveRow("transferring", offset) /\ Become(c, "put", offset)
    ELSE SaveRow("failed", offset) /\ Rest(c)

\* The upload starts where the worker's record says it is.
ToldLocally(c) == client[c].offset
Told(c) == record.offset

\* A record behind the row the task has read deletes the row.
StatusKnown(c) ==
  LET seen == client[c].offset
      told == Told(c)
  IN /\ client[c].pc = "status" /\ up # "down" /\ record.state # "none"
     /\ \/ told >= seen /\ ~MaySave(told) /\ Rest(c) /\ UNCHANGED row
        \/ /\ told < seen \/ MaySave(told)
           /\ IF record.state = "verified"
                THEN SaveRow("verified", told) /\ Rest(c)
                ELSE SendFrom(c, told)
     /\ UNCHANGED <<late, up, disk, harm, faults>>

\* Without an answer the upload starts where the row said.
StatusUnknown(c) ==
  LET seen == client[c].offset
  IN /\ client[c].pc = "status"
     /\ \/ up # "down" /\ record.state = "none" /\ UNCHANGED faults
        \/ Fault
     /\ \/ MaySave(seen) /\ SendFrom(c, seen)
        \/ ~MaySave(seen) /\ Rest(c) /\ UNCHANGED row
     /\ UNCHANGED <<late, up, disk, harm>>

\* The answer to a chunk must be the one expected at its offset.
Expected(next) == IF next = Size THEN "verified" ELSE "receiving"

\* The row is verified by the answer to the last chunk.
RowStateEarly(next) == IF next + 1 >= Size THEN "verified" ELSE "transferring"
RowState(next) == IF next = Size THEN "verified" ELSE "transferring"

Answered(c) ==
  LET next == client[c].offset + 1
  IN /\ client[c].pc = "answered"
     /\ \/ client[c].answer # Expected(next) /\ Failed(c)
        \/ client[c].answer = Expected(next) /\ ~MaySave(next) /\ Failed(c)
        \/ /\ client[c].answer = Expected(next) /\ MaySave(next)
           /\ SaveRow(RowState(next), next)
           /\ IF next = Size THEN Rest(c) ELSE Become(c, "put", next)
     /\ UNCHANGED <<late, up, disk, harm, faults>>

\* A chunk or its answer is lost, or the chunk arrives when nobody waits.
LoseCall(c) ==
  /\ client[c].pc \in {"put", "answered"} /\ Fault
  /\ Failed(c)
  /\ \/ UNCHANGED late
     \/ client[c].pc = "put" /\ late' = late \cup {client[c].offset}
  /\ UNCHANGED <<up, disk, harm>>

BackendCrashes ==
  /\ Fault
  /\ client' = [c \in Clients |-> Resting]
  /\ UNCHANGED <<row, late, up, disk, harm>>

-----------------------------------------------------------------------------
(* The worker *)

SaveRecord(state, offset) == record' = [state |-> state, offset |-> offset]

\* A chunk is taken only where the partial file ends.
AcceptsAnywhere(offset) == up = "known" /\ file = <<>>
Accepts(offset) == up = "known" /\ file = <<>> /\ offset = Len(part)

\* The file is put in place only when what was received verifies.
VerifiedBySize(content) == Len(content) = Size
Verified(content) == content = Whole

\* The whole handling of a chunk that arrives with content x, and its answer.
Receive(offset, x, answer) ==
  LET longer == Append(part, x)
      next == offset + 1
  IN \/ /\ up = "known" /\ file # <<>>
        /\ answer = "verified"
        /\ SaveRecord("verified", Size) /\ UNCHANGED <<part, file>>
     \/ /\ up # "known" \/ (file = <<>> /\ ~Accepts(offset))
        /\ answer = "no"
        /\ UNCHANGED disk
     \/ /\ Accepts(offset) /\ next < Size
        /\ answer = "receiving"
        /\ part' = longer /\ SaveRecord("receiving", next) /\ UNCHANGED file
     \/ /\ Accepts(offset) /\ next = Size /\ Verified(longer)
        /\ answer = "verified"
        /\ part' = <<>> /\ file' = longer /\ SaveRecord("verified", next)
     \/ /\ Accepts(offset) /\ next = Size /\ ~Verified(longer)
        /\ answer = "no"
        /\ part' = <<>> /\ UNCHANGED <<file, record>>

\* The file read may have changed since it was hashed.
Content(offset, x) ==
  \/ x = offset + 1 /\ UNCHANGED <<harm, faults>>
  \/ x = Damaged /\ Harm("damage")

Put(c) ==
  /\ client[c].pc = "put" /\ up # "down"
  /\ \E x \in Chunk \cup {Damaged}, answer \in Answer :
       /\ Content(client[c].offset, x)
       /\ Receive(client[c].offset, x, answer)
       /\ client' = [client EXCEPT ![c].pc = "answered", ![c].answer = answer]
  /\ UNCHANGED <<row, late, up>>

LateChunk ==
  /\ up # "down"
  /\ \E offset \in late, answer \in Answer :
       /\ Receive(offset, offset + 1, answer)
       /\ late' = late \ {offset}
  /\ UNCHANGED <<row, client, up, harm, faults>>

\* The worker dies while it handles a chunk: the chunk is in the partial file
\* and no record is written, or the file is in place and no record is.
DiesRecordFirst(c) ==
  /\ client[c].pc = "put" /\ Accepts(client[c].offset) /\ Harm("torn")
  /\ SaveRecord("receiving", client[c].offset + 1)
  /\ up' = "down" /\ Failed(c)
  /\ UNCHANGED <<late, part, file>>
DiesHandling(c) ==
  /\ client[c].pc = "put" /\ Accepts(client[c].offset) /\ Harm("torn")
  /\ LET longer == Append(part, client[c].offset + 1)
     IN \/ part' = longer /\ UNCHANGED file
        \/ Len(longer) = Size /\ Verified(longer) /\ file' = longer /\ part' = <<>>
  /\ up' = "down" /\ Failed(c)
  /\ UNCHANGED <<late, record>>

Dies ==
  /\ up # "down" /\ Fault
  /\ up' = "down"
  /\ UNCHANGED <<row, client, late, disk, harm>>

\* A restarted worker has the record and the files, and no manifest.
Starts ==
  /\ up = "down" /\ up' = "up"
  /\ UNCHANGED <<row, client, late, disk, harm, faults>>

\* A call to a worker that is down fails.
Unreachable(c) ==
  /\ up = "down" /\ client[c].pc \in {"put", "answered"}
  /\ Failed(c)
  /\ UNCHANGED <<late, up, disk, harm, faults>>

\* A repair of the manifest finds the file damaged and deletes it.
Repair ==
  /\ up # "down" /\ file # <<>> /\ Harm("repair")
  /\ part' = <<>> /\ file' = <<>>
  /\ UNCHANGED <<row, client, late, up, record>>

\* The machine is replaced at the boot deadline: its disk is gone, and the
\* session and its transfer row stay.
Replace ==
  /\ "replace" \notin harm /\ Harm("replace")
  /\ part' = <<>> /\ file' = <<>> /\ record' = NoRow
  /\ up' = "up" /\ late' = {}
  /\ client' = [c \in Clients |->
       IF client[c].pc = "idle" THEN Resting
       ELSE [client[c] EXCEPT !.pc = "answered", !.answer = "no"]]
  /\ UNCHANGED row

-----------------------------------------------------------------------------
Init ==
  /\ row = NoRow
  /\ client = [c \in Clients |-> Resting]
  /\ late = {}
  /\ up = "up"
  /\ part = <<>> /\ file = <<>>
  /\ record = NoRow
  /\ harm = {} /\ faults = 0

Next ==
  \/ \E c \in Clients :
       \/ Begin(c) \/ StatusKnown(c) \/ StatusUnknown(c) \/ Answered(c)
       \/ LoseCall(c) \/ Put(c) \/ DiesHandling(c) \/ Unreachable(c)
  \/ BackendCrashes \/ LateChunk \/ Dies \/ Starts \/ Repair \/ Replace

Spec == Init /\ [][Next]_vars

\* The browser refreshes the session until it is ready, a worker that runs
\* answers, and its supervisor restarts it.
Step(c) == StatusKnown(c) \/ StatusUnknown(c) \/ Put(c) \/ Answered(c) \/ Unreachable(c)

FairSpec ==
  /\ Spec
  /\ \A c \in Clients : WF_vars(Begin(c)) /\ WF_vars(Step(c))
  /\ WF_vars(Starts)

-----------------------------------------------------------------------------
(* Properties *)

TypeOK ==
  /\ row \in Row /\ record \in Record
  /\ client \in [Clients -> Client]
  /\ late \subseteq Offsets
  /\ up \in {"down", "up", "known"}
  /\ Len(part) <= Size /\ Len(file) <= Size
  /\ harm \subseteq {"damage", "torn", "repair", "replace"}
  /\ faults \in 0..MaxFaults

\* What is in place is the file the manifest names, every chunk once and in
\* order, whichever tasks sent it and whatever arrived late (TransferManager.upload).
FileIsWhole == file \in {<<>>, Whole}

\* The backend believes a file uploaded only when it is in place, unless the
\* machine was replaced or repaired since (_upload_artifact's verified row).
RowIsReceived ==
  row.state = "verified" => file = Whole \/ harm \cap {"repair", "replace"} # {}

\* The worker's record never points past what it has: an upload resumed from it
\* leaves no gap (record_artifact_transfer after the write).
RecordIsKept ==
  harm \cap {"damage", "repair"} = {} =>
    record.offset <= Len(part) \/ file = Whole

\* Calls lost or late, restarts of the backend and of a worker between two
\* chunks never stop an upload: it resumes and ends (upload_status, upload).
UploadResumes == <>(file = Whole \/ harm # {})
=============================================================================
