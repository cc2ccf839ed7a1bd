------------------------ MODULE ArtifactUploadProofs ------------------------
(***************************************************************************)
(* Proofs about ArtifactUpload: the file in place is whole, the backend    *)
(* believes only that, and the worker's record never points past what it   *)
(* has, for any number of tasks, chunks and faults.                        *)
(***************************************************************************)
EXTENDS ArtifactUpload, TLAPS

\* The file is where an answer said it is, unless the machine changed since.
InPlace == file = Whole \/ harm \cap {"repair", "replace"} # {}

\* Every chunk under way is one of the file.
Outgoing ==
  /\ late \subseteq 0..(Size - 1)
  /\ \A c \in Clients :
       client[c].pc = "put" \/ client[c].answer \in {"receiving", "verified"}
         => client[c].offset < Size

\* Whatever says that the file was received, row, record or answer, is right.
Received ==
  /\ row.state = "verified" => InPlace
  /\ record.state = "verified" => InPlace
  /\ \A c \in Clients : client[c].answer = "verified" => InPlace

\* What was received is a prefix of the file unless a chunk was damaged.
PartIsPrefix ==
  /\ part \in Seq(Offsets)
  /\ "damage" \notin harm => \A i \in 1..Len(part) : part[i] = i

UInv ==
  /\ TypeOK
  /\ FileIsWhole
  /\ Outgoing
  /\ Received
  /\ PartIsPrefix
  /\ RecordIsKept

---------------------------------------------------------------------------
LEMMA WholeFile ==
  /\ Size \in Nat /\ Size >= 1 /\ MaxFaults \in Nat
  /\ Whole \in Seq(Offsets) /\ Len(Whole) = Size /\ Whole # <<>>
  /\ Len(<<>>) = 0
<1>1. Size \in Nat /\ Size >= 1 /\ MaxFaults \in Nat
  BY UploadConstants
<1>2. Whole \in Seq(Offsets) /\ Len(Whole) = Size
  BY <1>1 DEF Whole, Chunk, Offsets
<1> QED
  BY <1>1, <1>2

\* A task that goes on to await pc, or ends, keeps what is true of the others.
LEMMA ClientBecomes ==
  ASSUME TypeOK, NEW c \in Clients, NEW pc \in {"idle", "status", "put"},
         NEW offset \in Offsets, Become(c, pc, offset)
  PROVE  /\ client' \in [Clients -> Client]
         /\ client'[c].pc = pc /\ client'[c].offset = offset
         /\ client'[c].answer = "none"
         /\ \A d \in Clients \ {c} : client'[d] = client[d]
BY DEF TypeOK, Client, Become

LEMMA ClientRests ==
  ASSUME TypeOK, NEW c \in Clients, Rest(c)
  PROVE  Become(c, "idle", 0) /\ 0 \in Offsets
BY WholeFile DEF Rest, Resting, Become, Offsets

\* The backend's own steps: the row moves, and its task with it.
LEMMA BackendKeeps ==
  ASSUME UInv, row' \in Row, client' \in [Clients -> Client],
         late' \subseteq 0..(Size - 1), harm' = harm, faults' \in 0..MaxFaults,
         up' \in {"down", "up", "known"}, UNCHANGED disk,
         row'.state = "verified" => InPlace,
         \A c \in Clients : \/ client'[c] = client[c]
                            \/ /\ client'[c].answer = "none"
                               /\ client'[c].pc = "put" => client'[c].offset < Size
  PROVE  UInv'
<1>1. InPlace' = InPlace
  BY DEF InPlace, disk
<1>2. TypeOK'
  <2>1. late' \subseteq Offsets
    BY WholeFile DEF Offsets
  <2> QED
    BY <2>1 DEF UInv, TypeOK, disk
<1>3. FileIsWhole' /\ PartIsPrefix' /\ RecordIsKept'
  BY DEF UInv, FileIsWhole, PartIsPrefix, RecordIsKept, disk
<1>4. Outgoing'
  BY DEF UInv, Outgoing
<1>5. Received'
  BY <1>1 DEF UInv, Received, disk
<1> QED
  BY <1>2, <1>3, <1>4, <1>5 DEF UInv

LEMMA SameFaults ==
  ASSUME UInv, Fault \/ UNCHANGED faults
  PROVE  faults' \in 0..MaxFaults
BY WholeFile DEF UInv, TypeOK, Fault

\* A task that saves a row the backend may believe.
LEMMA SavedKeeps ==
  ASSUME UInv, NEW c \in Clients, NEW pc \in {"idle", "status", "put"},
         NEW offset \in Offsets, Become(c, pc, offset), pc = "put" => offset < Size,
         row' \in Row, row'.state = "verified" => InPlace,
         UNCHANGED <<disk, harm>>, Fault \/ UNCHANGED faults,
         late' \subseteq 0..(Size - 1), up' \in {"down", "up", "known"}
  PROVE  UInv'
<1>1. /\ client' \in [Clients -> Client]
      /\ client'[c].pc = pc /\ client'[c].offset = offset
      /\ client'[c].answer = "none"
      /\ \A d \in Clients \ {c} : client'[d] = client[d]
  BY ClientBecomes DEF UInv
<1> QED
  BY <1>1, SameFaults, BackendKeeps

LEMMA FailedKeeps ==
  ASSUME UInv, NEW c \in Clients, Failed(c), late' \subseteq 0..(Size - 1),
         UNCHANGED <<disk, harm>>, Fault \/ UNCHANGED faults,
         up' \in {"down", "up", "known"}
  PROVE  UInv'
<1>1. row' \in Row /\ row'.state # "verified"
  BY DEF Failed, SaveRow, UInv, TypeOK, Row
<1> QED
  BY <1>1, ClientRests, SavedKeeps DEF Failed, UInv

LEMMA SendKeeps ==
  ASSUME UInv, NEW c \in Clients, NEW offset \in Offsets, SendFrom(c, offset),
         UNCHANGED <<late, up, disk, harm>>, Fault \/ UNCHANGED faults
  PROVE  UInv'
<1>1. row' \in Row /\ row'.state # "verified"
  BY DEF SendFrom, SaveRow, Row
<1>2. late' \subseteq 0..(Size - 1) /\ up' \in {"down", "up", "known"}
  BY DEF UInv, TypeOK, Outgoing
<1>3. CASE offset < Size
  BY <1>1, <1>2, <1>3, SavedKeeps DEF SendFrom
<1>4. CASE ~(offset < Size)
  BY <1>1, <1>2, <1>4, ClientRests, SavedKeeps DEF SendFrom, UInv
<1> QED
  BY <1>3, <1>4

LEMMA BackendStep ==
  ASSUME UInv, NEW c \in Clients,
         \/ Begin(c) \/ StatusKnown(c) \/ StatusUnknown(c) \/ Answered(c)
         \/ LoseCall(c) \/ Unreachable(c)
  PROVE  UInv'
<1>0. /\ row \in Row /\ record \in Record /\ client[c] \in Client
      /\ row.offset \in Offsets /\ record.offset \in Offsets
      /\ client[c].offset \in Offsets /\ up \in {"down", "up", "known"}
      /\ late \subseteq 0..(Size - 1)
      /\ row.state = "verified" => InPlace
  BY DEF UInv, TypeOK, Row, Record, Client, Outgoing, Received
<1>1. CASE Begin(c)
  <2>1. CASE UNCHANGED client
    BY <1>0, <1>1, <2>1, SameFaults, BackendKeeps DEF Begin, UInv, TypeOK
  <2>2. CASE Become(c, "status", row.offset)
    BY <1>0, <1>1, <2>2, SavedKeeps DEF Begin
  <2> QED
    BY <1>1, <2>1, <2>2 DEF Begin
<1>2. CASE StatusKnown(c)
  <2>1. UNCHANGED <<late, up, disk, harm, faults>>
    BY <1>2 DEF StatusKnown
  <2>2. CASE Rest(c) /\ UNCHANGED row
    BY <1>0, <2>1, <2>2, ClientRests, SavedKeeps DEF UInv
  <2>3. CASE record.state = "verified" /\ SaveRow("verified", record.offset) /\ Rest(c)
    <3>1. row' \in Row /\ InPlace
      BY <1>0, <2>3 DEF SaveRow, Row, UInv, Received
    <3> QED
      BY <1>0, <2>1, <2>3, <3>1, ClientRests, SavedKeeps DEF UInv
  <2>4. CASE SendFrom(c, record.offset)
    BY <1>0, <2>1, <2>4, SendKeeps
  <2> QED
    BY <1>2, <2>2, <2>3, <2>4 DEF StatusKnown, Told
<1>3. CASE StatusUnknown(c)
  <2>1. UNCHANGED <<late, up, disk, harm>> /\ (Fault \/ UNCHANGED faults)
    BY <1>3 DEF StatusUnknown
  <2>2. CASE SendFrom(c, client[c].offset)
    BY <1>0, <2>1, <2>2, SendKeeps
  <2>3. CASE Rest(c) /\ UNCHANGED row
    BY <1>0, <2>1, <2>3, ClientRests, SavedKeeps DEF UInv
  <2> QED
    BY <1>3, <2>2, <2>3 DEF StatusUnknown
<1>4. CASE Answered(c)
  <2> DEFINE next == client[c].offset + 1
  <2>1. UNCHANGED <<late, up, disk, harm, faults>>
    BY <1>4 DEF Answered
  <2>2. CASE Failed(c)
    BY <1>0, <2>1, <2>2, FailedKeeps
  <2>3. CASE /\ client[c].answer = Expected(next) /\ SaveRow(RowState(next), next)
             /\ IF next = Size THEN Rest(c) ELSE Become(c, "put", next)
    <3>1. client[c].answer \in {"receiving", "verified"}
          /\ (next = Size => client[c].answer = "verified")
      BY <2>3 DEF Expected
    <3>2. client[c].offset < Size /\ (next = Size => InPlace)
      BY <3>1 DEF UInv, Outgoing, Received
    <3>3. next \in Offsets
      BY <1>0, <3>2, WholeFile DEF Offsets
    <3>4. row' \in Row /\ (row'.state = "verified" => InPlace)
      BY <2>3, <3>2, <3>3 DEF SaveRow, RowState, Row
    <3>5. CASE next = Size
      BY <1>0, <2>1, <2>3, <3>4, <3>5, ClientRests, SavedKeeps DEF UInv
    <3>6. CASE next # Size
      <4>1. next < Size
        BY <3>3, <3>6, WholeFile DEF Offsets
      <4> QED
        BY <1>0, <2>1, <2>3, <3>3, <3>4, <3>6, <4>1, SavedKeeps
    <3> QED
      BY <3>5, <3>6
  <2> QED
    BY <1>4, <2>2, <2>3 DEF Answered
<1>5. CASE LoseCall(c)
  <2>1. late' \subseteq 0..(Size - 1)
    <3>1. client[c].pc = "put" => client[c].offset \in 0..(Size - 1)
      BY <1>0, WholeFile DEF UInv, Outgoing, Offsets
    <3> QED
      BY <1>0, <1>5, <3>1 DEF LoseCall
  <2> QED
    BY <1>0, <1>5, <2>1, FailedKeeps DEF LoseCall
<1>6. CASE Unreachable(c)
  BY <1>0, <1>6, FailedKeeps DEF Unreachable
<1> QED
  BY <1>1, <1>2, <1>3, <1>4, <1>5, <1>6

---------------------------------------------------------------------------
(* The worker *)

\* A chunk appended where the partial file ends.
LEMMA LongerPart ==
  ASSUME UInv, NEW offset \in 0..(Size - 1), NEW x \in Offsets, offset = Len(part)
  PROVE  /\ Append(part, x) \in Seq(Offsets) /\ Len(Append(part, x)) = offset + 1
         /\ offset + 1 \in Offsets
         /\ "damage" \notin harm /\ x = offset + 1
              => /\ \A i \in 1..(offset + 1) : Append(part, x)[i] = i
                 /\ offset + 1 = Size => Append(part, x) = Whole
<1> DEFINE longer == Append(part, x)
<1>1. part \in Seq(Offsets) /\ Len(part) \in Nat
  BY DEF UInv, PartIsPrefix
<1>2. longer \in Seq(Offsets) /\ Len(longer) = offset + 1
  BY <1>1
<1>3. offset + 1 \in Offsets
  BY WholeFile DEF Offsets
<1>4. ASSUME "damage" \notin harm, x = offset + 1
      PROVE  \A i \in 1..(offset + 1) : longer[i] = i
  <2>1. \A i \in 1..Len(part) : part[i] = i
    BY <1>4 DEF UInv, PartIsPrefix
  <2> QED
    BY <1>1, <1>4, <2>1
<1>5. ASSUME \A i \in 1..(offset + 1) : longer[i] = i, offset + 1 = Size
      PROVE  longer = Whole
  <2>1. Whole \in Seq(Offsets) /\ Len(Whole) = Size
    BY WholeFile
  <2>2. \A i \in 1..Size : Whole[i] = i
    BY DEF Whole, Chunk
  <2> HIDE DEF longer
  <2> QED
    BY <1>2, <1>5, <2>1, <2>2
<1> QED
  BY <1>2, <1>3, <1>4, <1>5

\* What the disk may become while what others believe of it stays true.
DiskKept ==
  /\ part' \in Seq(Offsets) /\ Len(part') <= Size /\ record' \in Record
  /\ FileIsWhole' /\ PartIsPrefix' /\ RecordIsKept'
  /\ InPlace => InPlace'
  /\ record'.state = "verified" => InPlace'

LEMMA ReceiveKeeps ==
  ASSUME UInv, NEW offset \in 0..(Size - 1), NEW x \in Offsets, NEW answer \in Answer,
         Receive(offset, x, answer),
         harm \subseteq harm', x = offset + 1 \/ "damage" \in harm'
  PROVE  DiskKept /\ (answer = "verified" => InPlace')
<1> DEFINE longer == Append(part, x)
           next == offset + 1
<1>0. /\ part \in Seq(Offsets) /\ Len(part) <= Size /\ record \in Record
      /\ file \in {<<>>, Whole} /\ PartIsPrefix /\ RecordIsKept
      /\ record.state = "verified" => InPlace
  BY DEF UInv, TypeOK, FileIsWhole, Received, PartIsPrefix
<1>1. CASE file # <<>> /\ SaveRecord("verified", Size) /\ UNCHANGED <<part, file>>
  <2>1. record' \in Record /\ file' = Whole /\ InPlace'
    BY <1>0, <1>1, WholeFile DEF SaveRecord, Record, Offsets, InPlace
  <2> QED
    BY <1>0, <1>1, <2>1 DEF DiskKept, FileIsWhole, PartIsPrefix, RecordIsKept
<1>2. CASE answer = "no" /\ UNCHANGED disk
  BY <1>0, <1>2
  DEF disk, DiskKept, FileIsWhole, PartIsPrefix, RecordIsKept, InPlace
<1>3. ASSUME Accepts(offset)
      PROVE  /\ longer \in Seq(Offsets) /\ Len(longer) = next /\ next \in Offsets
             /\ "damage" \notin harm'
                  => (\A i \in 1..next : longer[i] = i) /\ (next = Size => longer = Whole)
             /\ file = <<>>
  BY <1>3, LongerPart DEF Accepts
<1> HIDE DEF longer
<1>4. CASE /\ Accepts(offset) /\ next < Size /\ answer = "receiving"
           /\ part' = longer /\ SaveRecord("receiving", next) /\ UNCHANGED file
  <2>1. record' \in Record /\ record'.offset = Len(part') /\ record'.state = "receiving"
    BY <1>3, <1>4 DEF SaveRecord, Record
  <2>2. PartIsPrefix' /\ Len(part') <= Size
    BY <1>3, <1>4, WholeFile DEF PartIsPrefix
  <2>3. RecordIsKept' /\ (InPlace => InPlace')
    BY <1>3, <1>4, <2>1, WholeFile DEF RecordIsKept, InPlace, Offsets
  <2> QED
    BY <1>0, <1>3, <1>4, <2>1, <2>2, <2>3 DEF DiskKept, FileIsWhole
<1>5. CASE /\ Accepts(offset) /\ next = Size /\ Verified(longer)
           /\ part' = <<>> /\ file' = longer /\ SaveRecord("verified", next)
  <2>1. file' = Whole /\ InPlace'
    BY <1>5 DEF Verified, InPlace
  <2>2. record' \in Record
    BY <1>3, <1>5 DEF SaveRecord, Record
  <2>3. PartIsPrefix' /\ part' \in Seq(Offsets) /\ Len(part') <= Size
    BY <1>5, WholeFile DEF PartIsPrefix
  <2> QED
    BY <2>1, <2>2, <2>3 DEF DiskKept, FileIsWhole, RecordIsKept
<1>6. CASE /\ Accepts(offset) /\ next = Size /\ ~Verified(longer) /\ answer = "no"
           /\ part' = <<>> /\ UNCHANGED <<file, record>>
  <2>1. "damage" \in harm'
    BY <1>3, <1>6 DEF Verified
  <2>2. PartIsPrefix' /\ part' \in Seq(Offsets) /\ Len(part') <= Size
    BY <1>6, WholeFile DEF PartIsPrefix
  <2>3. RecordIsKept' /\ (InPlace => InPlace')
    BY <1>6, <2>1 DEF RecordIsKept, InPlace
  <2> QED
    BY <1>0, <1>6, <2>2, <2>3 DEF DiskKept, FileIsWhole
<1> QED
  BY <1>1, <1>2, <1>4, <1>5, <1>6 DEF Receive, longer

\* A step of the worker that keeps the disk, whatever it tells the tasks.
LEMMA WorkerKeeps ==
  ASSUME UInv, DiskKept, row' = row, client' \in [Clients -> Client],
         late' \subseteq 0..(Size - 1), up' \in {"down", "up", "known"},
         harm' \subseteq {"damage", "torn", "repair", "replace"}, faults' \in 0..MaxFaults,
         \A c \in Clients :
           /\ client'[c].pc = "put" => client[c].pc = "put" /\ client'[c] = client[c]
           /\ \/ client'[c] = client[c]
              \/ client'[c].answer \in {"no", "none"}
              \/ client'[c].offset < Size /\ (client'[c].answer = "verified" => InPlace')
  PROVE  UInv'
<1>1. TypeOK'
  <2>1. late' \subseteq Offsets
    BY WholeFile DEF Offsets
  <2>2. Len(file') <= Size
    BY WholeFile DEF DiskKept, FileIsWhole
  <2> QED
    BY <2>1, <2>2 DEF UInv, TypeOK, DiskKept
<1>2. Outgoing'
  BY DEF UInv, Outgoing
<1>3. Received'
  <2>1. row'.state = "verified" => InPlace'
    BY DEF UInv, Received, DiskKept
  <2>2. ASSUME NEW c \in Clients, client'[c].answer = "verified" PROVE InPlace'
    BY <2>2 DEF UInv, Received, DiskKept
  <2> QED
    BY <2>1, <2>2 DEF Received, DiskKept
<1> QED
  BY <1>1, <1>2, <1>3 DEF UInv, DiskKept

LEMMA PutKeeps ==
  ASSUME UInv, NEW c \in Clients, Put(c)
  PROVE  UInv'
<1>0. /\ client \in [Clients -> Client] /\ client[c].offset \in 0..(Size - 1)
      /\ late \subseteq 0..(Size - 1) /\ up \in {"down", "up", "known"}
      /\ harm \subseteq {"damage", "torn", "repair", "replace"} /\ faults \in 0..MaxFaults
  BY WholeFile DEF UInv, TypeOK, Outgoing, Put, Client, Offsets
<1>1. PICK x \in Chunk \cup {Damaged}, answer \in Answer :
        /\ Content(client[c].offset, x)
        /\ Receive(client[c].offset, x, answer)
        /\ client' = [client EXCEPT ![c].pc = "answered", ![c].answer = answer]
  BY DEF Put
<1>2. x \in Offsets
  BY WholeFile DEF Chunk, Damaged, Offsets
<1>3. /\ harm \subseteq harm' /\ (x = client[c].offset + 1 \/ "damage" \in harm')
      /\ harm' \subseteq {"damage", "torn", "repair", "replace"}
      /\ Fault \/ UNCHANGED faults
  BY <1>0, <1>1 DEF Content, Harm
<1>4. DiskKept /\ (answer = "verified" => InPlace')
  BY <1>0, <1>1, <1>2, <1>3, ReceiveKeeps
<1>5. /\ client' \in [Clients -> Client]
      /\ client'[c].pc = "answered" /\ client'[c].answer = answer
      /\ client'[c].offset = client[c].offset
      /\ \A d \in Clients \ {c} : client'[d] = client[d]
  BY <1>0, <1>1 DEF Client
<1>6. client'[c].offset < Size
  BY <1>0, <1>5, WholeFile
<1> QED
  BY <1>0, <1>3, <1>4, <1>5, <1>6, SameFaults, WorkerKeeps DEF Put

LEMMA LateChunkKeeps ==
  ASSUME UInv, LateChunk
  PROVE  UInv'
<1>0. /\ client \in [Clients -> Client] /\ late \subseteq 0..(Size - 1)
      /\ up \in {"down", "up", "known"} /\ faults \in 0..MaxFaults
      /\ harm \subseteq {"damage", "torn", "repair", "replace"}
  BY DEF UInv, TypeOK, Outgoing
<1>1. PICK offset \in late, answer \in Answer :
        Receive(offset, offset + 1, answer) /\ late' = late \ {offset}
  BY DEF LateChunk
<1>2. offset \in 0..(Size - 1) /\ offset + 1 \in Offsets
  BY <1>0, WholeFile DEF Offsets
<1>3. UNCHANGED <<row, client, up, harm, faults>>
  BY DEF LateChunk
<1>4. DiskKept
  BY <1>1, <1>2, <1>3, ReceiveKeeps
<1> QED
  BY <1>0, <1>1, <1>3, <1>4, WorkerKeeps

\* The worker's files and record stay as they are, or are gone with the machine.
LEMMA DiskStays ==
  ASSUME UInv, harm' = harm, UNCHANGED disk
  PROVE  DiskKept
BY DEF UInv, TypeOK, FileIsWhole, PartIsPrefix, RecordIsKept, Received, InPlace, disk,
       DiskKept

LEMMA DiskGone ==
  ASSUME UInv, part' = <<>>, file' = <<>>, harm \subseteq harm',
         \/ record' = record /\ "repair" \in harm'
         \/ record' = NoRow /\ "replace" \in harm'
  PROVE  DiskKept
<1>1. record' \in Record /\ InPlace' /\ FileIsWhole' /\ RecordIsKept'
  <2>1. NoRow \in Record /\ NoRow.offset = 0
    BY WholeFile DEF NoRow, Record, Offsets
  <2> QED
    BY <2>1, WholeFile
    DEF UInv, TypeOK, InPlace, FileIsWhole, RecordIsKept
<1> QED
  BY <1>1, WholeFile DEF DiskKept, PartIsPrefix

LEMMA DiesHandlingKeeps ==
  ASSUME UInv, NEW c \in Clients, DiesHandling(c)
  PROVE  UInv'
<1> DEFINE x == client[c].offset + 1
           longer == Append(part, x)
<1>0. /\ client[c].offset \in 0..(Size - 1) /\ late \subseteq 0..(Size - 1)
      /\ harm \subseteq {"damage", "torn", "repair", "replace"}
      /\ client[c].offset = Len(part) /\ file = <<>> /\ row \in Row
      /\ record \in Record
  BY WholeFile DEF UInv, TypeOK, Outgoing, DiesHandling, Client, Offsets, Accepts
<1>1. x \in Offsets
  BY <1>0, WholeFile DEF Offsets
<1>2. /\ longer \in Seq(Offsets) /\ Len(longer) = x
      /\ "damage" \notin harm => \A i \in 1..x : longer[i] = i
  BY <1>0, <1>1, LongerPart
<1>3. harm' = harm \cup {"torn"} /\ faults' \in 0..MaxFaults
  BY SameFaults DEF DiesHandling, Harm
<1>4. \/ part' = longer /\ file' = file
      \/ file' = Whole /\ part' = <<>>
  BY DEF DiesHandling, Verified
<1> HIDE DEF longer
<1>5. record' = record /\ (InPlace => InPlace')
  BY <1>0, <1>3, <1>4, WholeFile DEF DiesHandling, InPlace
<1>6. /\ part' \in Seq(Offsets) /\ Len(part') <= Size /\ PartIsPrefix' /\ FileIsWhole'
  <2>1. CASE part' = longer /\ file' = file
    BY <1>0, <1>1, <1>2, <1>3, <2>1, WholeFile DEF PartIsPrefix, FileIsWhole, Offsets
  <2>2. CASE file' = Whole /\ part' = <<>>
    BY <2>2, WholeFile DEF PartIsPrefix, FileIsWhole
  <2> QED
    BY <1>4, <2>1, <2>2
<1>7. RecordIsKept'
  <2>1. CASE part' = longer /\ file' = file
    <3>1. harm \cap {"damage", "repair"} = {} => record.offset <= Len(part)
      BY <1>0, WholeFile DEF UInv, RecordIsKept
    <3>2. Len(part) <= Len(part') /\ Len(part) \in Nat /\ Len(part') \in Nat
          /\ record.offset \in Nat
      BY <1>0, <1>1, <1>2, <2>1, WholeFile DEF Record, Offsets
    <3> QED
      BY <1>3, <1>5, <3>1, <3>2 DEF RecordIsKept
  <2>2. CASE file' = Whole
    BY <2>2 DEF RecordIsKept
  <2> QED
    BY <1>4, <2>1, <2>2
<1>8. DiskKept
  BY <1>0, <1>5, <1>6, <1>7 DEF DiskKept, UInv, Received
<1>9. /\ client' \in [Clients -> Client] /\ client'[c].pc = "idle"
      /\ client'[c].answer = "none"
      /\ \A d \in Clients \ {c} : client'[d] = client[d]
  BY ClientRests, ClientBecomes DEF DiesHandling, Failed, UInv
<1>10. row' = [row EXCEPT !.state = "failed"]
  BY <1>0 DEF DiesHandling, Failed, SaveRow, Row
<1>11. row' \in Row /\ row'.state = "failed"
  BY <1>0, <1>10 DEF Row
<1>12. TypeOK'
  BY <1>0, <1>3, <1>6, <1>8, <1>9, <1>11, WholeFile
  DEF TypeOK, DiskKept, FileIsWhole, DiesHandling, Offsets
<1>13. Outgoing'
  BY <1>0, <1>9 DEF UInv, Outgoing, DiesHandling
<1>14. Received'
  BY <1>8, <1>9, <1>11 DEF UInv, Received, DiskKept
<1> QED
  BY <1>6, <1>7, <1>12, <1>13, <1>14 DEF UInv

LEMMA WorkerStep ==
  ASSUME UInv, BackendCrashes \/ Dies \/ Starts \/ Repair \/ Replace
  PROVE  UInv'
<1>0. /\ client \in [Clients -> Client] /\ late \subseteq 0..(Size - 1)
      /\ up \in {"down", "up", "known"} /\ faults \in 0..MaxFaults
      /\ harm \subseteq {"damage", "torn", "repair", "replace"}
  BY DEF UInv, TypeOK, Outgoing
<1>1. Resting \in Client /\ Resting.pc = "idle" /\ Resting.answer = "none"
  BY WholeFile DEF Resting, Client, Offsets
<1>2. CASE BackendCrashes
  BY <1>0, <1>1, <1>2, DiskStays, SameFaults, WorkerKeeps DEF BackendCrashes
<1>3. CASE Dies \/ Starts
  BY <1>0, <1>3, DiskStays, SameFaults, WorkerKeeps DEF Dies, Starts
<1>4. CASE Repair
  <2>1. DiskKept
    BY <1>4, DiskGone DEF Repair, Harm
  <2> QED
    BY <1>0, <1>4, <2>1, SameFaults, WorkerKeeps DEF Repair, Harm
<1>5. CASE Replace
  <2>1. DiskKept
    BY <1>5, DiskGone DEF Replace, Harm
  <2>2. ASSUME NEW c \in Clients
        PROVE  /\ client'[c] \in Client /\ client'[c].pc # "put"
               /\ client'[c].answer \in {"no", "none"}
    <3>1. [client[c] EXCEPT !.pc = "answered", !.answer = "no"] \in Client
      BY <1>0 DEF Client, Answer
    <3>2. /\ [client[c] EXCEPT !.pc = "answered", !.answer = "no"].pc = "answered"
          /\ [client[c] EXCEPT !.pc = "answered", !.answer = "no"].answer = "no"
      BY <1>0 DEF Client
    <3>3. client'[c] = IF client[c].pc = "idle" THEN Resting
                       ELSE [client[c] EXCEPT !.pc = "answered", !.answer = "no"]
      BY <1>5 DEF Replace
    <3> QED
      BY <1>1, <3>1, <3>2, <3>3
  <2>3. client' \in [Clients -> Client]
    BY <1>5, <2>2 DEF Replace
  <2> QED
    BY <1>0, <1>5, <2>1, <2>2, <2>3, SameFaults, WorkerKeeps DEF Replace, Harm
<1> QED
  BY <1>2, <1>3, <1>4, <1>5

---------------------------------------------------------------------------
(* The theorems *)

LEMMA UploadInit == Init => UInv
<1> SUFFICES ASSUME Init PROVE UInv
  OBVIOUS
<1>1. /\ row = NoRow /\ record = NoRow /\ late = {} /\ up = "up" /\ part = <<>>
      /\ file = <<>> /\ harm = {} /\ faults = 0
  BY DEF Init
<1>2. /\ NoRow \in Row /\ NoRow \in Record /\ NoRow.offset = 0
      /\ NoRow.state = "none"
  BY WholeFile DEF NoRow, Row, Record, Offsets
<1>3. /\ Resting \in Client /\ Resting.pc = "idle" /\ Resting.answer = "none"
      /\ client \in [Clients -> Client] /\ \A c \in Clients : client[c] = Resting
  BY WholeFile DEF Init, Resting, Client, Offsets
<1>4. TypeOK
  BY <1>1, <1>2, <1>3, WholeFile DEF TypeOK
<1>5. FileIsWhole /\ PartIsPrefix /\ RecordIsKept
  BY <1>1, <1>2, WholeFile DEF FileIsWhole, PartIsPrefix, RecordIsKept
<1>6. Outgoing /\ Received
  BY <1>1, <1>2, <1>3 DEF Outgoing, Received
<1> QED
  BY <1>4, <1>5, <1>6 DEF UInv

LEMMA UploadNext == UInv /\ [Next]_vars => UInv'
<1> SUFFICES ASSUME UInv, [Next]_vars PROVE UInv'
  OBVIOUS
<1>1. CASE UNCHANGED vars
  BY <1>1
  DEF vars, disk, UInv, TypeOK, FileIsWhole, Outgoing, Received, InPlace, PartIsPrefix,
      RecordIsKept
<1> QED
  BY <1>1, BackendStep, PutKeeps, DiesHandlingKeeps, LateChunkKeeps, WorkerStep DEF Next

\* The inductive invariant of the upload.
THEOREM UploadInvariance == Spec => []UInv
BY UploadInit, UploadNext, PTL DEF Spec

\* No order of tasks, lost answers and restarts moves an offset past the file or
\* the partial file past its size.
THEOREM UploadTypeCorrect == Spec => []TypeOK
<1>1. UInv => TypeOK
  BY DEF UInv
<1> QED
  BY <1>1, UploadInvariance, PTL

\* TransferManager.upload puts only the manifest's file in place, however many tasks
\* send it and whatever arrives late or damaged.
THEOREM FilesAreWhole == Spec => []FileIsWhole
<1>1. UInv => FileIsWhole
  BY DEF UInv
<1> QED
  BY <1>1, UploadInvariance, PTL

\* _upload_artifact marks a transfer verified only when the worker has the file,
\* as long as the machine is neither repaired nor replaced.
THEOREM RowsAreReceived == Spec => []RowIsReceived
<1>1. UInv => RowIsReceived
  BY DEF UInv, Received, InPlace, RowIsReceived
<1> QED
  BY <1>1, UploadInvariance, PTL

\* Without damage or repair the worker's record never points past what it has, so
\* an upload that resumes from it leaves no gap.
THEOREM RecordsAreKept == Spec => []RecordIsKept
<1>1. UInv => RecordIsKept
  BY DEF UInv
<1> QED
  BY <1>1, UploadInvariance, PTL
=============================================================================
