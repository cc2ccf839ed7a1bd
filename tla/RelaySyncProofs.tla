-------------------------- MODULE RelaySyncProofs --------------------------
(***************************************************************************)
(* Proofs about RelaySync: what stands under the output's final name is    *)
(* the whole output, and no crash, refused stream or second task takes it  *)
(* away, for any size of output and any number of faults.  Where damaged   *)
(* chunks matter, DamageAlone is assumed.                                  *)
(***************************************************************************)
EXTENDS RelaySync, SequenceTheorems, TLAPS

\* Chunks are damaged only in worlds where the deadline's retrieval does not join
\* the finisher (PublishedIsWhole).
DamageAlone == \A w \in Worlds : w.deadline => w.damage = 0

---------------------------------------------------------------------------
(* Types *)

Chunks == {"good", "bad"}
Row == [state : TransferStates, offset : 0..Size]
Local ==
  [events : Nat, job : JobStates, session : States, row : Row \cup {None},
   part : Inodes \cup {None}, dest : Inodes \cup {None},
   file : [Inodes -> Seq(Chunks)], preview : [file : BOOLEAN, row : BOOLEAN]]
Task ==
  [pc : {"idle", "events", "preview", "recache", "job", "download", "expired", "ended"},
   cursor : 0..2, until : 0..2, fd : Inodes \cup {None}, current : 0..Size,
   ok : BOOLEAN, finish : BOOLEAN]
World == [filesystems : {1, 2}, damage : Nat, crashes : Nat, deadline : BOOLEAN]

AllGood(content) == \A i \in 1..Len(content) : content[i] = "good"

(* The inductive invariant *)

\* The worker succeeded, and all it said is here.
Complete(l) ==
  /\ RemoteState = "succeeded" /\ l.events = Len(log)
  /\ HasPreview => l.preview.row

\* Retrievals join the finisher only where every chunk is good.
Joined == DamageAlone /\ world.deadline

Sound(l) ==
  /\ l.dest # None => Whole(l.file[l.dest])
  /\ world.deadline => \A i \in Inodes : AllGood(l.file[i])

\* What holds of the durable state, and so of every write that a crash can leave.
LocalOK(l) ==
  /\ l \in Local
  /\ l.events <= Len(log)
  /\ \A i \in Inodes : Len(l.file[i]) <= Size
  /\ Verified(l) => l.dest # None
  /\ l.job = "succeeded" => Complete(l) /\ l.dest # None
  /\ DamageAlone => Sound(l)

\* A task that downloads: where retrievals join, the part file may be ahead of it;
\* elsewhere it is exactly what the task has received.
Downloading(l, t) ==
  /\ Complete(l)
  /\ t.fd \in Inodes /\ t.current <= Len(l.file[t.fd])
  /\ DamageAlone =>
       /\ l.dest = None => l.part = t.fd
       /\ world.deadline => t.ok
       /\ ~world.deadline => /\ l.part = t.fd /\ t.current = Len(l.file[t.fd])
                             /\ t.ok => AllGood(l.file[t.fd])

\* What a task knows of the durable state it will find.
TaskOK(l, t) ==
  /\ t \in Task
  /\ t.pc \in {"events", "job"} => t.cursor <= l.events
  /\ t.pc \in {"preview", "recache"} => t.until <= Len(log)
  /\ t.pc = "job" => l.preview.row \/ \A i \in 1..t.cursor : log[i] # "b_preview"
  /\ t.pc = "download" => Downloading(l, t)

WorldOK ==
  /\ world \in World
  /\ Joined => world.damage = 0
  /\ ~world.deadline => task[Preparer] = Idle

ReviewFresh == review # None /\ ~review.stale => review.session = local.session

RInv ==
  /\ log \in Seq(EventTypes) /\ Len(log) <= 2
  /\ LocalOK(local)
  /\ task \in [Syncers -> Task] /\ \A s \in Syncers : TaskOK(local, task[s])
  /\ WorldOK
  /\ review \in Reviews \cup {None} /\ ReviewFresh

\* What no write takes from the state the handler found.
Reaches(l) ==
  /\ l.events >= local.events
  /\ local.preview.row => l.preview.row
  /\ local.dest # None => l.dest = local.dest
  /\ \A s \in Syncers :
       task[s].fd # None => Len(l.file[task[s].fd]) >= Len(local.file[task[s].fd])
  /\ Joined /\ l.dest = None /\ local.part # None => l.part = local.part

Good(l) == LocalOK(l) /\ Reaches(l)

\* What a step keeps: the invariant, the published file's name, and a destruction
\* that the user confirms begins as it was reviewed (DestroyedAsReviewed).
NameStays == local.dest # None => local'.dest = local.dest
AsReviewed ==
  local.session # "destroying" /\ local'.session = "destroying"
    /\ review # None /\ review' = None =>
    review.session = local.session /\ review.shown = Unverified(local)
Kept == RInv' /\ NameStays /\ AsReviewed

GoodWrites(writes) ==
  /\ writes \in Seq(Local) /\ writes # <<>>
  /\ \A k \in 1..Len(writes) : Good(writes[k])

---------------------------------------------------------------------------
(* Contents and sequences *)

LEMMA Parameters ==
  /\ Size \in Nat /\ Size >= 1 /\ Finisher # Preparer /\ Worlds \subseteq World
  /\ None \notin Inodes /\ None \notin Reviews
BY RelayParameters, NoneIsNothing DEF World

LEMMA Bounded ==
  ASSUME NEW S, NEW n \in Nat, NEW s \in Seq(S), Len(s) <= n
  PROVE  s \in BoundedSeq(S, n)
<1>1. Len(s) \in 0..n /\ s \in [1..Len(s) -> S]
  BY LenProperties
<1> QED
  BY <1>1 DEF BoundedSeq, SeqOf

LEMMA WholeIsGood ==
  ASSUME NEW f \in Seq(Chunks)
  PROVE  Whole(f) <=> Len(f) = Size /\ AllGood(f)
<1> DEFINE whole == [i \in 1..Size |-> "good"]
<1>1. whole \in Seq(Chunks) /\ Len(whole) = Size /\ \A i \in 1..Size : whole[i] = "good"
  BY Parameters DEF Chunks
<1>2. Whole(f) => Len(f) = Size /\ AllGood(f)
  BY <1>1 DEF Whole, AllGood
<1>3. ASSUME Len(f) = Size, AllGood(f)
      PROVE  f = whole
  <2> HIDE DEF whole
  <2> QED
    BY <1>1, <1>3, SeqEqual DEF AllGood
<1> QED
  BY <1>2, <1>3 DEF Whole

LEMMA NothingIsNotWhole == ~Whole(<<>>)
<1>1. [i \in 1..Size |-> "good"] \in Seq(Chunks) /\ Len([i \in 1..Size |-> "good"]) = Size
  BY Parameters DEF Chunks
<1>2. Len(<<>>) = 0
  OBVIOUS
<1> QED
  BY <1>1, <1>2, Parameters DEF Whole

\* At least one inode is neither published, nor the part file, nor open, as long as
\* one of the names is not given.
LEMMA FreeInode ==
  ASSUME NEW l, l.part = None \/ l.dest = None
  PROVE  /\ Free(l) \in Inodes /\ Free(l) # l.part /\ Free(l) # l.dest
         /\ Free(l) # None /\ \A s \in Syncers : task[s].fd # Free(l)
<1> DEFINE Taken == {l.part, l.dest, task[Finisher].fd, task[Preparer].fd}
<1>1. \E i \in Inodes : i \notin Taken
  BY Parameters DEF Inodes
<1>2. \E i \in Inodes : i \notin {l.part, l.dest} /\ \A s \in Syncers : task[s].fd # i
  BY <1>1 DEF Syncers
<1> QED
  BY <1>2, Parameters DEF Free

LEMMA OneWrite ==
  ASSUME NEW a, Good(a)
  PROVE  GoodWrites(<<a>>) /\ Last(<<a>>) = a
BY DEF GoodWrites, Good, LocalOK, Last

LEMMA TwoWrites ==
  ASSUME NEW a, NEW b, Good(a), Good(b)
  PROVE  GoodWrites(<<a, b>>) /\ Last(<<a, b>>) = b
BY DEF GoodWrites, Good, LocalOK, Last

LEMMA ThreeWrites ==
  ASSUME NEW a, NEW b, NEW c, Good(a), Good(b), Good(c)
  PROVE  GoodWrites(<<a, b, c>>) /\ Last(<<a, b, c>>) = c
BY DEF GoodWrites, Good, LocalOK, Last

LEMMA FourWrites ==
  ASSUME NEW a, NEW b, NEW c, NEW d, Good(a), Good(b), Good(c), Good(d)
  PROVE  GoodWrites(<<a, b, c, d>>) /\ Last(<<a, b, c, d>>) = d
BY DEF GoodWrites, Good, LocalOK, Last

LEMMA MoreWrites ==
  ASSUME NEW v, NEW w, GoodWrites(v), GoodWrites(w)
  PROVE  GoodWrites(v \o w) /\ Last(v \o w) = Last(w)
<1>1. /\ v \in Seq(Local) /\ w \in Seq(Local)
      /\ Len(v) \in Nat /\ Len(w) \in Nat /\ Len(v) >= 1 /\ Len(w) >= 1
  BY EmptySeq DEF GoodWrites
<1>2. /\ v \o w \in Seq(Local) /\ Len(v \o w) = Len(v) + Len(w)
      /\ \A i \in 1..(Len(v) + Len(w)) :
           (v \o w)[i] = IF i <= Len(v) THEN v[i] ELSE w[i - Len(v)]
  BY <1>1, ConcatProperties
<1>3. \A k \in 1..Len(v \o w) : Good((v \o w)[k])
  BY <1>1, <1>2 DEF GoodWrites
<1>4. v \o w # <<>>
  BY <1>1, <1>2
<1> QED
  BY <1>1, <1>2, <1>3, <1>4 DEF GoodWrites, Last

LEMMA AnotherWrite ==
  ASSUME NEW v, NEW a, GoodWrites(v), Good(a)
  PROVE  GoodWrites(Append(v, a)) /\ Last(Append(v, a)) = a
<1>1. v \in Seq(Local) /\ a \in Local /\ Len(v) \in Nat
  BY DEF GoodWrites, Good, LocalOK
<1>2. /\ Append(v, a) \in Seq(Local) /\ Append(v, a) # <<>>
      /\ Len(Append(v, a)) = Len(v) + 1
      /\ \A i \in 1..Len(v) : Append(v, a)[i] = v[i]
      /\ Append(v, a)[Len(v) + 1] = a
  BY <1>1, AppendProperties
<1> QED
  BY <1>1, <1>2 DEF GoodWrites, Last

LEMMA LastIsGood ==
  ASSUME NEW v, GoodWrites(v)
  PROVE  Good(Last(v))
<1>1. Len(v) \in 1..Len(v)
  BY EmptySeq DEF GoodWrites
<1> QED
  BY <1>1 DEF GoodWrites, Last

---------------------------------------------------------------------------
(* Each kind of write keeps the durable state good *)

LEMMA LocalIsGood ==
  ASSUME RInv
  PROVE  Good(local)
BY DEF RInv, Good, Reaches, LocalOK, Local, TaskOK, Task

\* What the worker said stays here.
LEMMA CompleteStays ==
  ASSUME RInv, Complete(local), NEW l, Good(l)
  PROVE  Complete(l)
BY DEF RInv, Good, LocalOK, Reaches, Complete, Local

\* A write of rows alone: the files and their names are as they were.
SameFiles(l, m) ==
  /\ m.part = l.part /\ m.dest = l.dest /\ m.file = l.file

LEMMA RowsKept ==
  ASSUME RInv, NEW l, Good(l), NEW m \in Local, SameFiles(l, m),
         m.events >= l.events, m.events <= Len(log),
         l.preview.row => m.preview.row,
         Verified(m) => m.dest # None,
         m.job = "succeeded" => Complete(m) /\ m.dest # None
  PROVE  Good(m)
<1>1. LocalOK(m)
  BY DEF LocalOK, Good, SameFiles, Sound
<1>2. Reaches(m)
  <2>1. local.events \in Nat /\ l.events \in Nat /\ m.events \in Nat
    BY DEF Good, RInv, LocalOK, Local
  <2> QED
    BY <2>1 DEF Good, Reaches, SameFiles
<1> QED
  BY <1>1, <1>2 DEF Good

LEMMA SavedIsGood ==
  ASSUME RInv, NEW l, Good(l), NEW offset \in 0..Size, NEW state \in TransferStates,
         state = "verified" => l.dest # None
  PROVE  /\ Good(save_transfer(l, offset, state))
         /\ SameFiles(l, save_transfer(l, offset, state))
<1> DEFINE m == save_transfer(l, offset, state)
<1>1. CASE ~CanSave(l, offset)
  BY <1>1 DEF save_transfer, SameFiles
<1>2. CASE CanSave(l, offset)
  <2>1. /\ m \in Local /\ SameFiles(l, m)
        /\ m.row = [state |-> state, offset |-> offset]
        /\ m.events = l.events /\ m.preview = l.preview /\ m.job = l.job
    BY <1>2 DEF save_transfer, Good, LocalOK, Local, Row, SameFiles
  <2>2. Verified(m) => m.dest # None
    BY <2>1 DEF Verified, SameFiles
  <2>3. m.job = "succeeded" => Complete(m) /\ m.dest # None
    BY <2>1 DEF Good, LocalOK, Complete, SameFiles
  <2>4. m.events >= l.events /\ m.events <= Len(log)
    BY <2>1 DEF Good, LocalOK, Local
  <2> HIDE DEF m
  <2>5. Good(m) /\ SameFiles(l, m)
    BY <2>1, <2>2, <2>3, <2>4, RowsKept
  <2> QED
    BY <2>5 DEF m
<1> QED
  BY <1>1, <1>2

LEMMA ResetIsGood ==
  ASSUME RInv, NEW l, Good(l)
  PROVE  /\ Good(reset_transfer(l)) /\ SameFiles(l, reset_transfer(l))
         /\ reset_transfer(l).row = None
<1> DEFINE m == reset_transfer(l)
<1>1. /\ m \in Local /\ SameFiles(l, m) /\ m.row = None
      /\ m.events = l.events /\ m.preview = l.preview /\ m.job = l.job
  BY DEF reset_transfer, Good, LocalOK, Local, SameFiles
<1>2. ~Verified(m)
  BY <1>1 DEF Verified
<1>3. m.job = "succeeded" => Complete(m) /\ m.dest # None
  BY <1>1 DEF Good, LocalOK, Complete, SameFiles
<1>4. m.events >= l.events /\ m.events <= Len(log)
  BY <1>1 DEF Good, LocalOK, Local
<1> HIDE DEF m
<1>5. Good(m) /\ SameFiles(l, m) /\ m.row = None
  BY <1>1, <1>2, <1>3, <1>4, RowsKept
<1> QED
  BY <1>5 DEF m

LEMMA JobIsGood ==
  ASSUME RInv, NEW l, Good(l), NEW job \in JobStates,
         job = "succeeded" => Complete(l) /\ l.dest # None
  PROVE  Good([l EXCEPT !.job = job]) /\ SameFiles(l, [l EXCEPT !.job = job])
<1> DEFINE m == [l EXCEPT !.job = job]
<1>1. /\ m \in Local /\ SameFiles(l, m) /\ m.job = job
      /\ m.events = l.events /\ m.preview = l.preview /\ m.row = l.row
  BY DEF Good, LocalOK, Local, SameFiles
<1>2. Verified(m) => m.dest # None
  BY <1>1 DEF Verified, SameFiles, Good, LocalOK
<1>3. m.job = "succeeded" => Complete(m) /\ m.dest # None
  BY <1>1 DEF Complete, SameFiles
<1>4. m.events >= l.events /\ m.events <= Len(log)
  BY <1>1 DEF Good, LocalOK, Local
<1> HIDE DEF m
<1>5. Good(m)
  BY <1>1, <1>2, <1>3, <1>4, RowsKept
<1> QED
  BY <1>1, <1>5 DEF m

LEMMA SessionIsGood ==
  ASSUME RInv, NEW l, Good(l), NEW session \in States
  PROVE  /\ Good([l EXCEPT !.session = session])
         /\ SameFiles(l, [l EXCEPT !.session = session])
<1> DEFINE m == [l EXCEPT !.session = session]
<1>1. /\ m \in Local /\ SameFiles(l, m) /\ m.job = l.job
      /\ m.events = l.events /\ m.preview = l.preview /\ m.row = l.row
  BY DEF Good, LocalOK, Local, SameFiles
<1>2. Verified(m) => m.dest # None
  BY <1>1 DEF Verified, SameFiles, Good, LocalOK
<1>3. m.job = "succeeded" => Complete(m) /\ m.dest # None
  BY <1>1 DEF Good, LocalOK, Complete, SameFiles
<1>4. m.events >= l.events /\ m.events <= Len(log)
  BY <1>1 DEF Good, LocalOK, Local
<1> HIDE DEF m
<1>5. Good(m)
  BY <1>1, <1>2, <1>3, <1>4, RowsKept
<1> QED
  BY <1>1, <1>5 DEF m

LEMMA StoredIsGood ==
  ASSUME RInv, NEW l, Good(l), NEW cursor \in 0..Len(log)
  PROVE  /\ Good(Stored(l, cursor)) /\ SameFiles(l, Stored(l, cursor))
         /\ Stored(l, cursor).events >= cursor
         /\ Stored(l, cursor).preview = l.preview
<1> DEFINE m == Stored(l, cursor)
<1> DEFINE events == IF cursor > l.events THEN cursor ELSE l.events
<1>a. l \in Local /\ events \in Nat /\ m = [l EXCEPT !.events = events]
  <2>1. l \in Local /\ Len(log) \in Nat
    BY DEF Good, LocalOK, RInv
  <2> QED
    BY <2>1 DEF Stored, Local
<1>1. /\ m \in Local /\ SameFiles(l, m) /\ m.job = l.job
      /\ m.preview = l.preview /\ m.row = l.row /\ m.events = events
  <2> HIDE DEF events, m
  <2> QED
    BY <1>a DEF Local, SameFiles
<1>2. Verified(m) => m.dest # None
  BY <1>1 DEF Verified, SameFiles, Good, LocalOK
<1>3. m.events >= l.events /\ m.events <= Len(log) /\ m.events >= cursor
  BY <1>1 DEF Good, LocalOK, Local, RInv
<1>4. m.job = "succeeded" => Complete(m) /\ m.dest # None
  BY <1>1, <1>3 DEF Good, LocalOK, Local, Complete, SameFiles, RInv
<1> HIDE DEF m
<1>5. Good(m)
  BY <1>1, <1>2, <1>3, <1>4, RowsKept
<1> QED
  BY <1>1, <1>3, <1>5 DEF m

LEMMA PreviewIsGood ==
  ASSUME RInv, NEW l, Good(l), NEW preview \in [file : BOOLEAN, row : BOOLEAN],
         l.preview.row => preview.row
  PROVE  /\ Good([l EXCEPT !.preview = preview])
         /\ SameFiles(l, [l EXCEPT !.preview = preview])
<1> DEFINE m == [l EXCEPT !.preview = preview]
<1>1. /\ m \in Local /\ SameFiles(l, m) /\ m.job = l.job
      /\ m.events = l.events /\ m.preview = preview /\ m.row = l.row
  BY DEF Good, LocalOK, Local, SameFiles
<1>2. Verified(m) => m.dest # None
  BY <1>1 DEF Verified, SameFiles, Good, LocalOK
<1>3. m.job = "succeeded" => Complete(m) /\ m.dest # None
  BY <1>1 DEF Good, LocalOK, Complete, SameFiles
<1>4. m.events >= l.events /\ m.events <= Len(log)
  BY <1>1 DEF Good, LocalOK, Local
<1> HIDE DEF m
<1>5. Good(m)
  BY <1>1, <1>2, <1>3, <1>4, RowsKept
<1> QED
  BY <1>1, <1>5 DEF m

LEMMA UnlinkedIsGood ==
  ASSUME RInv, NEW l, Good(l), l.dest # None \/ ~Joined
  PROVE  /\ Good(Unlinked(l)) /\ Unlinked(l).part = None
         /\ Unlinked(l).dest = l.dest /\ Unlinked(l).file = l.file
<1> DEFINE m == Unlinked(l)
<1>1. /\ m \in Local /\ m.part = None /\ m.dest = l.dest /\ m.file = l.file
      /\ m.job = l.job /\ m.events = l.events /\ m.preview = l.preview /\ m.row = l.row
  BY DEF Unlinked, Good, LocalOK, Local
<1> HIDE DEF m
<1>2. LocalOK(m)
  BY <1>1 DEF Good, LocalOK, Sound, Verified, Complete
<1>3. Reaches(m)
  BY <1>1 DEF Good, Reaches
<1> QED
  BY <1>1, <1>2, <1>3 DEF m, Good

LEMMA PartContent ==
  ASSUME NEW l \in Local
  PROVE  /\ l.part # None => l.part \in Inodes /\ Content(l, l.part) = l.file[l.part]
         /\ l.part = None => Content(l, l.part) = <<>>
         /\ Content(l, l.part) \in Seq(Chunks)
         /\ l.dest # None => l.dest \in Inodes /\ Content(l, l.dest) = l.file[l.dest]
         /\ l.dest = None => Content(l, l.dest) = <<>>
BY DEF Content, Local

\* The name is given to a whole output.
LEMMA LinkedIsGood ==
  ASSUME RInv, NEW l, Good(l), l.dest = None, l.part # None,
         DamageAlone => Whole(Content(l, l.part))
  PROVE  Good(Linked(l)) /\ Linked(l).dest # None
<1> DEFINE m == Linked(l)
           c == Content(l, l.part)
<1>1. /\ l \in Local /\ l.part \in Inodes /\ c = l.file[l.part] /\ c \in Seq(Chunks)
  BY PartContent DEF Good, LocalOK
<1>2. Len(c) <= Size
  BY <1>1 DEF Good, LocalOK
<1>3. CASE world.filesystems = 2
  <2> DEFINE f == Free(l)
  <2>1. f \in Inodes /\ f # None /\ \A s \in Syncers : task[s].fd # f
    BY FreeInode
  <2>2. m = [l EXCEPT !.dest = f, !.file[f] = c]
    BY <1>3 DEF Linked
  <2> HIDE DEF f, m, c
  <2>3. /\ m \in Local /\ m.dest = f /\ m.part = l.part /\ m.row = l.row
        /\ m.job = l.job /\ m.events = l.events /\ m.preview = l.preview
        /\ m.file = [l.file EXCEPT ![f] = c]
    BY <1>1, <2>1, <2>2 DEF Local
  <2>4. \A i \in Inodes : m.file[i] = IF i = f THEN c ELSE l.file[i]
    BY <1>1, <2>1, <2>3 DEF Local
  <2>5. DamageAlone => Sound(m)
    <3>1. DamageAlone => Whole(m.file[m.dest]) /\ AllGood(c)
      BY <1>1, <2>1, <2>3, <2>4, WholeIsGood DEF c
    <3> QED
      BY <2>4, <3>1 DEF Sound, Good, LocalOK
  <2>6. LocalOK(m)
    BY <1>2, <2>1, <2>3, <2>4, <2>5 DEF Good, LocalOK, Verified, Complete
  <2>7. Reaches(m)
    <3>1. \A s \in Syncers : task[s].fd # None => task[s].fd \in Inodes \ {f}
      BY <2>1 DEF RInv, Task
    <3>2. \A s \in Syncers : task[s].fd # None => m.file[task[s].fd] = l.file[task[s].fd]
      BY <2>4, <3>1
    <3> QED
      BY <2>1, <2>3, <3>2 DEF Good, Reaches
  <2> QED
    BY <2>1, <2>3, <2>6, <2>7 DEF m, Good
<1>4. CASE world.filesystems # 2
  <2>1. m = [l EXCEPT !.dest = l.part]
    BY <1>4 DEF Linked
  <2> HIDE DEF m
  <2>2. /\ m \in Local /\ m.dest = l.part /\ m.part = l.part /\ m.row = l.row
        /\ m.job = l.job /\ m.events = l.events /\ m.preview = l.preview
        /\ m.file = l.file
    BY <1>1, <2>1 DEF Local
  <2>3. LocalOK(m)
    BY <1>1, <2>2 DEF Good, LocalOK, Verified, Complete, Sound
  <2>4. Reaches(m)
    BY <1>1, <2>2 DEF Good, Reaches
  <2> QED
    BY <2>2, <2>3, <2>4 DEF m, Good
<1> QED
  BY <1>3, <1>4

\* The part file a download writes to: the one there is, or a new, empty one.
LEMMA OpenedIsGood ==
  ASSUME RInv, NEW l, Good(l)
  PROVE  /\ Good(Opened(l)) /\ Opened(l).part \in Inodes
         /\ Opened(l).file[Opened(l).part] = Content(l, l.part)
         /\ Opened(l).dest = l.dest
<1> DEFINE m == Opened(l)
           f == Free(l)
<1>0. l \in Local
  BY DEF Good, LocalOK
<1>1. CASE l.part # None
  BY <1>0, <1>1, PartContent DEF Opened
<1>2. CASE l.part = None
  <2>1. f \in Inodes /\ f # None /\ f # l.dest /\ \A s \in Syncers : task[s].fd # f
    BY <1>2, FreeInode
  <2>2. m = [l EXCEPT !.part = f, !.file[f] = <<>>]
    BY <1>2 DEF Opened
  <2>a. <<>> \in Seq(Chunks) /\ Len(<<>>) = 0
    OBVIOUS
  <2> HIDE DEF f, m
  <2>3. /\ m \in Local /\ m.dest = l.dest /\ m.part = f /\ m.row = l.row
        /\ m.job = l.job /\ m.events = l.events /\ m.preview = l.preview
        /\ m.file = [l.file EXCEPT ![f] = <<>>]
    BY <1>0, <2>1, <2>2, <2>a DEF Local
  <2>4. \A i \in Inodes : m.file[i] = IF i = f THEN <<>> ELSE l.file[i]
    BY <1>0, <2>1, <2>3 DEF Local
  <2>5. DamageAlone => Sound(m)
    <3>1. AllGood(<<>>)
      BY <2>a DEF AllGood
    <3>2. l.dest # None => m.file[m.dest] = l.file[l.dest]
      BY <1>0, <2>1, <2>3, <2>4 DEF Local
    <3> QED
      BY <2>3, <2>4, <3>1, <3>2 DEF Sound, Good, LocalOK
  <2>6. LocalOK(m)
    <3>1. \A i \in Inodes : Len(m.file[i]) <= Size
      BY <2>4, <2>a, Parameters DEF Good, LocalOK
    <3> QED
      BY <2>3, <2>5, <3>1 DEF Good, LocalOK, Verified, Complete
  <2>7. Reaches(m)
    <3>1. \A s \in Syncers : task[s].fd # None => task[s].fd \in Inodes \ {f}
      BY <2>1 DEF RInv, Task
    <3>2. \A s \in Syncers : task[s].fd # None => m.file[task[s].fd] = l.file[task[s].fd]
      BY <2>4, <3>1
    <3> QED
      BY <1>2, <2>1, <2>3, <3>2 DEF Good, Reaches
  <2>8. Content(l, l.part) = <<>> /\ m.file[m.part] = <<>>
    BY <1>0, <1>2, <2>1, <2>3, <2>4, PartContent
  <2> QED
    BY <2>1, <2>3, <2>6, <2>7, <2>8 DEF m, Good
<1> QED
  BY <1>1, <1>2

---------------------------------------------------------------------------
(* The sequences of writes *)

LEMMA ResumedIsGood ==
  ASSUME RInv
  PROVE  /\ GoodWrites(Resumed(local)) /\ Good(Last(Resumed(local)))
         /\ SameFiles(local, Last(Resumed(local)))
<1> DEFINE size == Len(Content(local, local.part))
           r == IF local.row # None /\ local.row.offset > size
                THEN reset_transfer(local) ELSE local
           m == save_transfer(r, size, "transferring")
<1>1. Good(local) /\ local \in Local
  BY LocalIsGood DEF Good, LocalOK
<1>2. size \in 0..Size
  <2>1. size \in Nat
    BY <1>1, PartContent
  <2>2. Len(<<>>) = 0
    OBVIOUS
  <2>3. size <= Size
    BY <1>1, <2>2, PartContent, Parameters DEF Good, LocalOK
  <2> QED
    BY <2>1, <2>3, Parameters
<1>3. Good(r) /\ SameFiles(local, r)
  BY <1>1, ResetIsGood DEF SameFiles
<1> HIDE DEF size, r
<1>4. Good(m) /\ SameFiles(r, m)
  BY <1>2, <1>3, SavedIsGood DEF TransferStates
<1>5. Resumed(local) = <<r, m>>
  BY DEF Resumed, r, size
<1> HIDE DEF m
<1> QED
  BY <1>3, <1>4, <1>5, TwoWrites DEF SameFiles

LEMMA RejectIsGood ==
  ASSUME RInv, NEW l, Good(l), ~Joined
  PROVE  GoodWrites(Reject(l))
<1> DEFINE size == Len(Content(l, l.part))
<1>1. size \in 0..Size
  <2>1. l \in Local /\ size \in Nat
    BY PartContent DEF Good, LocalOK
  <2>2. Len(<<>>) = 0
    OBVIOUS
  <2> QED
    BY <2>1, <2>2, PartContent, Parameters DEF Good, LocalOK
<1>2. CASE size >= Size
  <2> DEFINE u == Unlinked(l)
             d == reset_transfer(u)
             f == save_transfer(d, 0, "failed")
  <2>1. Good(u)
    BY UnlinkedIsGood
  <2> HIDE DEF u
  <2>2. Good(d)
    BY <2>1, ResetIsGood
  <2> HIDE DEF d
  <2>3. 0 \in 0..Size /\ "failed" \in TransferStates /\ "failed" # "verified"
    BY Parameters DEF TransferStates
  <2>4. Good(f)
    BY <2>2, <2>3, SavedIsGood
  <2> HIDE DEF f
  <2>5. GoodWrites(<<u, d, f>>)
    BY <2>1, <2>2, <2>4, ThreeWrites
  <2> QED
    BY <1>2, <2>5 DEF Reject, u, d, f
<1>3. CASE ~(size >= Size)
  <2> DEFINE f == save_transfer(l, size, "failed")
  <2>1. "failed" \in TransferStates /\ "failed" # "verified"
    BY DEF TransferStates
  <2> HIDE DEF size
  <2>2. Good(f)
    BY <1>1, <2>1, SavedIsGood
  <2> HIDE DEF f
  <2>3. GoodWrites(<<f>>)
    BY <2>2, OneWrite
  <2> QED
    BY <1>3, <2>3 DEF Reject, f, size
<1> QED
  BY <1>2, <1>3

\* The three writes of a publication: the name, the part file, the row.
LEMMA PublishedIsGood ==
  ASSUME RInv, NEW l, Good(l), CanPublish(l),
         DamageAlone /\ l.dest = None => Whole(Content(l, l.part))
  PROVE  /\ GoodWrites(Published(l)) /\ Good(Last(Published(l)))
         /\ Last(Published(l)).dest # None
<1> DEFINE k == IF l.dest # None THEN l ELSE Linked(l)
           u == Unlinked(k)
           m == save_transfer(u, Size, "verified")
<1>1. Good(k) /\ k.dest # None
  BY LinkedIsGood DEF CanPublish
<1> HIDE DEF k
<1>2. Good(u) /\ u.dest # None
  BY <1>1, UnlinkedIsGood
<1> HIDE DEF u
<1>3. Size \in 0..Size /\ "verified" \in TransferStates
  BY Parameters DEF TransferStates
<1>4. Good(m) /\ m.dest # None
  BY <1>2, <1>3, SavedIsGood DEF SameFiles
<1> HIDE DEF m
<1>5. Published(l) = <<k, u, m>>
  BY DEF Published, m, u, k
<1> QED
  BY <1>1, <1>2, <1>4, <1>5, ThreeWrites

LEMMA FinishIsGood ==
  ASSUME RInv, NEW l, Good(l), NEW state \in {"succeeded", "failed"},
         state = "succeeded" => Complete(l) /\ l.dest # None
  PROVE  GoodWrites(Finish(l, state))
<1>0. /\ {"harvesting", "succeeded", "failed"} \subseteq JobStates
      /\ {"harvesting", "ready"} \subseteq States
      /\ "harvesting" # "succeeded" /\ "failed" # "succeeded"
  BY DEF JobStates, States
<1>1. CASE state = "succeeded" /\ l.session \notin {"running", "harvesting"}
  BY <1>1, OneWrite DEF Finish
<1>2. CASE state = "succeeded" /\ l.session \in {"running", "harvesting"}
  <2> DEFINE h == [l EXCEPT !.session = "harvesting"]
             j == [h EXCEPT !.job = "harvesting"]
             d == [j EXCEPT !.job = "succeeded"]
             r == [d EXCEPT !.session = "ready"]
  <2>a. l \in Local
    BY DEF Good, LocalOK
  <2>1. Good(h) /\ h \in Local /\ SameFiles(l, h)
        /\ h.events = l.events /\ h.preview = l.preview
    BY <1>0, <2>a, SessionIsGood DEF Local
  <2> HIDE DEF h
  <2>2. Good(j) /\ j \in Local /\ SameFiles(h, j)
        /\ j.events = l.events /\ j.preview = l.preview
    BY <1>0, <2>1, JobIsGood DEF Local
  <2> HIDE DEF j
  <2>3. Complete(j) /\ j.dest # None
    BY <1>2, <2>1, <2>2 DEF Complete, SameFiles
  <2>4. Good(d)
    BY <1>0, <2>2, <2>3, JobIsGood
  <2> HIDE DEF d
  <2>5. Good(r)
    BY <1>0, <2>4, SessionIsGood
  <2> HIDE DEF r
  <2>6. GoodWrites(<<h, j, d, r>>)
    BY <2>1, <2>2, <2>4, <2>5, FourWrites
  <2>7. Finish(l, state) = <<h, j, d, r>>
    BY <1>2 DEF Finish, h, j, d, r
  <2> QED
    BY <2>6, <2>7
<1>3. CASE state = "failed"
  <2> DEFINE f == [l EXCEPT !.job = "failed"]
             r == IF l.session \in {"running", "harvesting"}
                  THEN [f EXCEPT !.session = "ready"] ELSE f
  <2>1. Good(f)
    BY <1>0, JobIsGood
  <2> HIDE DEF f
  <2>2. Good(r)
    BY <1>0, <2>1, SessionIsGood
  <2> HIDE DEF r
  <2>3. GoodWrites(<<f, r>>)
    BY <2>1, <2>2, TwoWrites
  <2>4. Finish(l, state) = <<f, r>>
    BY <1>3 DEF Finish, f, r
  <2> QED
    BY <2>3, <2>4
<1> QED
  BY <1>1, <1>2, <1>3

LEMMA ReturnedIsGood ==
  ASSUME RInv, NEW s \in Syncers, NEW l, Good(l), NEW state \in {"succeeded", "failed"},
         state = "succeeded" => Complete(l) /\ l.dest # None
  PROVE  GoodWrites(Returned(s, l, state))
BY FinishIsGood, OneWrite DEF Returned

\* What verification and its outcome write, when no stream is refused where
\* retrievals join.
LEMMA EndingIsGood ==
  ASSUME RInv, Complete(local), NEW s \in Syncers, NEW before, GoodWrites(before),
         NEW ok \in BOOLEAN,
         Accepted(Last(before), ok) /\ DamageAlone /\ Last(before).dest = None
           => Whole(Content(Last(before), Last(before).part)),
         Joined => Accepted(Last(before), ok)
  PROVE  GoodWrites(Ending(s, before, ok))
<1> DEFINE l == Last(before)
           completed == before \o Completed(l, ok)
<1>1. Good(l)
  BY LastIsGood
<1>2. CASE Accepted(l, ok)
  <2>1. /\ GoodWrites(Published(l)) /\ Last(Published(l)).dest # None
    BY <1>1, <1>2, PublishedIsGood DEF Accepted
  <2>2. Completed(l, ok) = Published(l)
    BY <1>2 DEF Completed
  <2>3. GoodWrites(completed) /\ Last(completed) = Last(Published(l))
    BY <2>1, <2>2, MoreWrites
  <2> HIDE DEF completed, l
  <2>4. Good(Last(completed))
    BY <2>3, LastIsGood
  <2>5. Complete(Last(completed)) /\ Last(completed).dest # None
    BY <2>1, <2>3, <2>4, CompleteStays
  <2>6. GoodWrites(Returned(s, Last(completed), "succeeded"))
    BY <2>4, <2>5, ReturnedIsGood
  <2>7. GoodWrites(completed \o Returned(s, Last(completed), "succeeded"))
    BY <2>3, <2>6, MoreWrites
  <2> QED
    BY <1>2, <2>7 DEF Ending, completed, l
<1>3. CASE ~Accepted(l, ok)
  <2>1. GoodWrites(Reject(l))
    BY <1>1, <1>3, RejectIsGood
  <2>2. Completed(l, ok) = Reject(l)
    BY <1>3 DEF Completed
  <2>3. GoodWrites(completed)
    BY <2>1, <2>2, MoreWrites
  <2> QED
    BY <1>3, <2>3 DEF Ending
<1> QED
  BY <1>2, <1>3

---------------------------------------------------------------------------
(* What a handler leaves *)

LEMMA TaskTyped ==
  ASSUME RInv, NEW s \in Syncers
  PROVE  task[s] \in Task /\ TaskOK(local, task[s])
BY DEF RInv

\* What a task awaits once it has nothing in hand, or begins again.
LEMMA RestingIsOK ==
  ASSUME RInv, NEW l, Good(l), NEW s \in Syncers,
         NEW t \in Failing(s) \cup Continuing(s) \cup RemoteRunning(s) \cup {Idle}
  PROVE  TaskOK(l, t)
<1>1. local.events \in 0..2 /\ local.events <= l.events /\ l.events \in Nat
  <2>1. /\ local.events \in Nat /\ l.events \in Nat /\ Len(log) \in Nat
        /\ local.events <= Len(log) /\ Len(log) <= 2
    BY LocalIsGood DEF RInv, Good, LocalOK, Local
  <2> QED
    BY <2>1 DEF Good, Reaches
<1>2. /\ Idle \in Task /\ Idle.pc = "idle"
      /\ \A pc \in {"ended", "expired"} :
           [Idle EXCEPT !.pc = pc] \in Task /\ [Idle EXCEPT !.pc = pc].pc = pc
  <2>1. 0 \in 0..Size /\ 0 \in 0..2
    BY Parameters
  <2>2. Idle \in Task /\ Idle.pc = "idle"
    BY <2>1 DEF Idle, Task
  <2> QED
    BY <2>2 DEF Task
<1>3. \A finish \in BOOLEAN :
        /\ Pending(finish) \in Task /\ Pending(finish).pc = "events"
        /\ Pending(finish).cursor = local.events
  BY <1>1, <1>2 DEF Pending, Idle, Task
<1>4. t \in {Idle, Pending(FALSE), Pending(TRUE), [Idle EXCEPT !.pc = "ended"],
             [Idle EXCEPT !.pc = "expired"]}
  BY DEF Failing, Continuing, RemoteRunning
<1>5. /\ t \in Task /\ t.pc \in {"idle", "events", "ended", "expired"}
      /\ t.pc = "events" => t.cursor = local.events
  BY <1>2, <1>3, <1>4
<1>6. t.pc # "job" /\ t.pc # "download" /\ t.pc \notin {"preview", "recache"}
  BY <1>5
<1>7. t.pc \in {"events", "job"} => t.cursor <= l.events
  BY <1>1, <1>5, <1>6
<1> QED
  BY <1>5, <1>6, <1>7 DEF TaskOK

\* Another task is not disturbed: it runs only where retrievals join, or the part
\* file is as it left it.
LEMMA OtherStays ==
  ASSUME RInv, NEW l, Good(l), NEW u \in Syncers,
         \/ world.deadline
         \/ task[u] = Idle
         \/ l.part = local.part /\ l.file = local.file
  PROVE  TaskOK(l, task[u])
<1> DEFINE t == task[u]
<1>1. t \in Task /\ TaskOK(local, t) /\ l \in Local /\ local \in Local
  BY TaskTyped, LocalIsGood DEF Good, LocalOK
<1>2. l.events >= local.events /\ l.events \in Nat /\ local.events \in Nat /\ t.cursor \in Nat
  BY <1>1 DEF Good, Reaches, Local, Task
<1>3. t.pc \in {"events", "job"} => t.cursor <= l.events
  BY <1>1, <1>2 DEF TaskOK
<1>4. t.pc = "job" => l.preview.row \/ \A i \in 1..t.cursor : log[i] # "b_preview"
  BY <1>1 DEF TaskOK, Good, Reaches
<1>5. ASSUME t.pc = "download"
      PROVE  Downloading(l, t)
  <2>1. Downloading(local, t) /\ t # Idle
    BY <1>1, <1>5 DEF TaskOK, Idle
  <2>2. Complete(l)
    BY <2>1, CompleteStays DEF Downloading
  <2>3. t.fd \in Inodes /\ t.fd # None
    BY <2>1, Parameters DEF Downloading
  <2>4. t.current <= Len(l.file[t.fd])
    <3>1. Len(l.file[t.fd]) >= Len(local.file[t.fd])
      BY <2>3 DEF Good, Reaches
    <3>2. /\ Len(l.file[t.fd]) \in Nat /\ Len(local.file[t.fd]) \in Nat
          /\ t.current \in Nat
      BY <1>1, <2>3, Parameters DEF Local, Task
    <3> QED
      BY <2>1, <3>1, <3>2 DEF Downloading
  <2>5. ASSUME DamageAlone, l.dest = None
        PROVE  l.part = t.fd
    <3>1. local.dest = None
      BY <2>5 DEF Good, Reaches
    <3>2. local.part = t.fd
      BY <2>1, <2>5, <3>1 DEF Downloading
    <3> QED
      BY <2>1, <2>3, <2>5, <3>2 DEF Good, Reaches, Joined
  <2>6. ASSUME DamageAlone, ~world.deadline
        PROVE  /\ l.part = t.fd /\ t.current = Len(l.file[t.fd])
               /\ t.ok => AllGood(l.file[t.fd])
    BY <2>1, <2>6 DEF Downloading
  <2>7. DamageAlone /\ world.deadline => t.ok
    BY <2>1 DEF Downloading
  <2> QED
    BY <2>2, <2>3, <2>4, <2>5, <2>6, <2>7 DEF Downloading
<1> QED
  BY <1>1, <1>3, <1>4, <1>5 DEF TaskOK

LEMMA MeetsKeeps ==
  ASSUME RInv, NEW crashes \in Nat, NEW damage \in Nat, Meets(crashes, damage)
  PROVE  /\ world' \in World /\ world'.deadline = world.deadline
         /\ Joined => world'.damage = 0 /\ damage = 0
<1>1. world \in World /\ (Joined => world.damage = 0)
  BY DEF RInv, WorldOK
<1>2. world.crashes \in Nat /\ world.damage \in Nat
  BY <1>1 DEF World
<1>3. world.crashes - crashes \in Nat /\ world.damage - damage \in Nat
  BY <1>2 DEF Meets
<1>4. /\ world' \in World /\ world'.deadline = world.deadline
      /\ world'.damage = world.damage - damage
  BY <1>1, <1>3 DEF Meets, World
<1>5. Joined => damage = 0
  BY <1>1, <1>2 DEF Meets
<1> QED
  BY <1>1, <1>4, <1>5

LEMMA WorldStays ==
  ASSUME RInv, UNCHANGED world
  PROVE  /\ world' \in World /\ world'.deadline = world.deadline
         /\ Joined => world'.damage = 0
BY DEF RInv, WorldOK

\* The parts of RInv that are about the durable state read only it and the log.
LEMMA LocalBecomes ==
  ASSUME NEW l, local' = l, log' = log, world'.deadline = world.deadline, LocalOK(l)
  PROVE  LocalOK(local)'
BY DEF LocalOK, Local, Verified, Complete, RemoteState, HasPreview, Sound, Row

LEMMA TaskBecomes ==
  ASSUME NEW l, local' = l, log' = log, world'.deadline = world.deadline,
         NEW t, TaskOK(l, t)
  PROVE  TaskOK(l, t)'
BY DEF TaskOK, Downloading, Complete, RemoteState, HasPreview

LEMMA ReviewStays ==
  ASSUME RInv, NEW l, local' = l, review' = ReviewAfter(l)
  PROVE  /\ review' \in Reviews \cup {None} /\ ReviewFresh'
         /\ review # None => review' # None
<1>1. review # None => /\ review \in Reviews
                       /\ [review EXCEPT !.stale = TRUE] \in Reviews
                       /\ [review EXCEPT !.stale = TRUE].stale = TRUE
                       /\ [review EXCEPT !.stale = TRUE] # None
  BY Parameters DEF RInv, Reviews
<1>2. CASE review # None /\ l.session # local.session
  BY <1>1, <1>2 DEF ReviewAfter, ReviewFresh
<1>3. CASE ~(review # None /\ l.session # local.session)
  BY <1>3 DEF ReviewAfter, ReviewFresh, RInv
<1> QED
  BY <1>2, <1>3

\* A handler makes good writes and goes on to await what fits the last of them, or
\* ends with the process after any of them.  The retrieval runs only where the
\* deadline may pass, and the end of the session writes no file.
LEMMA HandleKeeps ==
  ASSUME RInv, NEW s \in Syncers, NEW writes, GoodWrites(writes), NEW then,
         NEW whole \in BOOLEAN, Handle(s, writes, then, whole),
         TaskOK(Last(writes), then),
         world' \in World, world'.deadline = world.deadline,
         Joined => world'.damage = 0,
         \/ world.deadline
         \/ s = Finisher
         \/ /\ then = Idle
            /\ \A k \in 1..Len(writes) :
                 writes[k].part = local.part /\ writes[k].file = local.file
  PROVE  Kept
<1> DEFINE last == Len(writes)
<1>1. last \in 1..last /\ DOMAIN writes = 1..last
  BY EmptySeq, LenProperties DEF GoodWrites
<1>2. PICK k \in 1..last :
        /\ local' = writes[k] /\ review' = ReviewAfter(writes[k])
        /\ whole => k = last
  BY <1>1 DEF Handle
<1> DEFINE l == writes[k]
<1>3. Good(l) /\ log' = log
  BY <1>2 DEF GoodWrites, Handle
<1>4. LocalOK(local)'
  BY <1>2, <1>3, LocalBecomes DEF Good
<1>5. /\ task' \in [Syncers -> Task] /\ \A u \in Syncers : TaskOK(l, task'[u])
      /\ ~world.deadline => task'[Preparer] = Idle
  <2>1. CASE ~whole
    <3>1. \A u \in Syncers : task'[u] = Idle
      BY <2>1 DEF Handle
    <3>2. Idle \in Task /\ TaskOK(l, Idle)
      BY <1>3, RestingIsOK DEF TaskOK
    <3>3. task' = [u \in Syncers |-> Idle]
      BY <2>1 DEF Handle
    <3> QED
      BY <3>1, <3>2, <3>3 DEF Syncers
  <2>2. CASE whole
    <3>1. task' = [task EXCEPT ![s] = then] /\ l = Last(writes)
      BY <1>2, <2>2 DEF Handle, Last
    <3>2. then \in Task /\ TaskOK(l, then)
      BY <3>1 DEF TaskOK
    <3>3. task' \in [Syncers -> Task] /\ task'[s] = then
          /\ \A u \in Syncers \ {s} : task'[u] = task[u]
      BY <3>1, <3>2 DEF RInv
    <3>4. ASSUME NEW u \in Syncers \ {s}
          PROVE  TaskOK(l, task[u])
      <4>1. ~world.deadline => task[Preparer] = Idle
        BY DEF RInv, WorldOK
      <4>2. CASE s = Finisher
        BY <1>3, <4>1, <4>2, OtherStays DEF Syncers
      <4>3. CASE s # Finisher
        BY <1>2, <1>3, <4>3, OtherStays
      <4> QED
        BY <4>2, <4>3
    <3>5. ~world.deadline => task'[Preparer] = Idle
      BY <3>3, Parameters DEF RInv, WorldOK, Syncers
    <3> QED
      BY <3>2, <3>3, <3>4, <3>5
  <2> QED
    BY <2>1, <2>2
<1>6. \A u \in Syncers : TaskOK(local, task[u])'
  BY <1>2, <1>3, <1>5, TaskBecomes DEF TaskOK, Downloading, Complete, RemoteState, HasPreview
<1>7. WorldOK'
  BY <1>5 DEF WorldOK, Joined
<1>8. /\ review' \in Reviews \cup {None} /\ ReviewFresh'
      /\ review # None => review' # None
  BY <1>2, ReviewStays
<1>9. RInv'
  BY <1>3, <1>4, <1>5, <1>6, <1>7, <1>8 DEF RInv
<1>10. NameStays
  BY <1>2, <1>3 DEF NameStays, Good, Reaches
<1> QED
  BY <1>8, <1>9, <1>10 DEF Kept, AsReviewed

\* A task in the middle of a synchronisation is the finisher, or the deadline may
\* pass.
LEMMA Running ==
  ASSUME RInv, NEW s \in Syncers, task[s].pc # "idle"
  PROVE  world.deadline \/ s = Finisher
BY DEF RInv, WorldOK, Syncers, Idle

LEMMA HandlerKeeps ==
  ASSUME RInv, NEW s \in Syncers, task[s].pc # "idle", NEW writes, GoodWrites(writes),
         NEW then, NEW whole \in BOOLEAN, Handle(s, writes, then, whole),
         TaskOK(Last(writes), then), NEW damage \in Nat,
         Meets(Crashes(whole), damage)
  PROVE  Kept
<1>1. Crashes(whole) \in Nat
  BY DEF Crashes
<1>2. /\ world' \in World /\ world'.deadline = world.deadline
      /\ Joined => world'.damage = 0
  BY <1>1, MeetsKeeps
<1> QED
  BY <1>2, Running, HandleKeeps

---------------------------------------------------------------------------
(* Every action *)

LEMMA LogIsShort ==
  ASSUME RInv
  PROVE  Len(log) \in 0..2 /\ local \in Local /\ local.events <= Len(log)
<1>1. Len(log) \in Nat /\ Len(log) <= 2
  BY LenProperties DEF RInv
<1>2. \A n \in Nat : n <= 2 => n \in 0..2
  OBVIOUS
<1>3. Len(log) \in 0..2
  BY <1>1, <1>2, Zenon
<1> QED
  BY <1>3 DEF RInv, LocalOK

LEMMA FirstPreviewIs ==
  ASSUME RInv, NEW from \in 0..2, from <= Len(log)
  PROVE  FirstPreview(from, Len(log)) \in from..Len(log)
<1> DEFINE until == Len(log)
           previews == {i \in (from + 1)..until : log[i] = "b_preview"}
<1>1. until \in 0..2
  BY LogIsShort
<1>2. CASE previews = {}
  BY <1>1, <1>2 DEF FirstPreview
<1>3. CASE previews # {}
  <2>1. previews \subseteq 1..2
    BY <1>1
  <2>2. \E i \in previews : \A j \in previews : i <= j
    <3>1. CASE 1 \in previews
      BY <2>1, <3>1
    <3>2. CASE 1 \notin previews
      BY <1>3, <2>1, <3>2
    <3> QED
      BY <3>1, <3>2
  <2>3. FirstPreview(from, until) = CHOOSE i \in previews : \A j \in previews : i <= j
    BY <1>3 DEF FirstPreview
  <2>4. FirstPreview(from, until) \in previews
    <3> HIDE DEF previews
    <3> QED
      BY <2>2, <2>3
  <2>5. \A i \in previews : i \in from..until
    BY <1>1
  <2> QED
    BY <2>4, <2>5
<1> QED
  BY <1>2, <1>3

LEMMA EventsKeep ==
  ASSUME RInv, NEW s \in Syncers, NEW whole \in BOOLEAN, EventsAnswered(s, whole)
  PROVE  Kept
<1> DEFINE t == task[s]
           cursor == FirstPreview(t.cursor, Len(log))
           l == Stored(local, cursor)
           next == AfterEvents(s, l, cursor, Len(log))
<1>1. /\ t \in Task /\ t.pc = "events" /\ t.cursor <= local.events
      /\ local \in Local /\ local.events <= Len(log) /\ Len(log) \in 0..2
      /\ Good(local)
  BY TaskTyped, LocalIsGood, LogIsShort DEF EventsAnswered, TaskOK
<1>2. cursor \in 0..2 /\ cursor <= Len(log)
  <2>1. t.cursor \in 0..2 /\ local.events \in Nat
    BY <1>1 DEF Task, Local
  <2>2. t.cursor <= Len(log)
    BY <1>1, <2>1
  <2>3. cursor \in t.cursor..Len(log)
    BY <2>1, <2>2, FirstPreviewIs
  <2>4. \A a \in 0..2, n \in 0..2 : \A c \in a..n : c \in 0..2 /\ c <= n
    OBVIOUS
  <2> HIDE DEF cursor, t
  <2> QED
    BY <1>1, <2>1, <2>3, <2>4
<1>3. Good(l) /\ cursor <= l.events /\ l.events \in Nat
  <2> HIDE DEF cursor
  <2>1. cursor \in 0..Len(log)
    BY <1>1, <1>2
  <2> QED
    BY <1>1, <2>1, StoredIsGood DEF Good, LocalOK, Local
<1> HIDE DEF cursor, l
<1>4. /\ next \in Task /\ next.cursor = cursor /\ next.until = Len(log)
      /\ next.pc \in {"preview", "recache", "job"}
      /\ next.pc = "job" => ~Uncached(l)
  BY <1>1, <1>2 DEF AfterEvents, Task
<1>5. TaskOK(l, next)
  <2>1. next.pc = "job" => l.preview.row \/ \A i \in 1..cursor : log[i] # "b_preview"
    <3>1. \A i \in 1..cursor : i \in 1..l.events
      BY <1>2, <1>3
    <3> QED
      BY <1>4, <3>1 DEF Uncached
  <2> HIDE DEF next
  <2>2. next.pc # "download" /\ next.pc # "events"
    BY <1>4
  <2>3. Len(log) <= Len(log)
    BY <1>1
  <2> QED
    BY <1>3, <1>4, <2>1, <2>2, <2>3 DEF TaskOK
<1>6. GoodWrites(<<l>>) /\ Last(<<l>>) = l
  BY <1>3, OneWrite
<1>7. Handle(s, <<l>>, next, whole) /\ Meets(Crashes(whole), 0)
  BY DEF EventsAnswered, next, l, cursor
<1>8. t.pc # "idle" /\ 0 \in Nat
  BY <1>1
<1> HIDE DEF next
<1> QED
  BY <1>5, <1>6, <1>7, <1>8, HandlerKeeps

LEMMA PreviewKeeps ==
  ASSUME RInv, NEW s \in Syncers, NEW whole \in BOOLEAN, PreviewAnswered(s, whole)
  PROVE  Kept
<1> DEFINE t == task[s]
           file == [local EXCEPT !.preview.file = TRUE]
           row == [file EXCEPT !.preview.row = TRUE]
           l == Stored(row, t.until)
           next == [t EXCEPT !.cursor = t.until, !.pc = "job"]
<1>1. /\ t \in Task /\ t.pc \in {"preview", "recache"} /\ t.until <= Len(log)
      /\ local \in Local /\ Len(log) \in 0..2 /\ Good(local)
  BY TaskTyped, LocalIsGood, LogIsShort DEF PreviewAnswered, TaskOK
<1>2. t.until \in 0..Len(log) /\ t.until \in 0..2
  BY <1>1 DEF Task
<1>3. Good(file) /\ file \in Local
  <2> DEFINE preview == [local.preview EXCEPT !.file = TRUE]
  <2>1. /\ preview \in [file : BOOLEAN, row : BOOLEAN]
        /\ preview.row = local.preview.row
    BY <1>1 DEF Local
  <2>2. file = [local EXCEPT !.preview = preview]
    BY <1>1 DEF Local
  <2> HIDE DEF preview, file
  <2> QED
    BY <1>1, <2>1, <2>2, PreviewIsGood DEF Good, LocalOK
<1> HIDE DEF file
<1>4. Good(row) /\ row.preview.row = TRUE
  <2> DEFINE preview == [file.preview EXCEPT !.row = TRUE]
  <2>1. /\ preview \in [file : BOOLEAN, row : BOOLEAN] /\ preview.row = TRUE
    BY <1>3 DEF Local
  <2>2. row = [file EXCEPT !.preview = preview]
    BY <1>3 DEF Local
  <2>3. row.preview = preview
    BY <1>3, <2>2 DEF Local
  <2> HIDE DEF preview, row
  <2> QED
    BY <1>3, <2>1, <2>2, <2>3, PreviewIsGood
<1> HIDE DEF row
<1>5. Good(l) /\ l.events >= t.until /\ l.preview.row = TRUE /\ l.events \in Nat
  BY <1>2, <1>4, StoredIsGood DEF Good, LocalOK, Local
<1> HIDE DEF l
<1>6. /\ next \in Task /\ next.pc = "job" /\ next.cursor = t.until
  BY <1>1, <1>2 DEF Task
<1> HIDE DEF next
<1>7. TaskOK(l, next)
  BY <1>2, <1>5, <1>6 DEF TaskOK
<1>8. GoodWrites(<<file, row, l>>) /\ Last(<<file, row, l>>) = l
  BY <1>3, <1>4, <1>5, ThreeWrites
<1>9. Handle(s, <<file, row, l>>, next, whole) /\ Meets(Crashes(whole), 0)
  BY DEF PreviewAnswered, next, l, row, file
<1>10. t.pc # "idle" /\ 0 \in Nat
  BY <1>1
<1> QED
  BY <1>7, <1>8, <1>9, <1>10, HandlerKeeps

LEMMA LoseKeeps ==
  ASSUME RInv, NEW s \in Syncers, LoseCall(s)
  PROVE  Kept
<1> DEFINE l == IF task[s].pc = "download"
                THEN save_transfer(local, task[s].current, "failed") ELSE local
<1>1. Good(l)
  <2>1. task[s].current \in 0..Size /\ Good(local)
    BY TaskTyped, LocalIsGood DEF Task
  <2>2. "failed" \in TransferStates /\ "failed" # "verified"
    BY DEF TransferStates
  <2> QED
    BY <2>1, <2>2, SavedIsGood
<1>2. PICK then \in Failing(s) : Handle(s, <<l>>, then, TRUE)
  BY DEF LoseCall
<1> HIDE DEF l
<1>3. GoodWrites(<<l>>) /\ Last(<<l>>) = l
  BY <1>1, OneWrite
<1>4. TaskOK(l, then)
  BY <1>1, RestingIsOK
<1>5. world.deadline \/ s = Finisher
  BY Running DEF LoseCall
<1>6. /\ world' \in World /\ world'.deadline = world.deadline
      /\ Joined => world'.damage = 0
  BY WorldStays DEF LoseCall
<1> QED
  BY <1>2, <1>3, <1>4, <1>5, <1>6, HandleKeeps

\* Whatever outcome a handler has for its task, what it then awaits is a rest.
LEMMA RestKeeps ==
  ASSUME RInv, NEW s \in Syncers, task[s].pc # "idle", NEW writes, GoodWrites(writes),
         NEW then \in Failing(s) \cup Continuing(s) \cup RemoteRunning(s) \cup {Idle},
         NEW whole \in BOOLEAN, Handle(s, writes, then, whole), Meets(Crashes(whole), 0)
  PROVE  Kept
<1>1. TaskOK(Last(writes), then)
  BY LastIsGood, RestingIsOK
<1> QED
  BY <1>1, HandlerKeeps

\* The worker's record agrees with the events that are stored: all it said is here.
LEMMA NowComplete ==
  ASSUME RInv, NEW s \in Syncers, task[s].pc = "job", task[s].cursor = Len(log),
         RemoteState = "succeeded"
  PROVE  Complete(local)
<1> DEFINE t == task[s]
<1>1. /\ t.cursor <= local.events
      /\ local.preview.row \/ \A i \in 1..t.cursor : log[i] # "b_preview"
  BY TaskTyped DEF TaskOK
<1>2. local.events = Len(log)
  BY <1>1, LogIsShort DEF Local
<1>3. HasPreview => local.preview.row
  <2>1. DOMAIN log = 1..Len(log)
    BY LenProperties DEF RInv
  <2> QED
    BY <1>1, <2>1 DEF HasPreview
<1> QED
  BY <1>2, <1>3 DEF Complete

\* Where retrievals join, a part file as long as the output is the output, and can
\* be published.
LEMMA WholeWhereJoined ==
  ASSUME RInv, Joined, NEW l, Good(l), l.part # None, Len(Content(l, l.part)) >= Size
  PROVE  Whole(Content(l, l.part))
<1> DEFINE c == Content(l, l.part)
<1>1. l \in Local /\ Sound(l)
  BY DEF Good, LocalOK, Joined
<1>2. /\ l.part \in Inodes /\ c = l.file[l.part] /\ c \in Seq(Chunks)
  BY <1>1, PartContent
<1>3. Len(c) <= Size /\ AllGood(c)
  BY <1>1, <1>2 DEF Good, LocalOK, Sound, Joined
<1>4. Len(c) = Size
  BY <1>2, <1>3, Parameters
<1> QED
  BY <1>2, <1>3, <1>4, WholeIsGood

LEMMA PublishedWhereJoined ==
  ASSUME RInv, Joined, NEW l, Good(l),
         l.dest = None => l.part # None /\ Len(Content(l, l.part)) >= Size
  PROVE  CanPublish(l)
<1>1. l \in Local /\ Sound(l)
  BY DEF Good, LocalOK, Joined
<1>2. l.dest # None => Whole(Content(l, l.dest))
  BY <1>1, PartContent DEF Sound
<1>3. l.dest = None => Whole(Content(l, l.part))
  BY WholeWhereJoined
<1> QED
  BY <1>2, <1>3 DEF CanPublish

\* The part file is complete already: it is verified, and published or dropped.
LEMMA FoundWholeKeeps ==
  ASSUME RInv, NEW s \in Syncers, NEW whole \in BOOLEAN, task[s].pc = "job",
         Complete(local), Len(Content(local, local.part)) >= Size,
         NEW ok \in BOOLEAN, ok <=> Whole(Content(local, local.part)),
         NEW then \in Awaits(s, Last(Resumed(local)), ok),
         Handle(s, Ending(s, Resumed(local), ok), then, whole),
         Meets(Crashes(whole), 0)
  PROVE  Kept
<1> DEFINE l == Last(Resumed(local))
<1>1. GoodWrites(Resumed(local)) /\ Good(l) /\ SameFiles(local, l)
  BY ResumedIsGood
<1>2. Content(l, l.part) = Content(local, local.part)
  BY <1>1 DEF SameFiles, Content
<1>3. l.part # None
  <2>1. local.part = None => Len(Content(local, local.part)) = 0
    BY LogIsShort, PartContent
  <2> QED
    BY <1>1, <2>1, Parameters DEF SameFiles
<1> HIDE DEF l
<1>4. Joined => Accepted(l, ok)
  <2>1. Joined => CanPublish(l) /\ Whole(Content(l, l.part))
    BY <1>1, <1>2, <1>3, WholeWhereJoined, PublishedWhereJoined
  <2> QED
    BY <1>2, <2>1 DEF Accepted
<1>5. Accepted(l, ok) => Whole(Content(l, l.part))
  BY <1>2 DEF Accepted
<1>6. GoodWrites(Ending(s, Resumed(local), ok))
  BY <1>1, <1>4, <1>5, EndingIsGood DEF l
<1>7. then \in Failing(s) \cup Continuing(s)
  BY DEF Awaits
<1> QED
  BY <1>6, <1>7, RestKeeps

\* A download begins, or goes on from the part file.
LEMMA DownloadKeeps ==
  ASSUME RInv, NEW s \in Syncers, NEW whole \in BOOLEAN, task[s].pc = "job",
         Complete(local), NEW l, l = Opened(Last(Resumed(local))),
         Handle(s, Append(Resumed(local), l),
                Download(s, l, Content(local, local.part)), whole),
         Meets(Crashes(whole), 0)
  PROVE  Kept
<1> DEFINE r == Last(Resumed(local))
           c == Content(local, local.part)
           next == Download(s, l, c)
           writes == Append(Resumed(local), l)
<1>1. GoodWrites(Resumed(local)) /\ Good(r) /\ SameFiles(local, r)
  BY ResumedIsGood
<1>2. Content(r, r.part) = c /\ c \in Seq(Chunks)
  BY <1>1, LogIsShort, PartContent DEF SameFiles, Content
<1> HIDE DEF r, c
<1>3. /\ Good(l) /\ l.part \in Inodes /\ l.file[l.part] = c
  BY <1>1, <1>2, OpenedIsGood DEF r
<1>4. GoodWrites(writes) /\ Last(writes) = l
  BY <1>1, <1>3, AnotherWrite
<1>5. Len(c) \in 0..Size /\ DOMAIN c = 1..Len(c)
  <2>1. Len(c) \in Nat /\ DOMAIN c = 1..Len(c)
    BY <1>2, LenProperties
  <2>2. Len(c) <= Size
    BY <1>3 DEF Good, LocalOK
  <2> QED
    BY <2>1, <2>2, Parameters
<1>6. /\ next \in Task /\ next.pc = "download" /\ next.fd = l.part
      /\ next.current = Len(c) /\ next.ok = AllGood(c)
  <2> DEFINE ok == \A i \in DOMAIN c : c[i] = "good"
  <2>1. ok \in BOOLEAN /\ ok = AllGood(c)
    BY <1>5 DEF AllGood
  <2>2. next = [task[s] EXCEPT !.pc = "download", !.fd = l.part, !.current = Len(c),
                               !.ok = ok]
    BY DEF Download
  <2> HIDE DEF ok, next
  <2> QED
    BY <1>3, <1>5, <2>1, <2>2, TaskTyped DEF Task
<1>7. Downloading(l, next)
  <2>1. Complete(l)
    BY <1>3, CompleteStays
  <2>2. next.current <= Len(l.file[next.fd])
    BY <1>3, <1>5, <1>6
  <2>3. ASSUME DamageAlone, world.deadline
        PROVE  next.ok
    BY <1>3, <1>6, <2>3 DEF Good, LocalOK, Sound
  <2> HIDE DEF next
  <2> QED
    BY <1>3, <1>6, <2>1, <2>2, <2>3 DEF Downloading
<1> HIDE DEF next, writes
<1>8. TaskOK(l, next)
  BY <1>6, <1>7 DEF TaskOK
<1>9. Handle(s, writes, next, whole) /\ task[s].pc # "idle" /\ 0 \in Nat
  BY DEF next, writes, c
<1> QED
  BY <1>4, <1>8, <1>9, HandlerKeeps

LEMMA JobKeeps ==
  ASSUME RInv, NEW s \in Syncers, NEW whole \in BOOLEAN, JobAnswered(s, whole)
  PROVE  Kept
<1> DEFINE resumed == Resumed(local)
           content == Content(local, local.part)
           opened == Append(resumed, Opened(Last(resumed)))
           ok == Whole(content)
<1>1. /\ task[s].pc = "job" /\ task[s].pc # "idle" /\ Meets(Crashes(whole), 0)
      /\ Good(local) /\ local \in Local
  BY LocalIsGood, LogIsShort DEF JobAnswered
<1>2. GoodWrites(<<local>>)
  BY <1>1, OneWrite
<1>3. ASSUME NEW writes, GoodWrites(writes),
             NEW next, next \subseteq Failing(s) \cup Continuing(s) \cup RemoteRunning(s),
             \E then \in next : Handle(s, writes, then, whole)
      PROVE  Kept
  BY <1>1, <1>3, RestKeeps
<1>4. CASE task[s].cursor # Len(log)
  <2>1. \E then \in Failing(s) : Handle(s, <<local>>, then, whole)
    BY <1>4 DEF JobAnswered
  <2> QED
    BY <1>2, <1>3, <2>1
<1>5. CASE task[s].cursor = Len(log) /\ RemoteState = "running"
  <2>1. \E then \in RemoteRunning(s) : Handle(s, <<local>>, then, whole)
    BY <1>5 DEF JobAnswered
  <2> QED
    BY <1>2, <1>3, <2>1
<1>6. CASE task[s].cursor = Len(log) /\ RemoteState = "failed"
  <2>1. \E then \in Continuing(s) : Handle(s, Returned(s, local, "failed"), then, whole)
    BY <1>6 DEF JobAnswered
  <2>2. GoodWrites(Returned(s, local, "failed"))
    BY <1>1, ReturnedIsGood
  <2> QED
    BY <1>3, <2>1, <2>2
<1>7. CASE task[s].cursor = Len(log) /\ RemoteState = "succeeded"
  <2>0. Complete(local)
    BY <1>1, <1>7, NowComplete
  <2>1. CASE Verified(local) /\ Whole(Content(local, local.dest))
    <3>1. \E then \in Continuing(s) :
            Handle(s, Returned(s, local, "succeeded"), then, whole)
      BY <1>7, <2>1 DEF JobAnswered
    <3>2. local.dest # None
      BY <2>1 DEF RInv, LocalOK
    <3>3. GoodWrites(Returned(s, local, "succeeded"))
      BY <1>1, <2>0, <3>2, ReturnedIsGood
    <3> QED
      BY <1>3, <3>1, <3>3
  <2>2. CASE Verified(local) /\ ~Whole(Content(local, local.dest))
    <3>1. \E then \in Failing(s) : Handle(s, <<local>>, then, whole)
      BY <1>7, <2>2 DEF JobAnswered
    <3> QED
      BY <1>2, <1>3, <3>1
  <2>3. CASE ~Verified(local) /\ Len(content) < Size
    <3>1. Handle(s, opened, Download(s, Last(opened), content), whole)
      BY <1>7, <2>3 DEF JobAnswered
    <3>2. Last(opened) = Opened(Last(resumed))
      BY ResumedIsGood, OpenedIsGood, AnotherWrite
    <3> QED
      BY <1>1, <2>0, <3>1, <3>2, DownloadKeeps
  <2>4. CASE ~Verified(local) /\ ~(Len(content) < Size)
    <3>1. \E then \in Awaits(s, Last(resumed), ok) :
            Handle(s, Ending(s, resumed, ok), then, whole)
      BY <1>7, <2>4 DEF JobAnswered
    <3>2. Len(content) >= Size
      BY <1>1, <2>4, PartContent, LenProperties, Parameters
    <3>3. ok \in BOOLEAN
      BY DEF Whole
    <3> QED
      BY <1>1, <2>0, <3>1, <3>2, <3>3, FoundWholeKeeps
  <2> QED
    BY <2>1, <2>2, <2>3, <2>4
<1>8. RemoteState \in {"running", "failed", "succeeded"}
  BY DEF RemoteState
<1> QED
  BY <1>4, <1>5, <1>6, <1>7, <1>8

LEMMA EndedKeeps ==
  ASSUME RInv, NEW s \in Syncers, NEW whole \in BOOLEAN, StreamEnded(s, whole)
  PROVE  Kept
<1> DEFINE t == task[s]
           c == Content(local, local.part)
<1>1. /\ t.pc = "download" /\ t.pc # "idle" /\ t.current = Size
      /\ Meets(Crashes(whole), 0) /\ t \in Task /\ t.ok \in BOOLEAN
      /\ Good(local) /\ local \in Local /\ Downloading(local, t)
  BY LocalIsGood, LogIsShort, TaskTyped DEF StreamEnded, TaskOK, Task
<1>2. GoodWrites(<<local>>) /\ Last(<<local>>) = local
  BY <1>1, OneWrite
<1>3. ASSUME DamageAlone, local.dest = None
      PROVE  local.part # None /\ c = local.file[t.fd] /\ c \in Seq(Chunks) /\ Len(c) >= Size
  BY <1>1, <1>3, PartContent, Parameters DEF Downloading
<1>4. Joined => Accepted(local, t.ok)
  <2>1. Joined => CanPublish(local)
    BY <1>1, <1>3, PublishedWhereJoined DEF Joined
  <2> QED
    BY <1>1, <2>1 DEF Accepted, Joined, Downloading
<1>5. ASSUME Accepted(local, t.ok), DamageAlone, local.dest = None
      PROVE  Whole(c)
  <2>1. CASE world.deadline
    BY <1>1, <1>3, <1>5, <2>1, WholeWhereJoined DEF Joined
  <2>2. CASE ~world.deadline
    <3>1. Len(c) = Size /\ AllGood(c)
      BY <1>1, <1>3, <1>5, <2>2 DEF Downloading, Accepted
    <3> QED
      BY <1>3, <1>5, <3>1, WholeIsGood
  <2> QED
    BY <2>1, <2>2
<1> HIDE DEF c
<1>6. GoodWrites(Ending(s, <<local>>, t.ok))
  BY <1>1, <1>2, <1>4, <1>5, EndingIsGood DEF Downloading, c
<1>7. PICK then \in Awaits(s, local, t.ok) :
        Handle(s, Ending(s, <<local>>, t.ok), then, whole)
  BY DEF StreamEnded
<1>8. then \in Failing(s) \cup Continuing(s)
  BY <1>7 DEF Awaits
<1> QED
  BY <1>1, <1>6, <1>7, <1>8, RestKeeps

\* One chunk more, over what another task wrote or after it.
Extended(f, current, c) ==
  IF current < Len(f) THEN [f EXCEPT ![current + 1] = c] ELSE Append(f, c)

LEMMA ExtendedIs ==
  ASSUME NEW f \in Seq(Chunks), NEW current \in 0..(Size - 1), current <= Len(f),
         Len(f) <= Size, NEW c \in Chunks
  PROVE  /\ Extended(f, current, c) \in Seq(Chunks)
         /\ Len(Extended(f, current, c)) \in Nat /\ Len(f) \in Nat
         /\ Len(Extended(f, current, c)) <= Size
         /\ Len(Extended(f, current, c)) >= Len(f)
         /\ current + 1 <= Len(Extended(f, current, c))
         /\ current = Len(f) => Len(Extended(f, current, c)) = current + 1
         /\ AllGood(f) /\ c = "good" => AllGood(Extended(f, current, c))
<1>0. Size \in Nat /\ current \in Nat /\ current < Size /\ Len(f) \in Nat
  BY Parameters
<1>1. CASE current < Len(f)
  <2> DEFINE e == [f EXCEPT ![current + 1] = c]
  <2>1. current + 1 \in 1..Len(f)
    BY <1>0, <1>1
  <2>2. /\ e \in Seq(Chunks) /\ Len(e) = Len(f)
        /\ \A j \in 1..Len(f) : e[j] = IF j = current + 1 THEN c ELSE f[j]
    BY <2>1, ExceptSeq
  <2>3. AllGood(f) /\ c = "good" => AllGood(e)
    BY <2>2 DEF AllGood
  <2>4. Extended(f, current, c) = e
    BY <1>1 DEF Extended
  <2> HIDE DEF e
  <2> QED
    BY <1>0, <1>1, <2>2, <2>3, <2>4
<1>2. CASE ~(current < Len(f))
  <2> DEFINE e == Append(f, c)
  <2>1. current = Len(f)
    BY <1>0, <1>2
  <2>2. /\ e \in Seq(Chunks) /\ Len(e) = Len(f) + 1
        /\ \A j \in 1..Len(f) : e[j] = f[j]
        /\ e[Len(f) + 1] = c
    BY AppendProperties
  <2>3. AllGood(f) /\ c = "good" => AllGood(e)
    BY <1>0, <2>2 DEF AllGood
  <2>4. Extended(f, current, c) = e
    BY <1>2 DEF Extended
  <2> HIDE DEF e
  <2> QED
    BY <1>0, <2>1, <2>2, <2>3, <2>4
<1> QED
  BY <1>1, <1>2

WithChunk(s, c) ==
  [local EXCEPT !.file[task[s].fd] =
     Extended(local.file[task[s].fd], task[s].current, c)]

\* A chunk in a file that is open.  A published file takes only the good chunks of
\* retrievals that join.
LEMMA ChunkIsGood ==
  ASSUME RInv, NEW s \in Syncers, task[s].pc = "download", task[s].current < Size,
         NEW c \in Chunks, Joined => c = "good"
  PROVE  /\ Good(WithChunk(s, c)) /\ Complete(WithChunk(s, c))
         /\ WithChunk(s, c).file[task[s].fd] =
              Extended(local.file[task[s].fd], task[s].current, c)
         /\ WithChunk(s, c).part = local.part /\ WithChunk(s, c).dest = local.dest
<1> DEFINE t == task[s]
           f == local.file[t.fd]
           e == Extended(f, t.current, c)
           l == [local EXCEPT !.file[t.fd] = e]
<1>1. /\ t \in Task /\ Downloading(local, t) /\ Good(local) /\ local \in Local
  BY TaskTyped, LocalIsGood, LogIsShort DEF TaskOK
<1>2. t.fd \in Inodes /\ f \in Seq(Chunks) /\ Len(f) <= Size /\ t.current <= Len(f)
      /\ t.current \in 0..(Size - 1)
  BY <1>1, Parameters DEF Downloading, Local, Good, LocalOK, Task
<1> HIDE DEF f
<1>3. /\ e \in Seq(Chunks) /\ Len(e) \in Nat /\ Len(f) \in Nat
      /\ Len(e) <= Size /\ Len(e) >= Len(f)
      /\ AllGood(f) /\ c = "good" => AllGood(e)
  BY <1>2, ExtendedIs
<1> HIDE DEF e
<1>4. /\ l \in Local /\ l.part = local.part /\ l.dest = local.dest /\ l.row = local.row
      /\ l.job = local.job /\ l.events = local.events /\ l.preview = local.preview
      /\ l.file = [local.file EXCEPT ![t.fd] = e]
  BY <1>1, <1>2, <1>3 DEF Local
<1> HIDE DEF l
<1>5. \A i \in Inodes : l.file[i] = IF i = t.fd THEN e ELSE local.file[i]
  BY <1>1, <1>2, <1>4 DEF Local
<1>6. DamageAlone => Sound(l)
  <2>1. ASSUME DamageAlone
        PROVE  Sound(local)
    BY <1>1, <2>1 DEF Good, LocalOK
  <2>2. ASSUME DamageAlone, world.deadline
        PROVE  \A i \in Inodes : AllGood(l.file[i])
    BY <1>2, <1>3, <1>5, <2>1, <2>2 DEF Sound, Joined, f
  <2>3. ASSUME DamageAlone, l.dest # None
        PROVE  Whole(l.file[l.dest])
    <3>1. l.dest \in Inodes /\ Whole(local.file[l.dest])
      BY <1>1, <1>4, <2>1, <2>3 DEF Local, Sound
    <3>2. CASE l.dest # t.fd
      BY <1>5, <3>1, <3>2
    <3>3. CASE l.dest = t.fd
      <4>1. Len(f) = Size
        BY <1>2, <3>1, <3>3, WholeIsGood DEF f
      <4>2. world.deadline
        BY <1>1, <1>2, <2>3, <4>1, Parameters DEF Downloading, f
      <4>3. AllGood(e)
        BY <1>5, <2>2, <2>3, <3>1, <3>3, <4>2
      <4>4. Len(e) = Size
        BY <1>3, <4>1, Parameters
      <4> QED
        BY <1>3, <1>5, <3>1, <3>3, <4>3, <4>4, WholeIsGood
    <3> QED
      BY <3>2, <3>3
  <2> QED
    BY <2>2, <2>3 DEF Sound
<1>7. LocalOK(l)
  <2>1. \A i \in Inodes : Len(l.file[i]) <= Size
    BY <1>1, <1>3, <1>5 DEF Good, LocalOK
  <2> QED
    BY <1>1, <1>4, <1>6, <2>1 DEF Good, LocalOK, Verified, Complete
<1>8. Reaches(l)
  <2>1. \A i \in Inodes : Len(l.file[i]) >= Len(local.file[i])
    <3>1. \A i \in Inodes : Len(local.file[i]) \in Nat
      BY <1>1 DEF Local
    <3> QED
      BY <1>3, <1>5, <3>1 DEF f
  <2>2. \A u \in Syncers : task[u].fd # None => task[u].fd \in Inodes
    BY DEF RInv, Task
  <2> QED
    BY <1>1, <1>4, <2>1, <2>2 DEF Good, Reaches
<1>9. Complete(l)
  BY <1>1, <1>4 DEF Downloading, Complete
<1>10. WithChunk(s, c) = l /\ e = Extended(local.file[t.fd], t.current, c)
  BY DEF WithChunk, l, e, f
<1> QED
  BY <1>2, <1>4, <1>5, <1>7, <1>8, <1>9, <1>10 DEF Good

LEMMA ChunkKeeps ==
  ASSUME RInv, NEW s \in Syncers, NEW c \in Chunks, NEW whole \in BOOLEAN,
         ChunkGot(s, c, whole)
  PROVE  Kept
<1> DEFINE t == task[s]
           f == local.file[t.fd]
           e == Extended(f, t.current, c)
           l == [local EXCEPT !.file[t.fd] = e]
           got == [t EXCEPT !.current = @ + 1, !.ok = @ /\ c = "good"]
           saved == save_transfer(l, t.current + 1, "transferring")
           damage == IF c = "bad" THEN 1 ELSE 0
<1>1. /\ t \in Task /\ t.pc = "download" /\ t.pc # "idle" /\ t.current < Size
      /\ Downloading(local, t) /\ local \in Local
  BY TaskTyped, LogIsShort DEF ChunkGot, TaskOK
<1>2. /\ t.fd \in Inodes /\ f \in Seq(Chunks) /\ Len(f) <= Size /\ t.current <= Len(f)
      /\ t.current \in 0..(Size - 1)
  BY <1>1, Parameters DEF Downloading, Local, RInv, LocalOK, Task
<1>3. damage \in Nat /\ Meets(Crashes(whole), damage)
  BY DEF ChunkGot
<1>4. Joined => c = "good"
  BY <1>3, MeetsKeeps DEF Crashes, Chunks
<1> HIDE DEF damage, f
<1>5. /\ e \in Seq(Chunks) /\ Len(e) \in Nat /\ t.current + 1 <= Len(e)
      /\ t.current = Len(f) => Len(e) = t.current + 1
      /\ AllGood(f) /\ c = "good" => AllGood(e)
  BY <1>2, ExtendedIs
<1>6. /\ Good(l) /\ Complete(l) /\ l.file[t.fd] = e
      /\ l.part = local.part /\ l.dest = local.dest
  <2>1. l = WithChunk(s, c) /\ e = Extended(local.file[t.fd], t.current, c)
    BY DEF WithChunk, f
  <2> HIDE DEF e, l
  <2> QED
    BY <1>1, <1>4, <2>1, ChunkIsGood
<1> HIDE DEF e, l
<1>7. t.current + 1 \in 0..Size /\ "transferring" \in TransferStates
  BY <1>2, Parameters DEF TransferStates
<1>8. Good(saved) /\ SameFiles(l, saved)
  BY <1>6, <1>7, SavedIsGood
<1> HIDE DEF saved
<1>9. /\ got \in Task /\ got.pc = "download" /\ got.fd = t.fd
      /\ got.current = t.current + 1 /\ got.ok = (t.ok /\ c = "good")
  <2>1. (t.ok /\ c = "good") \in BOOLEAN
    OBVIOUS
  <2> QED
    BY <1>1, <1>7, <2>1 DEF Task
<1> HIDE DEF got
<1>10. TaskOK(saved, got)
  <2>1. Complete(saved)
    BY <1>1, <1>8, CompleteStays DEF Downloading
  <2>2. saved.file[got.fd] = e /\ saved.part = local.part /\ saved.dest = local.dest
    BY <1>6, <1>8, <1>9 DEF SameFiles
  <2>3. ASSUME DamageAlone
        PROVE  /\ saved.dest = None => saved.part = got.fd
               /\ world.deadline => got.ok
               /\ ~world.deadline => /\ saved.part = got.fd
                                     /\ got.current = Len(saved.file[got.fd])
                                     /\ got.ok => AllGood(saved.file[got.fd])
    <3>1. saved.dest = None => saved.part = got.fd
      BY <1>1, <1>9, <2>2, <2>3 DEF Downloading
    <3>2. world.deadline => got.ok
      BY <1>1, <1>4, <1>9, <2>3 DEF Downloading, Joined
    <3>3. ASSUME ~world.deadline
          PROVE  /\ saved.part = got.fd /\ got.current = Len(saved.file[got.fd])
                 /\ got.ok => AllGood(saved.file[got.fd])
      BY <1>1, <1>5, <1>9, <2>2, <2>3, <3>3 DEF Downloading, f
    <3> QED
      BY <3>1, <3>2, <3>3
  <2>4. Downloading(saved, got)
    BY <1>2, <1>5, <1>9, <2>1, <2>2, <2>3 DEF Downloading
  <2> QED
    BY <1>9, <2>4 DEF TaskOK
<1>11. /\ GoodWrites(<<l, saved>>) /\ Last(<<l, saved>>) = saved
  BY <1>6, <1>8, TwoWrites
<1>12. PICK then \in {got} \cup Failing(s) : Handle(s, <<l, saved>>, then, whole)
  BY DEF ChunkGot, got, saved, l, e, f, Extended
<1>13. TaskOK(saved, then)
  BY <1>8, <1>10, <1>12, RestingIsOK
<1> QED
  BY <1>1, <1>3, <1>11, <1>12, <1>13, HandlerKeeps

\* Steps that change nothing but what the tasks await.
LEMMA TasksKeep ==
  ASSUME RInv, UNCHANGED <<log, local, review, world>>, task' \in [Syncers -> Task],
         \A u \in Syncers : TaskOK(local, task'[u]),
         world.deadline \/ task'[Preparer] = Idle
  PROVE  Kept
<1>1. LocalOK(local)'
  BY LocalBecomes DEF RInv
<1>2. \A u \in Syncers : TaskOK(local, task[u])'
  BY TaskBecomes DEF TaskOK, Downloading, Complete, RemoteState, HasPreview
<1>3. WorldOK' /\ ReviewFresh'
  BY DEF RInv, WorldOK, ReviewFresh, Joined
<1> QED
  BY <1>1, <1>2, <1>3 DEF RInv, Kept, NameStays, AsReviewed

LEMMA PendingIsOK ==
  ASSUME RInv
  PROVE  /\ \A finish \in BOOLEAN : TaskOK(local, Pending(finish))
         /\ TaskOK(local, [Idle EXCEPT !.pc = "expired"]) /\ TaskOK(local, Idle)
<1>1. Good(local) /\ Finisher \in Syncers /\ Preparer \in Syncers
  BY LocalIsGood DEF Syncers
<1>2. TaskOK(local, [Idle EXCEPT !.pc = "expired"]) /\ TaskOK(local, Idle)
  BY <1>1, Parameters, RestingIsOK DEF Failing
<1>3. TaskOK(local, Pending(TRUE)) /\ TaskOK(local, Pending(FALSE))
  <2>1. local.events \in 0..2 /\ local.events <= local.events
    <3>1. \A a \in Nat, n \in 0..2 : a <= n => a \in 0..2 /\ a <= a
      OBVIOUS
    <3> QED
      BY <3>1, LogIsShort DEF Local
  <2>2. Idle \in Task
    BY <1>2 DEF TaskOK
  <2>3. \A finish \in BOOLEAN :
          /\ Pending(finish) \in Task /\ Pending(finish).pc = "events"
          /\ Pending(finish).cursor = local.events
    BY <2>1, <2>2 DEF Pending, Idle, Task
  <2> QED
    BY <2>1, <2>3 DEF TaskOK
<1> QED
  BY <1>2, <1>3

LEMMA BeginKeeps ==
  ASSUME RInv, SyncBegin \/ ExpireBegin \/ Restart
  PROVE  Kept
<1>1. CASE SyncBegin
  <2>1. /\ task' \in [Syncers -> Task] /\ task'[Finisher] = Pending(TRUE)
        /\ task'[Preparer] = task[Preparer]
    BY <1>1, PendingIsOK, Parameters DEF SyncBegin, RInv, Syncers, TaskOK
  <2>2. \A u \in Syncers : TaskOK(local, task'[u])
    BY <2>1, PendingIsOK DEF RInv, Syncers
  <2>3. world.deadline \/ task'[Preparer] = Idle
    BY <2>1 DEF RInv, WorldOK
  <2> QED
    BY <1>1, <2>1, <2>2, <2>3, TasksKeep DEF SyncBegin
<1>2. CASE ExpireBegin
  <2>1. /\ task' \in [Syncers -> Task] /\ task'[Finisher] = task[Finisher]
        /\ task'[Preparer] \in {Pending(FALSE), [Idle EXCEPT !.pc = "expired"]}
    BY <1>2, PendingIsOK, Parameters DEF ExpireBegin, RInv, Syncers, TaskOK
  <2>2. \A u \in Syncers : TaskOK(local, task'[u])
    BY <2>1, PendingIsOK DEF RInv, Syncers
  <2> QED
    BY <1>2, <2>1, <2>2, TasksKeep DEF ExpireBegin
<1>3. CASE Restart
  <2>1. /\ task' \in [Syncers -> Task] /\ \A u \in Syncers : task'[u] = Idle
    BY <1>3, PendingIsOK DEF Restart, TaskOK
  <2> QED
    BY <1>3, <2>1, PendingIsOK, TasksKeep DEF Restart, Syncers
<1> QED
  BY <1>1, <1>2, <1>3

LEMMA ReviewKeeps ==
  ASSUME RInv, review_destroy \/ ReviewExpires
  PROVE  Kept
<1>1. UNCHANGED <<log, local, task, world>>
  BY DEF review_destroy, ReviewExpires
<1>2. review' \in Reviews \cup {None} /\ ReviewFresh'
  <2>1. CASE review_destroy
    BY <2>1, LogIsShort DEF review_destroy, ReviewFresh, Reviews, Unverified, Local
  <2>2. CASE ReviewExpires
    BY <2>2 DEF ReviewExpires, ReviewFresh, Reviews, RInv
  <2> QED
    BY <2>1, <2>2
<1>3. LocalOK(local)'
  BY <1>1, LocalBecomes DEF RInv
<1>4. \A u \in Syncers : TaskOK(local, task[u])'
  BY <1>1, TaskBecomes DEF RInv, TaskOK, Downloading, Complete, RemoteState, HasPreview
<1>5. WorldOK'
  BY <1>1 DEF RInv, WorldOK, Joined
<1> QED
  BY <1>1, <1>2, <1>3, <1>4, <1>5 DEF RInv, Kept, NameStays, AsReviewed

LEMMA DestroyKeeps ==
  ASSUME RInv, destroy
  PROVE  Kept
<1> DEFINE l == IF Reviewed THEN [local EXCEPT !.session = "destroying"] ELSE local
<1>1. Good(l) /\ SameFiles(local, l)
  <2>1. Good(local) /\ "destroying" \in States
    BY LocalIsGood DEF States
  <2> QED
    BY <2>1, SessionIsGood DEF SameFiles
<1>2. local' = l /\ review' = None /\ UNCHANGED <<log, task, world>>
  BY DEF destroy
<1> HIDE DEF l
<1>3. LocalOK(local)'
  BY <1>1, <1>2, LocalBecomes DEF Good
<1>4. \A u \in Syncers : TaskOK(l, task[u])
  BY <1>1, OtherStays DEF SameFiles
<1>5. \A u \in Syncers : TaskOK(local, task[u])'
  BY <1>2, <1>4, TaskBecomes DEF TaskOK, Downloading, Complete, RemoteState, HasPreview
<1>6. WorldOK' /\ ReviewFresh'
  BY <1>2 DEF RInv, WorldOK, ReviewFresh, Joined
<1>7. RInv'
  BY <1>2, <1>3, <1>5, <1>6 DEF RInv
<1>8. NameStays
  BY <1>1, <1>2 DEF NameStays, SameFiles
<1>9. AsReviewed
  BY <1>2 DEF AsReviewed, RInv, ReviewFresh, Reviewed, l
<1> QED
  BY <1>7, <1>8, <1>9 DEF Kept

LEMMA ExpiredKeeps ==
  ASSUME RInv, Expired
  PROVE  Kept
<1> DEFINE l == [local EXCEPT !.session = "destroying"]
<1>1. Good(l)
  <2>1. Good(local) /\ "destroying" \in States
    BY LocalIsGood DEF States
  <2> QED
    BY <2>1, SessionIsGood
<1>2. Handle(Preparer, <<l>>, Idle, TRUE) /\ task[Preparer].pc # "idle"
  BY DEF Expired
<1>3. Preparer \in Syncers
  BY DEF Syncers
<1> HIDE DEF l
<1>4. GoodWrites(<<l>>) /\ Last(<<l>>) = l
  BY <1>1, OneWrite
<1>5. TaskOK(l, Idle)
  BY <1>1, <1>3, RestingIsOK
<1>6. world.deadline
  BY <1>2, <1>3, Running, Parameters
<1>7. /\ world' \in World /\ world'.deadline = world.deadline
      /\ Joined => world'.damage = 0
  BY WorldStays DEF Expired
<1> QED
  BY <1>2, <1>3, <1>4, <1>5, <1>6, <1>7, HandleKeeps

LEMMA AbandonedIsGood ==
  ASSUME RInv, NEW l, Good(l)
  PROVE  Good(Abandoned(l)) /\ SameFiles(l, Abandoned(l))
<1> DEFINE m == Abandoned(l)
<1>1. CASE Unverified(l) # 1
  BY <1>1 DEF Abandoned, SameFiles
<1>2. CASE Unverified(l) = 1
  <2>1. l \in Local /\ l.row # None
    BY <1>2 DEF Unverified, Good, LocalOK
  <2>2. m = [l EXCEPT !.row = [l.row EXCEPT !.state = "abandoned"]]
    BY <1>2, <2>1 DEF Abandoned, Local
  <2>3. /\ [l.row EXCEPT !.state = "abandoned"] \in Row
        /\ [l.row EXCEPT !.state = "abandoned"].state = "abandoned"
    BY <2>1 DEF Local, Row, TransferStates
  <2> HIDE DEF m
  <2>4. /\ m \in Local /\ SameFiles(l, m) /\ m.job = l.job
        /\ m.events = l.events /\ m.preview = l.preview /\ m.row.state = "abandoned"
    BY <2>1, <2>2, <2>3 DEF Local, SameFiles
  <2>5. ~Verified(m)
    BY <2>4 DEF Verified
  <2>6. m.job = "succeeded" => Complete(m) /\ m.dest # None
    BY <2>4 DEF Good, LocalOK, Complete, SameFiles
  <2>7. m.events >= l.events /\ m.events <= Len(log)
    BY <2>4 DEF Good, LocalOK, Local
  <2>8. Good(m)
    BY <2>4, <2>5, <2>6, <2>7, RowsKept
  <2> QED
    BY <2>4, <2>8 DEF m
<1> QED
  BY <1>1, <1>2

LEMMA DestroyedKeeps ==
  ASSUME RInv, NEW whole \in BOOLEAN, Destroyed(whole)
  PROVE  Kept
<1> DEFINE d == [local EXCEPT !.session = "destroyed"]
           a == Abandoned(d)
           f == IF Active(a) THEN [a EXCEPT !.job = "failed"] ELSE a
<1>1. Good(d) /\ SameFiles(local, d)
  <2>1. Good(local) /\ "destroyed" \in States
    BY LocalIsGood DEF States
  <2> QED
    BY <2>1, SessionIsGood
<1> HIDE DEF d
<1>2. Good(a) /\ SameFiles(d, a)
  BY <1>1, AbandonedIsGood
<1> HIDE DEF a
<1>3. Good(f) /\ SameFiles(a, f)
  <2>1. "failed" \in JobStates /\ "failed" # "succeeded"
    BY DEF JobStates
  <2> QED
    BY <1>2, <2>1, JobIsGood DEF SameFiles
<1>4. Handle(Preparer, <<d, a, f>>, task[Preparer], whole) /\ Meets(Crashes(whole), 0)
  BY DEF Destroyed, d, a
<1> HIDE DEF f
<1> DEFINE writes == <<d, a, f>>
<1>5. GoodWrites(writes) /\ Last(writes) = f
  BY <1>1, <1>2, <1>3, ThreeWrites
<1>6. \A k \in 1..Len(writes) :
        writes[k].part = local.part /\ writes[k].file = local.file
  BY <1>1, <1>2, <1>3 DEF SameFiles
<1> HIDE DEF writes
<1>7. Preparer \in Syncers /\ (world.deadline \/ task[Preparer] = Idle)
  BY DEF Syncers, RInv, WorldOK
<1>8. TaskOK(f, task[Preparer])
  BY <1>1, <1>2, <1>3, <1>7, OtherStays DEF SameFiles
<1>9. Crashes(whole) \in Nat /\ 0 \in Nat
  BY DEF Crashes
<1>10. /\ world' \in World /\ world'.deadline = world.deadline
       /\ Joined => world'.damage = 0
  BY <1>4, <1>9, MeetsKeeps
<1>11. Handle(Preparer, writes, task[Preparer], whole)
  BY <1>4 DEF writes
<1> QED
  BY <1>5, <1>6, <1>7, <1>8, <1>10, <1>11, HandleKeeps

LEMMA EmitKeeps ==
  ASSUME RInv, NEW e \in EventTypes, Emit(e)
  PROVE  Kept
<1>1. UNCHANGED <<local, task, review, world>> /\ log' = Append(log, e)
  BY DEF Emit
<1>2. /\ log' \in Seq(EventTypes) /\ Len(log') = Len(log) + 1
      /\ \A i \in 1..Len(log) : log'[i] = log[i]
  BY <1>1, AppendProperties DEF RInv
<1>3. Len(log) \in 0..1
  <2>1. Len(<<>>) = 0 /\ Len(<<"b_preview">>) = 1
    OBVIOUS
  <2> QED
    BY <2>1 DEF Emit
<1>4. RemoteState # "succeeded"
  <2>1. CASE log = <<>>
    BY <2>1 DEF RemoteState
  <2>2. CASE log = <<"b_preview">>
    BY <2>2 DEF RemoteState, Last
  <2> QED
    BY <2>1, <2>2 DEF Emit
<1>5. /\ local \in Local /\ local.events \in Nat /\ local.events <= Len(log)
  BY LogIsShort DEF Local
<1>6. LocalOK(local)'
  <2>1. local.job # "succeeded"
    BY <1>4 DEF RInv, LocalOK, Complete
  <2>2. local.events <= Len(log')
    BY <1>2, <1>3, <1>5
  <2>3. LocalOK(local)
    BY DEF RInv
  <2> QED
    BY <1>1, <2>1, <2>2, <2>3 DEF LocalOK, Verified, Sound, Local, Row
<1>7. ASSUME NEW u \in Syncers
      PROVE  TaskOK(local, task[u])'
  <2> DEFINE t == task[u]
  <2>1. t \in Task /\ TaskOK(local, t)
    BY TaskTyped
  <2>2. t.pc # "download"
    BY <1>4, <2>1 DEF TaskOK, Downloading, Complete
  <2>3. t.pc \in {"preview", "recache"} => t.until <= Len(log')
    BY <1>2, <1>3, <2>1 DEF TaskOK, Task
  <2>4. t.pc = "job" => \A i \in 1..t.cursor : log'[i] = log[i]
    BY <1>2, <1>3, <1>5, <2>1 DEF TaskOK, Task
  <2>5. t.pc = "job" => local.preview.row \/ \A i \in 1..t.cursor : log'[i] # "b_preview"
    BY <2>1, <2>4 DEF TaskOK
  <2> QED
    BY <1>1, <2>1, <2>2, <2>3, <2>5 DEF TaskOK, Task
<1>8. WorldOK' /\ ReviewFresh'
  BY <1>1 DEF RInv, WorldOK, ReviewFresh, Joined
<1>9. Len(log') <= 2 /\ task' \in [Syncers -> Task] /\ review' \in Reviews \cup {None}
  BY <1>1, <1>2, <1>3 DEF RInv
<1> QED
  BY <1>1, <1>2, <1>6, <1>7, <1>8, <1>9 DEF RInv, Kept, NameStays, AsReviewed

---------------------------------------------------------------------------
(* The theorems *)

LEMMA InitIsGood == Init => RInv
<1> SUFFICES ASSUME Init
             PROVE  RInv
  OBVIOUS
<1>1. <<>> \in Seq(Chunks) /\ Len(<<>>) = 0 /\ log = <<>> /\ log \in Seq(EventTypes)
  BY DEF Init
<1>2. /\ local \in Local /\ local.events = 0 /\ local.row = None /\ local.dest = None
      /\ local.job = "running" /\ \A i \in Inodes : local.file[i] = <<>>
  BY <1>1 DEF Init, Local, JobStates, States
<1>3. LocalOK(local)
  <2>1. AllGood(<<>>)
    BY <1>1 DEF AllGood
  <2>2. \A i \in Inodes : Len(local.file[i]) <= Size
    BY <1>1, <1>2, Parameters
  <2> QED
    BY <1>1, <1>2, <2>1, <2>2 DEF LocalOK, Sound, Verified
<1>4. Idle \in Task /\ Idle.pc = "idle"
  <2>1. 0 \in 0..Size /\ 0 \in 0..2
    BY Parameters
  <2> QED
    BY <2>1 DEF Idle, Task
<1>5. task \in [Syncers -> Task] /\ \A s \in Syncers : TaskOK(local, task[s])
  BY <1>4 DEF Init, TaskOK
<1>6. WorldOK
  BY Parameters DEF Init, WorldOK, Joined, DamageAlone, Syncers
<1>7. review \in Reviews \cup {None} /\ ReviewFresh
  BY DEF Init, ReviewFresh
<1> QED
  BY <1>1, <1>3, <1>5, <1>6, <1>7 DEF RInv

LEMMA StepKeeps == RInv /\ Next => Kept
<1> SUFFICES ASSUME RInv, Next
             PROVE  Kept
  OBVIOUS
<1>1. CASE SyncBegin \/ ExpireBegin \/ Restart
  BY <1>1, BeginKeeps
<1>2. CASE \E s \in Syncers : LoseCall(s)
  BY <1>2, LoseKeeps
<1>3. ASSUME NEW s \in Syncers, NEW whole \in BOOLEAN, Sync(s, whole)
      PROVE  Kept
  BY <1>3, EventsKeep, PreviewKeeps, JobKeeps, ChunkKeeps, EndedKeeps DEF Sync, Chunks
<1>4. CASE review_destroy \/ ReviewExpires
  BY <1>4, ReviewKeeps
<1>5. CASE destroy
  BY <1>5, DestroyKeeps
<1>6. CASE Expired
  BY <1>6, ExpiredKeeps
<1>7. CASE \E whole \in BOOLEAN : Destroyed(whole)
  BY <1>7, DestroyedKeeps
<1>8. CASE \E e \in EventTypes : Emit(e)
  BY <1>8, EmitKeeps
<1> QED
  BY <1>1, <1>2, <1>3, <1>4, <1>5, <1>6, <1>7, <1>8 DEF Next

LEMMA StutterKeeps == RInv /\ UNCHANGED vars => Kept
<1> SUFFICES ASSUME RInv, UNCHANGED vars
             PROVE  Kept
  OBVIOUS
<1>1. task' \in [Syncers -> Task] /\ \A u \in Syncers : TaskOK(local, task'[u])
  BY DEF RInv, vars
<1>2. world.deadline \/ task'[Preparer] = Idle
  BY DEF RInv, WorldOK, vars
<1> QED
  BY <1>1, <1>2, TasksKeep DEF vars

\* The inductive invariant holds in every reachable state.
THEOREM RelayInvariance == Spec => []RInv
<1>1. RInv /\ [Next]_vars => RInv'
  BY StepKeeps, StutterKeeps DEF Kept
<1> QED
  BY <1>1, InitIsGood, PTL DEF Spec

\* Files, rows, tasks, reviews and worlds keep their types, whatever the worlds are:
\* no event is stored that the log does not have, and no offset or file passes the
\* size of the output.
THEOREM RelayTypeCorrect == Spec => []TypeOK
<1>1. RInv => TypeOK
  <2> SUFFICES ASSUME RInv
               PROVE  TypeOK
    OBVIOUS
  <2>1. log \in BoundedSeq(EventTypes, 2)
    BY Bounded DEF RInv
  <2>2. \A i \in Inodes : local.file[i] \in BoundedSeq(Chunks, Size)
    <3>1. \A i \in Inodes : local.file[i] \in Seq(Chunks) /\ Len(local.file[i]) <= Size
      BY DEF RInv, LocalOK, Local
    <3> QED
      BY <3>1, Bounded, Parameters
  <2>3. local.events \in 0..Len(log)
    <3>1. \A a \in Nat, n \in 0..2 : a <= n => a \in 0..n
      OBVIOUS
    <3> QED
      BY <3>1, LogIsShort DEF Local
  <2>4. local \in Local /\ task \in [Syncers -> Task] /\ world \in World
        /\ review \in Reviews \cup {None}
    BY DEF RInv, LocalOK, WorldOK
  <2> QED
    BY <2>1, <2>2, <2>3, <2>4 DEF TypeOK, Local, Row, Task, World, Chunks
<1> QED
  BY <1>1, RelayInvariance, PTL

LEMMA PublishedFacts ==
  ASSUME DamageAlone, RInv
  PROVE  /\ VerifiedIsPublished /\ PublishedIsWhole /\ SucceededIsPublished
         /\ local.dest = None => ~Whole(Content(local, local.dest))
<1>1. local \in Local /\ LocalOK(local) /\ Sound(local)
  BY DEF RInv, LocalOK
<1>2. local.dest # None => Whole(Content(local, local.dest))
  BY <1>1, PartContent DEF Sound
<1>3. local.dest = None => ~Whole(Content(local, local.dest))
  BY <1>1, PartContent, NothingIsNotWhole
<1> QED
  BY <1>1, <1>2, <1>3
  DEF VerifiedIsPublished, PublishedIsWhole, SucceededIsPublished, LocalOK, Complete

\* The row says verified only while the whole output stands under its final name,
\* through crashes between the rename and the row, damaged chunks or two tasks that
\* write one part file.
THEOREM VerifiedPublished ==
  ASSUME DamageAlone
  PROVE  Spec => []VerifiedIsPublished
<1>1. RInv => VerifiedIsPublished
  BY PublishedFacts
<1> QED
  BY <1>1, RelayInvariance, PTL

\* Nothing but the whole output is ever published.
THEOREM PublishedWhole ==
  ASSUME DamageAlone
  PROVE  Spec => []PublishedIsWhole
<1>1. RInv => PublishedIsWhole
  BY PublishedFacts
<1> QED
  BY <1>1, RelayInvariance, PTL

\* A job succeeds only with its output published, all its events stored and its
\* preview cached.
THEOREM SucceededPublished ==
  ASSUME DamageAlone
  PROVE  Spec => []SucceededIsPublished
<1>1. RInv => SucceededIsPublished
  BY PublishedFacts
<1> QED
  BY <1>1, RelayInvariance, PTL

\* No refused attempt, second task, crash or destruction takes a published output
\* away or damages it.
THEOREM OutputsNeverLost ==
  ASSUME DamageAlone
  PROVE  Spec => OutputNeverLost
<1>1. RInv /\ RInv' /\ [Next]_vars
        => (Whole(Content(local, local.dest)) => Whole(Content(local', local'.dest)))
  <2> SUFFICES ASSUME RInv, RInv', [Next]_vars, Whole(Content(local, local.dest))
               PROVE  Whole(Content(local', local'.dest))
    OBVIOUS
  <2>1. local.dest # None
    BY PublishedFacts
  <2>2. local'.dest # None
    BY <2>1, StepKeeps, StutterKeeps DEF Kept, NameStays
  <2>3. local' \in Local /\ Sound(local)'
    BY DEF RInv, LocalOK, Local, Row
  <2> QED
    BY <2>2, <2>3, PartContent DEF Sound
<1> QED
  BY <1>1, RelayInvariance, PTL DEF Spec, OutputNeverLost

\* A destruction the user confirms begins from the session state and with the
\* unverified outputs that were shown, however tasks and reviews interleave.
THEOREM DestroyedReviewed == Spec => DestroyedAsReviewed
<1>1. RInv /\ [Next]_vars => AsReviewed
  BY StepKeeps, StutterKeeps DEF Kept
<1> QED
  BY <1>1, RelayInvariance, PTL DEF Spec, DestroyedAsReviewed, AsReviewed
=============================================================================
