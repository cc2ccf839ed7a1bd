-------------------------- MODULE WorkerJobsProofs --------------------------
(***************************************************************************)
(* Proofs about WorkerJobs, for any manifests, jobs, faults and any limit  *)
(* of events: budgets, jobs across restarts, and what a manifest that is   *)
(* called installed has on the machine.                                    *)
(***************************************************************************)
EXTENDS WorkerJobs, TLAPS

Request == [pc : Pcs, m : Manifests \cup {NoManifest}, files : SUBSET Files,
            nodes : SUBSET Nodes, wheels : SUBSET Wheels,
            repair : BOOLEAN, force : BOOLEAN, changed : BOOLEAN, late : SUBSET Files]
Spent == [restarts : Nat, repairs : Nat]

\* What holds the lock is a request, for a manifest.
Requested == apply \in Request /\ (apply.pc # "idle" => apply.m \in Manifests)

\* A repair is on disk before anything is done for it, and has not restarted
\* ComfyUI before its restart.
RepairFirst ==
  /\ \A m \in Manifests : tx[m].repairs = 1 => tx[m].repaired
  /\ apply.repair /\ apply.pc \in {"fetch", "download", "install", "restart"} =>
       tx[apply.m].repairs = 0 /\ tx[apply.m].repaired

\* The inductive invariant of provisioning.
Budgets == RestartBudget /\ RepairFirst
PInv == ProvisionTypeOK /\ Requested /\ Budgets

\* The manager executes a job exactly while its record says so.
Executing ==
  /\ run.pc = "free" => run = Free
  /\ run.pc # "free" => up /\ run.job \in Jobs /\ Open(run.job)
  /\ up => \A j \in Jobs : Open(j) => run.pc # "free" /\ run.job = j

\* No prompt was sent for a job without a record or a request about to send it.
Unsent ==
  /\ \A j \in Jobs : job[j].state = "none" => submitted[j] = 0
  /\ run.pc = "post" => submitted[run.job] = 0

JTypeOK ==
  /\ job \in [Jobs -> [state : JobStates, events : 0..MaxEvents]]
  /\ run \in [pc : RunPcs, job : Jobs \cup {NoJob}]
  /\ submitted \in [Jobs -> Nat]

JInv == JTypeOK /\ Executing /\ Unsent /\ RunsOnce

IInv == PInv /\ JInv

---------------------------------------------------------------------------
(* Parts of a manifest *)

LEMMA PartsTyped ==
  ASSUME NEW m \in Manifests
  PROVE  /\ m.nodes \subseteq Nodes /\ m.models \subseteq Models
         /\ Models \subseteq Files /\ Wheels \subseteq Files
BY DEF Nodes, Models, Files

LEMMA PackagesTyped ==
  \A n \in Nodes : /\ n.pkg \in Packages /\ n.rev \in Revisions /\ n.wheels \subseteq Wheels
                   /\ PackageFiles(n) \subseteq Files
<1>1. ASSUME NEW n \in Nodes
      PROVE  n.pkg \in Packages /\ n.rev \in Revisions /\ n.wheels \subseteq Wheels
  BY DEF Packages, Revisions, Wheels
<1>2. ASSUME NEW n \in Nodes PROVE PackageFiles(n) \subseteq Files
  BY <1>1 DEF PackageFiles, Files
<1> QED BY <1>1, <1>2

LEMMA DeltaTyped ==
  ASSUME NEW m \in Manifests
  PROVE  /\ NewFiles(m) \subseteq Files /\ NewNodes(m) \subseteq Nodes
         /\ Standalone(m) \subseteq Wheels
<1>1. NewNodes(m) \subseteq Nodes
  BY PartsTyped DEF NewNodes
<1>2. NewWheels(m) \subseteq Wheels
  <2>1. \A S \in SUBSET Nodes : UNION {n.wheels : n \in S} \subseteq Wheels
    BY DEF Wheels
  <2>2. NewNodes(m) \subseteq Nodes /\ m.nodes \ NewNodes(m) \subseteq Nodes
    BY <1>1, PartsTyped
  <2> QED BY <2>1, <2>2 DEF NewWheels
<1>3. NewFiles(m) \subseteq Files
  BY <1>1, <1>2, PartsTyped DEF NewFiles, Files
<1> QED BY <1>1, <1>2, <1>3 DEF Standalone

LEMMA CodeTyped ==
  ASSUME ProvisionTypeOK
  PROVE  Code \subseteq AllCode
BY DEF ProvisionTypeOK, Code, AllCode, Revisions

LEMMA IdleTyped == Idle \in Request /\ Idle.pc = "idle" /\ Idle.repair = FALSE
BY DEF Idle, Request, Pcs

LEMMA FaultTyped == ProvisionTypeOK /\ Fault => faults' \in 0..MaxFaults
BY ProvisionConstants DEF ProvisionTypeOK, Fault

---------------------------------------------------------------------------
(* pip *)

LEMMA ProvidesMore ==
  \A V, W : V \subseteq W => Provides(V) \subseteq Provides(W)
BY DEF Provides

\* A version may go, its distribution stays.
LEMMA PipKeeps ==
  ASSUME pip \subseteq Wheels, NEW W \in SUBSET Wheels, PipInstall(W)
  PROVE  /\ pip' \subseteq Wheels
         /\ Provides(pip) \subseteq Provides(pip') /\ Provides(W) \subseteq Provides(pip')
<1>1. PICK V \in SUBSET W : /\ Provides(V) = Provides(W)
                            /\ pip' = {v \in pip : v[1] \notin Provides(W)} \cup V
  BY DEF PipInstall
<1>2. V \subseteq pip'
  BY <1>1
<1>3. Provides(W) \subseteq Provides(pip')
  BY <1>1, <1>2, ProvidesMore
<1>4. ASSUME NEW v \in pip PROVE v[1] \in Provides(pip')
  <2>1. CASE v[1] \in Provides(W)
    BY <1>3, <2>1
  <2>2. CASE v[1] \notin Provides(W)
    BY <1>1, <2>2 DEF Provides
  <2> QED BY <2>1, <2>2
<1>5. Provides(pip) \subseteq Provides(pip')
  BY <1>4 DEF Provides
<1> QED BY <1>1, <1>3, <1>5

LEMMA CutOffKeeps ==
  ASSUME ProvisionTypeOK, PipCutOff
  PROVE  pip' \subseteq Wheels /\ Provides(pip) \subseteq Provides(pip')
<1>1. PICK W \in Installing : \E S \in SUBSET W : PipInstall(S)
  BY DEF PipCutOff
<1>2. PICK S \in SUBSET W : PipInstall(S)
  BY <1>1
<1>3. W \subseteq Wheels
  BY PackagesTyped DEF Installing, ProvisionTypeOK
<1>4. S \in SUBSET Wheels /\ pip \subseteq Wheels
  BY <1>3 DEF ProvisionTypeOK
<1> QED BY <1>2, <1>4, PipKeeps

---------------------------------------------------------------------------
(* Budgets *)

\* A step that changes only the states of transactions, and begins no repair.
LEMMA BudgetsStay ==
  ASSUME PInv, UNCHANGED spent, tx' \in [Manifests -> Tx], Requested',
         \A m \in Manifests : /\ tx'[m].planned = tx[m].planned
                             /\ tx'[m].repairs = tx[m].repairs
                             /\ tx'[m].repaired = tx[m].repaired,
         \/ apply'.repair = FALSE
         \/ apply'.pc \notin {"fetch", "download", "install", "restart"}
         \/ /\ apply'.repair = apply.repair /\ apply'.m = apply.m
            /\ apply.pc \in {"fetch", "download", "install", "restart"}
  PROVE  Budgets'
<1>1. RestartBudget'
  BY DEF PInv, Budgets, RestartBudget
<1>2. RepairFirst'
  <2>1. \A m \in Manifests : tx'[m].repairs = 1 => tx'[m].repaired
    BY DEF PInv, Budgets, RepairFirst
  <2>2. ASSUME apply'.repair, apply'.pc \in {"fetch", "download", "install", "restart"}
        PROVE  tx'[apply'.m].repairs = 0 /\ tx'[apply'.m].repaired
    <3>1. /\ apply'.repair = apply.repair /\ apply'.m = apply.m
          /\ apply.pc \in {"fetch", "download", "install", "restart"}
      BY <2>2
    <3>2. apply'.m \in Manifests
      BY <2>2 DEF Requested
    <3> QED BY <2>2, <3>1, <3>2 DEF PInv, Budgets, RepairFirst
  <2> QED BY <2>1, <2>2 DEF RepairFirst
<1> QED BY <1>1, <1>2 DEF Budgets

\* A request ends, or never begins, and its transaction says how.
LEMMA RecordedTyped ==
  ASSUME ProvisionTypeOK, NEW m \in Manifests,
         NEW s \in {"applying", "awaiting_upload", "failed", "ready"}, Recorded(m, s)
  PROVE  /\ tx' \in [Manifests -> Tx]
         /\ \A x \in Manifests : /\ tx'[x].planned = tx[x].planned
                                 /\ tx'[x].repairs = tx[x].repairs
                                 /\ tx'[x].repaired = tx[x].repaired
BY DEF ProvisionTypeOK, Recorded, Tx

LEMMA EndKeeps ==
  ASSUME PInv, apply.pc # "idle",
         NEW s \in {"awaiting_upload", "failed", "ready"}, End(s), UNCHANGED spent
  PROVE  Requested' /\ Budgets' /\ tx' \in [Manifests -> Tx] /\ apply' = Idle
<1>1. apply.m \in Manifests /\ apply' = Idle /\ Recorded(apply.m, s)
  BY DEF PInv, Requested, End, Step
<1>2. Requested'
  BY <1>1, IdleTyped DEF Requested
<1> QED BY <1>1, <1>2, IdleTyped, RecordedTyped, BudgetsStay DEF PInv

---------------------------------------------------------------------------
(* Provisioning, action by action *)

LEMMA BeginKeeps ==
  ASSUME PInv, NEW m \in Manifests, Begin(m)
  PROVE  PInv'
<1>1. apply.pc = "idle" /\ UNCHANGED <<up, file, dir, pip, comfy, installed, spent, faults>>
  BY DEF Begin, At, machine
<1>2. CASE Recorded(m, "failed") /\ UNCHANGED apply
  <2>1. tx' \in [Manifests -> Tx] /\ Requested'
    BY <1>2, RecordedTyped DEF PInv, Requested
  <2>2. Budgets'
    BY <1>1, <1>2, <2>1, RecordedTyped, BudgetsStay DEF PInv
  <2> QED BY <1>1, <1>2, <2>1, <2>2 DEF PInv, ProvisionTypeOK, Code
<1>3. CASE /\ Recorded(m, "applying")
           /\ Step([Idle EXCEPT !.pc = "fetch", !.m = m, !.files = NewFiles(m),
                   !.nodes = NewNodes(m), !.wheels = Standalone(m),
                   !.changed = NewNodes(m) # {} \/ Standalone(m) # {}])
  <2>1. apply' \in Request /\ apply'.repair = FALSE /\ apply'.m = m
    BY <1>3, DeltaTyped DEF Step, Idle, Request, Pcs
  <2>2. tx' \in [Manifests -> Tx] /\ Requested'
    BY <1>3, <2>1, RecordedTyped DEF PInv, Requested
  <2>3. Budgets'
    BY <1>1, <1>3, <2>1, <2>2, RecordedTyped, BudgetsStay DEF PInv
  <2> QED BY <1>1, <2>1, <2>2, <2>3 DEF PInv, ProvisionTypeOK, Request
<1> QED BY <1>2, <1>3 DEF Begin

\* What a request ends with, given the rest of its step.
LEMMA EndTyped ==
  ASSUME PInv, apply.pc # "idle",
         NEW s \in {"awaiting_upload", "failed", "ready"}, End(s), UNCHANGED spent,
         up' \in BOOLEAN, file' \in [Files -> {"absent", "damaged", "verified"}],
         dir' \in [Packages -> Revisions], pip' \subseteq Wheels, comfy' \subseteq AllCode,
         installed' \in Manifests \cup {NoManifest}, faults' \in 0..MaxFaults
  PROVE  PInv'
<1>1. Requested' /\ Budgets' /\ tx' \in [Manifests -> Tx] /\ apply' = Idle
  BY EndKeeps
<1> QED BY <1>1, IdleTyped DEF PInv, ProvisionTypeOK, Requested, Request

LEMMA FailKeeps == ASSUME PInv, Fail PROVE PInv'
<1>1. /\ apply.pc # "idle" /\ End("failed")
      /\ UNCHANGED <<up, file, dir, comfy, installed, spent>>
  BY DEF Fail
<1>2. faults' \in 0..MaxFaults /\ pip' \subseteq Wheels
  BY FaultTyped, CutOffKeeps DEF Fail, PInv
<1> QED BY <1>1, <1>2, EndTyped DEF PInv, ProvisionTypeOK

\* A step of a request that leaves the transactions as they are.
LEMMA StepKeeps ==
  ASSUME PInv, apply.pc # "idle", apply' \in Request,
         apply'.m = apply.m, apply'.repair = apply.repair,
         \/ apply.pc \in {"fetch", "download", "install", "restart"}
         \/ apply'.pc \notin {"fetch", "download", "install", "restart"},
         UNCHANGED <<tx, spent>>,
         up' \in BOOLEAN, file' \in [Files -> {"absent", "damaged", "verified"}],
         dir' \in [Packages -> Revisions], pip' \subseteq Wheels, comfy' \subseteq AllCode,
         installed' \in Manifests \cup {NoManifest}, faults' \in 0..MaxFaults
  PROVE  PInv'
<1>1. Requested' /\ tx' \in [Manifests -> Tx]
  BY DEF PInv, Requested, ProvisionTypeOK
<1>2. Budgets'
  BY <1>1, BudgetsStay
<1> QED BY <1>1, <1>2 DEF PInv, ProvisionTypeOK, Requested, Request

LEMMA FetchKeeps == ASSUME PInv, Fetch PROVE PInv'
<1> DEFINE found == [f \in Files |-> IF apply.force /\ f \in apply.files THEN "absent"
                                     ELSE file[f]]
           missing == {f \in apply.files : found[f] = "absent"}
<1>1. /\ apply.pc = "fetch" /\ file' = found
      /\ UNCHANGED <<up, dir, pip, comfy, installed, spent, faults>>
  BY DEF Fetch, At
<1>2. file' \in [Files -> {"absent", "damaged", "verified"}] /\ missing \subseteq Files
  BY <1>1 DEF PInv, ProvisionTypeOK
<1>3. CASE End("failed") \/ End("awaiting_upload")
  BY <1>1, <1>2, <1>3, EndTyped DEF PInv, ProvisionTypeOK
<1>4. CASE UNCHANGED tx /\ Step([apply EXCEPT !.pc = "download", !.files = missing])
  <2>1. apply' \in Request /\ apply'.m = apply.m /\ apply'.repair = apply.repair
    BY <1>2, <1>4 DEF PInv, Requested, Request, Step, Pcs
  <2> QED BY <1>1, <1>2, <1>4, <2>1, StepKeeps DEF PInv, ProvisionTypeOK
<1> QED BY <1>3, <1>4 DEF Fetch

LEMMA DownloadKeeps == ASSUME PInv, NEW f \in Files, Download(f) PROVE PInv'
<1>1. /\ apply.pc = "download" /\ file' = [file EXCEPT ![f] = "verified"]
      /\ apply' = [apply EXCEPT !.files = @ \ {f}]
      /\ UNCHANGED <<up, dir, pip, comfy, installed, tx, spent, faults>>
  BY DEF Download, At, Step
<1>2. file' \in [Files -> {"absent", "damaged", "verified"}]
  BY <1>1 DEF PInv, ProvisionTypeOK
<1>3. apply' \in Request /\ apply'.m = apply.m /\ apply'.repair = apply.repair
  BY <1>1 DEF PInv, Requested, Request
<1> QED BY <1>1, <1>2, <1>3, StepKeeps DEF PInv, ProvisionTypeOK

LEMMA DownloadedKeeps == ASSUME PInv, Downloaded PROVE PInv'
<1> DEFINE packages == UNION {PackageFiles(n) : n \in apply.nodes}
<1>1. /\ apply.pc = "download"
      /\ apply' = IF apply.force
                  THEN [apply EXCEPT !.pc = "fetch", !.force = FALSE, !.files = packages]
                  ELSE [apply EXCEPT !.pc = "install"]
      /\ UNCHANGED <<up, file, dir, pip, comfy, installed, tx, spent, faults>>
  BY DEF Downloaded, At, Step, machine
<1>2. packages \subseteq Files
  <2>1. \A n \in apply.nodes : PackageFiles(n) \subseteq Files
    BY PackagesTyped DEF PInv, Requested, Request
  <2> QED BY <2>1
<1>3. apply' \in Request /\ apply'.m = apply.m /\ apply'.repair = apply.repair
  <2> HIDE DEF packages
  <2> QED BY <1>1, <1>2 DEF PInv, Requested, Request, Pcs
<1> QED BY <1>1, <1>3, StepKeeps DEF PInv, ProvisionTypeOK

LEMMA InstallNodeKeeps == ASSUME PInv, NEW n \in Nodes, InstallNode(n) PROVE PInv'
<1>1. apply.pc = "install" /\ UNCHANGED <<up, file, comfy, installed, spent, faults>>
  BY DEF InstallNode, At
<1>2. CASE End("failed") /\ UNCHANGED <<dir, pip>>
  BY <1>1, <1>2, EndTyped DEF PInv, ProvisionTypeOK
<1>3. CASE /\ PipInstall(n.wheels) /\ dir' = [dir EXCEPT ![n.pkg] = n.rev]
           /\ Step([apply EXCEPT !.nodes = @ \ {n}]) /\ UNCHANGED tx
  <2>1. pip' \subseteq Wheels /\ dir' \in [Packages -> Revisions]
    BY <1>3, PackagesTyped, PipKeeps DEF PInv, ProvisionTypeOK
  <2>2. apply' \in Request /\ apply'.m = apply.m /\ apply'.repair = apply.repair
    BY <1>3 DEF PInv, Requested, Request, Step
  <2> QED BY <1>1, <1>3, <2>1, <2>2, StepKeeps DEF PInv, ProvisionTypeOK
<1> QED BY <1>2, <1>3 DEF InstallNode

LEMMA InstallWheelsKeeps == ASSUME PInv, InstallWheels PROVE PInv'
<1>1. apply.pc = "install" /\ UNCHANGED <<up, file, dir, comfy, installed, spent, faults>>
  BY DEF InstallWheels, At
<1>2. CASE End("failed") /\ UNCHANGED pip
  BY <1>1, <1>2, EndTyped DEF PInv, ProvisionTypeOK
<1>3. CASE /\ PipInstall(apply.wheels) /\ UNCHANGED tx
           /\ Step([apply EXCEPT !.pc = IF apply.repair /\ ~apply.changed
                                        THEN "validate" ELSE "restart"])
  <2>1. pip' \subseteq Wheels
    BY <1>3, PipKeeps DEF PInv, ProvisionTypeOK
  <2>2. apply' \in Request /\ apply'.m = apply.m /\ apply'.repair = apply.repair
    BY <1>3 DEF PInv, Requested, Request, Step, Pcs
  <2> QED BY <1>1, <1>3, <2>1, <2>2, StepKeeps DEF PInv, ProvisionTypeOK
<1> QED BY <1>2, <1>3 DEF InstallWheels

\* Only here does a restart enter the budget and the count, in one step.
LEMMA RestartKeeps == ASSUME PInv, Restart PROVE PInv'
<1> DEFINE m == apply.m
<1>1. /\ apply.pc = "restart" /\ m \in Manifests /\ apply' = [apply EXCEPT !.pc = "start"]
      /\ UNCHANGED <<up, file, dir, pip, installed, faults>>
  BY DEF Restart, At, Step, machine, PInv, Requested
<1>2. apply' \in Request /\ apply'.m = m /\ apply'.pc = "start"
  BY <1>1 DEF PInv, Requested, Request, Pcs
<1>3. CASE UNCHANGED <<tx, spent, comfy>>
  BY <1>1, <1>2, <1>3, StepKeeps DEF PInv, ProvisionTypeOK, Requested, Request
<1>4. CASE /\ MayRestart
           /\ tx' = IF apply.repair THEN [tx EXCEPT ![m].repairs = 1]
                    ELSE [tx EXCEPT ![m].planned = 1]
           /\ spent' = [spent EXCEPT ![m].restarts = @ + 1] /\ comfy' = Down
  <2>1. tx' \in [Manifests -> Tx] /\ spent' \in [Manifests -> Spent]
    <3>1. tx \in [Manifests -> Tx] /\ spent \in [Manifests -> Spent]
      BY DEF PInv, ProvisionTypeOK, Spent
    <3>2. tx' \in [Manifests -> Tx]
      BY <1>1, <1>4, <3>1 DEF Tx
    <3>3. spent' \in [Manifests -> Spent]
      BY <1>1, <1>4, <3>1 DEF Spent
    <3> QED BY <3>2, <3>3
  <2>2. RestartBudget'
    <3>1. \A x \in Manifests : /\ tx[x].planned \in 0..1 /\ tx[x].repairs \in 0..1
                              /\ spent[x].restarts \in Nat
      BY DEF PInv, ProvisionTypeOK, Tx
    <3>2. /\ \A x \in Manifests \ {m} : tx'[x] = tx[x] /\ spent'[x] = spent[x]
          /\ spent'[m].restarts = spent[m].restarts + 1
          /\ spent'[m].repairs = spent[m].repairs /\ tx'[m].repaired = tx[m].repaired
      BY <1>1, <1>4 DEF PInv, ProvisionTypeOK, Tx
    <3>3. tx'[m].planned + tx'[m].repairs = tx[m].planned + tx[m].repairs + 1
      <4>1. CASE apply.repair
        <5>1. /\ tx[m].repairs = 0 /\ tx'[m].repairs = 1
              /\ tx'[m].planned = tx[m].planned
          BY <1>1, <1>4, <4>1 DEF PInv, Budgets, RepairFirst, ProvisionTypeOK, Tx
        <5> QED BY <1>1, <3>1, <5>1
      <4>2. CASE ~apply.repair
        <5>1. /\ tx[m].planned = 0 /\ tx'[m].planned = 1
              /\ tx'[m].repairs = tx[m].repairs
          BY <1>1, <1>4, <4>2 DEF MayRestart, PInv, ProvisionTypeOK, Tx
        <5> QED BY <1>1, <3>1, <5>1
      <4> QED BY <4>1, <4>2
    <3>4. spent'[m].restarts <= tx'[m].planned + tx'[m].repairs
      BY <1>1, <3>1, <3>2, <3>3 DEF PInv, Budgets, RestartBudget
    <3>5. \A x \in Manifests \ {m} :
            /\ spent'[x].restarts <= tx'[x].planned + tx'[x].repairs
            /\ spent'[x].repairs <= (IF tx'[x].repaired THEN 1 ELSE 0)
      BY <3>2 DEF PInv, Budgets, RestartBudget
    <3>6. spent'[m].repairs <= (IF tx'[m].repaired THEN 1 ELSE 0)
      BY <1>1, <3>2 DEF PInv, Budgets, RestartBudget
    <3> QED BY <3>4, <3>5, <3>6 DEF RestartBudget
  <2>3. RepairFirst'
    <3>1. apply.repair => tx[m].repaired
      BY <1>1 DEF PInv, Budgets, RepairFirst
    <3>2. /\ \A x \in Manifests \ {m} : tx'[x] = tx[x]
          /\ tx'[m].repaired = tx[m].repaired
          /\ tx'[m].repairs = tx[m].repairs \/ apply.repair
      BY <1>1, <1>4 DEF PInv, ProvisionTypeOK, Tx
    <3>3. \A x \in Manifests : tx'[x].repairs = 1 => tx'[x].repaired
      BY <3>1, <3>2 DEF PInv, Budgets, RepairFirst
    <3>4. apply'.pc \notin {"fetch", "download", "install", "restart"}
      BY <1>2
    <3> QED BY <3>3, <3>4 DEF RepairFirst
  <2>4. Requested'
    BY <1>1, <1>2 DEF Requested
  <2> QED BY <1>1, <1>2, <1>4, <2>1, <2>2, <2>3, <2>4
       DEF PInv, ProvisionTypeOK, Budgets, Spent, Request, Down
<1> QED BY <1>3, <1>4 DEF Restart

LEMMA StartKeeps == ASSUME PInv, Start PROVE PInv'
<1>1. /\ apply.pc = "start" /\ apply' = [apply EXCEPT !.pc = "validate"]
      /\ UNCHANGED <<up, file, dir, pip, installed, tx, spent>>
  BY DEF Start, At, Step, machine
<1>2. comfy' \subseteq AllCode /\ faults' \in 0..MaxFaults
  BY CodeTyped, FaultTyped DEF Start, PInv, ProvisionTypeOK
<1>3. /\ apply' \in Request /\ apply'.m = apply.m /\ apply'.repair = apply.repair
      /\ apply'.pc = "validate"
  BY <1>1 DEF PInv, Requested, Request, Pcs
<1> QED BY <1>1, <1>2, <1>3, StepKeeps DEF PInv, ProvisionTypeOK

LEMMA ValidateKeeps == ASSUME PInv, ObjectInfo \/ Hash PROVE PInv'
<1>1. /\ apply.pc \in {"validate", "hash"} /\ apply.m \in Manifests
      /\ UNCHANGED <<up, file, dir, pip, comfy, installed, tx, spent, faults>>
  BY DEF ObjectInfo, Hash, At, machine, PInv, Requested
<1> PICK m \in Manifests : m = apply.m
  BY <1>1
<1>2. MissingModels(m) \subseteq Files /\ MissingNodes(m) \subseteq Nodes
  BY PartsTyped DEF MissingModels, MissingNodes
<1>3. \/ apply' = [apply EXCEPT !.pc = "hash", !.nodes = MissingNodes(m)]
      \/ apply' = [apply EXCEPT !.pc = "checked", !.files = MissingModels(m), !.late = {}]
  BY DEF ObjectInfo, Hash, Step
<1>4. /\ apply' \in Request /\ apply'.m = apply.m /\ apply'.repair = apply.repair
      /\ apply'.pc \in {"hash", "checked"}
  BY <1>2, <1>3 DEF PInv, Requested, Request, Pcs
<1> QED BY <1>1, <1>4, StepKeeps DEF PInv, ProvisionTypeOK

LEMMA ReadyKeeps == ASSUME PInv, Ready PROVE PInv'
<1>1. apply.pc = "checked" /\ End("ready") /\ installed' = apply.m
      /\ UNCHANGED <<up, file, dir, pip, comfy, spent, faults>>
  BY DEF Ready, At, machine
<1> QED BY <1>1, EndTyped DEF PInv, ProvisionTypeOK

LEMMA InvalidKeeps == ASSUME PInv, Invalid PROVE PInv'
<1>1. apply.pc \in {"validate", "checked"} /\ End("failed")
      /\ UNCHANGED <<up, file, dir, pip, comfy, installed, spent, faults>>
  BY DEF Invalid, At, machine
<1> QED BY <1>1, EndTyped DEF PInv, ProvisionTypeOK

\* Only here does a repair enter the budget and the count, in one step.
LEMMA RepairKeeps == ASSUME PInv, Repair PROVE PInv'
<1> DEFINE m == apply.m
<1>1. /\ apply.pc = "checked" /\ m \in Manifests /\ ~tx[m].repaired
      /\ tx' = [tx EXCEPT ![m].repaired = TRUE]
      /\ spent' = [spent EXCEPT ![m].repairs = @ + 1]
      /\ UNCHANGED <<up, file, dir, pip, comfy, installed, faults>>
  BY DEF Repair, At, machine, MayRepair, PInv, Requested
<1>2. apply' \in Request /\ apply'.m = m
  <2>1. apply.files \subseteq Files /\ apply.nodes \subseteq Nodes
    BY DEF PInv, ProvisionTypeOK
  <2>2. apply' = [Idle EXCEPT !.pc = "fetch", !.m = m, !.repair = TRUE, !.force = TRUE,
                    !.files = apply.files, !.nodes = apply.nodes,
                    !.changed = apply.nodes # {}]
    BY DEF Repair, Step
  <2> HIDE DEF m
  <2> QED BY <1>1, <2>1, <2>2 DEF Idle, Request, Pcs
<1>3. tx' \in [Manifests -> Tx] /\ spent' \in [Manifests -> Spent]
  <2>1. tx \in [Manifests -> Tx] /\ spent \in [Manifests -> Spent]
    BY DEF PInv, ProvisionTypeOK, Spent
  <2>2. tx' \in [Manifests -> Tx]
    BY <1>1, <2>1 DEF Tx
  <2>3. spent' \in [Manifests -> Spent]
    BY <1>1, <2>1 DEF Spent
  <2> QED BY <2>2, <2>3
<1>4. /\ \A x \in Manifests \ {m} : tx'[x] = tx[x] /\ spent'[x] = spent[x]
      /\ tx'[m].planned = tx[m].planned /\ tx'[m].repairs = tx[m].repairs
      /\ tx'[m].repaired = TRUE
      /\ spent'[m].restarts = spent[m].restarts
      /\ spent'[m].repairs = spent[m].repairs + 1
  BY <1>1 DEF PInv, ProvisionTypeOK, Tx
<1>5. RestartBudget'
  <2>1. spent[m].repairs \in Nat /\ spent[m].repairs <= 0
    BY <1>1 DEF PInv, Budgets, RestartBudget, ProvisionTypeOK
  <2>2. spent'[m].repairs <= (IF tx'[m].repaired THEN 1 ELSE 0)
    BY <1>4, <2>1
  <2>3. spent'[m].restarts <= tx'[m].planned + tx'[m].repairs
    BY <1>1, <1>4 DEF PInv, Budgets, RestartBudget
  <2>4. \A x \in Manifests \ {m} :
          /\ spent'[x].restarts <= tx'[x].planned + tx'[x].repairs
          /\ spent'[x].repairs <= (IF tx'[x].repaired THEN 1 ELSE 0)
    BY <1>4 DEF PInv, Budgets, RestartBudget
  <2> QED BY <2>2, <2>3, <2>4 DEF RestartBudget
<1>6. RepairFirst'
  <2>1. tx[m].repairs = 0
    BY <1>1 DEF PInv, Budgets, RepairFirst, ProvisionTypeOK, Tx
  <2>2. \A x \in Manifests : tx'[x].repairs = 1 => tx'[x].repaired
    BY <1>4 DEF PInv, Budgets, RepairFirst
  <2> QED BY <1>2, <1>4, <2>1, <2>2 DEF RepairFirst
<1>7. Requested'
  BY <1>1, <1>2 DEF Requested
<1> QED BY <1>1, <1>2, <1>3, <1>5, <1>6, <1>7
     DEF PInv, ProvisionTypeOK, Budgets, Spent, Request

LEMMA ProvisionKeeps == ASSUME PInv, Provision PROVE PInv'
BY BeginKeeps, FailKeeps, FetchKeeps, DownloadedKeeps, InstallWheelsKeeps, RestartKeeps,
   StartKeeps, DownloadKeeps, InstallNodeKeeps, ValidateKeeps, ReadyKeeps, RepairKeeps,
   InvalidKeeps DEF Provision

LEMMA WorldKeeps == ASSUME PInv, World \/ ComfyDies PROVE PInv'
<1>1. ASSUME NEW f \in Files, Upload(f) \/ Damage(f, "damaged") \/ Damage(f, "absent")
      PROVE  PInv'
  <2>1. /\ UNCHANGED <<up, dir, pip, comfy, installed, tx, spent>>
        /\ file' \in [Files -> {"absent", "damaged", "verified"}]
        /\ faults' \in 0..MaxFaults
    BY <1>1, FaultTyped DEF Upload, Damage, PInv, ProvisionTypeOK
  <2>2. CASE UNCHANGED apply
    BY <2>1, <2>2 DEF PInv, ProvisionTypeOK, Requested, Budgets, RestartBudget, RepairFirst
  <2>3. CASE apply.pc = "checked" /\ apply' = [apply EXCEPT !.late = @ \cup {f}]
    <3>1. /\ apply' \in Request /\ apply'.m = apply.m /\ apply'.repair = apply.repair
          /\ apply'.pc = "checked"
      BY <2>3 DEF PInv, Requested, Request
    <3> QED BY <2>1, <2>3, <3>1, StepKeeps DEF PInv, ProvisionTypeOK
  <2> QED BY <1>1, <2>2, <2>3 DEF Upload, Damage, Step
<1>2. ASSUME ComfyDies PROVE PInv'
  <2>1. /\ UNCHANGED <<up, file, dir, pip, installed, tx, apply, spent>>
        /\ comfy' \subseteq AllCode /\ faults' \in 0..MaxFaults
    BY <1>2, FaultTyped DEF ComfyDies, Down, machine, PInv
  <2> QED BY <2>1 DEF PInv, ProvisionTypeOK, Requested, Budgets, RestartBudget, RepairFirst
<1> QED BY <1>1, <1>2 DEF World

\* The worker goes, with the request it had; the state file stays.
LEMMA GoneKeeps ==
  ASSUME PInv, UNCHANGED <<file, installed, spent>>, up' \in BOOLEAN,
         dir' \in [Packages -> Revisions], pip' \subseteq Wheels,
         comfy' = Down, faults' \in 0..MaxFaults,
         apply' = Idle, tx' \in [Manifests -> Tx],
         \A m \in Manifests : /\ tx'[m].planned = tx[m].planned
                             /\ tx'[m].repairs = tx[m].repairs
                             /\ tx'[m].repaired = tx[m].repaired
  PROVE  PInv'
<1>1. Requested'
  BY IdleTyped DEF Requested
<1>2. Budgets'
  BY <1>1, IdleTyped, BudgetsStay
<1> QED BY <1>1, <1>2, IdleTyped DEF PInv, ProvisionTypeOK, Requested, Request, Down

\* A crash leaves what pip had done, for a node whose directory it takes all of it.
LEMMA CrashPip ==
  ASSUME PInv, Crash
  PROVE  pip' \subseteq Wheels /\ Provides(pip) \subseteq Provides(pip')
<1>1. CASE PipCutOff
  BY <1>1, CutOffKeeps DEF PInv
<1>2. ASSUME NEW n \in apply.nodes, PipInstall(n.wheels)
      PROVE  pip' \subseteq Wheels /\ Provides(pip) \subseteq Provides(pip')
  <2>1. n.wheels \in SUBSET Wheels /\ pip \subseteq Wheels
    BY PackagesTyped DEF PInv, ProvisionTypeOK
  <2> QED BY <1>2, <2>1, PipKeeps
<1> QED BY <1>1, <1>2 DEF Crash

LEMMA CrashKeeps == ASSUME PInv, Crash PROVE PInv'
<1>1. /\ UNCHANGED <<file, installed, tx, spent>> /\ up' = FALSE
      /\ comfy' = Down /\ apply' = Idle
  BY DEF Crash, Step
<1>2. faults' \in 0..MaxFaults
  BY FaultTyped DEF Crash, PInv
<1>3. dir' \in [Packages -> Revisions]
  <2>1. NoRev \in Revisions /\ \A n \in apply.nodes : n.pkg \in Packages
    BY PackagesTyped DEF Revisions, PInv, Requested, Request
  <2> QED BY <2>1 DEF Crash, PInv, ProvisionTypeOK
<1> QED BY <1>1, <1>2, <1>3, CrashPip, GoneKeeps DEF PInv, ProvisionTypeOK

LEMMA StopPip ==
  ASSUME PInv, WorkerStops
  PROVE  pip' \subseteq Wheels /\ Provides(pip) \subseteq Provides(pip')
<1>1. UNCHANGED pip \/ PipCutOff
  BY DEF WorkerStops
<1> QED BY <1>1, CutOffKeeps DEF PInv, ProvisionTypeOK

LEMMA StopKeeps == ASSUME PInv, WorkerStops PROVE PInv'
<1>1. UNCHANGED <<file, dir, installed, spent>> /\ up' = FALSE /\ comfy' = Down
      /\ pip' \subseteq Wheels
  BY StopPip DEF WorkerStops
<1>2. faults' \in 0..MaxFaults
  BY FaultTyped DEF WorkerStops, PInv
<1>3. CASE apply = Idle /\ UNCHANGED <<tx, apply>>
  BY <1>1, <1>2, <1>3, GoneKeeps DEF PInv, ProvisionTypeOK
<1>4. CASE apply # Idle /\ End("failed")
  <2>1. CASE apply.m \in Manifests
    <3>1. apply' = Idle /\ Recorded(apply.m, "failed")
      BY <1>4 DEF End, Step
    <3> QED BY <1>1, <1>2, <2>1, <3>1, RecordedTyped, GoneKeeps DEF PInv, ProvisionTypeOK
  <2>2. CASE apply.m \notin Manifests
    <3>1. apply' = Idle /\ tx' = tx
      BY <1>4, <2>2 DEF End, Step, Recorded, PInv, ProvisionTypeOK
    <3> QED BY <1>1, <1>2, <3>1, GoneKeeps DEF PInv, ProvisionTypeOK
  <2> QED BY <2>1, <2>2
<1> QED BY <1>3, <1>4 DEF WorkerStops

LEMMA StartsKeeps == ASSUME PInv, WorkerStarts PROVE PInv'
BY DEF WorkerStarts, machine, PInv, ProvisionTypeOK, Requested, Budgets, RestartBudget,
       RepairFirst

---------------------------------------------------------------------------
(* The job manager *)

Record == [state : JobStates, events : 0..MaxEvents]

\* What the job that runs may become: its record is written, it keeps running
\* or the manager is free, and its prompt is not about to be sent.
LEMMA WrittenKeeps ==
  ASSUME JInv, run.pc # "free", UNCHANGED <<up, submitted>>,
         NEW s \in JobStates, NEW e \in 0..MaxEvents, Saved(run.job, s, e),
         \/ s = "running" /\ \E pc \in RunPcs \ {"free", "post"} : Goto(pc)
         \/ s \in Terminal /\ run' = Free
  PROVE  JInv'
<1> DEFINE j == run.job
<1>1. /\ j \in Jobs /\ Open(j) /\ up /\ job' = [job EXCEPT ![j] = [state |-> s, events |-> e]]
      /\ job \in [Jobs -> Record] /\ run \in [pc : RunPcs, job : Jobs \cup {NoJob}]
  BY DEF JInv, JTypeOK, Executing, Saved, Record
<1>2. job' \in [Jobs -> Record] /\ job'[j].state = s
      /\ \A k \in Jobs \ {j} : job'[k] = job[k] /\ ~Open(k)
  <2>1. [state |-> s, events |-> e] \in Record
    BY DEF Record
  <2>2. \A k \in Jobs \ {j} : ~Open(k)
    BY <1>1 DEF JInv, Executing
  <2> QED BY <1>1, <2>1, <2>2
<1>3. \/ s = "running" /\ run'.job = j /\ run'.pc \in RunPcs \ {"free", "post"}
      \/ s # "running" /\ run' = Free
  BY <1>1 DEF Goto, Terminal
<1>4. run' \in [pc : RunPcs, job : Jobs \cup {NoJob}]
  <2>1. Free \in [pc : RunPcs, job : Jobs \cup {NoJob}]
    BY DEF Free, RunPcs
  <2> QED BY <1>1, <2>1 DEF Goto
<1>5. s # "none"
  BY DEF Terminal
<1> HIDE DEF j
<1>6. Executing'
  BY <1>1, <1>2, <1>3 DEF Executing, Free, Open
<1>7. Unsent'
  BY <1>1, <1>2, <1>3, <1>5 DEF JInv, Unsent, Free
<1> QED BY <1>2, <1>4, <1>6, <1>7 DEF JInv, JTypeOK, Record, RunsOnce

LEMMA StartJobKeeps == ASSUME JInv, NEW j \in Jobs, StartJob(j) PROVE JInv'
<1>1. /\ up /\ up' = up /\ submitted' = submitted /\ job[j].state = "none" /\ run = Free
      /\ job' = [job EXCEPT ![j] = [state |-> "running", events |-> 0]]
      /\ run' = [pc |-> "post", job |-> j] /\ job \in [Jobs -> Record]
  BY DEF StartJob, Serving, Accepted, Saved, provisionVars, JInv, JTypeOK, Record
<1>2. \A k \in Jobs : ~Open(k)
  BY <1>1 DEF JInv, Executing, Free
<1>3. job' \in [Jobs -> Record] /\ run' \in [pc : RunPcs, job : Jobs \cup {NoJob}]
  <2>1. [state |-> "running", events |-> 0] \in Record
    BY JobConstants DEF Record, JobStates
  <2> QED BY <1>1, <2>1 DEF RunPcs
<1>4. job'[j].state = "running" /\ \A k \in Jobs \ {j} : job'[k] = job[k]
  BY <1>1
<1>5. Executing'
  BY <1>1, <1>2, <1>4 DEF Executing, Open
<1>6. Unsent'
  BY <1>1, <1>4 DEF JInv, Unsent
<1> QED BY <1>1, <1>3, <1>5, <1>6 DEF JInv, JTypeOK, Record, RunsOnce

\* The number of events of the job that runs.
LEMMA EventsTyped ==
  JInv /\ run.pc # "free" => Events \in 0..MaxEvents /\ (Room => Events + 1 \in 0..MaxEvents)
BY JobConstants DEF JInv, JTypeOK, Executing, Events, Room

LEMMA PostKeeps == ASSUME JInv, PostPrompt PROVE JInv'
<1> DEFINE j == run.job
<1>1. /\ run.pc = "post" /\ up /\ up' = up /\ j \in Jobs /\ Open(j) /\ submitted[j] = 0
      /\ submitted' = [submitted EXCEPT ![j] = @ + 1] /\ job \in [Jobs -> Record]
      /\ submitted \in [Jobs -> Nat]
  BY DEF PostPrompt, AtPc, provisionVars, JInv, JTypeOK, Executing, Unsent, Record
<1>2. submitted' \in [Jobs -> Nat] /\ submitted'[j] = 1
      /\ \A k \in Jobs \ {j} : submitted'[k] = submitted[k]
  BY <1>1
<1>3. RunsOnce'
  BY <1>2 DEF JInv, RunsOnce
<1>4. CASE Goto("events") /\ UNCHANGED job
  <2>1. /\ run' \in [pc : RunPcs, job : Jobs \cup {NoJob}]
        /\ run'.pc = "events" /\ run'.job = j
    BY <1>4 DEF JInv, JTypeOK, Goto, RunPcs
  <2>2. Executing'
    BY <1>1, <1>4, <2>1 DEF JInv, Executing, Open
  <2>3. Unsent'
    <3>1. \A k \in Jobs : job'[k].state = "none" => k # j
      BY <1>1, <1>4 DEF Open
    <3> QED BY <1>2, <1>4, <2>1, <3>1 DEF JInv, Unsent
  <2> QED BY <1>2, <1>3, <1>4, <2>1, <2>2, <2>3 DEF JInv, JTypeOK
<1>5. CASE Finish("failed", 1)
  <2>1. /\ job' = [job EXCEPT ![j] = [state |-> "failed", events |-> 1]] /\ run' = Free
        /\ [state |-> "failed", events |-> 1] \in Record
    BY <1>5, JobConstants DEF Finish, Saved, Record, JobStates, Terminal
  <2>2. /\ job' \in [Jobs -> Record] /\ job'[j].state = "failed"
        /\ \A k \in Jobs \ {j} : job'[k] = job[k]
    BY <1>1, <2>1
  <2>3. run' \in [pc : RunPcs, job : Jobs \cup {NoJob}]
    BY <2>1 DEF Free, RunPcs
  <2>4. Executing'
    BY <1>1, <2>1, <2>2 DEF JInv, Executing, Open, Free
  <2>5. Unsent'
    BY <1>1, <1>2, <2>1, <2>2 DEF JInv, Unsent, Free
  <2> QED BY <1>2, <1>3, <2>2, <2>3, <2>4, <2>5 DEF JInv, JTypeOK, Record
<1> QED BY <1>4, <1>5 DEF PostPrompt

LEMMA NativeEventKeeps == ASSUME JInv, NativeEvent PROVE JInv'
<1>1. run.pc = "events" /\ UNCHANGED <<up, submitted>>
  BY DEF NativeEvent, AtPc, provisionVars
<1>2. PICK pc \in {"events", "history", "ending", "stopping"} : Append(pc)
  BY DEF NativeEvent
<1>3. CASE Room /\ Saved(run.job, "running", Events + 1) /\ Goto(pc)
  <2>1. pc \in RunPcs \ {"free", "post"} /\ "running" \in JobStates
    BY DEF RunPcs, JobStates
  <2> QED BY <1>1, <1>3, <2>1, EventsTyped, WrittenKeeps
<1>4. CASE ~Room /\ Finish("failed", Events)
  BY <1>1, <1>4, EventsTyped, WrittenKeeps DEF Finish, Terminal, JobStates
<1> QED BY <1>2, <1>3, <1>4 DEF Append

LEMMA NativeFailsKeeps == ASSUME JInv, NativeFails PROVE JInv'
<1>1. run.pc # "free" /\ UNCHANGED <<up, submitted>> /\ Finish("failed", Events)
  BY DEF NativeFails, provisionVars, JInv, Executing
<1> QED BY <1>1, EventsTyped, WrittenKeeps DEF Finish, Terminal, JobStates

LEMMA ExecutionEndsKeeps == ASSUME JInv, ExecutionEnds PROVE JInv'
<1>1. run.pc # "free" /\ UNCHANGED <<up, submitted>>
  BY DEF ExecutionEnds, AtPc, provisionVars
<1>2. PICK s \in Terminal : Finish(s, Events)
  BY DEF ExecutionEnds, Terminal
<1> QED BY <1>1, <1>2, EventsTyped, WrittenKeeps DEF Finish, JobStates

LEMMA CrashJobs == ASSUME JInv, MachineCrashes PROVE JInv'
<1>1. UNCHANGED <<job, submitted>> /\ run' = Free /\ up' = FALSE
  BY DEF MachineCrashes, Crash
<1> QED BY <1>1 DEF JInv, JTypeOK, Executing, Unsent, RunsOnce, Open, Free, RunPcs

LEMMA StopJobs == ASSUME JInv, WorkerStops PROVE JInv'
<1>1. UNCHANGED submitted /\ up' = FALSE
  BY DEF WorkerStops
<1>2. CASE run = Free /\ UNCHANGED <<job, run>>
  BY <1>1, <1>2 DEF JInv, JTypeOK, Executing, Unsent, RunsOnce, Open, Free
<1>3. CASE run # Free /\ Finish("interrupted", Events)
  <2>1. run.pc # "free" /\ run.job \in Jobs /\ Events \in 0..MaxEvents
    BY <1>3, EventsTyped DEF JInv, Executing
  <2>2. /\ job' = [job EXCEPT ![run.job] = [state |-> "interrupted", events |-> Events]]
        /\ run' = Free /\ [state |-> "interrupted", events |-> Events] \in Record
    BY <1>3, <2>1 DEF Finish, Saved, Record, JobStates, Terminal
  <2>3. job' \in [Jobs -> Record]
        /\ \A j \in Jobs : job'[j].state = "none" => job[j].state = "none"
    BY <2>1, <2>2 DEF JInv, JTypeOK, Record
  <2>4. Executing' /\ Unsent'
    BY <1>1, <2>2, <2>3 DEF JInv, Executing, Unsent, Free
  <2> QED BY <1>1, <2>2, <2>3, <2>4 DEF JInv, JTypeOK, Record, RunsOnce, Free, RunPcs
<1> QED BY <1>2, <1>3 DEF WorkerStops

\* A worker starts with no record running, because it had no task left.
LEMMA RestartJobs == ASSUME JInv, WorkerRestarts PROVE JInv'
<1>1. ~up /\ up' = TRUE /\ UNCHANGED <<run, submitted>> /\ job' = Reconciled /\ MayStart
  BY DEF WorkerRestarts, WorkerStarts
<1>2. run = Free
  BY <1>1 DEF JInv, Executing
<1>3. job' \in [Jobs -> Record]
  <2>1. ASSUME NEW j \in Jobs, Orphan(job[j])
        PROVE  [state |-> "interrupted", events |-> job[j].events + 1] \in Record
    <3>1. job[j].events \in 0..MaxEvents /\ job[j].events < MaxEvents
      BY <1>1, <2>1 DEF MayStart, JInv, JTypeOK
    <3> QED BY <3>1, JobConstants DEF Record, JobStates, Terminal
  <2>2. job \in [Jobs -> Record]
    BY DEF JInv, JTypeOK, Record
  <2> QED BY <1>1, <2>1, <2>2 DEF Reconciled
<1>4. \A j \in Jobs : /\ job'[j].state # "running"
                      /\ job'[j].state = "none" => job[j].state = "none"
  BY <1>1 DEF Reconciled, Orphan
<1> QED BY <1>1, <1>2, <1>3, <1>4
     DEF JInv, JTypeOK, Record, Executing, Unsent, RunsOnce, Open, Free

\* Provisioning and the world leave the job manager alone.
LEMMA JobsApart ==
  ASSUME JInv, UNCHANGED <<jobVars, up>>
  PROVE  JInv'
BY DEF jobVars, JInv, JTypeOK, Executing, Unsent, RunsOnce, Open

LEMMA UpStays == Provision \/ World \/ ComfyDies => UNCHANGED up
BY DEF Provision, World, ComfyDies, Begin, Fail, Fetch, Downloaded, InstallWheels, Restart,
       Start, Download, InstallNode, ObjectInfo, Hash, Ready, Repair, Invalid, Upload, Damage

---------------------------------------------------------------------------
(* The specification *)

LEMMA InitIInv == Init => IInv
<1> SUFFICES ASSUME Init PROVE IInv
  OBVIOUS
<1>1. ProvisionTypeOK
  BY ProvisionConstants, IdleTyped
     DEF Init, ProvisionInit, ProvisionTypeOK, NoTx, Tx, Revisions, Down, Request
<1>2. Requested
  BY IdleTyped DEF Init, ProvisionInit, Requested
<1>3. Budgets
  BY IdleTyped DEF Init, ProvisionInit, Budgets, RestartBudget, RepairFirst, NoTx
<1>4. JTypeOK
  BY JobConstants DEF Init, JTypeOK, JobStates, Free, RunPcs
<1>5. Executing /\ Unsent /\ RunsOnce
  BY DEF Init, Executing, Unsent, RunsOnce, Free, Open
<1> QED BY <1>1, <1>2, <1>3, <1>4, <1>5 DEF IInv, PInv, JInv

LEMMA StutterIInv == IInv /\ UNCHANGED vars => IInv'
<1> SUFFICES ASSUME IInv, UNCHANGED vars PROVE IInv'
  OBVIOUS
<1>1. PInv'
  BY DEF IInv, vars, provisionVars, PInv, ProvisionTypeOK, Requested, Budgets,
         RestartBudget, RepairFirst
<1>2. JInv'
  BY JobsApart DEF IInv, vars, provisionVars
<1> QED BY <1>1, <1>2 DEF IInv

\* A step of the job manager leaves provisioning alone.
LEMMA ProvisionApart == PInv /\ UNCHANGED provisionVars => PInv'
BY DEF provisionVars, PInv, ProvisionTypeOK, Requested, Budgets, RestartBudget, RepairFirst

LEMMA StepIInv == IInv /\ [Next]_vars => IInv'
<1> SUFFICES ASSUME IInv, [Next]_vars PROVE IInv'
  OBVIOUS
<1>1. PInv /\ JInv
  BY DEF IInv
<1>2. CASE (Provision \/ World \/ ComfyDies) /\ UNCHANGED jobVars
  BY <1>1, <1>2, ProvisionKeeps, WorldKeeps, UpStays, JobsApart DEF IInv
<1>3. CASE \E j \in Jobs : StartJob(j)
  <2>1. UNCHANGED provisionVars
    BY <1>3 DEF StartJob
  <2> QED BY <1>1, <1>3, <2>1, ProvisionApart, StartJobKeeps DEF IInv
<1>4. CASE Execute
  <2>1. UNCHANGED provisionVars
    BY <1>4 DEF Execute, PostPrompt, NativeEvent, NativeFails, ExecutionEnds
  <2> QED BY <1>1, <1>4, <2>1, ProvisionApart, PostKeeps, NativeEventKeeps,
             NativeFailsKeeps, ExecutionEndsKeeps DEF IInv, Execute
<1>5. CASE MachineCrashes
  BY <1>1, <1>5, CrashKeeps, CrashJobs DEF IInv, MachineCrashes
<1>6. CASE WorkerStops
  BY <1>1, <1>6, StopKeeps, StopJobs DEF IInv
<1>7. CASE WorkerRestarts
  BY <1>1, <1>7, StartsKeeps, RestartJobs DEF IInv, WorkerRestarts
<1>8. CASE UNCHANGED vars
  BY <1>8, StutterIInv
<1> QED BY <1>2, <1>3, <1>4, <1>5, <1>6, <1>7, <1>8 DEF Next

\* Every reachable state satisfies the inductive invariant.
THEOREM WorkerInvariance == Spec => []IInv
<1> QED BY InitIInv, StepIInv, PTL DEF Spec

\* Every variable keeps the shape that the code gives it.
THEOREM WorkerTypeCorrect == Spec => []TypeOK
<1>1. IInv => TypeOK
  BY DEF IInv, PInv, JInv, JTypeOK, TypeOK
<1> QED BY <1>1, WorkerInvariance, PTL

\* A manifest never restarts ComfyUI more often than its record in the state
\* file says, and is repaired at most once, whatever is retried or crashes.
THEOREM BudgetsHold == Spec => []RestartBudget
<1>1. IInv => RestartBudget
  BY DEF IInv, PInv, Budgets
<1> QED BY <1>1, WorkerInvariance, PTL

\* Nothing the worker does runs the prompt of a job a second time.
THEOREM PromptsRunOnce == Spec => []RunsOnce
<1>1. IInv => RunsOnce
  BY DEF IInv, JInv
<1> QED BY <1>1, WorkerInvariance, PTL

\* A worker that is up and free has no record of a job that still runs.
THEOREM NoRecordIsOrphaned == Spec => []NoOrphan
<1>1. IInv => NoOrphan
  BY DEF IInv, JInv, Executing, NoOrphan, Free
<1> QED BY <1>1, WorkerInvariance, PTL

\* Only the record of a job that runs is written again.
LEMMA OpenIsWritten ==
  ASSUME IInv, [Next]_vars, NEW j \in Jobs, job[j].state \in Terminal
  PROVE  job'[j] = job[j]
<1>1. job[j].state # "none" /\ ~Open(j) /\ job \in [Jobs -> Record]
  BY DEF Terminal, Open, IInv, JInv, JTypeOK, Record
<1>2. ASSUME NEW s, NEW e, run.pc # "free", Saved(run.job, s, e) PROVE job'[j] = job[j]
  BY <1>1, <1>2 DEF Saved, IInv, JInv, Executing
<1>3. CASE UNCHANGED job
  BY <1>3
<1>4. CASE \E k \in Jobs : StartJob(k)
  BY <1>1, <1>4 DEF StartJob, Accepted, Saved
<1>5. CASE Execute
  <2>1. UNCHANGED job \/ (run.pc # "free" /\ \E s, e : Saved(run.job, s, e))
    BY <1>5 DEF Execute, PostPrompt, NativeEvent, NativeFails, ExecutionEnds, Append,
                Finish, AtPc, IInv, JInv, Executing
  <2> QED BY <1>2, <1>3, <2>1
<1>6. CASE WorkerStops
  <2>1. UNCHANGED job \/ (run.pc # "free" /\ \E s, e : Saved(run.job, s, e))
    BY <1>6 DEF WorkerStops, Finish, IInv, JInv, Executing
  <2> QED BY <1>2, <1>3, <2>1
<1>7. CASE WorkerRestarts
  BY <1>1, <1>7 DEF WorkerRestarts, Reconciled, Orphan, Open
<1> QED BY <1>3, <1>4, <1>5, <1>6, <1>7 DEF Next, jobVars, MachineCrashes, vars

\* A recorded outcome, and the events before it, stay as they are.
THEOREM OutcomesAreFinal == Spec => OutcomeIsFinal
<1>1. IInv /\ [Next]_vars => [\A j \in Jobs : job[j].state \in Terminal => job'[j] = job[j]]_vars
  BY OpenIsWritten
<1> QED BY <1>1, WorkerInvariance, PTL DEF Spec, OutcomeIsFinal

---------------------------------------------------------------------------
(* What an installed manifest stands for *)

WheelsOf(m) == UNION {n.wheels : n \in m.nodes}

\* Wheels whose distributions are installed, and loaded by the ComfyUI that runs.
Present(W) == Provides(W) \subseteq Provides(pip)
Loads(W) ==
  Present(W) /\ (ComfyRuns => Provides(W) \subseteq Provides(comfy \cap Wheels))
InPlace(n) == dir[n.pkg] = n.rev
\* A package that ComfyUI has not loaded in any revision.
Unloaded(p) == \A r \in Revisions : <<p, r>> \notin comfy
\* A crash took the package while it was put in place; no ComfyUI has seen it.
Gone(p) == dir[p] = NoRev /\ Unloaded(p)

\* The packages of the installed manifest are in place, or one was lost in a
\* crash; its wheels are loaded.
InstalledFits == \A o \in Installed.nodes : (InPlace(o) \/ Gone(o.pkg)) /\ Loads(o.wheels)

\* The planned restart of a manifest is recorded when its wheels are installed: a
\* retry, which has none left, finds them loaded.
PlannedFits == \A m \in Manifests : tx[m].planned = 1 => Loads(WheelsOf(m))

\* The request that holds the lock: what the manifest adds is still to be
\* installed or is in place, what is installed is loaded before validation, and
\* what validation found holds until the manifest is installed.
Coming(w) == \/ w[1] \in Provides(pip) \cup Provides(apply.wheels)
             \/ \E n \in apply.nodes : w[1] \in Provides(n.wheels)
Answered == apply.pc \in {"hash", "checked"}
Fitting(m) ==
  /\ Compatible(m) /\ apply.nodes \subseteq m.nodes
  /\ \A n \in NewNodes(m) : (n \in apply.nodes /\ ~Answered) \/ InPlace(n)
  /\ ~apply.repair => /\ apply.changed \/ WheelsOf(m) \subseteq InstalledWheels
                      /\ \A w \in WheelsOf(m) : Coming(w)
  /\ apply.repair => Loads(WheelsOf(m))
  /\ apply.pc \in {"restart", "start", "validate"} =>
       apply.nodes = {} /\ Present(WheelsOf(m))
  /\ apply.pc \in {"start", "validate"} \/ Answered => Loads(WheelsOf(m))
  /\ Answered => \A n \in m.nodes \ apply.nodes :
                   InPlace(n) /\ (ComfyRuns => ~Unloaded(n.pkg))
RequestFits == \A m \in Manifests : apply.pc # "idle" /\ apply.m = m => Fitting(m)

\* The models that were hashed verify until something damages them.
HashedFits ==
  \A m \in Manifests : apply.pc = "checked" /\ apply.m = m =>
    \A f \in m.models \ apply.files : file[f] = "verified" \/ f \in apply.late

Fits == InstalledFits /\ PlannedFits /\ RequestFits /\ HashedFits

LEMMA InstalledTyped ==
  ASSUME PInv
  PROVE  Installed.nodes \subseteq Nodes
<1>1. CASE installed = NoManifest
  BY <1>1 DEF Installed
<1>2. CASE installed # NoManifest
  BY <1>2, PartsTyped DEF Installed, PInv, ProvisionTypeOK
<1> QED BY <1>1, <1>2

LEMMA DeltaSame ==
  ASSUME installed' = installed
  PROVE  /\ Installed' = Installed /\ InstalledWheels' = InstalledWheels
         /\ \A m \in Manifests : /\ Compatible(m)' <=> Compatible(m)
                                 /\ NewNodes(m)' = NewNodes(m)
<1>1. Installed' = Installed
  BY DEF Installed
<1> QED BY <1>1 DEF InstalledWheels, Compatible, NewNodes

\* Distributions are only added, and ComfyUI is left alone or stopped.
MachineGrows == Provides(pip) \subseteq Provides(pip') /\ (comfy' = comfy \/ comfy' = Down)

LEMMA LoadsStay ==
  MachineGrows => \A W : (Loads(W) => Loads(W)') /\ (Present(W) => Present(W)')
BY DEF MachineGrows, Loads, Present, ComfyRuns

LEMMA PlannedStays ==
  ASSUME PlannedFits, MachineGrows, \A m \in Manifests : tx'[m].planned = tx[m].planned
  PROVE  PlannedFits'
BY LoadsStay DEF PlannedFits

LEMMA InstalledStays ==
  ASSUME InstalledFits, MachineGrows, installed' = installed,
         \A o \in Installed.nodes : \/ dir'[o.pkg] = dir[o.pkg]
                                    \/ dir'[o.pkg] = o.rev
                                    \/ dir'[o.pkg] = NoRev /\ comfy' = Down
  PROVE  InstalledFits'
<1>1. Installed' = Installed
  BY DeltaSame
<1>2. ASSUME NEW o \in Installed.nodes
      PROVE  (InPlace(o) \/ Gone(o.pkg))' /\ Loads(o.wheels)'
  <2>1. (InPlace(o) \/ Gone(o.pkg)) /\ Loads(o.wheels)
    BY DEF InstalledFits
  <2>2. (InPlace(o) \/ Gone(o.pkg))'
    BY <2>1 DEF InPlace, Gone, Unloaded, MachineGrows, Down
  <2> QED BY <2>1, <2>2, LoadsStay
<1> QED BY <1>1, <1>2 DEF InstalledFits

\* A request that ends, as far as it is concerned.
LEMMA EndFits ==
  ASSUME PInv, Fits, apply.pc # "idle", NEW s \in {"awaiting_upload", "failed", "ready"},
         End(s), MachineGrows
  PROVE  PlannedFits' /\ RequestFits' /\ HashedFits'
<1>1. apply' = Idle /\ Recorded(apply.m, s) /\ apply.m \in Manifests /\ ProvisionTypeOK
  BY DEF End, Step, PInv, Requested
<1>2. \A m \in Manifests : tx'[m].planned = tx[m].planned
  BY <1>1, RecordedTyped
<1> QED BY <1>1, <1>2, PlannedStays, IdleTyped DEF Fits, RequestFits, HashedFits

\* A request that goes on without having installed anything.
LEMMA RequestGoesOn ==
  ASSUME PInv, RequestFits, MachineGrows, installed' = installed, dir' = dir, pip' = pip,
         apply'.m = apply.m, apply'.nodes = apply.nodes, apply'.wheels = apply.wheels,
         apply'.repair = apply.repair, apply'.changed = apply.changed,
         \/ apply'.pc = apply.pc
         \/ ~Answered /\ apply'.pc \in {"fetch", "download", "install"},
         apply.pc = "idle" => apply'.pc = "idle"
  PROVE  RequestFits'
<1> SUFFICES ASSUME NEW m \in Manifests, apply'.pc # "idle", apply'.m = m
             PROVE  Fitting(m)'
  BY DEF RequestFits
<1>1. Fitting(m)
  BY DEF RequestFits
<1>2. (Compatible(m)' <=> Compatible(m)) /\ NewNodes(m)' = NewNodes(m)
      /\ InstalledWheels' = InstalledWheels
  BY DeltaSame
<1>3. Loads(WheelsOf(m)) => Loads(WheelsOf(m))'
  BY LoadsStay
<1>4. \A w : Coming(w) => Coming(w)'
  BY DEF Coming
<1>5. \A n : InPlace(n) => InPlace(n)'
  BY DEF InPlace
<1>6. Present(WheelsOf(m)) => Present(WheelsOf(m))'
  BY LoadsStay
<1>7. \A p : (ComfyRuns => ~Unloaded(p)) => (ComfyRuns => ~Unloaded(p))'
  BY DEF MachineGrows, Unloaded, ComfyRuns
<1>8. Answered' => Answered
  BY DEF Answered
<1> QED BY <1>1, <1>2, <1>3, <1>4, <1>5, <1>6, <1>7, <1>8 DEF Fitting, Answered

\* Nothing that provisioning relies on has changed, but for a ComfyUI that died and
\* files that were damaged, of which the request knows.
LEMMA UnchangedFits ==
  ASSUME PInv, Fits, UNCHANGED <<dir, pip, installed, tx>>,
         comfy' = comfy \/ comfy' = Down,
         apply'.m = apply.m, apply'.nodes = apply.nodes, apply'.wheels = apply.wheels,
         apply'.repair = apply.repair, apply'.changed = apply.changed,
         apply'.pc = apply.pc, apply'.files = apply.files,
         \A f : f \in apply.late => f \in apply'.late,
         apply.pc = "checked" =>
           \A f \in Files : file'[f] = file[f] \/ f \in apply'.late
  PROVE  Fits'
<1>1. MachineGrows
  BY DEF MachineGrows
<1>2. HashedFits'
  BY PartsTyped DEF Fits, HashedFits
<1> QED BY <1>1, <1>2, InstalledStays, PlannedStays, RequestGoesOn DEF Fits

\* A request ends and leaves the machine as it is, but for ComfyUI and pip.
LEMMA EndedFits ==
  ASSUME PInv, Fits, apply.pc # "idle", NEW s \in {"awaiting_upload", "failed"}, End(s),
         UNCHANGED <<dir, installed>>, Provides(pip) \subseteq Provides(pip'),
         comfy' = comfy \/ comfy' = Down
  PROVE  Fits'
<1>1. MachineGrows
  BY DEF MachineGrows
<1> QED BY <1>1, EndFits, InstalledStays DEF Fits

LEMMA InstalledLoads == Fits => Loads(InstalledWheels)
BY DEF Fits, InstalledFits, Loads, Present, InstalledWheels, Provides

LEMMA NewWheelsAre ==
  ASSUME PInv, NEW m \in Manifests, NEW w \in WheelsOf(m)
  PROVE  \/ w \in InstalledWheels
         \/ w \in Standalone(m)
         \/ \E n \in NewNodes(m) : w \in n.wheels
BY DEF WheelsOf, Standalone, NewWheels, NewNodes

LEMMA BeginFits ==
  ASSUME PInv, Fits, NEW m \in Manifests, Begin(m)
  PROVE  Fits'
<1>1. apply.pc = "idle" /\ UNCHANGED <<dir, pip, comfy, installed>> /\ MachineGrows
  BY DEF Begin, At, machine, MachineGrows
<1>2. PICK s \in {"applying", "failed"} : Recorded(m, s)
  BY DEF Begin
<1>3. PlannedFits' /\ InstalledFits'
  <2>1. \A x \in Manifests : tx'[x].planned = tx[x].planned
    BY <1>2, RecordedTyped DEF PInv
  <2> QED BY <1>1, <2>1, PlannedStays, InstalledStays DEF Fits
<1>4. CASE UNCHANGED apply
  BY <1>1, <1>3, <1>4 DEF Fits, RequestFits, HashedFits
<1>5. CASE ~UNCHANGED apply
  <2>1. /\ Compatible(m)
        /\ apply' = [Idle EXCEPT !.pc = "fetch", !.m = m, !.files = NewFiles(m),
                       !.nodes = NewNodes(m), !.wheels = Standalone(m),
                       !.changed = NewNodes(m) # {} \/ Standalone(m) # {}]
    BY <1>5 DEF Begin, Step
  <2>2. /\ apply'.pc = "fetch" /\ apply'.m = m /\ apply'.nodes = NewNodes(m)
        /\ apply'.wheels = Standalone(m) /\ apply'.repair = FALSE
        /\ apply'.changed = (NewNodes(m) # {} \/ Standalone(m) # {})
    BY <2>1 DEF Idle
  <2>3. (Compatible(m)' <=> Compatible(m)) /\ NewNodes(m)' = NewNodes(m)
        /\ InstalledWheels' = InstalledWheels
    BY <1>1, DeltaSame
  <2>4. Provides(InstalledWheels) \subseteq Provides(pip)
    BY InstalledLoads DEF Loads, Present
  <2>5. \A w \in WheelsOf(m) : Coming(w)'
    BY <1>1, <2>2, <2>4, NewWheelsAre DEF Coming, Provides
  <2>6. apply'.changed \/ WheelsOf(m) \subseteq InstalledWheels
    BY <2>2, NewWheelsAre
  <2>7. apply'.nodes \subseteq m.nodes
    BY <2>2 DEF NewNodes
  <2>8. Fitting(m)'
    BY <2>1, <2>2, <2>3, <2>5, <2>6, <2>7 DEF Fitting, Answered
  <2> QED BY <1>3, <2>2, <2>8 DEF Fits, RequestFits, HashedFits
<1> QED BY <1>4, <1>5

\* Fetching and downloading write files only.
LEMMA TransferFits ==
  ASSUME PInv, Fits, Fetch \/ Downloaded \/ \E f \in Files : Download(f)
  PROVE  Fits'
<1>1. /\ apply.pc \in {"fetch", "download"} /\ UNCHANGED <<dir, pip, comfy, installed>>
      /\ MachineGrows
  BY DEF Fetch, Downloaded, Download, At, machine, MachineGrows
<1>2. CASE \E s \in {"awaiting_upload", "failed"} : End(s)
  BY <1>1, <1>2, EndedFits
<1>3. CASE ~\E s \in {"awaiting_upload", "failed"} : End(s)
  <2>1. /\ apply'.m = apply.m /\ apply'.nodes = apply.nodes /\ apply'.wheels = apply.wheels
        /\ apply'.repair = apply.repair /\ apply'.changed = apply.changed
        /\ apply'.pc \in {"fetch", "download", "install"}
    <3>1. apply \in Request
      BY DEF PInv, Requested
    <3>2. CASE Fetch
      <4>1. \E files : apply' = [apply EXCEPT !.pc = "download", !.files = files]
        BY <1>3, <3>2 DEF Fetch, Step
      <4> QED BY <3>1, <4>1 DEF Request
    <3>3. CASE Downloaded
      <4>1. \/ apply' = [apply EXCEPT !.pc = "install"]
            \/ \E files : apply' = [apply EXCEPT !.pc = "fetch", !.force = FALSE,
                                      !.files = files]
        BY <3>3 DEF Downloaded, Step
      <4> QED BY <3>1, <4>1 DEF Request
    <3>4. CASE \E f \in Files : Download(f)
      <4>1. apply.pc = "download"
            /\ \E files : apply' = [apply EXCEPT !.files = files]
        BY <3>4 DEF Download, At, Step
      <4> QED BY <3>1, <4>1 DEF Request
    <3> QED BY <3>2, <3>3, <3>4
  <2>2. UNCHANGED tx
    BY <1>3 DEF Fetch, Downloaded, Download
  <2> QED BY <1>1, <2>1, <2>2, InstalledStays, PlannedStays, RequestGoesOn
         DEF Fits, HashedFits, Answered
<1> QED BY <1>2, <1>3

\* A package of the request, put in place: it is no other revision of one that
\* the installed manifest has, nor of another of its own.
LEMMA InstallNodeFits ==
  ASSUME PInv, Fits, NEW n \in Nodes, InstallNode(n)
  PROVE  Fits'
<1>1. /\ apply.pc = "install" /\ n \in apply.nodes /\ UNCHANGED <<comfy, installed>>
      /\ apply.m \in Manifests
  BY DEF InstallNode, At, PInv, Requested
<1>2. CASE End("failed") /\ UNCHANGED <<dir, pip>>
  BY <1>1, <1>2, EndedFits
<1>3. CASE /\ PipInstall(n.wheels) /\ dir' = [dir EXCEPT ![n.pkg] = n.rev]
           /\ Step([apply EXCEPT !.nodes = @ \ {n}]) /\ UNCHANGED tx
  <2> PICK m \in Manifests : m = apply.m
    BY <1>1
  <2>1. Fitting(m) /\ n \in m.nodes
    BY <1>1 DEF Fits, RequestFits, Fitting
  <2>2. /\ apply'.m = m /\ apply'.nodes = apply.nodes \ {n} /\ apply'.wheels = apply.wheels
        /\ apply'.repair = apply.repair /\ apply'.changed = apply.changed
        /\ apply'.pc = "install"
    BY <1>1, <1>3 DEF Step, PInv, Requested, Request
  <2>0. n.wheels \in SUBSET Wheels /\ pip \subseteq Wheels
    BY PackagesTyped DEF PInv, ProvisionTypeOK
  <2>3. MachineGrows /\ Provides(n.wheels) \subseteq Provides(pip')
    BY <1>1, <1>3, <2>0, PipKeeps DEF MachineGrows
  <2>4. dir'[n.pkg] = n.rev /\ \A p \in Packages : p # n.pkg => dir'[p] = dir[p]
    BY <1>3, PackagesTyped DEF PInv, ProvisionTypeOK
  <2>5. InstalledFits'
    <3>1. ASSUME NEW o \in Installed.nodes
          PROVE  dir'[o.pkg] = dir[o.pkg] \/ dir'[o.pkg] = o.rev
      <4>1. o.pkg \in Packages
        BY InstalledTyped, PackagesTyped
      <4>2. n.pkg = o.pkg => n.rev = o.rev
        BY <2>1 DEF Fitting, Compatible
      <4> QED BY <2>4, <4>1, <4>2
    <3> QED BY <1>1, <2>3, <3>1, InstalledStays DEF Fits
  <2>6. Fitting(m)'
    <3>1. (Compatible(m)' <=> Compatible(m)) /\ NewNodes(m)' = NewNodes(m)
          /\ InstalledWheels' = InstalledWheels
      BY <1>1, DeltaSame
    <3>2. \A o \in NewNodes(m) : o \in apply'.nodes \/ InPlace(o)'
      <4> SUFFICES ASSUME NEW o \in NewNodes(m)
                   PROVE  o \in apply'.nodes \/ InPlace(o)'
        OBVIOUS
      <4>1. o \in m.nodes /\ o.pkg \in Packages
        BY PartsTyped, PackagesTyped DEF NewNodes
      <4>2. o.pkg = n.pkg => o = n
        BY <2>1, <4>1, ManifestsValid
      <4> QED BY <2>1, <2>2, <2>4, <4>1, <4>2 DEF Fitting, InPlace
    <3>3. \A w : Coming(w) => Coming(w)'
      BY <2>2, <2>3 DEF Coming, MachineGrows
    <3>4. Loads(WheelsOf(m)) => Loads(WheelsOf(m))'
      BY <2>3, LoadsStay
    <3>5. ~Answered'
      BY <2>2 DEF Answered
    <3> QED BY <2>1, <2>2, <3>1, <3>2, <3>3, <3>4, <3>5 DEF Fitting
  <2> QED BY <1>3, <2>2, <2>3, <2>5, <2>6, PlannedStays DEF Fits, RequestFits, HashedFits
<1> QED BY <1>2, <1>3 DEF InstallNode

LEMMA InstallWheelsFits ==
  ASSUME PInv, Fits, InstallWheels
  PROVE  Fits'
<1>1. /\ apply.pc = "install" /\ apply.nodes = {} /\ UNCHANGED <<dir, comfy, installed>>
      /\ apply.m \in Manifests
  BY DEF InstallWheels, At, PInv, Requested
<1>2. CASE End("failed") /\ UNCHANGED pip
  BY <1>1, <1>2, EndedFits
<1>3. CASE /\ PipInstall(apply.wheels) /\ UNCHANGED tx
           /\ Step([apply EXCEPT !.pc = IF apply.repair /\ ~apply.changed
                                        THEN "validate" ELSE "restart"])
  <2> PICK m \in Manifests : m = apply.m
    BY <1>1
  <2>1. Fitting(m)
    BY <1>1 DEF Fits, RequestFits
  <2>2. /\ apply'.m = m /\ apply'.nodes = {} /\ apply'.wheels = apply.wheels
        /\ apply'.repair = apply.repair /\ apply'.changed = apply.changed
        /\ apply'.pc = "restart" \/ (apply'.pc = "validate" /\ apply.repair)
    BY <1>1, <1>3 DEF Step, PInv, Requested, Request
  <2>0. apply.wheels \in SUBSET Wheels /\ pip \subseteq Wheels
    BY DEF PInv, ProvisionTypeOK
  <2>3. MachineGrows /\ Provides(apply.wheels) \subseteq Provides(pip')
    BY <1>1, <1>3, <2>0, PipKeeps DEF MachineGrows
  <2>4. Present(WheelsOf(m))'
    <3>1. CASE apply.repair
      BY <2>1, <2>3, <3>1, LoadsStay DEF Fitting, Loads
    <3>2. CASE ~apply.repair
      <4>1. \A w \in WheelsOf(m) : w[1] \in Provides(pip')
        BY <1>1, <2>1, <2>3, <3>2 DEF Fitting, Coming, MachineGrows
      <4> QED BY <4>1 DEF Present, Provides
    <3> QED BY <3>1, <3>2 DEF PInv, Requested, Request
  <2>5. Loads(WheelsOf(m)) => Loads(WheelsOf(m))'
    BY <2>3, LoadsStay
  <2>6. Fitting(m)'
    <3>1. (Compatible(m)' <=> Compatible(m)) /\ NewNodes(m)' = NewNodes(m)
          /\ InstalledWheels' = InstalledWheels
      BY <1>1, DeltaSame
    <3>2. \A o \in NewNodes(m) : InPlace(o)'
      BY <1>1, <2>1 DEF Fitting, InPlace
    <3>3. \A w \in WheelsOf(m) : Coming(w)'
      BY <2>4 DEF Coming, Present, Provides
    <3>4. ~Answered'
      BY <2>2 DEF Answered
    <3> QED BY <2>1, <2>2, <2>4, <2>5, <3>1, <3>2, <3>3, <3>4 DEF Fitting
  <2> QED BY <1>1, <1>3, <2>2, <2>3, <2>6, InstalledStays, PlannedStays
         DEF Fits, RequestFits, HashedFits
<1> QED BY <1>2, <1>3 DEF InstallWheels

\* The planned restart is recorded once the wheels are there; a request that may
\* not restart finds them loaded, by an earlier restart or with what is installed.
LEMMA RestartFits ==
  ASSUME PInv, Fits, Restart
  PROVE  Fits'
<1>1. /\ apply.pc = "restart" /\ apply.m \in Manifests
      /\ apply' = [apply EXCEPT !.pc = "start"] /\ UNCHANGED <<dir, pip, installed>>
  BY DEF Restart, At, Step, machine, PInv, Requested
<1> PICK m \in Manifests : m = apply.m
  BY <1>1
<1>2. Fitting(m)
  BY <1>1 DEF Fits, RequestFits
<1>3. /\ apply'.m = m /\ apply'.nodes = apply.nodes /\ apply'.wheels = apply.wheels
      /\ apply'.repair = apply.repair /\ apply'.changed = apply.changed
      /\ apply'.pc = "start"
  BY <1>1 DEF PInv, Requested, Request
<1>4. MachineGrows /\ \/ comfy' = Down
                      \/ UNCHANGED <<tx, comfy>> /\ ~MayRestart
  BY <1>1 DEF Restart, MachineGrows
<1>5. Present(WheelsOf(m))
  BY <1>1, <1>2 DEF Fitting
<1>6. Loads(WheelsOf(m))'
  <2>1. CASE comfy' = Down
    BY <1>1, <1>5, <2>1 DEF Loads, Present, ComfyRuns
  <2>2. CASE comfy' = comfy /\ ~MayRestart
    <3>1. Loads(WheelsOf(m))
      <4>1. CASE apply.repair
        BY <1>2, <4>1 DEF Fitting
      <4>2. CASE ~apply.repair /\ ~apply.changed
        <5>1. WheelsOf(m) \subseteq InstalledWheels
          BY <1>2, <4>2 DEF Fitting
        <5> QED BY <1>5, <5>1, InstalledLoads, ProvidesMore DEF Loads
      <4>3. CASE ~apply.repair /\ apply.changed
        <5>1. tx[m].planned # 0
          BY <2>2, <4>3 DEF MayRestart
        <5>2. tx[m].planned = 1
          BY <5>1 DEF PInv, ProvisionTypeOK, Tx
        <5> QED BY <5>2 DEF Fits, PlannedFits
      <4> QED BY <4>1, <4>2, <4>3
    <3> QED BY <1>4, <3>1, LoadsStay
  <2> QED BY <1>4, <2>1, <2>2
<1>7. PlannedFits'
  <2>1. \A x \in Manifests : x # m => tx'[x].planned = tx[x].planned
    BY <1>1 DEF Restart, PInv, ProvisionTypeOK, Tx
  <2> QED BY <1>4, <1>6, <2>1, LoadsStay DEF Fits, PlannedFits
<1>8. Fitting(m)'
  <2>1. (Compatible(m)' <=> Compatible(m)) /\ NewNodes(m)' = NewNodes(m)
        /\ InstalledWheels' = InstalledWheels
    BY <1>1, DeltaSame
  <2>2. \A o : InPlace(o) => InPlace(o)'
    BY <1>1 DEF InPlace
  <2>3. \A w \in WheelsOf(m) : Coming(w)'
    BY <1>1, <1>5 DEF Coming, Present, Provides
  <2>4. ~Answered' /\ Present(WheelsOf(m))'
    BY <1>1, <1>3, <1>5 DEF Answered, Present
  <2> QED BY <1>1, <1>2, <1>3, <1>6, <2>1, <2>2, <2>3, <2>4 DEF Fitting
<1> QED BY <1>1, <1>3, <1>4, <1>7, <1>8, InstalledStays DEF Fits, RequestFits, HashedFits

\* What a starting ComfyUI loads: every wheel that is installed, and no package
\* that is gone.
LEMMA StartLoads ==
  ASSUME PInv, Start
  PROVE  /\ \A W : Loads(W) => Loads(W)'
         /\ \A p \in Packages : Gone(p) => Gone(p)'
<1>1. UNCHANGED <<dir, pip>> /\ pip \subseteq Wheels
  BY DEF Start, machine, PInv, ProvisionTypeOK
<1>2. CASE UNCHANGED comfy
  BY <1>1, <1>2 DEF Loads, Present, ComfyRuns, Gone, Unloaded
<1>3. CASE comfy' \subseteq Code /\ Code \cap Wheels \subseteq comfy'
  <2>1. \A W : Loads(W) => Loads(W)'
    <3>1. pip \subseteq comfy' \cap Wheels
      BY <1>1, <1>3 DEF Code
    <3>2. Provides(pip) \subseteq Provides(comfy' \cap Wheels)
      BY <3>1, ProvidesMore
    <3> QED BY <1>1, <3>2 DEF Loads, Present
  <2>2. ASSUME NEW p \in Packages, dir[p] = NoRev, NEW r \in Revisions
        PROVE  <<p, r>> \notin Code
    <3>1. <<p, r>> \notin pip /\ <<p, r>> # Core
      BY <1>1, ManifestsValid
    <3> QED BY <2>2, <3>1 DEF Code
  <2> QED BY <1>1, <1>3, <2>1, <2>2 DEF Gone, Unloaded
<1>4. ASSUME NEW p \in Packages, comfy' = Code \ {<<p, dir[p]>>}
      PROVE  Code \cap Wheels \subseteq comfy'
  <2>1. <<p, dir[p]>> \in Packages \X Revisions
    BY DEF PInv, ProvisionTypeOK
  <2> QED BY <1>4, <2>1, ManifestsValid
<1> QED BY <1>2, <1>3, <1>4 DEF Start

LEMMA StartFits ==
  ASSUME PInv, Fits, Start
  PROVE  Fits'
<1>1. /\ apply.pc = "start" /\ apply.m \in Manifests
      /\ apply' = [apply EXCEPT !.pc = "validate"] /\ UNCHANGED <<dir, pip, installed, tx>>
  BY DEF Start, At, Step, machine, PInv, Requested
<1> PICK m \in Manifests : m = apply.m
  BY <1>1
<1>2. Fitting(m)
  BY <1>1 DEF Fits, RequestFits
<1>3. /\ apply'.m = m /\ apply'.nodes = apply.nodes /\ apply'.wheels = apply.wheels
      /\ apply'.repair = apply.repair /\ apply'.changed = apply.changed
      /\ apply'.pc = "validate"
  BY <1>1 DEF PInv, Requested, Request
<1>4. \A x \in Manifests : Loads(WheelsOf(x)) => Loads(WheelsOf(x))'
  BY StartLoads
<1>5. PlannedFits'
  BY <1>1, <1>4 DEF Fits, PlannedFits
<1>6. InstalledFits'
  <2>1. Installed' = Installed
    BY <1>1, DeltaSame
  <2>2. ASSUME NEW o \in Installed.nodes
        PROVE  (InPlace(o) \/ Gone(o.pkg))' /\ Loads(o.wheels)'
    <3>1. (InPlace(o) \/ Gone(o.pkg)) /\ Loads(o.wheels)
      BY DEF Fits, InstalledFits
    <3>2. o.pkg \in Packages
      BY InstalledTyped, PackagesTyped
    <3>3. InPlace(o) => InPlace(o)'
      BY <1>1 DEF InPlace
    <3> QED BY <3>1, <3>2, <3>3, StartLoads
  <2> QED BY <2>1, <2>2 DEF InstalledFits
<1>7. Fitting(m)'
  <2>1. (Compatible(m)' <=> Compatible(m)) /\ NewNodes(m)' = NewNodes(m)
        /\ InstalledWheels' = InstalledWheels
    BY <1>1, DeltaSame
  <2>2. \A o : InPlace(o) => InPlace(o)'
    BY <1>1 DEF InPlace
  <2>3. \A w : Coming(w) => Coming(w)'
    BY <1>1, <1>3 DEF Coming
  <2>4. ~Answered' /\ (Present(WheelsOf(m)) => Present(WheelsOf(m))')
    BY <1>1, <1>3 DEF Answered, Present
  <2> QED BY <1>1, <1>2, <1>3, <1>4, <2>1, <2>2, <2>3, <2>4 DEF Fitting
<1> QED BY <1>3, <1>5, <1>6, <1>7 DEF Fits, RequestFits, HashedFits

\* The classes that ComfyUI knows are of packages that are in place.
LEMMA ObjectInfoFits ==
  ASSUME PInv, Fits, ObjectInfo
  PROVE  Fits'
<1>1. /\ apply.pc = "validate" /\ ComfyRuns /\ apply.m \in Manifests
      /\ UNCHANGED <<dir, pip, comfy, installed, tx>> /\ MachineGrows
  BY DEF ObjectInfo, At, machine, MachineGrows, PInv, Requested
<1> PICK m \in Manifests : m = apply.m
  BY <1>1
<1>2. Fitting(m) /\ apply.nodes = {} /\ Loads(WheelsOf(m))
  BY <1>1 DEF Fits, RequestFits, Fitting
<1>3. /\ apply'.pc = "hash" /\ apply'.m = m /\ apply'.nodes = MissingNodes(m)
      /\ apply'.wheels = apply.wheels /\ apply'.repair = apply.repair
      /\ apply'.changed = apply.changed
  BY DEF ObjectInfo, Step, PInv, Requested, Request
<1>4. ASSUME NEW n \in m.nodes \ MissingNodes(m) PROVE InPlace(n) /\ ~Unloaded(n.pkg)
  <2>1. ~Unloaded(n.pkg)
    BY DEF MissingNodes, Unloaded
  <2>2. CASE n \in NewNodes(m)
    BY <1>2, <2>1, <2>2 DEF Fitting
  <2>3. CASE n \notin NewNodes(m)
    <3>1. PICK o \in Installed.nodes : n.pkg = o.pkg
      BY <2>3 DEF NewNodes
    <3>2. n.rev = o.rev
      BY <1>2, <3>1 DEF Fitting, Compatible
    <3>3. InPlace(o)
      BY <2>1, <3>1 DEF Fits, InstalledFits, Gone
    <3> QED BY <2>1, <3>1, <3>2, <3>3 DEF InPlace
  <2> QED BY <2>2, <2>3
<1>5. Fitting(m)'
  <2>1. (Compatible(m)' <=> Compatible(m)) /\ NewNodes(m)' = NewNodes(m)
        /\ InstalledWheels' = InstalledWheels
    BY <1>1, DeltaSame
  <2>2. apply'.nodes \subseteq m.nodes
    BY <1>3 DEF MissingNodes
  <2>3. \A o : InPlace(o)' <=> InPlace(o)
    BY <1>1 DEF InPlace
  <2>4. \A p : Unloaded(p)' <=> Unloaded(p)
    BY <1>1 DEF Unloaded
  <2>5. Loads(WheelsOf(m))'
    BY <1>1, <1>2, LoadsStay
  <2>6. \A w \in WheelsOf(m) : Coming(w)'
    BY <2>5 DEF Loads, Present, Coming, Provides
  <2>7. \A n \in NewNodes(m) : InPlace(n)'
    BY <1>2, <2>3 DEF Fitting
  <2>8. \A n \in m.nodes \ apply'.nodes : InPlace(n)' /\ ~Unloaded(n.pkg)'
    BY <1>3, <1>4, <2>3, <2>4
  <2> QED BY <1>2, <1>3, <2>1, <2>2, <2>5, <2>6, <2>7, <2>8 DEF Fitting
<1> QED BY <1>1, <1>3, <1>5, InstalledStays, PlannedStays DEF Fits, RequestFits, HashedFits

LEMMA HashFits ==
  ASSUME PInv, Fits, Hash
  PROVE  Fits'
<1>1. /\ apply.pc = "hash" /\ apply.m \in Manifests
      /\ UNCHANGED <<file, dir, pip, comfy, installed, tx>> /\ MachineGrows
  BY DEF Hash, At, machine, MachineGrows, PInv, Requested
<1> PICK m \in Manifests : m = apply.m
  BY <1>1
<1>2. Fitting(m)
  BY <1>1 DEF Fits, RequestFits
<1>3. /\ apply'.pc = "checked" /\ apply'.m = m /\ apply'.nodes = apply.nodes
      /\ apply'.wheels = apply.wheels /\ apply'.repair = apply.repair
      /\ apply'.changed = apply.changed /\ apply'.files = MissingModels(m)
  BY DEF Hash, Step, PInv, Requested, Request
<1>4. HashedFits'
  BY <1>1, <1>3 DEF HashedFits, MissingModels
<1>5. Fitting(m)'
  <2>1. (Compatible(m)' <=> Compatible(m)) /\ NewNodes(m)' = NewNodes(m)
        /\ InstalledWheels' = InstalledWheels
    BY <1>1, DeltaSame
  <2>2. \A o : InPlace(o)' <=> InPlace(o)
    BY <1>1 DEF InPlace
  <2>3. \A p : Unloaded(p)' <=> Unloaded(p)
    BY <1>1 DEF Unloaded
  <2>4. Loads(WheelsOf(m)) => Loads(WheelsOf(m))'
    BY <1>1, LoadsStay
  <2>5. \A w : Coming(w)' <=> Coming(w)
    BY <1>1, <1>3 DEF Coming
  <2>6. ComfyRuns' <=> ComfyRuns
    BY <1>1 DEF ComfyRuns
  <2>7. Answered /\ Answered'
    BY <1>1, <1>3 DEF Answered
  <2> QED BY <1>2, <1>3, <2>1, <2>2, <2>3, <2>4, <2>5, <2>6, <2>7 DEF Fitting
<1> QED BY <1>1, <1>3, <1>4, <1>5, InstalledStays, PlannedStays DEF Fits, RequestFits

\* Nothing was found missing of the manifest that becomes the installed one.
LEMMA ReadyIs ==
  ASSUME PInv, Fits, Ready
  PROVE  /\ installed' \in Manifests /\ installed' # NoManifest /\ Usable(installed')
         /\ \A n \in installed'.nodes : InPlace(n)
         /\ Loads(WheelsOf(installed'))
<1> PICK m \in Manifests : m = apply.m
  BY DEF Ready, At, PInv, Requested
<1>1. /\ installed' = m /\ m # NoManifest /\ apply.pc = "checked"
      /\ apply.nodes = {} /\ apply.files = {}
  BY ProvisionConstants DEF Ready, At, Missing
<1>2. Fitting(m) /\ Answered /\ \A f \in m.models : file[f] = "verified" \/ f \in apply.late
  BY <1>1 DEF Fits, RequestFits, HashedFits, Answered
<1>3. /\ Loads(WheelsOf(m))
      /\ \A n \in m.nodes : InPlace(n) /\ (ComfyRuns => ~Unloaded(n.pkg))
  BY <1>1, <1>2 DEF Fitting
<1>4. ASSUME NEW n \in m.nodes PROVE Provides(n.wheels) \subseteq Provides(WheelsOf(m))
  BY ProvidesMore DEF WheelsOf
<1>5. ASSUME NEW n \in m.nodes, ComfyRuns PROVE Loaded(n)
  BY <1>3, <1>4, <1>5 DEF Loads, Loaded, Unloaded
<1>6. Usable(m)
  BY <1>2, <1>3, <1>5 DEF Usable, InPlace
<1> QED BY <1>1, <1>3, <1>6

LEMMA ReadyFits ==
  ASSUME PInv, Fits, Ready
  PROVE  Fits'
<1>1. apply.pc = "checked" /\ End("ready") /\ UNCHANGED <<dir, pip, comfy>> /\ MachineGrows
  BY DEF Ready, At, machine, MachineGrows
<1>2. PlannedFits' /\ RequestFits' /\ HashedFits'
  BY <1>1, EndFits
<1>3. Installed' = installed'
  BY ReadyIs DEF Installed
<1>4. Loads(WheelsOf(installed'))
  BY ReadyIs
<1>5. ASSUME NEW n \in installed'.nodes PROVE InPlace(n)' /\ Loads(n.wheels)'
  <2>1. InPlace(n)'
    BY <1>1, ReadyIs DEF InPlace
  <2>2. Provides(n.wheels) \subseteq Provides(WheelsOf(installed'))
    BY ProvidesMore DEF WheelsOf
  <2>3. Loads(n.wheels)'
    BY <1>1, <1>4, <2>2 DEF Loads, Present, ComfyRuns
  <2> QED BY <2>1, <2>3
<1>6. InstalledFits'
  BY <1>3, <1>5 DEF InstalledFits
<1> QED BY <1>2, <1>6 DEF Fits

LEMMA RepairFits ==
  ASSUME PInv, Fits, Repair
  PROVE  Fits'
<1>1. /\ apply.pc = "checked" /\ apply.m \in Manifests
      /\ UNCHANGED <<dir, pip, comfy, installed>> /\ MachineGrows
  BY DEF Repair, At, machine, MachineGrows, PInv, Requested
<1> PICK m \in Manifests : m = apply.m
  BY <1>1
<1>2. Fitting(m) /\ Answered
  BY <1>1 DEF Fits, RequestFits, Answered
<1>3. apply' = [Idle EXCEPT !.pc = "fetch", !.m = m, !.repair = TRUE, !.force = TRUE,
                  !.files = apply.files, !.nodes = apply.nodes,
                  !.changed = apply.nodes # {}]
  BY DEF Repair, Step
<1>4. /\ apply'.pc = "fetch" /\ apply'.m = m /\ apply'.nodes = apply.nodes
      /\ apply'.repair = TRUE
  BY <1>3 DEF Idle
<1>5. \A x \in Manifests : tx'[x].planned = tx[x].planned
  BY DEF Repair, PInv, ProvisionTypeOK, Tx
<1>6. Fitting(m)'
  <2>1. (Compatible(m)' <=> Compatible(m)) /\ NewNodes(m)' = NewNodes(m)
    BY <1>1, DeltaSame
  <2>2. \A o \in NewNodes(m) : InPlace(o)'
    BY <1>1, <1>2 DEF Fitting, InPlace
  <2>3. Loads(WheelsOf(m))'
    BY <1>1, <1>2, LoadsStay DEF Fitting
  <2> QED BY <1>2, <1>4, <2>1, <2>2, <2>3 DEF Fitting, Answered
<1> QED BY <1>1, <1>4, <1>5, <1>6, InstalledStays, PlannedStays
     DEF Fits, RequestFits, HashedFits

LEMMA ProvisionFits ==
  ASSUME PInv, Fits, Provision
  PROVE  Fits'
<1>1. CASE Fail \/ Invalid
  <2>1. apply.pc # "idle" /\ End("failed") /\ UNCHANGED <<dir, installed, comfy>>
    BY <1>1 DEF Fail, Invalid, At, machine
  <2>2. Provides(pip) \subseteq Provides(pip')
    BY <1>1, CutOffKeeps DEF Fail, Invalid, machine, PInv
  <2> QED BY <2>1, <2>2, EndedFits
<1> QED BY <1>1, BeginFits, TransferFits, InstallNodeFits, InstallWheelsFits, RestartFits,
           StartFits, ObjectInfoFits, HashFits, ReadyFits, RepairFits DEF Provision

\* A crash may take the package that was being put in place, and takes ComfyUI.
LEMMA CrashFits ==
  ASSUME PInv, Fits, Crash
  PROVE  Fits'
<1>1. /\ comfy' = Down /\ apply' = Idle /\ UNCHANGED <<installed, tx>> /\ MachineGrows
  BY CrashPip DEF Crash, Step, MachineGrows
<1>2. \A p \in Packages : dir'[p] = dir[p] \/ dir'[p] = NoRev
  BY DEF Crash, PInv, ProvisionTypeOK
<1>3. \A o \in Installed.nodes : o.pkg \in Packages
  BY InstalledTyped, PackagesTyped
<1>4. InstalledFits'
  BY <1>1, <1>2, <1>3, InstalledStays DEF Fits
<1> QED BY <1>1, <1>4, PlannedStays, IdleTyped DEF Fits, RequestFits, HashedFits

\* The lock is given up by a request that had not begun.
LEMMA NothingFits ==
  ASSUME PInv, Fits, apply.pc = "idle", End("failed"), UNCHANGED <<dir, installed>>,
         Provides(pip) \subseteq Provides(pip'), comfy' = Down
  PROVE  Fits' /\ installed' = installed
<1>1. apply' = Idle /\ Recorded(apply.m, "failed") /\ MachineGrows /\ ProvisionTypeOK
  BY DEF End, Step, MachineGrows, PInv
<1>2. \A m \in Manifests : tx'[m].planned = tx[m].planned
  <2>1. CASE apply.m \in Manifests
    BY <1>1, <2>1, RecordedTyped
  <2>2. CASE apply.m \notin Manifests
    BY <1>1, <2>2 DEF Recorded, ProvisionTypeOK
  <2> QED BY <2>1, <2>2
<1>3. InstalledFits'
  BY <1>1, InstalledStays DEF Fits
<1>4. PlannedFits'
  BY <1>1, <1>2, PlannedStays DEF Fits
<1> QED BY <1>1, <1>3, <1>4, IdleTyped DEF Fits, RequestFits, HashedFits

LEMMA InitFits == Init => Fits
<1> SUFFICES ASSUME Init PROVE Fits
  OBVIOUS
<1>1. Installed.nodes = {} /\ apply.pc = "idle" /\ \A m \in Manifests : tx[m].planned # 1
  BY DEF Init, ProvisionInit, Installed, Idle, NoTx
<1> QED BY <1>1 DEF Fits, InstalledFits, PlannedFits, RequestFits, HashedFits

\* Files change while the worker serves, or are damaged.
LEMMA WorldFits ==
  ASSUME PInv, Fits, World
  PROVE  Fits' /\ installed' = installed
<1>1. PICK f \in Files : Upload(f) \/ Damage(f, "damaged") \/ Damage(f, "absent")
  BY DEF World
<1>2. UNCHANGED <<dir, pip, comfy, installed, tx>>
  BY <1>1 DEF Upload, Damage
<1>3. CASE apply' = apply /\ apply.pc # "checked"
  BY <1>2, <1>3, UnchangedFits
<1>4. CASE apply.pc = "checked" /\ apply' = [apply EXCEPT !.late = @ \cup {f}]
  <2>1. /\ apply'.m = apply.m /\ apply'.nodes = apply.nodes /\ apply'.wheels = apply.wheels
        /\ apply'.repair = apply.repair /\ apply'.changed = apply.changed
        /\ apply'.pc = apply.pc /\ apply'.files = apply.files
        /\ apply'.late = apply.late \cup {f}
    BY <1>4 DEF PInv, Requested, Request
  <2>2. \A g \in Files : g = f \/ file'[g] = file[g]
    BY <1>1 DEF Upload, Damage, PInv, ProvisionTypeOK
  <2> QED BY <1>2, <2>1, <2>2, UnchangedFits
<1> QED BY <1>1, <1>2, <1>3, <1>4 DEF Upload, Serving, Damage, Step

LEMMA StepFits ==
  ASSUME IInv, Fits, [Next]_vars
  PROVE  Fits' /\ (installed' # installed => Usable(installed'))
<1>1. PInv
  BY DEF IInv
<1>2. CASE /\ UNCHANGED <<file, dir, pip, installed, tx, apply>>
           /\ comfy' = comfy \/ comfy' = Down
  BY <1>1, <1>2, UnchangedFits
<1>3. CASE Provision
  <2>1. installed' # installed => Ready
    BY <1>3 DEF Provision, Begin, Fail, Fetch, Download, Downloaded, InstallNode,
                InstallWheels, Restart, Start, ObjectInfo, Hash, Ready, Repair, Invalid
  <2> QED BY <1>1, <1>3, <2>1, ProvisionFits, ReadyIs
<1>4. CASE World \/ ComfyDies
  BY <1>1, <1>2, <1>4, WorldFits DEF ComfyDies, machine
<1>5. CASE (\E j \in Jobs : StartJob(j)) \/ Execute
  BY <1>2, <1>5 DEF StartJob, Execute, PostPrompt, NativeEvent, NativeFails, ExecutionEnds,
                    provisionVars
<1>6. CASE MachineCrashes
  BY <1>1, <1>6, CrashFits DEF MachineCrashes, Crash
<1>7. CASE WorkerStops
  <2>1. CASE apply = Idle
    BY <1>2, <1>7, <2>1 DEF WorkerStops, machine
  <2>2. CASE apply # Idle
    <3>1. /\ End("failed") /\ UNCHANGED <<dir, installed>> /\ comfy' = Down
          /\ Provides(pip) \subseteq Provides(pip')
      BY <1>1, <1>7, <2>2, StopPip DEF WorkerStops
    <3>2. CASE apply.pc # "idle"
      BY <1>1, <3>1, <3>2, EndedFits
    <3>3. CASE apply.pc = "idle"
      BY <1>1, <3>1, <3>3, NothingFits
    <3> QED BY <3>2, <3>3, <3>1
  <2> QED BY <2>1, <2>2
<1>8. CASE WorkerRestarts
  BY <1>2, <1>8 DEF WorkerRestarts, WorkerStarts, machine
<1> QED BY <1>2, <1>3, <1>4, <1>5, <1>6, <1>7, <1>8 DEF Next, vars, provisionVars

\* What is installed, and what the current request still has to install, is what the
\* machine has and ComfyUI has loaded (apply_manifest).
THEOREM FitInvariance == Spec => [](IInv /\ Fits)
BY InitIInv, StepIInv, InitFits, StepFits, PTL DEF Spec

\* Whatever requests, retries, repairs, crashes and stalls came before, a manifest
\* becomes the installed one only when its models verified at the end, its packages
\* are in place, and a ComfyUI that runs has loaded every package and distribution
\* of it, in some revision and version (_ready).
THEOREM ReadyMeansUsable == Spec => ReadyIsUsable
<1>1. IInv /\ Fits /\ [Next]_vars => [installed' # installed => Usable(installed')]_vars
  BY StepFits
<1> QED BY <1>1, FitInvariance, PTL DEF Spec, ReadyIsUsable
=============================================================================
