-------------------------- MODULE WorkerProvision --------------------------
(***************************************************************************)
(* Provisioning on the rented machine: a manifest is applied by fetching   *)
(* what it adds to the installed one, installing its custom nodes and      *)
(* wheels, restarting ComfyUI when code changed, validating, and repairing *)
(* at most once what is missing.  The machine's files, the ComfyUI process *)
(* and the worker's state file are shared with the job manager.            *)
(*                                                                         *)
(* The provisioning lock admits one request at a time, and the worker runs *)
(* one event loop: code between two awaits is one action, but for the last *)
(* check of the models and the write that calls the manifest installed,    *)
(* which other processes can come between.  Versions other than revisions  *)
(* of custom nodes and of wheels, and files that would share a             *)
(* destination, only add further ways to be incompatible and are left out. *)
(* A crash takes the container: the worker and ComfyUI go together.        *)
(***************************************************************************)
EXTENDS Naturals, FiniteSets

CONSTANTS
  Manifests,    \* records [nodes |-> {[pkg, rev, wheels]}, models], where a
                \* model is a pair <<kind, name>> and a wheel a pair
                \* <<distribution, version>>
  LocalFiles,   \* the files only the client can supply
  NoManifest,
  MaxFaults     \* a bound on what goes wrong: crashes, requests that fail or
                \* stall, damaged files, custom nodes that do not load

ASSUME ProvisionConstants == MaxFaults \in Nat /\ NoManifest \notin Manifests

VARIABLES
  up,           \* the worker process runs
  file,         \* every file of a manifest on the machine
  dir,          \* the revision of each package under custom_nodes
  pip,          \* the wheels installed
  comfy,        \* what the running ComfyUI has loaded
  installed,    \* the manifest in the state file's "installed"
  tx,           \* the provisioning transaction of each manifest
  apply,        \* the request that holds the provisioning lock
  spent,        \* restarts and repairs made for each manifest
  faults        \* what has gone wrong so far

machine == <<file, dir, pip>>
provisionVars == <<up, file, dir, pip, comfy, installed, tx, apply, spent, faults>>

Nodes == UNION {m.nodes : m \in Manifests}
Packages == {n.pkg : n \in Nodes}
Wheels == UNION {n.wheels : n \in Nodes}
Models == UNION {m.models : m \in Manifests}

\* The archive of a custom node, and everything the transfer manager handles.
Archive(n) == <<n.pkg, n.rev>>
Files == Models \cup Wheels \cup {Archive(n) : n \in Nodes}

\* The distributions that some wheels are of.
Provides(W) == {w[1] : w \in W}
NoRev == "none"
Revisions == {n.rev : n \in Nodes} \cup {NoRev}

PackageFiles(n) == {Archive(n)} \cup n.wheels

\* What ComfyUI would load if it started now: itself, the custom nodes and the
\* wheels.
Core == <<"ComfyUI", "core">>
Code == {Core} \cup {<<p, dir[p]>> : p \in {q \in Packages : dir[q] # NoRev}} \cup pip
AllCode == {Core} \cup (Packages \X Revisions) \cup Wheels

\* A manifest has a package once (_validate_manifest), and packages, wheels and
\* ComfyUI itself are told apart.
ASSUME ManifestsValid ==
  /\ \A m \in Manifests : \A n, o \in m.nodes : n.pkg = o.pkg => n = o
  /\ (Wheels \cup {Core}) \cap (Packages \X Revisions) = {}

Down == {}
ComfyRuns == comfy # Down

NoTx == [state |-> "none", planned |-> 0, repairs |-> 0, repaired |-> FALSE]
Tx == [state : {"none", "applying", "awaiting_upload", "failed", "ready"},
       planned : 0..1, repairs : 0..1, repaired : BOOLEAN]

\* "fetch" and "download": ensure_many; "install": the installer; "restart",
\* "start" and "validate": ComfyUI.  files, nodes and wheels are what the step
\* has left; changed says that code is installed.  "hash": /object_info has
\* answered, and nodes are those whose classes it misses; "checked": the models
\* were hashed too, and files are those that do not verify.  No code keeps late,
\* the files damaged or deleted since they were hashed.
Pcs == {"idle", "fetch", "download", "install", "restart", "start", "validate", "hash",
        "checked"}
Idle == [pc |-> "idle", m |-> NoManifest, files |-> {}, nodes |-> {}, wheels |-> {},
         repair |-> FALSE, force |-> FALSE, changed |-> FALSE, late |-> {}]

\* The event loop is not blocked: nothing is awaited between the hashing of the
\* models and what follows from it.
Serving == up /\ apply.pc # "checked"

\* The installed manifest, an empty one on a new machine.
Installed == IF installed = NoManifest THEN [nodes |-> {}, models |-> {}] ELSE installed
InstalledWheels == UNION {n.wheels : n \in Installed.nodes}

-----------------------------------------------------------------------------
(* The delta between the installed manifest and the desired one *)

Compatible(m) ==
  \A n \in m.nodes, o \in Installed.nodes : n.pkg = o.pkg => n.rev = o.rev
NewNodes(m) == {n \in m.nodes : \A o \in Installed.nodes : n.pkg # o.pkg}
NewWheels(m) ==
  (UNION {n.wheels : n \in NewNodes(m)})
    \cup ((UNION {n.wheels : n \in m.nodes \ NewNodes(m)}) \ InstalledWheels)
Standalone(m) == NewWheels(m) \ (UNION {n.wheels : n \in NewNodes(m)})
NewFiles(m) ==
  (m.models \ Installed.models) \cup NewWheels(m) \cup {Archive(n) : n \in NewNodes(m)}

-----------------------------------------------------------------------------
(* pip *)

\* One run of pip for each wheel, in turn: it replaces another version of the
\* same distribution, so the last version of each distribution stays.
PipInstall(W) ==
  \E V \in SUBSET W :
    /\ Provides(V) = Provides(W) /\ \A v, w \in V : v[1] = w[1] => v = w
    /\ pip' = {v \in pip : v[1] \notin Provides(W)} \cup V

\* What the installer is at: the wheels of a node, or the standalone ones.
Installing ==
  IF apply.pc # "install" THEN {{}}
  ELSE IF apply.nodes = {} THEN {apply.wheels} ELSE {n.wheels : n \in apply.nodes}

\* An installer that is cut off has run pip for some of the wheels.
PipCutOff == \E W \in Installing : \E S \in SUBSET W : PipInstall(S)

-----------------------------------------------------------------------------
(* Requests *)

Recorded(m, state) == tx' = [tx EXCEPT ![m].state = state]
Fault == faults < MaxFaults /\ faults' = faults + 1
Step(next) == apply' = next
At(pc) == up /\ apply.pc = pc

\* apply_manifest up to the first await: the transaction is recorded as
\* applying, with the budget it had left; an incompatible manifest fails.
Begin(m) ==
  /\ At("idle")
  /\ \/ Compatible(m) /\ Recorded(m, "applying")
        /\ Step([Idle EXCEPT !.pc = "fetch", !.m = m, !.files = NewFiles(m),
                   !.nodes = NewNodes(m), !.wheels = Standalone(m),
                   !.changed = NewNodes(m) # {} \/ Standalone(m) # {}])
     \/ ~Compatible(m) /\ Recorded(m, "failed") /\ UNCHANGED apply
  /\ UNCHANGED <<up, machine, comfy, installed, spent, faults>>

\* The request ends without the manifest: it asks for uploads, or fails.
End(state) == Recorded(apply.m, state) /\ Step(Idle)

\* A full disk, a source that fails, a cancellation, an error, or ten minutes
\* without progress, which is recorded as "stalled" and then treated the same.
Fail ==
  /\ up /\ apply.pc # "idle" /\ Fault
  /\ End("failed") /\ PipCutOff
  /\ UNCHANGED <<up, file, dir, comfy, installed, spent>>

\* ensure_many: force deletes the files, verified ones are kept, damaged ones
\* fail the request, and what only the client has is asked for first.
Fetch ==
  LET found == [f \in Files |-> IF apply.force /\ f \in apply.files THEN "absent"
                                ELSE file[f]]
      damaged == \E f \in apply.files : found[f] = "damaged"
      missing == {f \in apply.files : found[f] = "absent"}
      uploads == missing \cap LocalFiles # {}
  IN /\ At("fetch")
     /\ file' = found
     /\ \/ damaged /\ End("failed")
        \/ ~damaged /\ uploads /\ End("awaiting_upload")
        \/ /\ ~damaged /\ ~uploads /\ UNCHANGED tx
           /\ Step([apply EXCEPT !.pc = "download", !.files = missing])
     /\ UNCHANGED <<up, dir, pip, comfy, installed, spent, faults>>

\* download_many: the downloads end in any order.
Download(f) ==
  /\ At("download") /\ f \in apply.files
  /\ file' = [file EXCEPT ![f] = "verified"]
  /\ Step([apply EXCEPT !.files = @ \ {f}])
  /\ UNCHANGED <<up, dir, pip, comfy, installed, tx, spent, faults>>

\* The forced files of a repair are followed by the packages of its nodes.
Downloaded ==
  /\ At("download") /\ apply.files = {}
  /\ Step(IF apply.force
          THEN [apply EXCEPT !.pc = "fetch", !.force = FALSE,
                  !.files = UNION {PackageFiles(n) : n \in apply.nodes}]
          ELSE [apply EXCEPT !.pc = "install"])
  /\ UNCHANGED <<up, machine, comfy, installed, tx, spent, faults>>

\* The installer: a package that still verifies has its wheels installed, then
\* its directory put in the place of an older one.
InstallNode(n) ==
  /\ At("install") /\ n \in apply.nodes
  /\ \/ /\ \A f \in PackageFiles(n) : file[f] = "verified"
        /\ PipInstall(n.wheels)
        /\ dir' = [dir EXCEPT ![n.pkg] = n.rev]
        /\ Step([apply EXCEPT !.nodes = @ \ {n}]) /\ UNCHANGED tx
     \/ /\ \E f \in PackageFiles(n) : file[f] # "verified"
        /\ End("failed") /\ UNCHANGED <<dir, pip>>
  /\ UNCHANGED <<up, file, comfy, installed, spent, faults>>

\* The standalone wheels follow the nodes.  A repair without nodes leaves
\* ComfyUI alone.
InstallWheels ==
  LET sound == \A w \in apply.wheels : file[w] = "verified" IN
  /\ At("install") /\ apply.nodes = {}
  /\ \/ /\ sound /\ PipInstall(apply.wheels) /\ UNCHANGED tx
        /\ Step([apply EXCEPT !.pc = IF apply.repair /\ ~apply.changed
                                     THEN "validate" ELSE "restart"])
     \/ ~sound /\ End("failed") /\ UNCHANGED pip
  /\ UNCHANGED <<up, file, dir, comfy, installed, spent, faults>>

-----------------------------------------------------------------------------
(* ComfyUI *)

\* Mutant: the restarts already made are forgotten.
MayRestartAgain == apply.changed
\* New code takes one planned restart, and a repair of nodes one more.
MayRestart == apply.changed /\ (apply.repair \/ tx[apply.m].planned = 0)

\* The restart is recorded before ComfyUI is stopped.
Restart ==
  /\ At("restart")
  /\ \/ /\ MayRestart
        /\ tx' = IF apply.repair THEN [tx EXCEPT ![apply.m].repairs = 1]
                 ELSE [tx EXCEPT ![apply.m].planned = 1]
        /\ spent' = [spent EXCEPT ![apply.m].restarts = @ + 1]
        /\ comfy' = Down
     \/ ~MayRestart /\ UNCHANGED <<tx, spent, comfy>>
  /\ Step([apply EXCEPT !.pc = "start"])
  /\ UNCHANGED <<up, machine, installed, faults>>

\* start: a running ComfyUI is left as it is, else it loads the code on disk; a
\* custom node may fail to load.
Start ==
  /\ At("start")
  /\ \/ ComfyRuns /\ UNCHANGED <<comfy, faults>>
     \/ ~ComfyRuns /\ comfy' = Code /\ UNCHANGED faults
     \/ /\ ~ComfyRuns /\ Fault
        /\ \E p \in Packages : dir[p] # NoRev /\ comfy' = Code \ {<<p, dir[p]>>}
  /\ Step([apply EXCEPT !.pc = "validate"])
  /\ UNCHANGED <<up, machine, installed, tx, spent>>

\* /object_info tells classes, hence packages, and nothing of revisions.
MissingNodes(m) == {n \in m.nodes : \A r \in Revisions : <<n.pkg, r>> \notin comfy}
\* Mutant: a file that is there is taken for good.
AbsentModels(m) == {f \in m.models : file[f] = "absent"}
MissingModels(m) == {f \in m.models : file[f] # "verified"}

\* _validate: ComfyUI answers, and the answer is awaited.
ObjectInfo ==
  /\ At("validate") /\ ComfyRuns
  /\ Step([apply EXCEPT !.pc = "hash", !.nodes = MissingNodes(apply.m)])
  /\ UNCHANGED <<up, machine, comfy, installed, tx, spent, faults>>

\* _validate, once the answer is there: the models are hashed one after another.
\* What damages one of them before its turn might as well come before the first,
\* and after its turn, after the last.
Hash ==
  /\ At("hash")
  /\ Step([apply EXCEPT !.pc = "checked", !.files = MissingModels(apply.m), !.late = {}])
  /\ UNCHANGED <<up, machine, comfy, installed, tx, spent, faults>>

\* What follows rests on the two answers, whatever the machine has become.
Missing == apply.nodes # {} \/ apply.files # {}

\* The transaction is ready and the manifest installed in one write.
Ready ==
  /\ At("checked") /\ ~Missing
  /\ End("ready") /\ installed' = apply.m
  /\ UNCHANGED <<up, machine, comfy, spent, faults>>

\* A first mismatch is repaired, once per manifest, recorded before it begins.
MayRepair == ~tx[apply.m].repaired

Repair ==
  LET m == apply.m IN
  /\ At("checked") /\ Missing /\ MayRepair
  /\ tx' = [tx EXCEPT ![m].repaired = TRUE]
  /\ spent' = [spent EXCEPT ![m].repairs = @ + 1]
  /\ Step([Idle EXCEPT !.pc = "fetch", !.m = m, !.repair = TRUE, !.force = TRUE,
             !.files = apply.files, !.nodes = apply.nodes, !.changed = apply.nodes # {}])
  /\ UNCHANGED <<up, machine, comfy, installed, faults>>

\* The mismatch is the second one, or ComfyUI does not answer.
Invalid ==
  /\ \/ At("validate") /\ ~ComfyRuns
     \/ At("checked") /\ Missing /\ ~MayRepair
  /\ End("failed")
  /\ UNCHANGED <<up, machine, comfy, installed, spent, faults>>

-----------------------------------------------------------------------------
(* The world *)

\* The client uploads a file it was asked for.
Upload(f) ==
  /\ Serving /\ f \in LocalFiles /\ file[f] = "absent"
  /\ \E m \in Manifests : tx[m].state = "awaiting_upload" /\ f \in m.models
  /\ file' = [file EXCEPT ![f] = "verified"]
  /\ UNCHANGED <<up, dir, pip, comfy, installed, tx, apply, spent, faults>>

\* A custom node or the disk damages or deletes a file.
Damage(f, state) ==
  /\ Fault /\ file[f] = "verified"
  /\ file' = [file EXCEPT ![f] = state]
  /\ Step(IF apply.pc = "checked" THEN [apply EXCEPT !.late = @ \cup {f}] ELSE apply)
  /\ UNCHANGED <<up, dir, pip, comfy, installed, tx, spent>>

\* ComfyUI dies by itself: an out-of-memory kill.
ComfyDies ==
  /\ ComfyRuns /\ Fault
  /\ comfy' = Down
  /\ UNCHANGED <<up, machine, installed, tx, apply, spent>>

\* A crash while a package is put in place may leave neither directory.
Crash ==
  /\ up /\ Fault
  /\ up' = FALSE /\ comfy' = Down /\ Step(Idle)
  /\ \/ UNCHANGED dir /\ PipCutOff
     \/ \E n \in apply.nodes : /\ At("install") /\ PipInstall(n.wheels)
                              /\ dir' = [dir EXCEPT ![n.pkg] = NoRev]
  /\ UNCHANGED <<file, installed, tx, spent>>

WorkerStarts ==
  /\ ~up /\ up' = TRUE
  /\ UNCHANGED <<machine, comfy, installed, tx, apply, spent, faults>>

-----------------------------------------------------------------------------
ProvisionInit ==
  /\ up = TRUE
  /\ file = [f \in Files |-> "absent"]
  /\ dir = [p \in Packages |-> NoRev]
  /\ pip = {}
  /\ comfy = Down
  /\ installed = NoManifest
  /\ tx = [m \in Manifests |-> NoTx]
  /\ apply = Idle
  /\ spent = [m \in Manifests |-> [restarts |-> 0, repairs |-> 0]]
  /\ faults = 0

Provision ==
  \/ \E m \in Manifests : Begin(m)
  \/ Fail
  \/ Fetch \/ Downloaded \/ InstallWheels \/ Restart \/ Start
  \/ \E f \in Files : Download(f)
  \/ \E n \in Nodes : InstallNode(n)
  \/ ObjectInfo \/ Hash \/ Ready \/ Repair \/ Invalid

World ==
  \/ \E f \in Files : Upload(f) \/ Damage(f, "damaged") \/ Damage(f, "absent")

ProvisionTypeOK ==
  /\ up \in BOOLEAN
  /\ file \in [Files -> {"absent", "damaged", "verified"}]
  /\ dir \in [Packages -> Revisions] /\ pip \subseteq Wheels
  /\ comfy \subseteq AllCode
  /\ installed \in Manifests \cup {NoManifest}
  /\ tx \in [Manifests -> Tx]
  /\ apply.pc \in Pcs /\ apply.m \in Manifests \cup {NoManifest}
  /\ apply.files \subseteq Files /\ apply.nodes \subseteq Nodes
  /\ apply.wheels \subseteq Wheels /\ apply.late \subseteq Files
  /\ spent \in [Manifests -> [restarts : Nat, repairs : Nat]]
  /\ faults \in 0..MaxFaults
=============================================================================
