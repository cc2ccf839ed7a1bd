---------------------------- MODULE MCWorkerJobs ----------------------------
(* The instance of WorkerJobs that TLC checks: a custom node with a model    *)
(* the client uploads and a wheel, the same node with another version of     *)
(* the wheel, and another revision of it, which is incompatible with these.  *)
(* Jobs need the third: while they run it is applied, repaired and restarted *)
(* again, and what the first two left behind before it was ready remains.    *)
EXTENDS WorkerJobs, TLC

Node(rev, wheels) == [pkg |-> "node", rev |-> rev, wheels |-> wheels]
Uploaded == <<"model", "uploaded">>

MCManifests ==
  {[nodes |-> {Node("r1", {<<"wheel", "v1">>})}, models |-> {Uploaded}],
   [nodes |-> {Node("r1", {<<"wheel", "v2">>})}, models |-> {}],
   [nodes |-> {Node("r2", {})}, models |-> {}]}
MCLocalFiles == {Uploaded}
JobSymmetry == Permutations(Jobs)
MCUses == [j \in Jobs |-> CHOOSE m \in MCManifests : \E n \in m.nodes : n.rev = "r2"]
=============================================================================
