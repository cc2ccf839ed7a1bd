---------------------------- MODULE JobLiveness ----------------------------
(***************************************************************************)
(* SessionJobs with the scheduling the code relies on: the event loop runs *)
(* every task that can go on, and the worker answers its calls.  Nothing   *)
(* makes a client submit, refresh or destroy.                              *)
(***************************************************************************)
EXTENDS MCSessionJobs

Fairness ==
  /\ \A t \in Tasks : WF_vars(FinishEvents(t)) /\ WF_vars(FinishJob(t))
  /\ \A t \in Requests :
       /\ WF_vars(SubmitClaim(t)) /\ WF_vars(SubmitApplied(t))
       /\ WF_vars(SubmitStarted(t)) /\ WF_vars(ExpireSynced(t))
       /\ WF_vars(WorkerApply(t)) /\ WF_vars(WorkerStart(t))

FairSpec == Spec /\ Fairness

\* The job runs locally and on the session, and has ended in s remotely.
Ended(j, s) == job[j] = "running" /\ row.state = "running" /\ remote[j].state = s

\* A finisher polls the job.  It gives up after max_job_polls polls of a job that
\* runs, and then nobody polls it until a restart or the deadline.
Followed(j) ==
  \E t \in Tasks : task[t].job = j /\ task[t].pc \in {"f_events", "f_job"}

\* An outcome that an execution has while its finisher still polls reaches the
\* job row, unless the session is being destroyed or has failed.
OutcomeArrives ==
  \A j \in Jobs :
    /\ Ended(j, "succeeded") /\ Followed(j)
         ~> (job[j] \in {"succeeded", "failed"} \/ row.state \notin WorkStates)
    /\ Ended(j, "failed") /\ Followed(j)
         ~> (job[j] = "failed" \/ row.state \notin WorkStates)
=============================================================================
