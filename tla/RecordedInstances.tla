-------------------------- MODULE RecordedInstances --------------------------
(***************************************************************************)
(* SessionLifecycle with a history variable: every instance id the row has *)
(* ever held.                                                              *)
(***************************************************************************)
EXTENDS SessionLifecycle

VARIABLE recorded

RecordingInit == Init /\ recorded = {}

RecordingNext ==
  /\ Next
  /\ recorded' = recorded \cup ({row'.instance} \ {None})

RecordingSpec == RecordingInit /\ [][RecordingNext]_<<vars, recorded>>

\* While an instance the backend once wrote down is still billed, no failed
\* session hides it: some field of the row keeps the billing warning up.
RecordedInstanceVisible ==
  row.state = "failed" /\ recorded \cap live # {} => BillingMayContinue(row)
=============================================================================
