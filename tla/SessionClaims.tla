---------------------------- MODULE SessionClaims ----------------------------
(***************************************************************************)
(* What README.md says of destroying a paid session and the code does not  *)
(* keep: a run refutes it.                                                 *)
(***************************************************************************)
EXTENDS SessionLifecycle

StartsCreate ==
  \E t \in Tasks : task[t].pc \notin CreateCalls /\ task'[t].pc \in CreateCalls

\* Once the user has asked for destruction nothing more is rented.
NoRentalAfterDestroyRequest ==
  [][StartsCreate => ~row.destroyRequested]_vars
=============================================================================
