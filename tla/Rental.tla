------------------------------- MODULE Rental -------------------------------
(***************************************************************************)
(* What a session promises about the machines it rents, whatever its tasks *)
(* do: one at a time, and at most one replacement.                         *)
(***************************************************************************)
EXTENDS Naturals

VARIABLES
  rented,    \* how often the session asked the provider for a machine
  pending,   \* requests the provider has accepted but not settled
  running    \* machines that run and are billed

Init == rented = 0 /\ pending = {} /\ running = {}

\* Ask for a machine, only when none is running or may still start.
Rent ==
  /\ rented < 2 /\ pending = {} /\ running = {}
  /\ rented' = rented + 1
  /\ \/ running' \in {{}, {rented'}} /\ pending' = {}
     \/ running' = {} /\ pending' = {rented'}

Settle ==
  /\ \E id \in pending :
       /\ pending' = pending \ {id}
       /\ running' \in {running, running \cup {id}}
  /\ rented' = rented

Stop ==
  /\ \E id \in running : running' = running \ {id}
  /\ UNCHANGED <<rented, pending>>

Next == Rent \/ Settle \/ Stop
Spec == Init /\ [][Next]_<<rented, pending, running>>
=============================================================================
