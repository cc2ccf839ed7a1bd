--------------------------- MODULE SessionLiveness ---------------------------
(***************************************************************************)
(* What a paid session must eventually do, and the scheduling it rests on. *)
(*                                                                         *)
(* The event loop runs every task whose await is over, the provider        *)
(* answers every call and settles every create, the clock passes the boot  *)
(* deadline, and the open session panel polls once a second while          *)
(* something is pending (web/js/session-console.js).  Nobody has to        *)
(* confirm, destroy or submit.                                             *)
(*                                                                         *)
(* To keep the graph small one slot only refreshes: it looks a creating    *)
(* session up in the inventory, across whatever the other slots do.        *)
(***************************************************************************)
EXTENDS SessionLifecycle

CONSTANT Refresher      \* a slot whose requests only look the session up

ASSUME RefresherIsHandler == Refresher \in Handlers

\* An inventory without an instance changes nothing, so it may as well be late.
OnlyRefreshes ==
  /\ task'[Refresher].pc \in {"idle", "r_list"}
  /\ task'[Refresher].answered => task'[Refresher].ids # {}

\* The clock passes the boot deadline while the watchdog still waits for the
\* worker ...
BootExpires ==
  /\ BootWatchdog \/ Resume(Watchdog)
  /\ task[Watchdog].pc \notin {"f_delete", "f_list"}
  /\ task'[Watchdog].pc \in {"f_delete", "f_list"}

\* ... and while a destruction still waits for a create that never surfaced.
AbsenceBelieved == \E t \in Tasks : DestroyFound(t) /\ row'.state = "destroyed"

PollSession == \E h \in Handlers \ {Refresher} : Poll(h)

\* A task that has begun is not abandoned: its call is answered, its await ends.
\* Nothing rests on the refresh of the other slot, which may go on or not.
Proceed(t) ==
  \/ Provider(t) \/ Resume(t)
  \/ t \in Handlers /\ (ConfirmOffer(t) \/ ConfirmCreated(t)
                            \/ ConfirmLookedUp(t) \/ SubmitApplied(t))
  \/ t = Watchdog /\ BootWatchdog
  \/ t = Recovery /\ RecoverListed

Fairness ==
  /\ \A t \in Tasks \ {Refresher} : WF_vars(Proceed(t))
  /\ WF_vars(Settle)
  /\ SF_vars(BootExpires) /\ SF_vars(AbsenceBelieved)
  /\ SF_vars(PollSession)

FairSpec == Init /\ [][Next /\ OnlyRefreshes]_vars /\ Fairness

\* The process is not killed for ever.
StaysUp == <>[][~Crash]_vars

\* A destruction that has begun comes to an end, verified, failed in the sight of
\* the user or replaced by a new boot: also when the process was killed in it,
\* or the watchdog that began it gave way to other tasks.
DestructionSettles ==
  StaysUp => (row.state \in DestroyStates ~> row.state \notin DestroyStates)

IsBooting == row.state \in {"creating", "bootstrapping"}
Creating == \E h \in Handlers : task[h].pc \in {"c_create", "c_unknown", "c_rejected"}
Watched == Creating \/ task[Watchdog].pc # "idle"

\* A refresh found the new host in the inventory while the request that creates it
\* still awaits its answer.  That request then schedules no watchdog.
Unwatched ==
  row.state = "bootstrapping" /\ Creating /\ task[Watchdog].pc = "idle"

\* A session does not wait for its host for ever: once a create is under way it gets
\* to provisioning or is given up, whatever the create calls and their inventories
\* answer and whatever a refresh or a destruction does to the row meanwhile, unless
\* the process is restarted or a refresh adopts the host before its creator does:
\* nobody watches those boots (service.py:519, 949).
BootSettles ==
  (IsBooting /\ Watched) ~> (~IsBooting \/ Unwatched \/ task[Recovery].pc # "idle")
=============================================================================
