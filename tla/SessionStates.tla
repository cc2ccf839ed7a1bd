--------------------------- MODULE SessionStates ---------------------------
(***************************************************************************)
(* The states of a session row and the moves between them, as every writer *)
(* of the sessions table sees them: SessionRepository.transition re-reads  *)
(* the row and lets CloudSession.transition refuse any other move.         *)
(***************************************************************************)

SessionState ==
  {"preflight", "offer_selected", "confirming", "creating", "bootstrapping",
   "provisioning", "validating", "ready", "running", "harvesting",
   "repairing", "destroy_requested", "destroying", "destroyed", "failed"}

SESSION_TRANSITIONS ==
  [s \in SessionState |->
    CASE s = "preflight"      -> {"offer_selected", "destroyed", "failed"}
      [] s = "offer_selected" -> {"preflight", "confirming", "destroyed", "failed"}
      [] s = "confirming"     -> {"creating", "destroy_requested", "failed"}
      [] s = "creating"       -> {"bootstrapping", "destroy_requested", "failed"}
      [] s = "bootstrapping"  -> {"provisioning", "destroy_requested",
                                  "destroying", "failed"}
      [] s = "provisioning"   -> {"validating", "repairing",
                                  "destroy_requested", "failed"}
      [] s = "validating"     -> {"ready", "repairing",
                                  "destroy_requested", "failed"}
      [] s = "repairing"      -> {"provisioning", "validating",
                                  "destroy_requested", "failed"}
      [] s = "ready"          -> {"provisioning", "running",
                                  "destroy_requested", "failed"}
      [] s = "running"        -> {"harvesting", "ready",
                                  "destroy_requested", "failed"}
      [] s = "harvesting"     -> {"ready", "destroy_requested", "failed"}
      [] s = "destroy_requested" -> {"destroying", "failed"}
      [] s = "destroying"     -> {"destroyed", "creating", "failed"}
      [] s = "failed"         -> {"repairing", "destroy_requested",
                                  "destroying", "creating"}
      [] s = "destroyed"      -> {}]

CanMove(from, to) == from = to \/ to \in SESSION_TRANSITIONS[from]

DestroyStates == {"destroy_requested", "destroying"}
BootStates == {"bootstrapping", "provisioning", "validating"}
WorkStates == {"ready", "running", "harvesting"}
=============================================================================
