--------------------------- MODULE MCStepSession ---------------------------
(***************************************************************************)
(* Three STEP commands and a FINISH, a pipe of two lines and three of      *)
(* noise: enough for an answer to queue up behind noise, for the pipe to   *)
(* fill, and for a late answer to meet the command after its own.  Either  *)
(* all faults may happen or only those that give a session a reason to     *)
(* fail.                                                                   *)
(***************************************************************************)
EXTENDS StepSession

MCFaultModels == {FaultKinds, {"crash", "error"}}
=============================================================================
