------------------------ MODULE MCApplicationCycle ------------------------
(* The cycle has no constants: every failure of every operation is tried.  *)
EXTENDS ApplicationCycle
===========================================================================
