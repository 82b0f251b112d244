------------------------------ MODULE MCDshLoop ------------------------------
(* DshLoop on the small instance of DshLoop_artifact.cfg. *)
EXTENDS DshLoop
==============================================================================
