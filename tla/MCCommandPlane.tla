--------------------------- MODULE MCCommandPlane ---------------------------
(* Small instances of CommandPlane for TLC. *)
EXTENDS CommandPlane
=============================================================================
