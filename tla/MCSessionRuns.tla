---------------------------- MODULE MCSessionRuns ----------------------------
(* SessionRuns on small instances: the CONSTANTS get their values in the     *)
(* SessionRuns_*.cfg files.                                                  *)
EXTENDS SessionRuns
=============================================================================
