---------------------------- MODULE MCRegistrySync ----------------------------
(* RegistrySync on small instances: the other CONSTANTS get their values in    *)
(* the RegistrySync_*.cfg files.                                              *)
EXTENDS RegistrySync

\* A behaviour has one kind of trouble: a lost connection, a crash or a wipe.
OneFault ==
    {[writes |-> 3, drops |-> 1, crashes |-> 0, resets |-> 0],
     [writes |-> 1, drops |-> 0, crashes |-> 1, resets |-> 0],
     [writes |-> 1, drops |-> 0, crashes |-> 0, resets |-> 1]}
=============================================================================
