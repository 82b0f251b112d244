---------------------------- MODULE CommandLedger ----------------------------
(***************************************************************************)
(* What the command plane promises to whoever queues a command on any      *)
(* device (the rules at the head of crates/doc/src/commands.rs): the host  *)
(* takes a command once and for good, runs it at most once and only then,  *)
(* and tells everyone one outcome that never changes and that says whether *)
(* it ran.  It promises no outcome: a host that dies between the run and   *)
(* the report leaves the command pending for ever.                         *)
(***************************************************************************)
EXTENDS Naturals

CONSTANT Cmds

VARIABLES
    outcome,   \* what the other devices read
    taken,     \* commands the host has decided on
    runs       \* how often each has run

vars == <<outcome, taken, runs>>

Ran    == {"Applied", "Rejected"}      \* executed, though perhaps without effect
Spared == {"Expired", "Superseded"}    \* refused without running

Init ==
    /\ outcome = [c \in Cmds |-> "absent"]
    /\ taken = {}
    /\ runs = [c \in Cmds |-> 0]

Take(c) ==
    /\ c \notin taken
    /\ taken' = taken \cup {c}
    /\ UNCHANGED <<outcome, runs>>

Run(c) ==
    /\ c \in taken /\ runs[c] = 0
    /\ runs' = [runs EXCEPT ![c] = 1]
    /\ UNCHANGED <<outcome, taken>>

\* Several outcomes may become known at once.
Report ==
    /\ \A c \in Cmds :
         \/ outcome'[c] = outcome[c]
         \/ outcome[c] = "absent" /\ outcome'[c] = "Pending"
         \/ /\ outcome[c] \in {"absent", "Pending"} /\ c \in taken
            /\ outcome'[c] \in (IF runs[c] = 0 THEN Spared ELSE Ran)
    /\ UNCHANGED <<taken, runs>>

Next == (\E c \in Cmds : Take(c) \/ Run(c)) \/ Report

Spec == Init /\ [][Next]_vars
=============================================================================
