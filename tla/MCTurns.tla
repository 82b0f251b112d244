------------------------------ MODULE MCTurns ------------------------------
(***************************************************************************)
(* Two views of a turn, each on two small instances: AcpTurns, the         *)
(* adapter's loop that talks to the agent's process, with Claude's cost    *)
(* hints ("claude") and without ("acp"); TurnStream, the engine's loop     *)
(* that writes the turn into the chat document, with questions ("asks")    *)
(* and with crashes ("crash").  A behaviour is one of the four; the other  *)
(* component rests in its initial state.                                   *)
(***************************************************************************)
EXTENDS AcpTurns, TurnStream

VARIABLE part

vars == <<part, acpVars, streamVars>>

Init ==
    /\ AcpInit /\ StreamInit
    /\ part \in (IF Claude THEN {"claude"} ELSE {"acp", "asks", "crash"})

\* The conjuncts on primed counters are the bounds of each instance.
Next ==
    /\ UNCHANGED part
    /\ \/ part = "claude" /\ AcpNext /\ asks' = 0 /\ UNCHANGED streamVars
       \/ part = "acp" /\ AcpNext /\ fails' = 0 /\ Len(incoming') <= 1 /\ UNCHANGED streamVars
       \/ part = "asks" /\ StreamNext /\ crashes' = 0 /\ UNCHANGED acpVars
       \/ part = "crash" /\ StreamNext /\ asked' = {} /\ UNCHANGED acpVars

Spec == Init /\ [][Next]_vars
============================================================================
