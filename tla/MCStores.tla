------------------------------ MODULE MCStores ------------------------------
(***************************************************************************)
(* Three histories that must survive: Chat2Sync, a chat's operations in the *)
(* append-only room and the device's snapshot ("sync"); Cutover, the move   *)
(* of a chat from the old room to the new one, with messages ("history"),   *)
(* with commands ("commands") and of a chat being created ("born");         *)
(* DshLoop, the in-process agent's session log and its artifact, with tool  *)
(* calls and a crash ("tools") and with steers and failed writes            *)
(* ("steers").  A behaviour is one of the six; the other components rest in *)
(* their initial states.                                                    *)
(***************************************************************************)
EXTENDS Chat2Sync, Cutover, DshLoop

VARIABLE part

vars == <<part, syncVars, cutoverVars, dshVars>>

Init ==
    /\ SyncInit /\ CutoverInit /\ DshInit
    /\ part \in (IF gen[Host] = 0 THEN {"born"}
                 ELSE {"history", "commands", "sync", "tools", "steers"})

\* The other conjuncts are the bounds of each instance.
Next ==
    /\ UNCHANGED part
    /\ \/ part = "sync" /\ SyncNext /\ UNCHANGED <<cutoverVars, dshVars>>
       \/ /\ part \in {"history", "born"} /\ CutoverNext /\ UNCHANGED <<syncVars, dshVars>>
          /\ handle'[Viewer].items \cap Commands = {}
       \/ /\ part = "commands" /\ CutoverNext /\ UNCHANGED <<syncVars, dshVars>>
          /\ handle'[Host].items \cap Messages = {} /\ seeds' <= 1
       \/ /\ part = "tools" /\ DshNext /\ UNCHANGED <<syncVars, cutoverVars>>
          /\ sent' <= 2 /\ errors' = 0 /\ fails' = 0
       \/ /\ part = "steers" /\ DshNext /\ UNCHANGED <<syncVars, cutoverVars>>
          /\ steps' = 0 /\ kills' = 0 /\ errors' + cancels' + fails' <= 2

Spec == Init /\ [][Next]_vars
=============================================================================
