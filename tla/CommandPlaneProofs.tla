------------------------- MODULE CommandPlaneProofs -------------------------
(***************************************************************************)
(* Proofs about CommandPlane, for every set of commands, every clock and   *)
(* every number of crashes.                                                *)
(***************************************************************************)
EXTENDS CommandPlane, TLAPS

USE CmdsAssumption, IssuedAssumption, WorkersAssumption, RepliesAssumption,
    BoundsAssumption

TypeInv == TypeOK /\ LocalsOK

\* Appending a message keeps a transcript a transcript.
LEMMA AppendType ==
    ASSUME NEW t \in Talks, NEW m \in Msgs
    PROVE  Append1(t, m) \in Talks
BY DEF Talks, Append1

\* So does closing its question.
LEMMA CloseType ==
    ASSUME NEW t \in Talks
    PROVE  CloseQuestion(t) \in Talks
BY DEF Talks, CloseQuestion, ResolveInput

\* The initial state is typed and no drain has begun.
LEMMA InitType == Init => TypeInv
<1> SUFFICES ASSUME Init PROVE TypeInv
    OBVIOUS
<1>1. entry \in [Cmds -> Entries]
    BY DEF Init, Entries, Blank, Kinds, Times
<1>2. status \in [Cmds -> Statuses] /\ room \in [Cmds -> Statuses]
    BY DEF Init, Statuses
<1>3. talk \in Talks
    BY DEF Init, Talks, NoTalk
<1>4. saved \in [status : [Cmds -> Statuses], talk : Talks]
    BY <1>2, <1>3 DEF Init
<1>5. now \in Times /\ crashes \in 0..MaxCrashes
    BY DEF Init, Times
<1>6. verdict \in [Workers -> Verdicts] /\ cur \in [Workers -> Cmds \cup {None}]
    BY DEF Init, Verdicts
<1>7. LocalsOK
    BY DEF Init, LocalsOK, Active
<1> QED
    BY <1>1, <1>2, <1>3, <1>4, <1>5, <1>6, <1>7 DEF Init, TypeInv, TypeOK

\* Every step keeps the types and the locals in order.
LEMMA StepType == TypeInv /\ [Next]_vars => TypeInv'
<1> SUFFICES ASSUME TypeInv, [Next]_vars PROVE TypeInv'
    OBVIOUS
<1> USE DEF TypeInv, TypeOK, LocalsOK, Active, vars, docVars, diskVars, runVars, workerVars, histVars
<1>1. ASSUME NEW c \in Cmds, QueueCommand(c) PROVE TypeInv'
    BY <1>1 DEF QueueCommand, Entries, Talks, Statuses, Kinds, Times
<1>2. ASSUME NEW c \in Cmds, RemoteQueue(c) PROVE TypeInv'
    BY <1>2 DEF RemoteQueue, Entries, Talks, Statuses, Kinds, Times
<1>3. CASE Push
    BY <1>3 DEF Push, Later, Settled
<1>4. CASE Import
    BY <1>4 DEF Import, Later, Settled
<1>5. CASE RowArrives
    BY <1>5 DEF RowArrives
<1>6. CASE SetSessions
    BY <1>6 DEF SetSessions
<1>7. CASE Wake
    BY <1>7 DEF Wake
<1>8. CASE SaveSnapshot
    BY <1>8 DEF SaveSnapshot
<1>9. ASSUME NEW w \in Workers, Enter(w) PROVE TypeInv'
    BY <1>9 DEF Enter
<1>10. ASSUME NEW w \in Workers, Pick(w) PROVE TypeInv'
    BY <1>10 DEF Pick, Drainable, HasNewerSameKind
<1>11. ASSUME NEW w \in Workers, DrainReturns(w) PROVE TypeInv'
    BY <1>11 DEF DrainReturns
<1>12. ASSUME NEW w \in Workers, Evaluate(w) PROVE TypeInv'
    BY <1>12 DEF Evaluate, EvaluateCommand, Verdicts, Outcomes
<1>13. ASSUME NEW w \in Workers, Mark(w) PROVE TypeInv'
    <2>1. cur[w] \in Cmds /\ ledger' \subseteq Cmds
        BY <1>13 DEF Mark, MarkProcessed
    <2>2. CASE verdict[w] = "Skip"
        <3>1. /\ pc' = [pc EXCEPT ![w] = "loop"]
              /\ cur' = [cur EXCEPT ![w] = None]
              /\ newer' = [newer EXCEPT ![w] = FALSE]
              /\ verdict' = [verdict EXCEPT ![w] = "Skip"]
              /\ skipped' = [skipped EXCEPT ![w] = @ \cup {cur[w]}]
            BY <1>13, <2>2 DEF Mark, Forget
        <3>2. newer' \in [Workers -> BOOLEAN]
            BY <3>1
        <3>3. /\ cur' \in [Workers -> Cmds \cup {None}]
              /\ verdict' \in [Workers -> Verdicts]
              /\ skipped' \in [Workers -> SUBSET Cmds]
            BY <2>1, <3>1 DEF Verdicts
        <3>4. LocalsOK'
            BY <3>1
        <3> QED
            BY <1>13, <2>1, <3>1, <3>2, <3>3, <3>4 DEF Mark
    <2>3. CASE verdict[w] = "Execute"
        BY <1>13, <2>1, <2>3 DEF Mark, Verdicts, Outcomes
    <2>4. CASE verdict[w] \in {"Expired", "Superseded"}
        BY <1>13, <2>1, <2>4 DEF Mark, Verdicts, Outcomes
    <2> QED
        BY <1>13, <2>2, <2>3, <2>4 DEF Mark
<1>14. ASSUME NEW w \in Workers, Execute(w) PROVE TypeInv'
    <2>1. cur[w] \in Cmds
        BY <1>14 DEF Execute
    <2>2. \A t \in Talks : \A out : Dispatch(cur[w], t, out) =>
             /\ talk' \in Talks
             /\ live' \in {"none", "steerable", "fixed"}
             /\ config' \in BOOLEAN /\ resolver' \in BOOLEAN
        <3> SUFFICES ASSUME NEW t \in Talks, NEW out, Dispatch(cur[w], t, out)
                     PROVE  /\ talk' \in Talks
                            /\ live' \in {"none", "steerable", "fixed"}
                            /\ config' \in BOOLEAN /\ resolver' \in BOOLEAN
            OBVIOUS
        <3>1. cur[w] \in Msgs /\ CloseQuestion(t) \in Talks
            BY <2>1, CloseType DEF Msgs
        <3>2. Append1(t, cur[w]) \in Talks /\ Append1(CloseQuestion(t), cur[w]) \in Talks
            BY <3>1, AppendType
        <3> QED BY <3>1, <3>2 DEF Dispatch
    <2>3. ResolveInput(talk) \in Talks
        BY DEF Talks, ResolveInput
    <2> DEFINE Typed == /\ talk' \in Talks
                        /\ live' \in {"none", "steerable", "fixed"}
                        /\ config' \in BOOLEAN /\ resolver' \in BOOLEAN
                        /\ row' \in {"none", "ours", "theirs"} /\ answers' \in Nat
    <2>4. PICK out \in {"Applied", "Rejected"} :
             /\ verdict' = [verdict EXCEPT ![w] = out]
             /\ CASE entry[cur[w]].kind = "Run"       -> ExecuteRun(cur[w], out)
                  [] entry[cur[w]].kind = "Steer"     -> ExecuteSteer(cur[w], out)
                  [] entry[cur[w]].kind = "Interrupt" -> ExecuteInterrupt(cur[w], out)
                  [] OTHER                            -> ExecuteRespondInput(cur[w], out)
        BY <1>14 DEF Execute
    <2>5. CASE ExecuteRun(cur[w], out)
        <3>1. Typed
            BY <2>2, <2>5 DEF ExecuteRun
        <3> QED BY <1>14, <2>1, <2>4, <3>1 DEF Execute, Verdicts, Outcomes
    <2>6. CASE ExecuteSteer(cur[w], out)
        <3>1. Typed
            <4>1. Append1(talk, cur[w]) \in Talks
                BY <2>1, AppendType DEF Msgs
            <4>2. CASE Dispatch(cur[w], talk, out)
                BY <2>2, <2>6, <4>2 DEF ExecuteSteer
            <4>3. CASE ~Dispatch(cur[w], talk, out)
                BY <2>6, <4>1, <4>3 DEF ExecuteSteer
            <4> QED BY <4>2, <4>3
        <3> QED BY <1>14, <2>1, <2>4, <3>1 DEF Execute, Verdicts, Outcomes
    <2>7. CASE ExecuteInterrupt(cur[w], out)
        <3>1. Typed
            BY <2>7, CloseType DEF ExecuteInterrupt
        <3> QED BY <1>14, <2>1, <2>4, <3>1 DEF Execute, Verdicts, Outcomes
    <2>8. CASE ExecuteRespondInput(cur[w], out)
        <3>1. Typed
            <4>1. CASE Dispatch(cur[w], ResolveInput(talk), out)
                BY <2>2, <2>3, <2>8, <4>1 DEF ExecuteRespondInput
            <4>2. CASE ~Dispatch(cur[w], ResolveInput(talk), out)
                <5>1. answers' \in Nat /\ row' = row /\ talk' = talk /\ live' = live
                      /\ config' = config
                    BY <2>8, <4>2 DEF ExecuteRespondInput
                <5>2. resolver' = FALSE \/ resolver' = resolver
                    BY <2>8, <4>2 DEF ExecuteRespondInput
                <5> QED BY <5>1, <5>2
            <4> QED BY <4>1, <4>2
        <3> QED BY <1>14, <2>1, <2>4, <3>1 DEF Execute, Verdicts, Outcomes
    <2> QED
        BY <2>4, <2>5, <2>6, <2>7, <2>8
<1>15. ASSUME NEW w \in Workers, Resolve(w) PROVE TypeInv'
    BY <1>15 DEF Resolve, Forget, Statuses, Verdicts
<1>16. CASE RunReplies
    <2>1. PICK r \in Replies \ minted : talk' = Append1(talk, r) /\ minted' = minted \cup {r}
        BY <1>16 DEF RunReplies
    <2>2. talk' \in Talks
        BY <2>1, AppendType DEF Msgs
    <2> QED
        BY <1>16, <2>1, <2>2 DEF RunReplies
<1>17. CASE RunAsks
    BY <1>17 DEF RunAsks, Talks
<1>23. CASE RunSteered
    BY <1>23 DEF RunSteered, Talks
<1>18. CASE RunFoldsAnswer
    BY <1>18 DEF RunFoldsAnswer, Talks, ResolveInput
<1>19. CASE RunEnds
    BY <1>19, CloseType DEF RunEnds
<1>20. CASE Tick
    BY <1>20 DEF Tick, Times
<1>21. CASE CrashAndReopen
    <2>1. status' \in [Cmds -> Statuses] /\ talk' \in Talks
        BY <1>21 DEF CrashAndReopen
    <2>3. crashes' \in 0..MaxCrashes
        BY <1>21 DEF CrashAndReopen
    <2>4. wired' \in BOOLEAN
        BY <1>21, Zenon DEF CrashAndReopen
    <2>5. config' \in BOOLEAN /\ resolver' \in BOOLEAN /\ notified' \in BOOLEAN
          /\ armed' \in BOOLEAN
        BY <1>21 DEF CrashAndReopen
    <2>2. /\ pc' \in [Workers -> {"idle", "start"}]
          /\ cur' \in [Workers -> Cmds \cup {None}]
          /\ newer' \in [Workers -> BOOLEAN]
          /\ verdict' \in [Workers -> Verdicts]
          /\ skipped' \in [Workers -> SUBSET Cmds]
        BY <1>21 DEF CrashAndReopen, Verdicts
    <2> QED
        BY <1>21, <2>1, <2>2, <2>3, <2>4, <2>5 DEF CrashAndReopen
<1>22. CASE UNCHANGED vars
    BY <1>22
<1> QED
    BY <1>1, <1>2, <1>3, <1>4, <1>5, <1>6, <1>7, <1>8, <1>9, <1>10, <1>11, <1>12,
       <1>13, <1>14, <1>15, <1>16, <1>17, <1>18, <1>19, <1>20, <1>21, <1>22, <1>23
       DEF Next, Drain

\* The command plane keeps its types: statuses, transcripts, the ledger and
\* every drain's locals (doc_host.rs, store.rs), with any number of drains.
THEOREM TypeCorrect == Spec => []TypeOK
<1>1. Spec => []TypeInv
    BY InitType, StepType, PTL DEF Spec
<1>2. TypeInv => TypeOK
    BY DEF TypeInv
<1> QED
    BY <1>1, <1>2, PTL

-----------------------------------------------------------------------------
(* Supersession, with any number of drains.                                *)

\* Nothing is superseded at first.
LEMMA InitSuperseded == Init => SupersededInv
BY DEF Init, SupersededInv, Active

\* What overtakes an entry in one copy does so in a copy that holds at least as
\* many entries, as long as those are not rewritten.
LEMMA OvertakenMonotone ==
    ASSUME NEW en, NEW em, NEW f, NEW g, NEW c \in Cmds, Overtaken(en, f, c),
           em[c] = en[c],
           \A d \in Cmds : f[d] # "absent" => g[d] # "absent" /\ em[d] = en[d]
    PROVE  Overtaken(em, g, c)
BY DEF Overtaken

\* A step takes nothing out of a copy and rewrites no entry it holds.
KeepsCopy(f, g) ==
    \A d \in Cmds : f[d] # "absent" => g[d] # "absent" /\ entry'[d] = entry[d]

\* A drain goes on with the command it has.
HoldsOn(w) ==
    /\ Active(w) /\ cur'[w] = cur[w] /\ newer'[w] = newer[w]
    /\ verdict'[w] = "Superseded" /\ pc'[w] # "picked" =>
         \/ verdict[w] = "Superseded" /\ pc[w] # "picked"
         \/ Overtaken(entry', status', cur[w])

\* A drain has picked a command.
TakesUp(w) ==
    /\ pc'[w] = "picked" /\ cur'[w] \in Cmds /\ status'[cur'[w]] # "absent"
    /\ newer'[w] => Overtaken(entry', status', cur'[w])

\* What is overtaken stays so in a copy that is kept.
LEMMA OvertakenKept ==
    ASSUME NEW f, NEW g, NEW c \in Cmds, KeepsCopy(f, g), f[c] # "absent",
           Overtaken(entry, f, c)
    PROVE  Overtaken(entry', g, c)
BY OvertakenMonotone DEF KeepsCopy

\* A drain that goes on still holds an entry the document has, with its reasons.
LEMMA DrainKept ==
    ASSUME TypeInv, SupersededInv, KeepsCopy(status, status'),
           NEW w \in Workers, HoldsOn(w)
    PROVE  /\ status'[cur'[w]] # "absent"
           /\ newer'[w] => Overtaken(entry', status', cur'[w])
           /\ verdict'[w] = "Superseded" /\ pc'[w] # "picked"
                => Overtaken(entry', status', cur'[w])
<1>1. /\ cur[w] \in Cmds /\ status[cur[w]] # "absent"
      /\ newer[w] => Overtaken(entry, status, cur[w])
      /\ verdict[w] = "Superseded" /\ pc[w] # "picked" => Overtaken(entry, status, cur[w])
    BY DEF TypeInv, LocalsOK, SupersededInv, HoldsOn
<1>2. Overtaken(entry, status, cur[w]) => Overtaken(entry', status', cur[w])
    BY <1>1, OvertakenKept
<1>3. status'[cur[w]] # "absent"
    BY <1>1 DEF KeepsCopy
<1> QED
    BY <1>1, <1>2, <1>3 DEF HoldsOn

\* A step that keeps the copies keeps SupersededInv, when what it newly calls
\* superseded is overtaken and each drain goes on, picks or is done.
LEMMA KeepsSuperseded ==
    ASSUME TypeInv, SupersededInv,
           KeepsCopy(status, status'), KeepsCopy(room, room'),
           KeepsCopy(saved.status, saved.status),
           \A c \in Cmds : status'[c] = "Superseded" =>
               status[c] = "Superseded" \/ Overtaken(entry', status', c),
           \A c \in Cmds : room'[c] = "Superseded" =>
               room[c] = "Superseded" \/ Overtaken(entry', room', c),
           saved'.status = saved.status \/ saved'.status = status',
           \A w \in Workers : Active(w)' => HoldsOn(w) \/ TakesUp(w)
    PROVE  SupersededInv'
<1>1. \A c \in Cmds : status'[c] = "Superseded" => Overtaken(entry', status', c)
    BY OvertakenKept DEF SupersededInv
<1>2. \A c \in Cmds : room'[c] = "Superseded" => Overtaken(entry', room', c)
    BY OvertakenKept DEF SupersededInv
<1>3. \A c \in Cmds : saved'.status[c] = "Superseded" => Overtaken(entry', saved'.status, c)
    <2>1. CASE saved'.status = status'
        BY <1>1, <2>1
    <2>2. CASE saved'.status = saved.status
        <3>1. \A c \in Cmds : saved.status[c] = "Superseded" => Overtaken(entry', saved.status, c)
            BY OvertakenKept DEF SupersededInv
        <3> QED
            BY <2>2, <3>1
    <2> QED
        BY <2>1, <2>2
<1>4. ASSUME NEW w \in Workers, Active(w)'
      PROVE  /\ status'[cur'[w]] # "absent"
             /\ newer'[w] => Overtaken(entry', status', cur'[w])
             /\ verdict'[w] = "Superseded" /\ pc'[w] # "picked"
                  => Overtaken(entry', status', cur'[w])
    <2>1. CASE HoldsOn(w)
        BY <2>1, DrainKept
    <2>2. CASE TakesUp(w)
        BY <2>2 DEF TakesUp
    <2> QED
        BY <1>4, <2>1, <2>2
<1> QED
    BY <1>1, <1>2, <1>3, <1>4 DEF SupersededInv

\* Every step keeps it so.
LEMMA StepSuperseded ==
    ASSUME TypeInv, SupersededInv, [Next]_vars
    PROVE  SupersededInv'
<1> USE DEF vars, docVars, diskVars, runVars, workerVars, histVars
<1> DEFINE Same == UNCHANGED <<entry, status, room, saved>>
<1>0. Same => /\ KeepsCopy(status, status') /\ KeepsCopy(room, room')
              /\ KeepsCopy(saved.status, saved.status)
              /\ saved'.status = saved.status
    BY DEF KeepsCopy
<1>s. Same /\ (\A w \in Workers : Active(w)' => HoldsOn(w) \/ TakesUp(w)) => SupersededInv'
    BY <1>0, KeepsSuperseded
<1>1. ASSUME NEW c \in Cmds, QueueCommand(c) \/ RemoteQueue(c) PROVE SupersededInv'
    <2>1. /\ status[c] = "absent" /\ room[c] = "absent" /\ saved.status[c] = "absent"
          /\ \A d \in Cmds \ {c} : entry'[d] = entry[d]
          /\ \A d \in Cmds \ {c} : status'[d] = status[d] /\ room'[d] = room[d]
          /\ status'[c] \in {"absent", "Pending"} /\ room'[c] \in {"absent", "Pending"}
          /\ UNCHANGED <<saved, pc, cur, newer, verdict>>
        BY <1>1 DEF QueueCommand, RemoteQueue, Fresh, TypeInv, TypeOK
    <2>2. /\ KeepsCopy(status, status') /\ KeepsCopy(room, room')
          /\ KeepsCopy(saved.status, saved.status)
        BY <2>1 DEF KeepsCopy
    <2>3. \A w \in Workers : Active(w)' => HoldsOn(w)
        BY <2>1 DEF HoldsOn, Active
    <2>4. \A d \in Cmds : /\ status'[d] = "Superseded" => status[d] = "Superseded"
                          /\ room'[d] = "Superseded" => room[d] = "Superseded"
        BY <2>1
    <2> QED
        BY <2>1, <2>2, <2>3, <2>4, KeepsSuperseded
<1>2. CASE Push
    <2>1. \A d \in Cmds : /\ room'[d] = room[d] \/ room'[d] = status[d]
                          /\ room[d] # "absent" => room'[d] # "absent"
                          /\ status[d] # "absent" => room'[d] # "absent"
        BY <1>2 DEF Push, Later, Settled, Outcomes
    <2>2. UNCHANGED <<entry, status, saved, pc, cur, newer, verdict>>
        BY <1>2 DEF Push
    <2>3. /\ KeepsCopy(status, status') /\ KeepsCopy(room, room')
          /\ KeepsCopy(saved.status, saved.status) /\ KeepsCopy(status, room')
        BY <2>1, <2>2 DEF KeepsCopy
    <2>4. \A d \in Cmds : status[d] = "Superseded" => Overtaken(entry', room', d)
        BY <2>3, OvertakenKept DEF SupersededInv
    <2>5. \A w \in Workers : Active(w)' => HoldsOn(w)
        BY <2>2 DEF HoldsOn, Active
    <2> QED
        BY <2>1, <2>2, <2>3, <2>4, <2>5, KeepsSuperseded
<1>3. CASE Import
    <2>1. \A d \in Cmds : /\ status'[d] = room[d] \/ status'[d] = status[d]
                          /\ room[d] # "absent" => status'[d] # "absent"
                          /\ status[d] # "absent" => status'[d] # "absent"
        BY <1>3 DEF Import, Later, Settled, Outcomes
    <2>2. UNCHANGED <<entry, room, pc, cur, newer, verdict>>
        BY <1>3 DEF Import
    <2>3. saved'.status = saved.status \/ saved'.status = status'
        <3>1. saved' = saved \/ saved' = [status |-> status', talk |-> talk]
            BY <1>3 DEF Import
        <3> QED
            BY <3>1
    <2>4. /\ KeepsCopy(status, status') /\ KeepsCopy(room, room')
          /\ KeepsCopy(saved.status, saved.status) /\ KeepsCopy(room, status')
        BY <2>1, <2>2 DEF KeepsCopy
    <2>5. \A d \in Cmds : room[d] = "Superseded" => Overtaken(entry', status', d)
        BY <2>4, OvertakenKept DEF SupersededInv
    <2>6. \A w \in Workers : Active(w)' => HoldsOn(w)
        BY <2>2 DEF HoldsOn, Active
    <2> QED
        BY <2>1, <2>2, <2>3, <2>4, <2>5, <2>6, KeepsSuperseded
<1>4. CASE RowArrives \/ SetSessions \/ Wake \/ Tick
    <2>1. /\ Same /\ UNCHANGED <<cur, newer, verdict>>
          /\ \A w \in Workers : pc'[w] = pc[w] \/ pc'[w] = "start"
        BY <1>4 DEF RowArrives, SetSessions, Wake, Tick, TypeInv, TypeOK
    <2>2. \A w \in Workers : Active(w)' => HoldsOn(w)
        BY <2>1 DEF HoldsOn, Active
    <2> QED
        BY <1>s, <2>1, <2>2
<1>5. CASE SaveSnapshot
    <2>1. /\ UNCHANGED <<entry, status, room, pc, cur, newer, verdict>>
          /\ saved'.status = status'
        BY <1>5 DEF SaveSnapshot
    <2>2. /\ KeepsCopy(status, status') /\ KeepsCopy(room, room')
          /\ KeepsCopy(saved.status, saved.status)
        BY <2>1 DEF KeepsCopy
    <2>3. \A w \in Workers : Active(w)' => HoldsOn(w)
        BY <2>1 DEF HoldsOn, Active
    <2> QED
        BY <2>1, <2>2, <2>3, KeepsSuperseded
<1>6. ASSUME NEW w \in Workers, Enter(w) \/ DrainReturns(w) PROVE SupersededInv'
    <2>1. /\ Same /\ UNCHANGED <<cur, newer, verdict>>
          /\ \A v \in Workers : pc'[v] = pc[v] \/ pc'[v] \in {"loop", "idle"}
        BY <1>6 DEF Enter, DrainReturns, TypeInv, TypeOK
    <2>2. \A v \in Workers : Active(v)' => HoldsOn(v)
        BY <2>1 DEF HoldsOn, Active
    <2> QED
        BY <1>s, <2>1, <2>2
<1>7. ASSUME NEW w \in Workers, Pick(w) PROVE SupersededInv'
    <2>1. PICK c \in Drainable(w) : /\ cur' = [cur EXCEPT ![w] = c]
                                   /\ newer' = [newer EXCEPT ![w] = HasNewerSameKind(c)]
        BY <1>7 DEF Pick
    <2>2. Same /\ verdict' = verdict /\ pc' = [pc EXCEPT ![w] = "picked"]
        BY <1>7 DEF Pick
    <2>3. c \in Cmds /\ status[c] = "Pending"
        BY DEF Drainable
    <2>4. HasNewerSameKind(c) => Overtaken(entry, status, c)
        BY <2>3 DEF HasNewerSameKind, Overtaken
    <2>5. \A v \in Workers \ {w} : Active(v)' => HoldsOn(v)
        BY <2>1, <2>2 DEF TypeInv, TypeOK, HoldsOn, Active
    <2>6. TakesUp(w)
        BY <2>1, <2>2, <2>3, <2>4 DEF TypeInv, TypeOK, TakesUp
    <2> QED
        BY <1>s, <2>2, <2>5, <2>6
<1>8. ASSUME NEW w \in Workers, Evaluate(w) PROVE SupersededInv'
    <2>1. /\ Same /\ UNCHANGED <<cur, newer>> /\ pc[w] = "picked" /\ cur[w] \in Cmds
          /\ \A v \in Workers \ {w} : verdict'[v] = verdict[v] /\ pc'[v] = pc[v]
          /\ verdict'[w] = EvaluateCommand(cur[w], newer[w])
        BY <1>8 DEF Evaluate, TypeInv, TypeOK, LocalsOK, Active
    <2>2. AimsAtPastTurn(cur[w]) => Overtaken(entry, status, cur[w])
        BY DEF AimsAtPastTurn, Overtaken, Talks, Msgs, TypeInv, TypeOK
    <2>3. newer[w] => Overtaken(entry, status, cur[w])
        BY <2>1 DEF SupersededInv, Active
    <2>4. verdict'[w] = "Superseded" => Overtaken(entry, status, cur[w])
        BY <2>1, <2>2, <2>3 DEF EvaluateCommand
    <2>5. \A v \in Workers : Active(v)' => HoldsOn(v)
        BY <2>1, <2>4 DEF HoldsOn, Active
    <2> QED
        BY <1>s, <2>1, <2>5
<1>9. ASSUME NEW w \in Workers, Mark(w) PROVE SupersededInv'
    <2>1. /\ Same /\ pc[w] = "evaluated"
          /\ \A v \in Workers \ {w} : /\ verdict'[v] = verdict[v] /\ pc'[v] = pc[v]
                                      /\ cur'[v] = cur[v] /\ newer'[v] = newer[v]
          /\ \/ pc'[w] = "loop"
             \/ cur'[w] = cur[w] /\ newer'[w] = newer[w] /\ verdict'[w] = verdict[w]
        BY <1>9 DEF Mark, Forget, TypeInv, TypeOK
    <2>2. \A v \in Workers : Active(v)' => HoldsOn(v)
        BY <2>1 DEF HoldsOn, Active
    <2> QED
        BY <1>s, <2>1, <2>2
<1>10. ASSUME NEW w \in Workers, Execute(w) PROVE SupersededInv'
    <2>1. /\ Same /\ UNCHANGED <<cur, newer>>
          /\ pc[w] = "marked" /\ pc' = [pc EXCEPT ![w] = "ran"]
          /\ verdict'[w] \in {"Applied", "Rejected"}
          /\ \A v \in Workers \ {w} : verdict'[v] = verdict[v]
        BY <1>10 DEF Execute, TypeInv, TypeOK
    <2>2. \A v \in Workers : Active(v)' => HoldsOn(v)
        BY <2>1 DEF HoldsOn, Active, TypeInv, TypeOK
    <2> QED
        BY <1>s, <2>1, <2>2
<1>11. ASSUME NEW w \in Workers, Resolve(w) PROVE SupersededInv'
    <2>1. /\ UNCHANGED <<entry, saved, room>> /\ pc[w] = "ran" /\ pc'[w] = "loop"
          /\ status' = [status EXCEPT ![cur[w]] = verdict[w]]
          /\ \A v \in Workers \ {w} : /\ verdict'[v] = verdict[v] /\ pc'[v] = pc[v]
                                      /\ cur'[v] = cur[v] /\ newer'[v] = newer[v]
        BY <1>11 DEF Resolve, Forget, TypeInv, TypeOK
    <2>2. cur[w] \in Cmds /\ verdict[w] # "absent" /\ status \in [Cmds -> Statuses]
        BY <2>1 DEF Outcomes, TypeInv, TypeOK, LocalsOK, Active
    <2>3. /\ KeepsCopy(status, status') /\ KeepsCopy(room, room')
          /\ KeepsCopy(saved.status, saved.status)
        BY <2>1, <2>2 DEF KeepsCopy
    <2>4. status[cur[w]] # "absent"
          /\ (verdict[w] = "Superseded" => Overtaken(entry, status, cur[w]))
        BY <2>1 DEF SupersededInv, Active
    <2>5. verdict[w] = "Superseded" => Overtaken(entry', status', cur[w])
        BY <2>2, <2>3, <2>4, OvertakenKept
    <2>6. \A d \in Cmds : status'[d] = "Superseded" =>
             status[d] = "Superseded" \/ Overtaken(entry', status', d)
        BY <2>1, <2>2, <2>5
    <2>7. \A v \in Workers : Active(v)' => HoldsOn(v)
        BY <2>1 DEF HoldsOn, Active
    <2> QED
        BY <2>1, <2>3, <2>6, <2>7, KeepsSuperseded
<1>12. CASE RunReplies \/ RunAsks \/ RunSteered \/ RunFoldsAnswer \/ RunEnds \/ UNCHANGED vars
    <2>1. Same /\ UNCHANGED <<pc, cur, newer, verdict>>
        BY <1>12 DEF RunReplies, RunAsks, RunSteered, RunFoldsAnswer, RunEnds
    <2>2. \A w \in Workers : Active(w)' => HoldsOn(w)
        BY <2>1 DEF HoldsOn, Active
    <2> QED
        BY <1>s, <2>1, <2>2
<1>13. CASE CrashAndReopen
    <2>1. /\ UNCHANGED <<entry, room, saved>> /\ status' = saved.status
          /\ \A w \in Workers : ~Active(w)'
        BY <1>13 DEF CrashAndReopen, Active
    <2> QED
        BY <2>1 DEF SupersededInv
<1> QED
    BY <1>1, <1>2, <1>3, <1>4, <1>5, <1>6, <1>7, <1>8, <1>9, <1>10, <1>11, <1>12, <1>13
       DEF Next, Drain

\* The last word of a kind is never dropped as superseded (commands.rs,
\* evaluate_command), with any number of drains, clocks that disagree, and
\* crashes that take part of the document back.
THEOREM LastWordIsKept == Spec => []NewestIsNeverSuperseded
<1>1. Spec => [](TypeInv /\ SupersededInv)
    BY InitType, StepType, InitSuperseded, StepSuperseded, PTL DEF Spec
<1>2. SupersededInv => NewestIsNeverSuperseded
    BY DEF SupersededInv, NewestIsNeverSuperseded
<1> QED
    BY <1>1, <1>2, PTL

-----------------------------------------------------------------------------
(* One drain.  In the engine set_sessions runs before any document opens,  *)
(* so chat_task's drain is the only one of its document.                   *)

OneDrain == Workers = {Task}

\* No command is marked, executed or held by the drain at first.
LEMMA InitDrain == Init => DrainInv
BY DEF Init, DrainInv, Active, Settled, Outcomes

\* A merge of two copies is settled only if one of them is.
LEMMA LaterSettled ==
    ASSUME NEW a \in Statuses, NEW b \in Statuses
    PROVE  /\ Settled(Later(a, b)) => Settled(a) \/ Settled(b)
           /\ a = "Pending" /\ ~Settled(b) => Later(a, b) = "Pending"
           /\ Settled(a) => Later(a, b) = a
BY DEF Later, Settled, Statuses, Outcomes

\* Every step of the one-drain system preserves DrainInv.
LEMMA StepDrain ==
    ASSUME OneDrain, TypeInv, DrainInv, [Next]_vars
    PROVE  DrainInv'
<1> USE DEF OneDrain, TypeInv, TypeOK, LocalsOK, Active, DrainInv,
        vars, docVars, diskVars, runVars, workerVars, histVars
<1>1. ASSUME NEW c \in Cmds, QueueCommand(c) PROVE DrainInv'
    BY <1>1 DEF QueueCommand, Fresh, Settled, Outcomes
<1>2. ASSUME NEW c \in Cmds, RemoteQueue(c) PROVE DrainInv'
    BY <1>2 DEF RemoteQueue, Fresh, Settled, Outcomes
<1>3. CASE Push
    <2>1. \A c \in Cmds : Settled(room'[c]) => Settled(room[c]) \/ Settled(status[c])
        BY <1>3, LaterSettled DEF Push
    <2>2. \A c \in Cmds : Settled(room'[c]) => c \in ledger
        BY <2>1
    <2>3. \A w \in Workers : Active(w) => ~Settled(room'[cur[w]])
        BY <2>1 DEF Settled, Outcomes
    <2> QED
        BY <1>3, <2>2, <2>3 DEF Push
<1>4. CASE Import
    <2>1. \A c \in Cmds : /\ Settled(status'[c]) => Settled(room[c]) \/ Settled(status[c])
                          /\ status[c] = "Pending" /\ ~Settled(room[c])
                                => status'[c] = "Pending"
        BY <1>4, LaterSettled DEF Import
    <2>2. \A c \in Cmds : Settled(saved'.status[c]) => c \in ledger
        BY <1>4, <2>1 DEF Import
    <2> QED
        BY <1>4, <2>1, <2>2 DEF Import
<1>5. CASE RowArrives
    BY <1>5 DEF RowArrives
<1>6. CASE SetSessions
    BY <1>6 DEF SetSessions
<1>7. CASE Wake
    BY <1>7 DEF Wake
<1>8. CASE SaveSnapshot
    BY <1>8 DEF SaveSnapshot
<1>9. ASSUME NEW w \in Workers, Enter(w) PROVE DrainInv'
    BY <1>9 DEF Enter
<1>10. ASSUME NEW w \in Workers, Pick(w) PROVE DrainInv'
    BY <1>10 DEF Pick, Drainable, Settled, Outcomes
<1>11. ASSUME NEW w \in Workers, DrainReturns(w) PROVE DrainInv'
    BY <1>11 DEF DrainReturns
<1>12. ASSUME NEW w \in Workers, Evaluate(w) PROVE DrainInv'
    BY <1>12 DEF Evaluate
<1>13. ASSUME NEW w \in Workers, Mark(w) PROVE DrainInv'
    BY <1>13 DEF Mark, MarkProcessed, Forget
<1>14. ASSUME NEW w \in Workers, Execute(w) PROVE DrainInv'
    <2>1. /\ pc[w] = "marked" /\ pc' = [pc EXCEPT ![w] = "ran"]
          /\ execs' = [execs EXCEPT ![cur[w]] = @ + 1]
          /\ UNCHANGED <<status, saved, ledger, room, cur>>
        BY <1>14 DEF Execute
    <2> QED
        BY <2>1
<1>15. ASSUME NEW w \in Workers, Resolve(w) PROVE DrainInv'
    BY <1>15 DEF Resolve, Forget
<1>16. CASE RunReplies
    BY <1>16 DEF RunReplies
<1>17. CASE RunAsks \/ RunSteered
    BY <1>17 DEF RunAsks, RunSteered
<1>18. CASE RunFoldsAnswer
    BY <1>18 DEF RunFoldsAnswer
<1>19. CASE RunEnds
    BY <1>19 DEF RunEnds
<1>20. CASE Tick
    BY <1>20 DEF Tick
<1>21. CASE CrashAndReopen
    BY <1>21 DEF CrashAndReopen
<1>22. CASE UNCHANGED vars
    BY <1>22
<1> QED
    BY <1>1, <1>2, <1>3, <1>4, <1>5, <1>6, <1>7, <1>8, <1>9, <1>10, <1>11, <1>12, <1>13, <1>14, <1>15, <1>16, <1>17, <1>18, <1>19, <1>20, <1>21, <1>22
       DEF Next, Drain

\* An outcome written into the document stays, until a crash loses the
\* unsaved document: the drain never re-evaluates a settled command, and no
\* import brings an older copy back.
THEOREM OutcomesAreFinal ==
    ASSUME OneDrain
    PROVE  Spec => OutcomeIsFinal
<1>1. TypeInv /\ DrainInv /\ [Next]_vars => (TypeInv /\ DrainInv)'
    BY StepType, StepDrain, OneDrain
<1>2. Spec => [](TypeInv /\ DrainInv)
    BY InitType, InitDrain, <1>1, PTL DEF Spec
<1>3. ASSUME TypeInv, DrainInv, [Next]_vars, NEW c \in Cmds,
             Settled(status[c]), crashes' = crashes
      PROVE  status'[c] = status[c]
    <2> USE DEF TypeInv, TypeOK, vars, docVars, diskVars, runVars, workerVars, histVars
    <2>0. status[c] # "absent" /\ status[c] # "Pending"
        BY <1>3 DEF Settled, Outcomes
    <2>1. ASSUME NEW d \in Cmds, QueueCommand(d) \/ RemoteQueue(d) PROVE status'[c] = status[c]
        BY <1>3, <2>0, <2>1 DEF QueueCommand, RemoteQueue, Fresh
    <2>2. CASE Import
        BY <1>3, <2>2, LaterSettled DEF Import
    <2>3. ASSUME NEW w \in Workers, Drain(w) PROVE status'[c] = status[c]
        <3>1. CASE Resolve(w)
            BY <1>3, <2>0, <3>1 DEF Resolve, DrainInv, Active, LocalsOK
        <3>2. CASE Execute(w)
            BY <3>2 DEF Execute
        <3>3. CASE Enter(w) \/ Pick(w) \/ DrainReturns(w) \/ Evaluate(w) \/ Mark(w)
            BY <3>3 DEF Enter, Pick, DrainReturns, Evaluate, Mark
        <3> QED BY <2>3, <3>1, <3>2, <3>3 DEF Drain
    <2>4. CASE Push \/ RowArrives \/ SetSessions \/ Wake \/ SaveSnapshot \/ Tick
        BY <2>4 DEF Push, RowArrives, SetSessions, Wake, SaveSnapshot, Tick
    <2>5. CASE RunReplies \/ RunAsks \/ RunSteered \/ RunFoldsAnswer \/ RunEnds
        BY <2>5 DEF RunReplies, RunAsks, RunSteered, RunFoldsAnswer, RunEnds
    <2>6. CASE CrashAndReopen
        BY <1>3, <2>6 DEF CrashAndReopen
    <2>7. CASE UNCHANGED vars
        BY <2>7
    <2> QED
        BY <1>3, <2>1, <2>2, <2>3, <2>4, <2>5, <2>6, <2>7 DEF Next
<1>4. TypeInv /\ DrainInv /\ [Next]_vars
        => [\A c \in Cmds : Settled(status[c]) /\ crashes' = crashes
                            => status'[c] = status[c]]_vars
    BY <1>3
<1> QED
    BY <1>2, <1>4, PTL DEF Spec, OutcomeIsFinal

\* No command is executed twice, across any number of crashes, document
\* rollbacks and re-imports: the mark is durable before the execution.
THEOREM ExecutedAtMostOnce ==
    ASSUME OneDrain
    PROVE  Spec => []AtMostOnce
<1>1. TypeInv /\ DrainInv /\ [Next]_vars => (TypeInv /\ DrainInv)'
    BY StepType, StepDrain, OneDrain
<1>2. Spec => [](TypeInv /\ DrainInv)
    BY InitType, InitDrain, <1>1, PTL DEF Spec
<1>3. TypeInv /\ DrainInv => AtMostOnce
    <2> SUFFICES ASSUME DrainInv, NEW c \in Cmds PROVE execs[c] <= 1
        BY DEF AtMostOnce
    <2>1. execs[c] \in {0, 1}
        BY Zenon DEF DrainInv
    <2> QED
        BY <2>1
<1> QED
    BY <1>2, <1>3, PTL

-----------------------------------------------------------------------------
(* CommandPlane implements CommandLedger.                                  *)

\* Nothing is told at first.
LEMMA InitTold == Init => ToldInv
BY DEF Init, ToldInv, Told, Settled, Outcomes

\* Every step of the one-drain system keeps what is told true.
LEMMA StepTold ==
    ASSUME OneDrain, TypeInv, DrainInv, ToldInv, [Next]_vars
    PROVE  ToldInv'
<1> USE DEF OneDrain, TypeInv, TypeOK, LocalsOK, Active, ToldInv, Told,
        vars, docVars, diskVars, runVars, workerVars, histVars
<1>1. ASSUME NEW c \in Cmds, QueueCommand(c) PROVE ToldInv'
    BY <1>1 DEF QueueCommand, Fresh, Settled, Outcomes
<1>2. ASSUME NEW c \in Cmds, RemoteQueue(c) PROVE ToldInv'
    BY <1>2 DEF RemoteQueue, Fresh, Settled, Outcomes
<1>3. CASE Push
    <2>1. \A c \in Cmds : room'[c] = room[c] \/ room'[c] = status[c]
        BY <1>3 DEF Push, Later
    <2> QED
        BY <1>3, <2>1 DEF Push
<1>4. CASE Import
    <2>1. \A c \in Cmds : /\ status'[c] = status[c] \/ status'[c] = room[c]
                          /\ Settled(status[c]) => status'[c] = status[c]
        BY <1>4, LaterSettled DEF Import, Later
    <2>2. \A c \in Cmds : Settled(saved'.status[c]) => status'[c] = saved'.status[c]
        <3>1. CASE saved' = saved
            BY <2>1, <3>1
        <3>2. CASE saved' = [status |-> status', talk |-> talk]
            BY <3>2
        <3> QED
            BY <1>4, <3>1, <3>2 DEF Import
    <2> QED
        BY <1>4, <2>1, <2>2 DEF Import
<1>5. CASE RowArrives \/ SetSessions \/ Wake \/ Tick
    BY <1>5 DEF RowArrives, SetSessions, Wake, Tick
<1>6. CASE SaveSnapshot
    BY <1>6 DEF SaveSnapshot
<1>7. ASSUME NEW w \in Workers, Enter(w) \/ Pick(w) \/ DrainReturns(w) \/ Evaluate(w)
      PROVE  ToldInv'
    BY <1>7 DEF Enter, Pick, DrainReturns, Evaluate
<1>8. ASSUME NEW w \in Workers, Mark(w) PROVE ToldInv'
    <2>1. execs[cur[w]] = 0
        BY <1>8 DEF Mark, DrainInv
    <2>2. /\ UNCHANGED <<status, saved, room, execs>>
          /\ pc'[w] = "ran" => cur' = cur /\ verdict' = verdict
          /\ \A v \in Workers : v = w
        BY <1>8 DEF Mark
    <2>3. pc'[w] = "ran" => verdict[w] \in {"Expired", "Superseded"}
        BY <1>8 DEF Mark
    <2> QED
        BY <2>1, <2>2, <2>3
<1>9. ASSUME NEW w \in Workers, Execute(w) PROVE ToldInv'
    <2>1. /\ pc[w] = "marked" /\ pc' = [pc EXCEPT ![w] = "ran"]
          /\ execs' = [execs EXCEPT ![cur[w]] = @ + 1]
          /\ UNCHANGED <<status, saved, room, cur>>
          /\ verdict'[w] \in {"Applied", "Rejected"}
        BY <1>9 DEF Execute
    <2>2. /\ execs'[cur[w]] = 1 /\ status[cur[w]] = "Pending"
          /\ ~Settled(room[cur[w]])
        BY <2>1 DEF DrainInv
    <2>3. \A v \in Workers : v = w
        OBVIOUS
    <2> QED
        BY <2>1, <2>2, <2>3 DEF Settled, Outcomes
<1>10. ASSUME NEW w \in Workers, Resolve(w) PROVE ToldInv'
    <2>1. /\ status' = [status EXCEPT ![cur[w]] = verdict[w]]
          /\ pc' = [pc EXCEPT ![w] = "loop"]
          /\ UNCHANGED <<saved, room, execs>>
          /\ pc[w] = "ran"
        BY <1>10 DEF Resolve
    <2>2. status[cur[w]] = "Pending" /\ cur[w] \in Cmds /\ Told(verdict[w], cur[w])
        BY <2>1 DEF DrainInv
    <2>3. ~Settled(saved.status[cur[w]])
        BY <2>2 DEF Settled, Outcomes
    <2>4. \A v \in Workers : v = w
        OBVIOUS
    <2> QED
        BY <2>1, <2>2, <2>3, <2>4
<1>11. CASE RunReplies \/ RunAsks \/ RunSteered \/ RunFoldsAnswer \/ RunEnds
    BY <1>11 DEF RunReplies, RunAsks, RunSteered, RunFoldsAnswer, RunEnds
<1>12. CASE CrashAndReopen
    <2>1. /\ status' = saved.status /\ UNCHANGED <<saved, room, execs>>
          /\ \A w \in Workers : pc'[w] # "ran"
        BY <1>12 DEF CrashAndReopen
    <2>2. \A c \in Cmds : Told(saved.status[c], c)
        BY DEF Settled, Outcomes
    <2> QED
        BY <2>1, <2>2
<1>13. CASE UNCHANGED vars
    BY <1>13
<1> QED
    BY <1>1, <1>2, <1>3, <1>4, <1>5, <1>6, <1>7, <1>8, <1>9, <1>10, <1>11, <1>12, <1>13
       DEF Next, Drain

\* A step of the drain is a Take, a Run or nothing to the composers; a step of
\* sync is a Report.
LEMMA StepLedger ==
    ASSUME OneDrain, TypeInv, DrainInv, ToldInv, [Next]_vars
    PROVE  [Ledger!Next]_(Ledger!vars)
<1> USE DEF OneDrain, TypeInv, TypeOK, LocalsOK, Active, Ledger!vars,
        vars, docVars, diskVars, runVars, workerVars, histVars
<1>1. ASSUME NEW c \in Cmds, QueueCommand(c) PROVE UNCHANGED Ledger!vars
    BY <1>1 DEF QueueCommand
<1>2. ASSUME NEW c \in Cmds, RemoteQueue(c) PROVE Ledger!Report
    BY <1>2 DEF RemoteQueue, Fresh, Ledger!Report
<1>3. CASE Push
    <2> SUFFICES ASSUME NEW c \in Cmds, room'[c] # room[c]
                 PROVE  \/ room[c] = "absent" /\ room'[c] = "Pending"
                        \/ /\ room[c] \in {"absent", "Pending"} /\ c \in ledger
                           /\ room'[c] \in (IF execs[c] = 0 THEN Ledger!Spared ELSE Ledger!Ran)
        BY <1>3 DEF Push, Ledger!Report, Ledger!Next
    <2>1. room'[c] = status[c]
        BY <1>3 DEF Push, Later
    <2>2. room[c] = "absent" \/ (room[c] = "Pending" /\ Settled(status[c]))
        BY <1>3, <2>1 DEF Push, Later
    <2>3. CASE Settled(status[c])
        BY <2>1, <2>2, <2>3 DEF DrainInv, ToldInv, Told, Settled, Outcomes, Ledger!Spared, Ledger!Ran
    <2>4. CASE ~Settled(status[c])
        BY <2>1, <2>2, <2>4 DEF Settled, Outcomes, Statuses
    <2> QED
        BY <2>3, <2>4
<1>4. CASE Import \/ RowArrives \/ SetSessions \/ Wake \/ SaveSnapshot \/ Tick
    BY <1>4 DEF Import, RowArrives, SetSessions, Wake, SaveSnapshot, Tick
<1>5. ASSUME NEW w \in Workers,
             Enter(w) \/ Pick(w) \/ DrainReturns(w) \/ Evaluate(w) \/ Resolve(w)
      PROVE  UNCHANGED Ledger!vars
    BY <1>5 DEF Enter, Pick, DrainReturns, Evaluate, Resolve
<1>6. ASSUME NEW w \in Workers, Mark(w) PROVE Ledger!Take(cur[w])
    BY <1>6 DEF Mark, MarkProcessed, DrainInv, Ledger!Take
<1>7. ASSUME NEW w \in Workers, Execute(w) PROVE Ledger!Run(cur[w])
    <2>1. /\ pc[w] = "marked" /\ execs' = [execs EXCEPT ![cur[w]] = @ + 1]
          /\ UNCHANGED <<ledger, room>>
        BY <1>7 DEF Execute
    <2> QED
        BY <2>1 DEF DrainInv, Ledger!Run
<1>8. CASE RunReplies \/ RunAsks \/ RunSteered \/ RunFoldsAnswer \/ RunEnds
    BY <1>8 DEF RunReplies, RunAsks, RunSteered, RunFoldsAnswer, RunEnds
<1>9. CASE CrashAndReopen
    BY <1>9 DEF CrashAndReopen
<1>10. CASE UNCHANGED vars
    BY <1>10
<1>11. \A w \in Workers : Mark(w) \/ Execute(w) => cur[w] \in Cmds
    BY DEF Mark, Execute
<1> QED
    BY <1>1, <1>2, <1>3, <1>4, <1>5, <1>6, <1>7, <1>8, <1>9, <1>10, <1>11
       DEF Next, Drain, Ledger!Next

\* The drain, its ledger and the document implement the promise made to the
\* composers: for every set of commands and any number of crashes each command
\* is taken once, run at most once after that, and told one final outcome that
\* says whether it ran.
THEOREM CommandPlaneImplementsLedger ==
    ASSUME OneDrain
    PROVE  Spec => ImplementsLedger
<1>1. TypeInv /\ DrainInv /\ ToldInv /\ [Next]_vars => (TypeInv /\ DrainInv /\ ToldInv)'
    BY StepType, StepDrain, StepTold, OneDrain
<1>2. Spec => [](TypeInv /\ DrainInv /\ ToldInv)
    BY InitType, InitDrain, InitTold, <1>1, PTL DEF Spec
<1>3. Init => Ledger!Init
    BY DEF Init, Ledger!Init
<1>4. TypeInv /\ DrainInv /\ ToldInv /\ [Next]_vars => [Ledger!Next]_(Ledger!vars)
    BY StepLedger, OneDrain
<1> QED
    BY <1>2, <1>3, <1>4, PTL DEF Spec, ImplementsLedger, Ledger!Spec

-----------------------------------------------------------------------------
(* Questions.                                                              *)

\* Once a question is answered its resolver is gone, and the transcript shows it
\* resolved or on the entry of a live run, where the fallback does not look.
AskInv ==
    split \/ /\ resolver => talk.ask = "open" /\ live # "none"
             /\ \/ answers = 0
                \/ /\ answers = 1 /\ ~resolver
                   /\ talk.ask = "resolved" \/ (talk.ask = "open" /\ live # "none")

\* No question has been asked at first.
LEMMA InitAsk == Init => AskInv
BY DEF Init, AskInv

\* What dispatch makes of a transcript's question: it stays, or a run that ends
\* closes it.
LEMMA DispatchAsk ==
    ASSUME NEW c \in Msgs, NEW t \in Talks, NEW out, Dispatch(c, t, out)
    PROVE  /\ talk'.ask \in {t.ask, "resolved"}
           /\ resolver' \in {resolver, FALSE}
           /\ \/ resolver' = resolver /\ live' = live /\ talk'.ask = t.ask
              \/ resolver' = FALSE /\ (live # "none" /\ t.ask = "open" => talk'.ask = "resolved")
<1>1. \A u \in Talks : Append1(u, c).ask = u.ask
    BY DEF Talks, Append1
<1>2. CloseQuestion(t).ask = IF live # "none" /\ t.ask = "open" THEN "resolved" ELSE t.ask
    BY DEF Talks, CloseQuestion, ResolveInput
<1>3. CloseQuestion(t) \in Talks
    BY CloseType
<1> HIDE DEF Dispatch
<1> QED BY <1>1, <1>2, <1>3 DEF Dispatch, runVars

\* Every step keeps AskInv.  The resolver answers only while the question has no
\* answer, and the fallback wants it on an entry nobody writes.
LEMMA StepAsk ==
    ASSUME TypeInv, AskInv, [Next]_vars
    PROVE  AskInv'
<1> USE DEF TypeInv, TypeOK
<1> USE DEF docVars, diskVars, runVars, workerVars, histVars, vars
<1>0. talk \in Talks /\ saved.talk \in Talks /\ resolver \in BOOLEAN /\ split \in BOOLEAN
    OBVIOUS
<1>1. CASE UNCHANGED <<talk, live, resolver, answers, split>>
    BY <1>1 DEF AskInv
<1>2. ASSUME NEW w \in Workers, Execute(w) PROVE AskInv'
    <2> DEFINE c == cur[w]
    <2>1. c \in Msgs /\ split' = split
        BY <1>2 DEF Execute, LocalsOK, Active, Msgs
    <2>2. PICK out \in {"Applied", "Rejected"} :
              \/ ExecuteRun(c, out) \/ ExecuteSteer(c, out) \/ ExecuteInterrupt(c, out)
              \/ ExecuteRespondInput(c, out)
        BY <1>2 DEF Execute
    <2> HIDE DEF c
    <2>3. CASE Dispatch(c, talk, out) /\ answers' = answers
        BY <1>0, <2>1, <2>3, DispatchAsk DEF AskInv
    <2>4. CASE UNCHANGED <<live, resolver, answers>> /\ talk' = Append1(talk, c)
        <3>1. talk'.ask = talk.ask
            BY <1>0, <2>4 DEF Talks, Append1
        <3> QED BY <2>1, <2>4, <3>1 DEF AskInv
    <2>5. CASE ExecuteInterrupt(c, out)
        <3>1. talk'.ask = IF live # "none" /\ talk.ask = "open" THEN "resolved" ELSE talk.ask
            BY <1>0, <2>5 DEF ExecuteInterrupt, CloseQuestion, ResolveInput, Talks
        <3> QED BY <2>1, <2>5, <3>1 DEF ExecuteInterrupt, AskInv
    <2>6. CASE ExecuteRespondInput(c, out)
        <3>1. CASE resolver
            BY <2>1, <2>6, <3>1 DEF ExecuteRespondInput, AskInv
        <3>2. CASE ~resolver /\ OpenOrphanQuestion /\ HaveConfig
            <4>1. ResolveInput(talk) \in Talks /\ ResolveInput(talk).ask = "resolved"
                BY <1>0 DEF ResolveInput, Talks
            <4>2. Dispatch(c, ResolveInput(talk), out)
                BY <2>6, <3>2 DEF ExecuteRespondInput
            <4>3. talk'.ask = "resolved" /\ resolver' = FALSE
                BY <1>0, <2>1, <3>2, <4>1, <4>2, DispatchAsk
            <4>4. answers' \in {answers, answers + 1}
                BY <2>6 DEF ExecuteRespondInput
            <4>5. split \/ answers = 0
                BY <3>2 DEF AskInv, OpenOrphanQuestion
            <4> QED BY <2>1, <4>3, <4>4, <4>5 DEF AskInv
        <3>3. CASE ~resolver /\ ~(OpenOrphanQuestion /\ HaveConfig)
            BY <2>1, <2>6, <3>3 DEF ExecuteRespondInput, AskInv
        <3> QED BY <3>1, <3>2, <3>3
    <2>7. CASE UNCHANGED <<talk, live, resolver, answers>>
        BY <2>1, <2>7 DEF AskInv
    <2> QED BY <2>2, <2>3, <2>4, <2>5, <2>6, <2>7 DEF ExecuteRun, ExecuteSteer
<1>3. CASE RunReplies
    <2>1. PICK r \in Replies : talk' = Append1(talk, r)
        BY <1>3 DEF RunReplies
    <2>2. talk'.ask = talk.ask
        BY <1>0, <2>1 DEF Talks, Append1
    <2> QED BY <1>3, <2>2 DEF RunReplies, AskInv
<1>4. CASE RunAsks
    <2>1. talk'.ask = "open" /\ talk.ask = "none" /\ live # "none"
        BY <1>0, <1>4 DEF RunAsks, Talks
    <2> QED BY <1>4, <2>1 DEF RunAsks, AskInv
<1>5. CASE RunSteered
    BY <1>5 DEF RunSteered, AskInv
<1>6. CASE RunFoldsAnswer
    <2>1. talk'.ask = "resolved" /\ ~resolver
        BY <1>0, <1>6 DEF RunFoldsAnswer, ResolveInput, Talks
    <2> QED BY <1>6, <2>1 DEF RunFoldsAnswer, AskInv
<1>7. CASE RunEnds
    <2>1. talk'.ask = IF talk.ask = "open" THEN "resolved" ELSE talk.ask
        BY <1>0, <1>7 DEF RunEnds, CloseQuestion, ResolveInput, Talks
    <2> QED BY <1>7, <2>1 DEF RunEnds, AskInv
<1>8. CASE CrashAndReopen
    BY <1>8 DEF CrashAndReopen, AskInv
<1>9. CASE (\E c \in Cmds : QueueCommand(c) \/ RemoteQueue(c)) \/ Push \/ Import \/ RowArrives
           \/ SetSessions \/ Wake \/ SaveSnapshot \/ Tick \/ UNCHANGED vars
    <2>1. UNCHANGED <<talk, live, resolver, answers, split>>
        BY <1>9 DEF QueueCommand, RemoteQueue, Push, Import, RowArrives, SetSessions, Wake,
                    SaveSnapshot, Tick
    <2> QED BY <1>1, <2>1
<1>10. ASSUME NEW w \in Workers, Drain(w), ~Execute(w) PROVE AskInv'
    <2>1. UNCHANGED <<talk, live, resolver, answers, split>>
        BY <1>10 DEF Drain, Enter, Pick, DrainReturns, Evaluate, Mark, Resolve
    <2> QED BY <1>1, <2>1
<1> QED
    BY <1>2, <1>3, <1>4, <1>5, <1>6, <1>7, <1>8, <1>9, <1>10 DEF Next

\* execute, RespondInput: between two boots one question is answered at most once,
\* by the live resolver or by the orphan fallback's new turn, with any number of
\* drains - unless a steer boundary left the question behind on a finished entry.
THEOREM QuestionsAnsweredOnce == Spec => []QuestionAnsweredOnce
<1>1. AskInv => QuestionAnsweredOnce
    BY DEF AskInv, QuestionAnsweredOnce
<1>2. TypeInv /\ AskInv /\ [Next]_vars => (TypeInv /\ AskInv)'
    BY StepType, StepAsk
<1> QED
    BY <1>1, <1>2, InitType, InitAsk, PTL DEF Spec
=============================================================================
