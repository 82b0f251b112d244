-------------------------- MODULE SessionRunsProofs --------------------------
(***************************************************************************)
(* Theorems about SessionRuns, for every number of runs, prompts and        *)
(* mailbox slots.                                                           *)
(*                                                                         *)
(* MapInv and CallerInv are the inductive invariants.  Both only need the   *)
(* shape of the functions they mention, so they carry it themselves.        *)
(***************************************************************************)
EXTENDS SessionRuns, WellFoundedInduction, TLAPS

MapInv ==
    /\ phase \in [RunIds -> Phases]
    /\ cancelled \in [RunIds -> BOOLEAN]
    /\ UnmappedRunIsCancelled

\* The executor alone, and harnesses that come up in time.
Alone == Callers = {Drain} /\ ~StartMayHang

CallerInv ==
    /\ phase \in [RunIds -> Phases]
    /\ cpc \in [Callers -> Places]
    /\ crun \in [Callers -> RunIds \cup {None}]
    /\ runs \in RunIds \cup {None}
    /\ \A r \in RunIds : phase[r] \in Live => runs = r
    /\ cpc[Drain] = "launch" => runs = None
    /\ cpc[Drain] = "wait" => runs \in {crun[Drain], None}

-----------------------------------------------------------------------------
\* Nothing is live before the first dispatch.
LEMMA InitMap == Init => MapInv
  BY DEF Init, MapInv, UnmappedRunIsCancelled, Phases, Live

\* Every step keeps MapInv: only Launch gives the map's entry away, and it
\* cancels the run that had it; a run clears its entry only as it stops being
\* live.
LEMMA StepMap == MapInv /\ [Next]_vars => MapInv'
<1> SUFFICES ASSUME MapInv, [Next]_vars PROVE MapInv'
  OBVIOUS
<1> USE DEF MapInv, UnmappedRunIsCancelled, Phases, Live, runVars, callerVars
<1>1. ASSUME NEW m \in Msgs, NEW op \in {"dispatch", "steer"}, Issue(op, m) PROVE MapInv'
  BY <1>1 DEF Issue
<1>2. CASE IssueInterrupt
  BY <1>2 DEF IssueInterrupt
<1>3. CASE Redispatch
  BY <1>3 DEF Redispatch
<1>4. ASSUME NEW c \in Callers, CallStep(c) PROVE MapInv'
  <2>1. CASE Lookup(c)
    BY <2>1 DEF Lookup
  <2>2. CASE Send(c)
    BY <2>2 DEF Send
  <2>3. CASE Enledger(c)
    BY <2>3 DEF Enledger
  <2>4. CASE Check(c)
    BY <2>4 DEF Check
  <2>5. CASE SetWorking(c)
    BY <2>5 DEF SetWorking
  <2>6. CASE Interrupt(c)
    BY <2>6 DEF Interrupt
  <2>7. CASE WaitSettled(c)
    BY <2>7 DEF WaitSettled
  <2>8. CASE Launch(c)
    BY <2>8 DEF Launch
  <2>9. CASE LaunchFails(c)
    BY <2>9 DEF LaunchFails
  <2> QED
    BY <1>4, <2>1, <2>2, <2>3, <2>4, <2>5, <2>6, <2>7, <2>8, <2>9 DEF CallStep
<1>5. ASSUME NEW r \in RunIds, HarnessStep(r) \/ SeesCancel(r) \/ ExitStep(r)
      PROVE MapInv'
  <2>1. CASE StartOk(r)
    BY <2>1 DEF StartOk
  <2>2. CASE StartErr(r)
    BY <2>2 DEF StartErr, RemoveRun
  <2>3. CASE SessionStarted(r)
    BY <2>3 DEF SessionStarted
  <2>4. CASE StartupRetry(r)
    BY <2>4 DEF StartupRetry, RemoveRun
  <2>5. CASE Steered(r)
    BY <2>5 DEF Steered
  <2>6. CASE Park(r)
    BY <2>6 DEF Park
  <2>7. CASE SelfContinue(r)
    BY <2>7 DEF SelfContinue
  <2>8. CASE Ends(r)
    BY <2>8 DEF Ends
  <2>9. CASE SeesCancel(r)
    BY <2>9 DEF SeesCancel
  <2>10. CASE ClaimOrphans(r)
    BY <2>10 DEF ClaimOrphans
  <2>11. CASE ExitRemove(r)
    BY <2>11 DEF ExitRemove, RemoveRun
  <2>12. CASE Finish(r)
    BY <2>12 DEF Finish
  <2> QED
    BY <1>5, <2>1, <2>2, <2>3, <2>4, <2>5, <2>6, <2>7, <2>8, <2>9, <2>10, <2>11, <2>12
    DEF HarnessStep, ExitStep
<1>6. CASE UNCHANGED vars
  BY <1>6 DEF vars
<1> QED
  BY <1>1, <1>2, <1>3, <1>4, <1>5, <1>6 DEF Next

\* However dispatch, steer, interrupt and dying runs interleave, a live run that
\* lost its entry in the runs map has been cancelled (RunHandle::cancel).
THEOREM UnreachableRunsAreCancelled == Spec => []UnmappedRunIsCancelled
<1>1. MapInv => UnmappedRunIsCancelled
  BY DEF MapInv
<1> QED
  BY <1>1, InitMap, StepMap, PTL DEF Spec

-----------------------------------------------------------------------------
\* A non-empty set of run numbers has a least element, so NextRun is one of
\* the runs that have not started.
LEMMA NextRunIsUnborn == Unborn # {} => NextRun \in Unborn
<1> SUFFICES ASSUME Unborn # {} PROVE NextRun \in Unborn
  OBVIOUS
<1>1. Unborn \subseteq Nat
  BY RunsAssumption DEF Unborn, RunIds
<1>2. PICK r \in Unborn : \A q \in Unborn : <<q, r>> \notin OpToRel(<, Nat)
  BY <1>1, NatLessThanWellFounded, WFMin
<1>3. ASSUME NEW q \in Unborn PROVE r <= q
  <2>1. q \in Nat /\ r \in Nat
    BY <1>1
  <2>2. q < r => <<q, r>> \in OpToRel(<, Nat)
    BY <2>1, Zenon DEF OpToRel
  <2>3. ~(q < r)
    BY <1>2, <2>2, Zenon
  <2> QED
    BY <2>1, <2>3
<1> QED
  BY <1>3 DEF NextRun

-----------------------------------------------------------------------------
\* No call has begun before the first dispatch.
LEMMA InitCaller == ASSUME Alone PROVE Init => CallerInv
  BY CallersAssumption DEF Alone, Init, CallerInv, Phases, Live, Places

\* Every step of the lone caller and of the runs keeps CallerInv: a launch only
\* follows an empty map, and nobody else fills it.
LEMMA StepCaller == ASSUME Alone PROVE CallerInv /\ [Next]_vars => CallerInv'
<1> SUFFICES ASSUME CallerInv, [Next]_vars PROVE CallerInv'
  OBVIOUS
<1> USE Alone, RunsAssumption DEF Alone, CallerInv, Phases, Live, Places, runVars, callerVars
<1>0. Drain # Aux /\ Drain \in Callers /\ \A c \in Callers : c = Drain
  BY CallersAssumption
<1>1. ASSUME NEW m \in Msgs, NEW op \in {"dispatch", "steer"}, Issue(op, m)
      PROVE CallerInv'
  BY <1>0, <1>1 DEF Issue, Goto
<1>2. CASE IssueInterrupt
  BY <1>0, <1>2 DEF IssueInterrupt, Goto
<1>3. CASE Redispatch
  BY <1>0, <1>3 DEF Redispatch, Goto
<1>4. ASSUME NEW c \in Callers, CallStep(c) PROVE CallerInv'
  <2> USE <1>0 DEF Goto, Return
  <2>1. CASE Lookup(c)
    BY <2>1 DEF Lookup, CannotSteer
  <2>2. CASE Send(c)
    BY <2>2 DEF Send, CannotSteer
  <2>3. CASE Enledger(c)
    BY <2>3 DEF Enledger
  <2>4. CASE Check(c)
    BY <2>4 DEF Check, CannotSteer
  <2>5. CASE SetWorking(c)
    BY <2>5 DEF SetWorking
  <2>6. CASE Interrupt(c)
    BY <2>6 DEF Interrupt, AfterInterrupt
  <2>7. CASE WaitSettled(c)
    BY <2>7 DEF WaitSettled, AfterInterrupt
  <2>8. CASE Launch(c)
    <3>1. NextRun \in RunIds
      BY <2>8, NextRunIsUnborn DEF Launch, Unborn
    <3> QED
      BY <2>8, <3>1 DEF Launch, RunIds
  <2>9. CASE LaunchFails(c)
    BY <2>9 DEF LaunchFails
  <2> QED
    BY <1>4, <2>1, <2>2, <2>3, <2>4, <2>5, <2>6, <2>7, <2>8, <2>9 DEF CallStep
<1>5. ASSUME NEW r \in RunIds, HarnessStep(r) \/ SeesCancel(r) \/ ExitStep(r)
      PROVE CallerInv'
  <2>1. CASE StartOk(r)
    BY <2>1 DEF StartOk
  <2>2. CASE StartErr(r)
    BY <2>2 DEF StartErr, RemoveRun
  <2>3. CASE SessionStarted(r)
    BY <2>3 DEF SessionStarted
  <2>4. CASE StartupRetry(r)
    BY <2>4 DEF StartupRetry, RemoveRun
  <2>5. CASE Steered(r)
    BY <2>5 DEF Steered
  <2>6. CASE Park(r)
    BY <2>6 DEF Park
  <2>7. CASE SelfContinue(r)
    BY <2>7 DEF SelfContinue
  <2>8. CASE Ends(r)
    BY <2>8 DEF Ends
  <2>9. CASE SeesCancel(r)
    BY <2>9 DEF SeesCancel
  <2>10. CASE ClaimOrphans(r)
    BY <2>10 DEF ClaimOrphans
  <2>11. CASE ExitRemove(r)
    BY <2>11 DEF ExitRemove, RemoveRun
  <2>12. CASE Finish(r)
    BY <2>12 DEF Finish
  <2> QED
    BY <1>5, <2>1, <2>2, <2>3, <2>4, <2>5, <2>6, <2>7, <2>8, <2>9, <2>10, <2>11, <2>12
    DEF HarnessStep, ExitStep
<1>6. CASE UNCHANGED vars
  BY <1>6 DEF vars
<1> QED
  BY <1>1, <1>2, <1>3, <1>4, <1>5, <1>6 DEF Next

\* With the command executor as the only caller, and harnesses that come up
\* within interrupt's bounded wait, two runtimes never drive one chat
\* (SessionsEngine::dispatch).
THEOREM LoneCallerOneRuntime == ASSUME Alone PROVE Spec => []OneRuntime
<1>1. CallerInv => OneRuntime
  BY DEF CallerInv, OneRuntime
<1> QED
  BY <1>1, InitCaller, StepCaller, PTL DEF Spec

-----------------------------------------------------------------------------
(* The mailbox and the ledger, with the executor as the only caller.       *)

Prompts == Msgs \cup {None}

\* s is the tail end of t.
EndOf(s, t) ==
    /\ Len(s) <= Len(t)
    /\ \A i \in 1..Len(s) : s[i] = t[Len(t) - Len(s) + i]

\* The ledger of r as it will be once the executor has entered the steer it has
\* just sent.
InHand(r) == cpc[Drain] = "enledger" /\ crun[Drain] = r
Entered(r) == IF InHand(r) THEN Append(ledger[r], cmsg[Drain]) ELSE ledger[r]

\* What the two queues of run r have to do with each other.  The ledger may lag
\* behind by the steer in hand, and run ahead by entries whose boundary came
\* before they were entered; never otherwise.
Paired(r) ==
    /\ phase[r] = "unborn" => mailbox[r] = <<>> /\ ledger[r] = <<>>
    /\ phase[r] \in Live => ledger[r] \in Seq(Prompts) /\ EndOf(mailbox[r], Entered(r))

LedgerInv ==
    /\ mailbox \in [RunIds -> Seq(Prompts)] /\ DOMAIN ledger = RunIds
    /\ cmsg \in [Callers -> Prompts]
    /\ runs \in RunIds => phase[runs] # "unborn"
    /\ cpc[Drain] \in {"send", "enledger", "check"} =>
         crun[Drain] \in RunIds /\ phase[crun[Drain]] # "unborn"
    /\ \A r \in RunIds : Paired(r)

\* An empty mailbox asks nothing of the ledger.
LEMMA EndOfNothing == ASSUME NEW t \in Seq(Prompts) PROVE EndOf(<<>>, t)
<1>1. Len(<<>>) = 0 /\ Len(t) \in Nat
  OBVIOUS
<1> QED BY <1>1 DEF EndOf

\* A steer is entered behind the others as it was sent behind them.
LEMMA EndOfAppend ==
    ASSUME NEW s \in Seq(Prompts), NEW t \in Seq(Prompts), NEW m \in Prompts, EndOf(s, t)
    PROVE  EndOf(Append(s, m), Append(t, m))
<1> DEFINE a == Append(s, m)
           b == Append(t, m)
<1>1. Len(a) = Len(s) + 1 /\ Len(b) = Len(t) + 1 /\ Len(s) \in Nat /\ Len(t) \in Nat
  OBVIOUS
<1>2. ASSUME NEW i \in 1..Len(a) PROVE a[i] = b[Len(b) - Len(a) + i]
  <2>1. CASE i = Len(s) + 1
    BY <1>1, <2>1
  <2>2. CASE i \in 1..Len(s)
    <3>1. s[i] = t[Len(t) - Len(s) + i] /\ Len(t) - Len(s) + i \in 1..Len(t)
      BY <1>1, <2>2 DEF EndOf
    <3>2. a[i] = s[i] /\ b[Len(t) - Len(s) + i] = t[Len(t) - Len(s) + i]
      BY <2>2, <3>1
    <3>3. Len(b) - Len(a) + i = Len(t) - Len(s) + i
      BY <1>1, <3>1
    <3> HIDE DEF a, b
    <3> QED BY <3>1, <3>2, <3>3
  <2>3. i = Len(s) + 1 \/ i \in 1..Len(s)
    BY <1>1
  <2> QED BY <2>1, <2>2, <2>3
<1>3. Len(a) <= Len(b)
  BY <1>1 DEF EndOf
<1> HIDE DEF a, b
<1>4. EndOf(a, b)
  BY <1>2, <1>3 DEF EndOf
<1> QED BY <1>4 DEF a, b

\* A boundary retires the oldest of both.
LEMMA EndOfTail ==
    ASSUME NEW s \in Seq(Prompts), NEW t \in Seq(Prompts), s # <<>>, EndOf(s, t)
    PROVE  EndOf(Tail(s), Tail(t))
<1> DEFINE a == Tail(s)
           b == Tail(t)
<1>1. Len(s) \in Nat /\ Len(t) \in Nat /\ Len(s) >= 1 /\ Len(t) >= Len(s)
  BY DEF EndOf
<1>2. t # <<>> /\ Len(a) = Len(s) - 1 /\ Len(b) = Len(t) - 1
  BY <1>1
<1>3. ASSUME NEW i \in 1..Len(a) PROVE a[i] = b[Len(b) - Len(a) + i]
  <2>1. i + 1 \in 1..Len(s) /\ Len(t) - Len(s) + i \in 1..Len(b) /\ i \in Nat
    BY <1>1, <1>2, <1>3
  <2>2. a[i] = s[i + 1] /\ b[Len(t) - Len(s) + i] = t[Len(t) - Len(s) + i + 1]
    BY <1>2, <2>1
  <2>3. s[i + 1] = t[Len(t) - Len(s) + (i + 1)]
    BY <2>1 DEF EndOf
  <2> QED BY <1>1, <1>2, <2>1, <2>2, <2>3
<1>4. Len(a) <= Len(b)
  BY <1>1, <1>2
<1> HIDE DEF a, b
<1>5. EndOf(a, b)
  BY <1>3, <1>4 DEF EndOf
<1> QED BY <1>5 DEF a, b

\* No run has a queue before the first dispatch.
LEMMA InitLedger == ASSUME Alone PROVE Init => LedgerInv
<1> SUFFICES ASSUME Init PROVE LedgerInv
  OBVIOUS
<1>1. Drain \in Callers
  BY DEF Alone
<1>2. ASSUME NEW r \in RunIds PROVE Paired(r)
  BY DEF Init, Paired, Live
<1> QED BY <1>1, <1>2, RunsAssumption DEF Init, LedgerInv, Prompts, RunIds

\* A step that leaves the queues of r and what the executor has in hand alone, and
\* does not bring r to life, keeps them paired.
LEMMA StaysPaired ==
    ASSUME NEW r \in RunIds, Paired(r), mailbox'[r] = mailbox[r], ledger'[r] = ledger[r],
           Entered(r)' = Entered(r), phase'[r] \in Live => phase[r] \in Live,
           phase'[r] = "unborn" => phase[r] = "unborn"
    PROVE  Paired(r)'
  BY DEF Paired, Live

\* Every step keeps the queues paired: a send is followed by its entry, a boundary
\* retires one of each, and the queues of a run that is no longer live do not matter.
LEMMA StepLedger ==
    ASSUME Alone, CallerInv, LedgerInv, [Next]_vars
    PROVE  LedgerInv'
<1> USE RunsAssumption DEF runVars, callerVars
<1>0. Drain # Aux /\ Drain \in Callers /\ \A c \in Callers : c = Drain
  BY CallersAssumption DEF Alone
<1>a. /\ mailbox \in [RunIds -> Seq(Prompts)] /\ DOMAIN ledger = RunIds
      /\ cmsg \in [Callers -> Prompts] /\ phase \in [RunIds -> Phases]
      /\ cpc \in [Callers -> Places] /\ crun \in [Callers -> RunIds \cup {None}]
      /\ runs \in RunIds \cup {None} /\ None \notin RunIds
  BY DEF CallerInv, LedgerInv, RunIds
<1>b. \A r \in RunIds : phase[r] \in Live => runs = r
  BY DEF CallerInv
<1>1. ASSUME NEW m \in Msgs, NEW op \in {"dispatch", "steer"}, Issue(op, m) PROVE LedgerInv'
  <2>1. ASSUME NEW r \in RunIds PROVE Paired(r)'
    BY <1>0, <1>1, <1>a, <2>1, StaysPaired DEF Issue, Goto, LedgerInv, Entered, InHand
  <2> QED BY <1>0, <1>1, <1>a, <2>1 DEF Issue, Goto, LedgerInv, Prompts
<1>2. CASE IssueInterrupt
  <2>1. ASSUME NEW r \in RunIds PROVE Paired(r)'
    BY <1>0, <1>2, <1>a, <2>1, StaysPaired DEF IssueInterrupt, Goto, LedgerInv, Entered, InHand
  <2> QED BY <1>0, <1>2, <1>a, <2>1 DEF IssueInterrupt, Goto, LedgerInv, Prompts
<1>3. CASE Redispatch
  BY <1>0, <1>3 DEF Redispatch
<1>4. ASSUME NEW c \in Callers, CallStep(c) PROVE LedgerInv'
  <2>0. c = Drain
    BY <1>0
  <2>1. CASE Lookup(c)
    <3>1. ASSUME NEW r \in RunIds PROVE Paired(r)'
      BY <1>0, <2>0, <2>1, <1>a, <3>1, StaysPaired DEF Lookup, CannotSteer, Goto, LedgerInv, Entered, InHand
    <3> QED BY <1>0, <2>0, <2>1, <1>a, <3>1 DEF Lookup, CannotSteer, Goto, LedgerInv, Prompts
  <2>2. CASE Send(c)
    <3> DEFINE d == crun[Drain]
               m == cmsg[Drain]
    <3>0. d \in RunIds /\ phase[d] # "unborn" /\ m \in Prompts /\ phase' = phase /\ ledger' = ledger
      BY <1>0, <2>0, <2>2, <1>a DEF Send, LedgerInv
    <3>1. CASE /\ mailbox' = [mailbox EXCEPT ![d] = Append(@, m)]
               /\ cpc' = [cpc EXCEPT ![Drain] = "enledger"]
      <4>1. ASSUME NEW r \in RunIds, r # d PROVE Paired(r)'
        BY <1>0, <2>0, <2>2, <1>a, <3>0, <3>1, <4>1, StaysPaired DEF Send, LedgerInv, Entered, InHand
      <4>2. ASSUME NEW r \in RunIds, r = d PROVE Paired(r)'
        <5>1. CASE phase[r] \in Live
          <6>1. ledger[r] \in Seq(Prompts) /\ EndOf(mailbox[r], Entered(r)) /\ mailbox[r] \in Seq(Prompts)
            BY <1>a, <4>2, <5>1 DEF LedgerInv, Paired
          <6>2. Entered(r) = ledger[r]
            BY <2>0, <2>2 DEF Send, Entered, InHand
          <6>3. EndOf(Append(mailbox[r], m), Append(ledger[r], m))
            BY <3>0, <6>1, <6>2, EndOfAppend
          <6>4. mailbox'[r] = Append(mailbox[r], m) /\ Entered(r)' = Append(ledger[r], m)
            BY <1>0, <2>0, <2>2, <1>a, <3>0, <3>1, <4>2 DEF Send, Entered, InHand
          <6>5. phase'[r] # "unborn" /\ ledger'[r] \in Seq(Prompts) /\ EndOf(mailbox'[r], Entered(r)')
            BY <3>0, <4>2, <6>1, <6>3, <6>4
          <6> QED BY <6>5 DEF Paired
        <5>2. CASE phase[r] \notin Live
          BY <3>0, <4>2, <5>2 DEF Paired
        <5> QED BY <5>1, <5>2
      <4> QED BY <1>0, <2>0, <2>2, <1>a, <3>0, <3>1, <4>1, <4>2 DEF Send, LedgerInv
    <3>2. CASE mailbox' = mailbox /\ CannotSteer(c)
      <4>1. ASSUME NEW r \in RunIds PROVE Paired(r)'
        BY <1>0, <2>0, <2>2, <1>a, <3>0, <3>2, <4>1, StaysPaired
           DEF Send, CannotSteer, Goto, LedgerInv, Entered, InHand
      <4> QED BY <1>0, <2>0, <2>2, <1>a, <3>2, <4>1 DEF Send, CannotSteer, Goto, LedgerInv
    <3> QED BY <2>0, <2>2, <3>1, <3>2 DEF Send, Goto
  <2>3. CASE Enledger(c)
    <3> DEFINE d == crun[Drain]
               m == cmsg[Drain]
    <3>0. d \in RunIds /\ phase[d] # "unborn" /\ m \in Prompts /\ phase' = phase /\ mailbox' = mailbox
      BY <1>0, <2>0, <2>3, <1>a DEF Enledger, LedgerInv
    <3>1. ledger' = [ledger EXCEPT ![d] = Append(@, m)] /\ cpc' = [cpc EXCEPT ![Drain] = "check"]
      BY <2>0, <2>3 DEF Enledger, Goto
    <3>2. ASSUME NEW r \in RunIds, r # d PROVE Paired(r)'
      BY <1>0, <2>0, <2>3, <1>a, <3>0, <3>1, <3>2, StaysPaired DEF Enledger, LedgerInv, Entered, InHand
    <3>3. ASSUME NEW r \in RunIds, r = d PROVE Paired(r)'
      <4>1. CASE phase[r] \in Live
        <5>1. ledger[r] \in Seq(Prompts) /\ EndOf(mailbox[r], Entered(r))
          BY <4>1 DEF LedgerInv, Paired
        <5>2. Entered(r) = Append(ledger[r], m)
          BY <2>0, <2>3, <3>3 DEF Enledger, Entered, InHand
        <5>3. Entered(r)' = Append(ledger[r], m) /\ ledger'[r] = Append(ledger[r], m)
          BY <1>0, <2>0, <2>3, <1>a, <3>0, <3>1, <3>3 DEF Enledger, Entered, InHand
        <5>4. ledger'[r] \in Seq(Prompts)
          BY <3>0, <5>1, <5>3
        <5>5. phase'[r] # "unborn" /\ EndOf(mailbox'[r], Entered(r)')
          BY <3>0, <3>3, <5>1, <5>2, <5>3
        <5> QED BY <5>4, <5>5 DEF Paired
      <4>2. CASE phase[r] \notin Live
        BY <3>0, <3>3, <4>2 DEF Paired
      <4> QED BY <4>1, <4>2
    <3> QED BY <1>0, <2>0, <2>3, <1>a, <3>0, <3>1, <3>2, <3>3 DEF Enledger, LedgerInv
  <2>4. CASE Check(c)
    <3> DEFINE d == crun[Drain]
    <3>0. d \in RunIds /\ phase[d] # "unborn" /\ phase' = phase /\ mailbox' = mailbox
      BY <1>0, <2>0, <2>4, <1>a DEF Check, LedgerInv
    <3>1. CASE ledger' = ledger
      <4>1. ASSUME NEW r \in RunIds PROVE Paired(r)'
        BY <1>0, <2>0, <2>4, <1>a, <3>0, <3>1, <4>1, StaysPaired
           DEF Check, CannotSteer, Goto, Return, LedgerInv, Entered, InHand
      <4> QED BY <1>0, <2>0, <2>4, <1>a, <3>0, <3>1, <4>1
              DEF Check, CannotSteer, Goto, Return, LedgerInv, Prompts
    <3>2. CASE /\ runs # d /\ ledger' = [ledger EXCEPT ![d] = SelectSeq(@, LAMBDA n : n # cmsg[c])]
               /\ CannotSteer(c) /\ cmsg' = cmsg /\ crun' = crun
      <4>1. ASSUME NEW r \in RunIds, r # d PROVE Paired(r)'
        BY <1>0, <2>0, <2>4, <1>a, <3>0, <3>2, <4>1, StaysPaired
           DEF Check, CannotSteer, Goto, LedgerInv, Entered, InHand
      <4>2. Paired(d)'
        BY <1>b, <3>0, <3>2 DEF Paired
      <4>3. DOMAIN ledger' = RunIds
        BY <1>a, <3>2
      <4> QED BY <1>0, <2>0, <2>4, <1>a, <3>0, <3>2, <4>1, <4>2, <4>3
              DEF Check, CannotSteer, Goto, LedgerInv
    <3> QED BY <2>0, <2>4, <3>1, <3>2 DEF Check
  <2>5. CASE SetWorking(c)
    <3>1. ASSUME NEW r \in RunIds PROVE Paired(r)'
      BY <1>0, <2>0, <2>5, <1>a, <3>1, StaysPaired DEF SetWorking, Return, LedgerInv, Entered, InHand
    <3> QED BY <1>0, <2>0, <2>5, <1>a, <3>1 DEF SetWorking, Return, LedgerInv, Prompts
  <2>6. CASE Interrupt(c)
    <3>1. ASSUME NEW r \in RunIds PROVE Paired(r)'
      BY <1>0, <2>0, <2>6, <1>a, <3>1, StaysPaired
         DEF Interrupt, AfterInterrupt, Goto, Return, LedgerInv, Entered, InHand
    <3> QED BY <1>0, <2>0, <2>6, <1>a, <3>1 DEF Interrupt, AfterInterrupt, Goto, Return, LedgerInv, Prompts
  <2>7. CASE WaitSettled(c)
    <3>1. ASSUME NEW r \in RunIds PROVE Paired(r)'
      BY <1>0, <2>0, <2>7, <1>a, <3>1, StaysPaired
         DEF WaitSettled, AfterInterrupt, Goto, Return, LedgerInv, Entered, InHand
    <3> QED BY <1>0, <2>0, <2>7, <1>a, <3>1 DEF WaitSettled, AfterInterrupt, Goto, Return, LedgerInv, Prompts
  <2>8. CASE Launch(c)
    <3>0. PICK n \in RunIds : n = NextRun /\ phase[n] = "unborn"
      BY <2>8, NextRunIsUnborn DEF Launch, Unborn
    <3>1. /\ phase' = [phase EXCEPT ![n] = "starting"] /\ mailbox' = mailbox /\ ledger' = ledger
          /\ runs' = n /\ cmsg' = [cmsg EXCEPT ![Drain] = None] /\ crun' = [crun EXCEPT ![Drain] = None]
          /\ cpc' = [cpc EXCEPT ![Drain] = "idle"] /\ cpc[Drain] = "launch"
      BY <2>0, <2>8, <3>0 DEF Launch, Return
    <3>2. ASSUME NEW r \in RunIds, r # n PROVE Paired(r)'
      BY <1>0, <1>a, <3>0, <3>1, <3>2, StaysPaired DEF LedgerInv, Entered, InHand
    <3>3. Paired(n)'
      <4>1. mailbox'[n] = <<>> /\ ledger'[n] = <<>> /\ Entered(n)' = <<>>
        BY <1>0, <1>a, <3>0, <3>1 DEF LedgerInv, Paired, Entered, InHand
      <4>2. EndOf(mailbox'[n], Entered(n)') /\ phase'[n] = "starting"
        BY <1>a, <3>1, <4>1 DEF EndOf
      <4> QED BY <4>1, <4>2 DEF Paired
    <3>4. \A r \in RunIds : phase[r] # "unborn" => phase'[r] # "unborn"
      BY <1>a, <3>1
    <3>5. phase'[n] # "unborn" /\ cmsg' \in [Callers -> Prompts] /\ cpc'[Drain] = "idle"
      BY <1>0, <1>a, <3>1 DEF Prompts
    <3> QED BY <1>a, <3>0, <3>1, <3>2, <3>3, <3>4, <3>5 DEF LedgerInv
  <2>9. CASE LaunchFails(c)
    <3>1. ASSUME NEW r \in RunIds PROVE Paired(r)'
      BY <1>0, <2>0, <2>9, <1>a, <3>1, StaysPaired DEF LaunchFails, Return, LedgerInv, Entered, InHand
    <3> QED BY <1>0, <2>0, <2>9, <1>a, <3>1 DEF LaunchFails, Return, LedgerInv, Prompts
  <2> QED
    BY <1>4, <2>1, <2>2, <2>3, <2>4, <2>5, <2>6, <2>7, <2>8, <2>9 DEF CallStep
<1>5. ASSUME NEW q \in RunIds, HarnessStep(q) \/ SeesCancel(q) \/ ExitStep(q) PROVE LedgerInv'
  <2>0. cmsg' = cmsg /\ cpc' = cpc /\ crun' = crun /\ runs' \in {runs, None}
    BY <1>5 DEF HarnessStep, ExitStep, StartOk, StartErr, SessionStarted, StartupRetry, Steered, Park,
                SelfContinue, Ends, SeesCancel, ClaimOrphans, ExitRemove, Finish, RemoveRun
  <2>1. CASE Steered(q)
    <3>1. /\ q \in RunIds /\ phase[q] \in Live /\ runs = q /\ mailbox[q] # <<>> /\ phase[q] # "unborn"
          /\ mailbox' = [mailbox EXCEPT ![q] = Tail(@)] /\ runs' = runs
          /\ phase' = [phase EXCEPT ![q] = "turn"]
          /\ ledger' = IF ledger[q] # <<>> THEN [ledger EXCEPT ![q] = Tail(@)] ELSE ledger
      BY <1>b, <2>1 DEF Steered, Live
    <3>2. ASSUME NEW r \in RunIds, r # q PROVE Paired(r)'
      BY <1>a, <2>0, <3>1, <3>2, StaysPaired DEF LedgerInv, Entered, InHand
    <3>3. Paired(q)'
      <4>1. /\ ledger[q] \in Seq(Prompts) /\ EndOf(mailbox[q], Entered(q)) /\ mailbox[q] \in Seq(Prompts)
            /\ mailbox'[q] = Tail(mailbox[q]) /\ phase'[q] = "turn" /\ cmsg[Drain] \in Prompts
        BY <1>0, <1>a, <3>1 DEF LedgerInv, Paired
      <4>2. CASE ledger[q] # <<>>
        <5>1. ledger'[q] = Tail(ledger[q]) /\ Tail(ledger[q]) \in Seq(Prompts)
          BY <1>a, <3>1, <4>1, <4>2
        <5>2. Entered(q) \in Seq(Prompts)
          BY <4>1 DEF Entered
        <5>3. Entered(q)' = Tail(Entered(q))
          <6>1. Tail(Append(ledger[q], cmsg[Drain])) = Append(Tail(ledger[q]), cmsg[Drain])
            BY <4>1, <4>2
          <6> QED BY <2>0, <5>1, <6>1 DEF Entered, InHand
        <5>4. EndOf(Tail(mailbox[q]), Tail(Entered(q)))
          BY <3>1, <4>1, <5>2, EndOfTail
        <5> QED BY <4>1, <5>1, <5>3, <5>4 DEF Paired
      <4>3. CASE ledger[q] = <<>>
        <5>1. ledger'[q] = <<>> /\ Entered(q) \in Seq(Prompts) /\ Entered(q)' = Entered(q) /\ Len(Entered(q)) <= 1
          BY <1>a, <2>0, <3>1, <4>1, <4>3 DEF Entered, InHand
        <5>2. Len(mailbox[q]) \in Nat /\ Len(mailbox[q]) <= Len(Entered(q)) /\ Len(Entered(q)) \in Nat
          BY <4>1, <5>1 DEF EndOf
        <5>3. Len(mailbox[q]) <= 1 /\ Len(mailbox[q]) >= 1
          BY <3>1, <4>1, <5>1, <5>2
        <5>4. Tail(mailbox[q]) = <<>>
          BY <3>1, <4>1, <5>3
        <5>5. EndOf(mailbox'[q], Entered(q)')
          BY <4>1, <5>1, <5>4, EndOfNothing
        <5> QED BY <4>1, <5>1, <5>5 DEF Paired
      <4> QED BY <4>2, <4>3
    <3>4. DOMAIN ledger' = RunIds /\ mailbox' \in [RunIds -> Seq(Prompts)]
      BY <1>a, <3>1
    <3>5. phase'[q] # "unborn" /\ \A r \in RunIds : r # q => phase'[r] = phase[r]
      BY <1>a, <3>1
    <3> QED BY <1>a, <2>0, <3>1, <3>2, <3>3, <3>4, <3>5 DEF LedgerInv
  <2>2. CASE ClaimOrphans(q)
    <3>1. /\ phase[q] = "exiting" /\ phase' = [phase EXCEPT ![q] = "claimed"] /\ mailbox' = mailbox
          /\ runs' = runs /\ (ledger' = ledger \/ ledger' = [ledger EXCEPT ![q] = <<>>])
      BY <2>2 DEF ClaimOrphans
    <3>2. ASSUME NEW r \in RunIds, r # q PROVE Paired(r)'
      BY <1>a, <2>0, <3>1, <3>2, StaysPaired DEF LedgerInv, Entered, InHand
    <3>3. Paired(q)'
      BY <1>a, <3>1 DEF Paired, Live
    <3> QED BY <1>a, <2>0, <3>1, <3>2, <3>3 DEF LedgerInv
  <2>3. CASE ~Steered(q) /\ ~ClaimOrphans(q)
    <3>1. /\ mailbox' = mailbox /\ ledger' = ledger /\ phase[q] # "unborn"
          /\ \E p : /\ phase' = [phase EXCEPT ![q] = p] /\ p # "unborn"
                    /\ p \in Live => phase[q] \in Live
      <4>1. CASE SessionStarted(q) \/ SeesCancel(q)
        <5>1. phase' = [phase EXCEPT ![q] = phase[q]] /\ phase[q] \in {"turn", "parked"}
          BY <1>a, <4>1 DEF SessionStarted, SeesCancel
        <5> QED BY <4>1, <5>1 DEF SessionStarted, SeesCancel
      <4>2. CASE ~SessionStarted(q) /\ ~SeesCancel(q)
        BY <1>5, <2>3, <4>2 DEF HarnessStep, ExitStep, StartOk, StartErr, StartupRetry, Park,
                SelfContinue, Ends, ExitRemove, Finish, Live
      <4> QED BY <4>1, <4>2
    <3>2. ASSUME NEW r \in RunIds PROVE Paired(r)'
      BY <1>a, <2>0, <3>1, <3>2, StaysPaired DEF LedgerInv, Entered, InHand
    <3> QED BY <1>a, <2>0, <3>1, <3>2 DEF LedgerInv
  <2> QED BY <2>1, <2>2, <2>3
<1>6. CASE UNCHANGED vars
  <2>1. ASSUME NEW r \in RunIds PROVE Paired(r)'
    BY <1>6, <2>1, StaysPaired DEF vars, LedgerInv, Entered, InHand
  <2> QED BY <1>6, <2>1 DEF vars, LedgerInv
<1> QED
  BY <1>1, <1>2, <1>3, <1>4, <1>5, <1>6 DEF Next

\* With the command executor as the only caller, what sits unconfirmed in the mailbox
\* of the mapped run is on its ledger, or its sender is about to put it there: the exit
\* drain of drive_run misses nothing (RunHandle::routed_steers).
THEOREM LoneCallerMailboxIsLedgered == ASSUME Alone PROVE Spec => []MailboxIsLedgered
<1>1. ASSUME CallerInv, LedgerInv PROVE MailboxIsLedgered
  <2> SUFFICES ASSUME NEW r \in RunIds, phase[r] \in Live, NEW m \in ToSet(mailbox[r])
               PROVE  m \in ToSet(ledger[r]) \/ SenderBetween(m, r)
    BY DEF MailboxIsLedgered
  <2>1. /\ mailbox[r] \in Seq(Prompts) /\ ledger[r] \in Seq(Prompts) /\ EndOf(mailbox[r], Entered(r))
        /\ Drain \in Callers /\ cmsg[Drain] \in Prompts
    BY <1>1 DEF LedgerInv, Paired, Alone
  <2>2. PICK i \in 1..Len(mailbox[r]) : m = mailbox[r][i]
    BY <2>1 DEF ToSet
  <2>3. PICK j \in 1..Len(Entered(r)) : m = Entered(r)[j]
    <3>1. Entered(r) \in Seq(Prompts)
      BY <2>1 DEF Entered
    <3>2. Len(Entered(r)) \in Nat /\ Len(mailbox[r]) \in Nat /\ Len(mailbox[r]) <= Len(Entered(r))
      BY <2>1, <3>1 DEF EndOf
    <3>3. Len(Entered(r)) - Len(mailbox[r]) + i \in 1..Len(Entered(r))
      BY <3>2
    <3> QED BY <2>1, <2>2, <3>3 DEF EndOf
  <2>4. CASE InHand(r) /\ j = Len(ledger[r]) + 1
    <3>1. m = cmsg[Drain]
      BY <2>1, <2>3, <2>4 DEF Entered
    <3> QED BY <2>1, <2>4, <3>1 DEF SenderBetween, InHand
  <2>5. CASE ~(InHand(r) /\ j = Len(ledger[r]) + 1)
    <3>1. j \in 1..Len(ledger[r]) /\ m = ledger[r][j]
      BY <2>1, <2>3, <2>5 DEF Entered
    <3> QED BY <2>1, <3>1 DEF ToSet
  <2> QED BY <2>4, <2>5
<1>2. CallerInv /\ LedgerInv /\ [Next]_vars => (CallerInv /\ LedgerInv)'
  BY StepCaller, StepLedger
<1> QED
  BY <1>1, <1>2, InitCaller, InitLedger, PTL DEF Spec
=============================================================================
