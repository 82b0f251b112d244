----------------------------- MODULE SessionRuns -----------------------------
(***************************************************************************)
(* The life of agent runs in one chat: SessionsEngine::dispatch, steer and *)
(* interrupt, and the drive_run task of each run                           *)
(* (crates/engine/src/sessions.rs).                                        *)
(*                                                                         *)
(* A prompt reaches a harness either as the first prompt of a new run or   *)
(* through the steering mailbox of the live one.  Every accepted steer is  *)
(* also put on the run's routed_steers ledger until a Steered event        *)
(* confirms it; a dying run re-dispatches what is left there.  Callers and *)
(* run tasks share the runs map and the ledgers under short locks, so each *)
(* step between two locks is an action here.                               *)
(*                                                                         *)
(* Runs are numbered in the order in which they start.                     *)
(***************************************************************************)
EXTENDS Naturals, Sequences, SequencesExt

CONSTANTS
    Msgs,          \* the user's prompts, each issued once
    MaxRuns,       \* bound on the runs that start
    MailboxCap,    \* capacity of the steering channel (32 in the code)
    Drain, Aux,    \* callers: the command executor; the tasks dying runs spawn
    Callers,       \* those of the two that get scheduled
    None,
    UserInterrupts,  \* the user may interrupt the chat
    StartMayFail,    \* harness start-up may fail
    StartMayHang     \* harness start-up may outlast interrupt's bounded wait

ASSUME RunsAssumption    == MaxRuns \in Nat /\ None \notin 1..MaxRuns
ASSUME CapAssumption     == MailboxCap \in Nat \ {0}
ASSUME CallersAssumption == Callers \subseteq {Drain, Aux} /\ Drain # Aux
ASSUME MsgsAssumption    == None \notin Msgs
ASSUME SwitchAssumption  == {UserInterrupts, StartMayFail, StartMayHang} \subseteq BOOLEAN

RunIds == 1..MaxRuns

VARIABLES
    runs,         \* the map's entry for this chat: the live run's id, or None
    phase,        \* [RunIds -> where drive_run is]
    steerable,    \* [RunIds -> harness.supports_steering()]
    prompt,       \* [RunIds -> the prompt the run was started for]
    resumed,      \* [RunIds -> dispatch injected a resume id]
    isRetry,      \* [RunIds -> this run is the startup-crash retry]
    started,      \* [RunIds -> saw_session_started]
    mailbox,      \* [RunIds -> steers sent that no Steered was handled for]
    ledger,       \* [RunIds -> routed_steers]
    cancelled,    \* [RunIds -> the cancel channel fired or lost its sender]
    interrupted,  \* [RunIds -> drive_run has seen that]
    final,        \* [RunIds -> the status the run ends with]
    orphans,      \* [RunIds -> steers claimed at exit]
    status,       \* SessionStatus of the chat
    resumable,    \* a harness session id is remembered for the chat
    redo,         \* re-dispatches owed by the tasks dying runs spawned
    batch,        \* the run whose task Aux is working for
    issued,       \* prompts handed to a caller so far
    shown,        \* prompts whose user entry is in the transcript
    delivered,    \* history: prompts some harness has turned to
    cpc, cop, cmsg, crun   \* per caller: its place, operation, prompt, run

runVars    == <<phase, steerable, prompt, resumed, isRetry, started, mailbox,
                ledger, cancelled, interrupted, final, orphans>>
callerVars == <<cpc, cop, cmsg, crun>>
vars == <<runs, runVars, status, resumable, redo, batch, issued, shown, delivered, callerVars>>

Live     == {"starting", "turn", "parked"}
Phases   == Live \cup {"unborn", "exiting", "claimed", "removed", "failed", "ended"}
Redos    == [msg : Msgs, retry : BOOLEAN, from : RunIds]
Statuses == {"Idle", "Working", "Errored"}
Places   == {"idle", "lookup", "send", "enledger", "check", "working",
             "interrupt", "wait", "launch"}
Ops      == {"dispatch", "retry", "steer", "interrupt"}

Init ==
    /\ runs = None
    /\ phase = [r \in RunIds |-> "unborn"]
    /\ steerable = [r \in RunIds |-> FALSE]
    /\ prompt = [r \in RunIds |-> None]
    /\ resumed = [r \in RunIds |-> FALSE]
    /\ isRetry = [r \in RunIds |-> FALSE]
    /\ started = [r \in RunIds |-> FALSE]
    /\ mailbox = [r \in RunIds |-> <<>>]
    /\ ledger = [r \in RunIds |-> <<>>]
    /\ cancelled = [r \in RunIds |-> FALSE]
    /\ interrupted = [r \in RunIds |-> FALSE]
    /\ final = [r \in RunIds |-> "Idle"]
    /\ orphans = [r \in RunIds |-> <<>>]
    /\ status = "Idle"
    /\ resumable = FALSE
    /\ redo = <<>> /\ batch = None
    /\ issued = {} /\ shown = {} /\ delivered = {}
    /\ cpc = [c \in Callers |-> "idle"]
    /\ cop = [c \in Callers |-> "dispatch"]
    /\ cmsg = [c \in Callers |-> None]
    /\ crun = [c \in Callers |-> None]

-----------------------------------------------------------------------------
(* Callers.                                                                *)

Goto(c, place) == cpc' = [cpc EXCEPT ![c] = place]

\* The call returns and its locals go out of scope.
Return(c) ==
    /\ cpc' = [cpc EXCEPT ![c] = "idle"]
    /\ cop' = [cop EXCEPT ![c] = "dispatch"]
    /\ cmsg' = [cmsg EXCEPT ![c] = None]
    /\ crun' = [crun EXCEPT ![c] = None]

\* The executor starts on the next command.
Issue(op, m) ==
    /\ Drain \in Callers /\ cpc[Drain] = "idle"
    /\ m \notin issued
    /\ issued' = issued \cup {m}
    /\ cop' = [cop EXCEPT ![Drain] = op]
    /\ cmsg' = [cmsg EXCEPT ![Drain] = m]
    /\ Goto(Drain, "lookup")
    /\ UNCHANGED <<runs, runVars, status, resumable, redo, batch, shown, delivered, crun>>

IssueInterrupt ==
    /\ UserInterrupts
    /\ Drain \in Callers /\ cpc[Drain] = "idle" /\ runs # None
    /\ cop' = [cop EXCEPT ![Drain] = "interrupt"]
    /\ Goto(Drain, "interrupt")
    /\ UNCHANGED <<runs, runVars, status, resumable, redo, batch, issued, shown, delivered,
                   cmsg, crun>>

\* A task spawned by a dying run re-dispatches a prompt.
Redispatch ==
    /\ Aux \in Callers /\ cpc[Aux] = "idle" /\ redo # <<>>
    /\ redo' = Tail(redo)
    /\ batch' = Head(redo).from
    /\ cop' = [cop EXCEPT ![Aux] = IF Head(redo).retry THEN "retry" ELSE "dispatch"]
    /\ cmsg' = [cmsg EXCEPT ![Aux] = Head(redo).msg]
    /\ Goto(Aux, "lookup")
    /\ UNCHANGED <<runs, runVars, status, resumable, issued, shown, delivered, crun>>

\* No steering possible: the executor turns a steer into a dispatch; a
\* dispatch replaces the run.
CannotSteer(c) ==
    IF cop[c] = "steer"
      THEN cop' = [cop EXCEPT ![c] = "dispatch"] /\ Goto(c, "lookup")
      ELSE UNCHANGED cop /\ Goto(c, "interrupt")

\* The first look at the runs map.
Lookup(c) ==
    /\ cpc[c] = "lookup"
    /\ crun' = [crun EXCEPT ![c] = runs]
    /\ IF runs = None THEN IF cop[c] = "steer" THEN CannotSteer(c)
                           ELSE UNCHANGED cop /\ Goto(c, "launch")
       ELSE IF steerable[runs] THEN UNCHANGED cop /\ Goto(c, "send")
       ELSE CannotSteer(c)
    /\ UNCHANGED <<runs, runVars, status, resumable, redo, batch, issued, shown, delivered, cmsg>>

Room(r) == Len(mailbox[r]) < MailboxCap

\* try_send: accepted while the channel has room and its receiver lives.
\* The receiver goes with the harness stream: after a failed start, and at
\* some point while a run exits.
Send(c) ==
    /\ cpc[c] = "send"
    /\ LET r == crun[c] IN
       \/ /\ phase[r] \notin {"failed", "ended"} /\ Room(r)
          /\ mailbox' = [mailbox EXCEPT ![r] = Append(@, cmsg[c])]
          /\ Goto(c, "enledger")
          /\ UNCHANGED cop
       \/ /\ phase[r] \notin Live \/ ~Room(r)
          /\ CannotSteer(c)
          /\ UNCHANGED mailbox
    /\ UNCHANGED <<runs, phase, steerable, prompt, resumed, isRetry, started, ledger,
                   cancelled, interrupted, final, orphans, status, resumable, redo, batch,
                   issued, shown, delivered, cmsg, crun>>

\* Slip: the accepted steer is not put on the ledger.
EnledgerSkipped(c) ==
    /\ cpc[c] = "enledger"
    /\ shown' = shown \cup {cmsg[c]}
    /\ Goto(c, "check")
    /\ UNCHANGED <<runs, runVars, status, resumable, redo, batch, issued, delivered,
                   cop, cmsg, crun>>

\* The ledger entry, then the user entry.
Enledger(c) ==
    /\ cpc[c] = "enledger"
    /\ ledger' = [ledger EXCEPT ![crun[c]] = Append(@, cmsg[c])]
    /\ shown' = shown \cup {cmsg[c]}
    /\ Goto(c, "check")
    /\ UNCHANGED <<runs, phase, steerable, prompt, resumed, isRetry, started, mailbox,
                   cancelled, interrupted, final, orphans, status, resumable, redo, batch,
                   issued, delivered, cop, cmsg, crun>>

\* is_live; otherwise reclaim the entry, or leave the message to the exit
\* drain that took it.
Check(c) ==
    /\ cpc[c] = "check"
    /\ LET r == crun[c]
           reclaimed == Contains(ledger[r], cmsg[c]) IN
       \/ runs = r /\ Goto(c, "working") /\ UNCHANGED <<ledger, cop, cmsg, crun>>
       \/ /\ runs # r /\ reclaimed
          /\ ledger' = [ledger EXCEPT ![r] = SelectSeq(@, LAMBDA m : m # cmsg[c])]
          /\ CannotSteer(c)
          /\ UNCHANGED <<cmsg, crun>>
       \/ /\ runs # r /\ ~reclaimed
          /\ Return(c)
          /\ UNCHANGED ledger
    /\ UNCHANGED <<runs, phase, steerable, prompt, resumed, isRetry, started, mailbox,
                   cancelled, interrupted, final, orphans, status, resumable, redo, batch,
                   issued, shown, delivered>>

\* set_status(Working) after is_live said yes.
SetWorking(c) ==
    /\ cpc[c] = "working"
    /\ status' = "Working"
    /\ Return(c)
    /\ UNCHANGED <<runs, runVars, resumable, redo, batch, issued, shown, delivered>>

\* After interrupt(): the interrupt command returns, a dispatch goes on.
AfterInterrupt(c) ==
    IF cop[c] = "interrupt" THEN Return(c)
    ELSE Goto(c, "launch") /\ UNCHANGED <<cop, cmsg, crun>>

\* Slip: the cancel channel is not fired.
InterruptTokenOnly(c) ==
    /\ cpc[c] = "interrupt"
    /\ \/ runs = None /\ AfterInterrupt(c)
       \/ /\ runs # None
          /\ crun' = [crun EXCEPT ![c] = runs]
          /\ Goto(c, "wait")
          /\ UNCHANGED <<cop, cmsg>>
    /\ UNCHANGED <<runs, runVars, status, resumable, redo, batch, issued, shown, delivered>>

\* interrupt(): fire the token and the cancel channel of the mapped run.
Interrupt(c) ==
    /\ cpc[c] = "interrupt"
    /\ \/ /\ runs = None
          /\ AfterInterrupt(c)
          /\ UNCHANGED cancelled
       \/ /\ runs # None
          /\ cancelled' = [cancelled EXCEPT ![runs] = TRUE]
          /\ crun' = [crun EXCEPT ![c] = runs]
          /\ Goto(c, "wait")
          /\ UNCHANGED <<cop, cmsg>>
    /\ UNCHANGED <<runs, phase, steerable, prompt, resumed, isRetry, started, mailbox,
                   ledger, interrupted, final, orphans, status, resumable, redo, batch,
                   issued, shown, delivered>>

\* Slip: interrupt does not wait for the run to leave the map.
DoesNotWait(c) ==
    /\ cpc[c] = "wait"
    /\ AfterInterrupt(c)
    /\ UNCHANGED <<runs, runVars, status, resumable, redo, batch, issued, shown, delivered>>

\* ... and wait until it is off the map, for five seconds at most: drive_run
\* settles within three, unless the harness is still starting up.
WaitSettled(c) ==
    /\ cpc[c] = "wait"
    /\ \/ runs # crun[c]
       \/ StartMayHang /\ phase[crun[c]] = "starting"
    /\ AfterInterrupt(c)
    /\ UNCHANGED <<runs, runVars, status, resumable, redo, batch, issued, shown, delivered>>

Unborn == {r \in RunIds : phase[r] = "unborn"}
NextRun == CHOOSE r \in Unborn : \A q \in Unborn : r <= q

\* The rest of dispatch_inner, after the route decision's await: register the
\* run (dropping a handle another call registered meanwhile, whose cancel
\* channel thereby closes), set Working, spawn drive_run.
Launch(c) ==
    /\ cpc[c] = "launch"
    /\ Unborn # {}
    /\ LET r == NextRun IN
       /\ runs' = r
       /\ phase' = [phase EXCEPT ![r] = "starting"]
       /\ \E s \in BOOLEAN : steerable' = [steerable EXCEPT ![r] = s]
       /\ prompt' = [prompt EXCEPT ![r] = cmsg[c]]
       /\ resumed' = [resumed EXCEPT ![r] = resumable]
       /\ isRetry' = [isRetry EXCEPT ![r] = (cop[c] = "retry")]
       /\ cancelled' = [q \in RunIds |-> IF q = runs THEN TRUE ELSE cancelled[q]]
    /\ shown' = shown \cup {cmsg[c]}
    /\ status' = "Working"
    /\ Return(c)
    /\ UNCHANGED <<started, mailbox, ledger, interrupted, final, orphans, resumable,
                   redo, batch, issued, delivered>>

\* The harness cannot be resolved: the command is rejected; a spawned task
\* shows the error and drops the prompts it still had.
LaunchFails(c) ==
    /\ StartMayFail
    /\ cpc[c] = "launch"
    /\ status' = IF c = Aux THEN "Errored" ELSE status
    /\ redo' = IF c = Aux THEN SelectSeq(redo, LAMBDA e : e.from # batch) ELSE redo
    /\ Return(c)
    /\ UNCHANGED <<runs, runVars, resumable, batch, issued, shown, delivered>>

-----------------------------------------------------------------------------
(* drive_run.                                                              *)

\* Slip: whatever entry the chat has.
RemoveAnyRun(r) == runs' = None

\* remove_run: only the run's own entry.
RemoveRun(r) == runs' = IF runs = r THEN None ELSE runs

\* The harness came up: the first turn begins.
StartOk(r) ==
    /\ phase[r] = "starting"
    /\ phase' = [phase EXCEPT ![r] = "turn"]
    /\ delivered' = delivered \cup {prompt[r]}
    /\ UNCHANGED <<runs, steerable, prompt, resumed, isRetry, started, mailbox, ledger,
                   cancelled, interrupted, final, orphans, status, resumable, redo, batch,
                   issued, shown, callerVars>>

\* harness.run returned an error, its own or because its token fired: the run
\* leaves the map at once.
StartErr(r) ==
    /\ phase[r] = "starting" /\ (StartMayFail \/ cancelled[r])
    /\ RemoveRun(r)
    /\ phase' = [phase EXCEPT ![r] = "failed"]
    /\ final' = [final EXCEPT ![r] = "Errored"]
    /\ UNCHANGED <<steerable, prompt, resumed, isRetry, started, mailbox, ledger,
                   cancelled, interrupted, orphans, status, resumable, redo, batch, issued,
                   shown, delivered, callerVars>>

\* SessionStarted: the harness session is remembered for later resumes.  A Done
\* that carries the id has the effect of this step and the Done.
SessionStarted(r) ==
    /\ phase[r] = "turn" /\ ~started[r]
    /\ started' = [started EXCEPT ![r] = TRUE]
    /\ resumable' = TRUE
    /\ UNCHANGED <<runs, phase, steerable, prompt, resumed, isRetry, mailbox, ledger,
                   cancelled, interrupted, final, orphans, status, redo, batch, issued, shown,
                   delivered, callerVars>>

MayRetry(r) == resumed[r] /\ ~isRetry[r] /\ ~started[r] /\ ~interrupted[r]

\* The child died before the session started: one retry for the same prompt.
StartupRetry(r) ==
    /\ StartMayFail
    /\ phase[r] \in {"turn", "parked"} /\ MayRetry(r)
    /\ RemoveRun(r)
    /\ redo' = Append(redo, [msg |-> prompt[r], retry |-> TRUE, from |-> r])
    /\ phase' = [phase EXCEPT ![r] = "ended"]
    /\ UNCHANGED <<steerable, prompt, resumed, isRetry, started, mailbox, ledger,
                   cancelled, interrupted, final, orphans, status, resumable, batch,
                   issued, shown, delivered, callerVars>>

\* A Steered boundary: the harness turns to the oldest steer; the ledger's
\* oldest entry is retired.
Steered(r) ==
    /\ phase[r] \in {"turn", "parked"}
    /\ mailbox[r] # <<>>
    /\ delivered' = delivered \cup {Head(mailbox[r])}
    /\ mailbox' = [mailbox EXCEPT ![r] = Tail(@)]
    /\ phase' = [phase EXCEPT ![r] = "turn"]
    /\ status' = "Working"
    /\ ledger' = IF runs = r /\ ledger[r] # <<>>
                   THEN [ledger EXCEPT ![r] = Tail(@)] ELSE ledger
    /\ UNCHANGED <<runs, steerable, prompt, resumed, isRetry, started, cancelled,
                   interrupted, final, orphans, resumable, redo, batch, issued, shown,
                   callerVars>>

\* A completed turn on a steerable harness parks the run (and counts as
\* started), and so does the quiesce watchdog when a turn's Done was lost.
Park(r) ==
    /\ phase[r] = "turn" /\ steerable[r] /\ ~interrupted[r]
    /\ phase' = [phase EXCEPT ![r] = "parked"]
    /\ \E s \in {started[r], TRUE} : started' = [started EXCEPT ![r] = s]
    /\ status' = "Idle"
    /\ UNCHANGED <<runs, steerable, prompt, resumed, isRetry, mailbox, ledger,
                   cancelled, interrupted, final, orphans, resumable, redo, batch, issued,
                   shown, delivered, callerVars>>

\* Output of a turn the agent started itself resumes a parked run.
SelfContinue(r) ==
    /\ phase[r] = "parked"
    /\ phase' = [phase EXCEPT ![r] = "turn"]
    /\ status' = "Working"
    /\ UNCHANGED <<runs, steerable, prompt, resumed, isRetry, started, mailbox, ledger,
                   cancelled, interrupted, final, orphans, resumable, redo, batch, issued,
                   shown, delivered, callerVars>>

\* The loop breaks.  Errored: a Done{errored} after something streamed (else
\* StartupRetry, if MayRetry), or a stream error or end inside a turn.  Idle: a
\* Done{interrupted}, the harness's or the grace deadline's, a Done{completed}
\* that cannot park, the idle reaper, a stream end or error while parked.
Ends(r) ==
    /\ phase[r] \in {"turn", "parked"}
    /\ \E f \in {"Idle", "Errored"} : final' = [final EXCEPT ![r] = f]
    /\ phase' = [phase EXCEPT ![r] = "exiting"]
    /\ UNCHANGED <<runs, steerable, prompt, resumed, isRetry, started, mailbox, ledger,
                   cancelled, interrupted, orphans, status, resumable, redo, batch,
                   issued, shown, delivered, callerVars>>

\* Slip: the cancel branch is only polled while the run is parked.
SeesCancelParked(r) ==
    /\ phase[r] = "parked" /\ cancelled[r] /\ ~interrupted[r]
    /\ interrupted' = [interrupted EXCEPT ![r] = TRUE]
    /\ UNCHANGED <<runs, phase, steerable, prompt, resumed, isRetry, started, mailbox,
                   ledger, cancelled, final, orphans, status, resumable, redo, batch,
                   issued, shown, delivered, callerVars>>

\* The cancel branch of the select: the grace deadline starts.
SeesCancel(r) ==
    /\ phase[r] \in {"turn", "parked"} /\ cancelled[r] /\ ~interrupted[r]
    /\ interrupted' = [interrupted EXCEPT ![r] = TRUE]
    /\ UNCHANGED <<runs, phase, steerable, prompt, resumed, isRetry, started, mailbox,
                   ledger, cancelled, final, orphans, status, resumable, redo, batch, issued,
                   shown, delivered, callerVars>>

\* Exit, first lock: take the unconfirmed steers off the handle.
ClaimOrphans(r) ==
    /\ phase[r] = "exiting"
    /\ phase' = [phase EXCEPT ![r] = "claimed"]
    /\ IF runs = r
         THEN /\ orphans' = [orphans EXCEPT ![r] = ledger[r]]
              /\ ledger' = [ledger EXCEPT ![r] = <<>>]
         ELSE UNCHANGED <<orphans, ledger>>
    /\ UNCHANGED <<runs, steerable, prompt, resumed, isRetry, started, mailbox,
                   cancelled, interrupted, final, status, resumable, redo, batch, issued,
                   shown, delivered, callerVars>>

\* Exit, second lock: leave the map.
ExitRemove(r) ==
    /\ phase[r] = "claimed"
    /\ RemoveRun(r)
    /\ phase' = [phase EXCEPT ![r] = "removed"]
    /\ UNCHANGED <<steerable, prompt, resumed, isRetry, started, mailbox, ledger,
                   cancelled, interrupted, final, orphans, status, resumable, redo, batch,
                   issued, shown, delivered, callerVars>>

\* Exit, last: publish the final status and spawn the re-dispatch of the
\* claimed steers, unless the run was interrupted.
Finish(r) ==
    /\ phase[r] \in {"removed", "failed"}
    /\ status' = final[r]
    /\ redo' = IF interrupted[r] THEN redo
               ELSE redo \o [i \in 1..Len(orphans[r]) |->
                               [msg |-> orphans[r][i], retry |-> FALSE, from |-> r]]
    /\ phase' = [phase EXCEPT ![r] = "ended"]
    /\ UNCHANGED <<runs, steerable, prompt, resumed, isRetry, started, mailbox, ledger,
                   cancelled, interrupted, final, orphans, resumable, batch, issued,
                   shown, delivered, callerVars>>

-----------------------------------------------------------------------------
CallStep(c) == \/ Lookup(c) \/ Send(c) \/ Enledger(c) \/ Check(c) \/ SetWorking(c)
               \/ Interrupt(c) \/ WaitSettled(c) \/ Launch(c) \/ LaunchFails(c)

HarnessStep(r) == \/ StartOk(r) \/ StartErr(r) \/ SessionStarted(r) \/ StartupRetry(r)
                  \/ Steered(r) \/ Park(r) \/ SelfContinue(r) \/ Ends(r)

ExitStep(r) == ClaimOrphans(r) \/ ExitRemove(r) \/ Finish(r)

Next ==
    \/ \E m \in Msgs, op \in {"dispatch", "steer"} : Issue(op, m)
    \/ IssueInterrupt \/ Redispatch
    \/ \E c \in Callers : CallStep(c)
    \/ \E r \in RunIds : HarnessStep(r) \/ SeesCancel(r) \/ ExitStep(r)

Spec == Init /\ [][Next]_vars

\* The runtime polls callers and run tasks; the grace deadline fires.  A
\* harness owes nothing: start-up, turns and idleness may last for ever,
\* except that start-up ends when it cannot hang.
Fairness ==
    /\ \A c \in Callers : WF_vars(CallStep(c))
    /\ \A r \in RunIds : /\ WF_vars(SeesCancel(r))
                         /\ WF_vars(interrupted[r] /\ Ends(r))
                         /\ WF_vars(ExitStep(r))
                         /\ ~StartMayHang => WF_vars(StartOk(r) \/ StartErr(r))
FairSpec == Spec /\ Fairness

-----------------------------------------------------------------------------
\* Every variable has the shape the code gives it; a mailbox never holds more
\* than its channel's capacity.
TypeOK ==
    /\ runs \in RunIds \cup {None}
    /\ phase \in [RunIds -> Phases]
    /\ steerable \in [RunIds -> BOOLEAN] /\ resumed \in [RunIds -> BOOLEAN]
    /\ isRetry \in [RunIds -> BOOLEAN] /\ started \in [RunIds -> BOOLEAN]
    /\ cancelled \in [RunIds -> BOOLEAN] /\ interrupted \in [RunIds -> BOOLEAN]
    /\ prompt \in [RunIds -> Msgs \cup {None}]
    /\ mailbox \in [RunIds -> Seq(Msgs)] /\ \A r \in RunIds : Len(mailbox[r]) <= MailboxCap
    /\ ledger \in [RunIds -> Seq(Msgs)]
    /\ orphans \in [RunIds -> Seq(Msgs)]
    /\ final \in [RunIds -> Statuses] /\ status \in Statuses
    /\ resumable \in BOOLEAN
    /\ redo \in Seq(Redos) /\ batch \in RunIds \cup {None}
    /\ issued \subseteq Msgs /\ shown \subseteq Msgs /\ delivered \subseteq Msgs
    /\ cpc \in [Callers -> Places] /\ cop \in [Callers -> Ops]
    /\ cmsg \in [Callers -> Msgs \cup {None}] /\ crun \in [Callers -> RunIds \cup {None}]

\* Never two runtimes driving one chat: a run is off the map, or at least told
\* to go and done with its turns, before the next one is started
\* (SessionsEngine::dispatch interrupts and waits before it registers a run).
OneRuntime == \A r, q \in RunIds : phase[r] \in Live /\ phase[q] \in Live => r = q

\* A runtime nobody can reach any more has been told to stop: whatever two
\* calls register over each other, a run that lost its entry in the runs map
\* has lost its cancel sender too, so its grace deadline will end it.
UnmappedRunIsCancelled == \A r \in RunIds : phase[r] \in Live /\ runs # r => cancelled[r]

SenderBetween(m, r) == \E c \in Callers : cpc[c] = "enledger" /\ cmsg[c] = m /\ crun[c] = r

\* What sits in the mailbox of a run that can still be asked for it is on the
\* run's ledger, or its sender is about to put it there: an exit drain misses
\* nothing that no Steered confirmed.
MailboxIsLedgered ==
    \A r \in RunIds : phase[r] \in Live /\ runs = r =>
        \A m \in ToSet(mailbox[r]) : m \in ToSet(ledger[r]) \/ SenderBetween(m, r)

\* Someone still answers for prompt m: a call in progress, a run that will turn
\* to it or drain it at exit, or a re-dispatch.
Held(m) ==
    \/ \E c \in Callers : cmsg[c] = m
    \/ \E r \in RunIds :
         \/ phase[r] = "starting" /\ prompt[r] = m
         \/ phase[r] \in Live /\ m \in ToSet(mailbox[r])
         \/ phase[r] = "exiting" /\ runs = r /\ m \in ToSet(ledger[r])
         \/ phase[r] \in {"claimed", "removed"} /\ m \in ToSet(orphans[r])
    \/ \E i \in DOMAIN redo : redo[i].msg = m

\* An accepted message never silently evaporates from a transcript that shows
\* it as sent (RunHandle::routed_steers).  The prompt a run was started for is
\* not a steer: its run reports its own errors.
AcceptedNeverLost ==
    \A m \in shown : \/ m \in delivered \/ Held(m)
                     \/ \E r \in RunIds : prompt[r] = m

\* dispatch, steer and interrupt return: no call waits for ever for a run to
\* settle.
EveryCallReturns ==
    \A c \in Callers : cpc[c] # "idle" ~> cpc[c] = "idle" \/ Unborn = {}

\* A harness that ignores its token cannot strand the run: once cancelled, a
\* run that came up ends.
CancelledRunSettles ==
    \A r \in RunIds : cancelled[r] /\ phase[r] \in {"turn", "parked"} ~> phase[r] = "ended"
=============================================================================
