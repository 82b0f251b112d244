------------------------------- MODULE DshLoop --------------------------------
(***************************************************************************)
(* One session of the in-process agent: the driver of                      *)
(* crates/dsh/agent-loop/src/agent.rs (wake_driver, kick, turn, step,      *)
(* execute_tool_calls), the durable inbox (agent/src/inbox.rs), the        *)
(* event-sourced session and its repair (session/src), the write-behind    *)
(* and the JSONL artifact (session-persistence and -jsonl), and the bridge  *)
(* of harness-bridge/src/lib.rs (drive_run) that creates, resumes and        *)
(* disposes the agent.                                                     *)
(*                                                                         *)
(* Everything runs on one thread: a step is the code between two awaits.   *)
(* A log is the fold of its events (open brackets, unanswered calls, inbox *)
(* and the messages shown to the model); stream chunks, headers and        *)
(* receipts do not take part in it.  The composition registers no listener *)
(* on the pre-step, turn-stopping and request-error hooks and no runtime   *)
(* context, so these add nothing.                                          *)
(***************************************************************************)
EXTENDS Naturals, Sequences, SequencesExt

CONSTANTS
    MaxMessages,  \* prompts and steers, numbered in the order they arrive
    MaxCalls,     \* tool calls of one assistant message
    MaxSteps,     \* answers that call tools
    MaxErrors,    \* failed requests and prompt assemblies
    MaxCancels, MaxKills, MaxTorn, MaxWriteFails   \* bounds on faults

VARIABLES
    run,          \* drive_run is live
    drv,          \* the driver: phase, abort signal, wake latch, where it awaits
    mem,          \* Session: the live log, folded
    artifact,     \* the artifact's committed lines, folded
    queue,        \* SessionWriteBehind::pending
    next,         \* SessionWriteBehind::durable_next
    file,         \* the artifact's tail: clean, torn or corrupt
    sent,         \* messages sent so far
    stale,        \* history: the artifact was loaded while a disposed session's events were queued
    steps, errors, cancels, kills, torn, fails

budget == <<steps, errors, cancels, kills, torn, fails>>
dshVars == <<run, drv, mem, artifact, queue, next, file, sent, stale, budget>>

NewLog == [len |-> 0, open |-> "no", calls |-> {}, turnQ |-> <<>>, stepQ |-> <<>>,
           users |-> <<>>, end |-> "none", marker |-> FALSE, bad |-> FALSE]
Idle == [phase |-> "idle", at |-> "no", aborted |-> FALSE, wake |-> FALSE, fresh |-> TRUE,
         ends |-> "no", batch |-> <<>>, call |-> 0, last |-> 0, concluded |-> FALSE]

DshInit ==
    /\ run = FALSE /\ drv = Idle
    /\ mem = NewLog /\ artifact = NewLog
    /\ queue = <<>> /\ next = 0 /\ file = "clean"
    /\ sent = 0 /\ stale = FALSE
    /\ steps = 0 /\ errors = 0 /\ cancels = 0 /\ kills = 0 /\ torn = 0 /\ fails = 0

(***************************************************************************)
(* The log.                                                                *)
(***************************************************************************)
Ev(type, arg) == [type |-> type, arg |-> arg]

\* The boundary each event needs, and what it does to the fold; "bad" is a log
\* the provider or the next load would refuse.
Legal(f, e) ==
    CASE e.type = "turn"     -> f.open = "no"
      [] e.type = "turnEnd"  -> f.open = "turn"
      [] e.type = "step"     -> f.open = "turn"
      [] e.type = "stepEnd"  -> f.open = "step" /\ f.calls = {}
      [] e.type = "user"     -> f.open = "step"
      [] e.type = "asst"     -> f.open = "step" /\ f.calls = {}
      [] e.type \in {"call", "result"} -> f.open = "step" /\ e.arg \in f.calls
      [] e.type = "takeStep" -> e.arg <= Len(f.stepQ)
      [] e.type = "takeTurn" -> e.arg <= Len(f.turnQ)
      [] OTHER               -> TRUE

Skip(s, n) == IF n >= Len(s) THEN <<>> ELSE SubSeq(s, n + 1, Len(s))

Folded(f, e) ==
    CASE e.type = "turn"     -> [f EXCEPT !.open = "turn", !.calls = {}]
      [] e.type = "turnEnd"  -> [f EXCEPT !.open = "no", !.calls = {}, !.end = e.arg]
      [] e.type = "step"     -> [f EXCEPT !.open = "step"]
      [] e.type = "stepEnd"  -> [f EXCEPT !.open = "turn", !.calls = {}]
      [] e.type = "user"     -> [f EXCEPT !.users = Append(@, e.arg)]
      [] e.type = "asst"     -> [f EXCEPT !.calls = 1..e.arg]
      [] e.type = "result"   -> [f EXCEPT !.calls = @ \ {e.arg}]
      [] e.type = "putStep"  -> [f EXCEPT !.stepQ = Append(@, e.arg)]
      [] e.type = "putTurn"  -> [f EXCEPT !.turnQ = Append(@, e.arg)]
      [] e.type = "takeStep" -> [f EXCEPT !.stepQ = Skip(@, e.arg)]
      [] e.type = "takeTurn" -> [f EXCEPT !.turnQ = Skip(@, e.arg)]
      [] OTHER               -> f

Apply(f, e) ==
    [Folded(f, e) EXCEPT !.len = f.len + 1, !.bad = f.bad \/ ~Legal(f, e),
                         !.marker = (e.type = "seed")]
Replay(f, es) == FoldLeft(Apply, f, es)

\* Session::append of several events: the live log, and the write-behind's queue.
Log(es) ==
    /\ mem' = Replay(mem, es)
    /\ queue' = queue \o [i \in DOMAIN es |-> [seq |-> mem.len + i - 1, ev |-> es[i]]]

\* Slip: the repair forgets the open step.
CloseTurnOnly(f) ==
    IF f.open = "no" THEN <<>>
    ELSE SetToSeq({Ev("result", c) : c \in f.calls}) \o <<Ev("turnEnd", "interrupted")>>

\* interrupted_turn_closers.
Closers(f) ==
    IF f.open = "no" THEN <<>>
    ELSE SetToSeq({Ev("result", c) : c \in f.calls})
           \o (IF f.open = "step" THEN <<Ev("stepEnd", 0)>> ELSE <<>>)
           \o <<Ev("turnEnd", "interrupted")>>

(***************************************************************************)
(* The inbox.                                                              *)
(***************************************************************************)
HasPending(f) == f.turnQ # <<>> \/ f.stepQ # <<>>

Take(q, n) == IF n = 0 THEN <<>> ELSE <<Ev(q, n)>>

Clear(f) == Take("takeStep", Len(f.stepQ)) \o Take("takeTurn", Len(f.turnQ))

\* Slip: the claim reads the prompt and leaves it queued.
ClaimPeeks(f, target) == Take("takeStep", Len(f.stepQ))

\* claim: all of next-step, and one prompt at the start of a turn.
OneTurn(f, target) == IF target = "turn" /\ f.turnQ # <<>> THEN 1 ELSE 0
Claim(f, target) == Take("takeStep", Len(f.stepQ)) \o Take("takeTurn", OneTurn(f, target))
Claimed(f, target) == f.stepQ \o SubSeq(f.turnQ, 1, OneTurn(f, target))

(***************************************************************************)
(* The driver.                                                             *)
(***************************************************************************)
Running == [Idle EXCEPT !.phase = "running", !.at = "turn"]

\* wake_driver: from idle it starts the driver; a running one is latched only by
\* input that came after its abort.
Woken(d, afterAbort) ==
    IF d.phase = "idle" THEN Running
    ELSE IF afterAbort THEN [d EXCEPT !.wake = TRUE] ELSE d

\* The step claims its batch and waits for the prompt.
PreStep(d, f, es, target) ==
    /\ Log(es \o Claim(f, target))
    /\ drv' = [d EXCEPT !.at = "pre", !.batch = Claimed(f, target)]

\* turn: the boundary opens in the same step as its first claim.
OpenTurn(d, es) ==
    LET opened == Append(es, Ev("turn", 0))
    IN  PreStep([d EXCEPT !.fresh = TRUE, !.ends = "no"], Replay(mem, opened), opened, "turn")

\* Slip: the latch is not looked at.
RestForgets(d, f) == Idle

\* kick after its last turn: idle, and awake again if the latch holds.
Rest(d, f) == IF d.wake /\ HasPending(f) THEN Running ELSE Idle

\* The turn is over: another one while anything is pending, unless it failed.
EndTurn(d, es, reason, failed) ==
    LET ended == Append(es, Ev("turnEnd", reason))
        f     == Replay(mem, ended)
    IN  IF ~failed /\ HasPending(f) THEN OpenTurn([Running EXCEPT !.at = "pre"], ended)
        ELSE Log(ended) /\ drv' = Rest(d, f)

FailTurn(d, es) == EndTurn(d, es, IF d.aborted THEN "aborted" ELSE "error", TRUE)

\* max-tokens is sticky.
Sticky(d, reason) == IF d.ends = "maxTokens" THEN "maxTokens" ELSE reason

\* The step is over: fail on an abort, end the turn when nothing came for its
\* next step, otherwise claim again.
EndStep(d, es, reason) ==
    LET ended == Append(es, Ev("stepEnd", 0))
        f     == Replay(mem, ended)
        l     == [d EXCEPT !.ends = Sticky(d, reason), !.fresh = FALSE, !.call = 0,
                           !.last = 0, !.concluded = FALSE]
    IN  IF d.aborted THEN FailTurn(l, ended)
        ELSE IF l.ends # "no" /\ f.stepQ = <<>> THEN EndTurn(l, ended, l.ends, FALSE)
        ELSE PreStep(l, f, ended, "step")

FailStep(d) == FailTurn(d, <<Ev("stepEnd", 0)>>)

\* The spawned driver's first poll.
BeginTurn ==
    /\ drv.at = "turn"
    /\ IF drv.aborted THEN drv' = Rest(drv, mem) /\ UNCHANGED <<mem, queue>>
       ELSE OpenTurn(drv, <<>>)
    /\ UNCHANGED <<run, artifact, next, file, sent, stale, budget>>

\* The prompt is assembled: an abort or a failure ends the turn and the claimed
\* messages with it; an empty batch ends a turn that has its outcome or has not
\* begun; otherwise the step starts.
PreStepReturns ==
    /\ drv.at = "pre"
    /\ \/ drv.aborted /\ FailTurn(drv, <<>>) /\ UNCHANGED errors
       \/ /\ ~drv.aborted /\ errors < MaxErrors
          /\ errors' = errors + 1 /\ FailTurn(drv, <<>>)
       \/ /\ ~drv.aborted /\ drv.batch = <<>> /\ (drv.ends # "no" \/ drv.fresh)
          /\ EndTurn(drv, <<>>, IF drv.ends = "no" THEN "completed" ELSE drv.ends, FALSE)
          /\ UNCHANGED errors
       \/ /\ ~drv.aborted /\ (drv.batch = <<>> => drv.ends = "no" /\ ~drv.fresh)
          /\ Log(<<Ev("step", 0)>> \o [i \in DOMAIN drv.batch |-> Ev("user", drv.batch[i])])
          /\ drv' = [drv EXCEPT !.at = "model", !.batch = <<>>]
          /\ UNCHANGED errors
    /\ UNCHANGED <<run, artifact, next, file, sent, stale, steps, cancels, kills, torn, fails>>

\* append_skipped or append_not_admitted of each of n calls from the first on:
\* the call and at once its result.
Skipped(first, n) ==
    [i \in 1..(2 * n) |-> Ev(IF i % 2 = 1 THEN "call" ELSE "result", first + (i - 1) \div 2)]

\* The loop over the calls from one on, up to its next await: after an abort the
\* rest is skipped; a call the host's focus does not admit is answered on the spot.
Dispatch(d, es, from) ==
    LET over == EndStep(d, es \o Skipped(from, d.last + 1 - from),
                        IF d.concluded THEN "completed" ELSE "no")
    IN  IF d.aborted \/ from > d.last THEN over
        ELSE \/ over
             \/ \E c \in from..d.last :
                    /\ Log(es \o Skipped(from, c - from) \o <<Ev("call", c)>>)
                    /\ drv' = [d EXCEPT !.at = "tool", !.call = c]

\* The model's stream ends.  Truncation drops the tool calls.
ModelReturns ==
    /\ drv.at = "model"
    /\ \/ drv.aborted /\ FailStep(drv) /\ UNCHANGED <<steps, errors>>
       \/ /\ ~drv.aborted /\ errors < MaxErrors
          /\ errors' = errors + 1 /\ FailStep(drv) /\ UNCHANGED steps
       \/ /\ ~drv.aborted /\ EndStep(drv, <<Ev("asst", 0)>>, "maxTokens")
          /\ UNCHANGED <<steps, errors>>
       \/ /\ ~drv.aborted /\ EndStep(drv, <<Ev("asst", 0)>>, "completed")
          /\ UNCHANGED <<steps, errors>>
       \/ /\ ~drv.aborted /\ steps < MaxSteps
          /\ \E n \in 1..MaxCalls : Dispatch([drv EXCEPT !.last = n], <<Ev("asst", n)>>, 1)
          /\ steps' = steps + 1 /\ UNCHANGED errors
    /\ UNCHANGED <<run, artifact, next, file, sent, stale, cancels, kills, torn, fails>>

ToolReturns ==
    /\ drv.at = "tool"
    /\ \E concludes \in BOOLEAN :
        Dispatch([drv EXCEPT !.concluded = @ \/ concludes], <<Ev("result", drv.call)>>,
                 drv.call + 1)
    /\ UNCHANGED <<run, artifact, next, file, sent, stale, budget>>

(***************************************************************************)
(* The bridge.                                                             *)
(***************************************************************************)
\* send: waking input that finds its activity aborted waits for the next turn.
Send(m, target) ==
    LET late == drv.phase = "running" /\ drv.aborted
        q    == IF late \/ target = "turn" THEN "putTurn" ELSE "putStep"
    IN  Log(<<Ev(q, m)>>) /\ drv' = Woken(drv, late)

Steer ==
    /\ run /\ sent < MaxMessages
    /\ sent' = sent + 1
    /\ Send(sent + 1, "step")
    /\ UNCHANGED <<run, artifact, next, file, stale, budget>>

\* The interrupt token: the inbox is cleared, the latch with it, the turn aborted.
Cancel ==
    /\ run /\ cancels < MaxCancels
    /\ cancels' = cancels + 1
    /\ Log(Clear(mem))
    /\ drv' = IF drv.phase = "idle" THEN drv ELSE [drv EXCEPT !.aborted = TRUE, !.wake = FALSE]
    /\ UNCHANGED <<run, artifact, next, file, sent, stale, steps, errors, kills,
                   torn, fails>>

\* Appending to a torn tail joins the new line to the broken one.
AfterWrite == IF file = "clean" THEN "clean" ELSE "corrupt"

Loads == file # "corrupt" /\ ~artifact.bad

\* Slip: a load leaves the watermark where it was.
WatermarkKept(n) == next

\* mark_durable_prefix: what a load read is not written again.
Watermark(n) == IF n > next THEN n ELSE next

\* create, or resume: load with its durable repair, the seed marker, the prompt.
StartRun ==
    /\ ~run /\ sent < MaxMessages
    /\ sent' = sent + 1
    /\ Loads
    /\ LET repaired == Replay(artifact, Closers(artifact))
           marker   == IF repaired.len = 0 \/ repaired.marker THEN <<>> ELSE <<Ev("seed", 0)>>
           opening  == Append(marker, Ev("putTurn", sent + 1))
       IN  /\ artifact' = repaired
           /\ file' = IF Closers(artifact) = <<>> THEN file ELSE AfterWrite
           /\ next' = Watermark(repaired.len)
           /\ mem' = Replay(repaired, opening)
           /\ queue' = queue \o [i \in DOMAIN opening |->
                                  [seq |-> repaired.len + i - 1, ev |-> opening[i]]]
    /\ stale' = (stale \/ queue # <<>>)
    /\ run' = TRUE /\ drv' = Running
    /\ UNCHANGED budget

\* The artifact cannot be read: the run fails before it starts.
StartFails ==
    /\ ~run /\ sent < MaxMessages /\ ~Loads
    /\ sent' = sent + 1
    /\ UNCHANGED <<run, drv, mem, artifact, queue, next, file, stale, budget>>

(***************************************************************************)
(* The write-behind.                                                       *)
(***************************************************************************)
\* prepare_batch: one event per sequence number from the watermark on, the first
\* that was queued, in their order; nothing when the batch does not start there.
\* The watermark moves past its last event.
Due == {k \in {queue[i].seq : i \in DOMAIN queue} : k >= next}
FirstOf(k) == CHOOSE i \in DOMAIN queue :
                 queue[i].seq = k /\ \A j \in DOMAIN queue : queue[j].seq = k => i <= j
NthSeq(S, n) == CHOOSE k \in S : Cardinality(S \cap 0..k) = n
Batch ==
    LET due == Due
    IN  IF next \notin due THEN <<>>
        ELSE [n \in 1..Cardinality(due) |-> queue[FirstOf(NthSeq(due, n))].ev]
Passed == IF next \notin Due THEN next ELSE Max(Due) + 1

\* The backend refuses a batch that does not continue the stored log.
Continues == artifact.len = next

Written(es) ==
    IF es = <<>> \/ ~Continues THEN UNCHANGED <<artifact, file>>
    ELSE artifact' = Replay(artifact, es) /\ file' = AfterWrite

\* The batching deadline.  The watermark moves before the write is known to work.
WriteBatch ==
    /\ queue # <<>>
    /\ queue' = <<>>
    /\ LET b == Batch IN
        /\ next' = Passed
        /\ \/ Written(b) /\ UNCHANGED fails
           \/ fails < MaxWriteFails /\ fails' = fails + 1 /\ UNCHANGED <<artifact, file>>
    /\ UNCHANGED <<run, drv, mem, sent, stale, steps, errors, cancels,
                   kills, torn>>

\* when_idle: flush, then dispose, which clears what the driver still owed; the
\* controller keeps these last events until its next deadline.
FinishRun ==
    /\ run /\ drv.phase = "idle"
    /\ run' = FALSE
    /\ Written(Batch)
    /\ mem' = Replay(mem, Clear(mem))
    /\ queue' = [i \in DOMAIN Clear(mem) |-> [seq |-> mem.len + i - 1, ev |-> Clear(mem)[i]]]
    /\ next' = Passed
    /\ UNCHANGED <<drv, sent, stale, budget>>

\* The process dies, possibly in the middle of a write.
Killed ==
    /\ kills < MaxKills
    /\ kills' = kills + 1
    /\ LET b == Batch IN \E k \in 0..Len(b) :
        \/ Written(SubSeq(b, 1, k)) /\ UNCHANGED torn
        \/ /\ torn < MaxTorn /\ Continues /\ k < Len(b)
           /\ artifact' = Replay(artifact, SubSeq(b, 1, k))
           /\ file' = IF file = "clean" THEN "torn" ELSE "corrupt"
           /\ torn' = torn + 1
    /\ run' = FALSE /\ drv' = Idle /\ mem' = NewLog /\ queue' = <<>> /\ next' = 0
    /\ UNCHANGED <<sent, stale, steps, errors, cancels, fails>>

Driver == BeginTurn \/ PreStepReturns \/ ModelReturns \/ ToolReturns
DshNext ==
    \/ Driver \/ Steer \/ Cancel \/ StartRun \/ StartFails \/ WriteBatch \/ FinishRun
    \/ Killed

DshSpec == DshInit /\ [][DshNext]_dshVars

(***************************************************************************)
(* Properties.                                                             *)
(***************************************************************************)
\* The log the model is shown and the one a resume will load are well formed:
\* turns and steps are bracketed, every tool call has one result before its step
\* ends, and every inbox splice is one the inbox can replay - through aborts,
\* failures, crashes at any event and repairs (but for a torn tail and for the
\* events of a disposed session that meet a resumed one).
LogWellFormed == ~mem.bad /\ (file = "clean" /\ ~stale => Loads)

\* The write-behind loses and reorders nothing: the artifact followed by what is
\* queued is the live log, unless a write failed.
ReplayRebuildsLog ==
    run /\ fails = 0 /\ ~stale => Replay(artifact, Batch) = mem

\* A message reaches the model at most once, and is not both shown and pending,
\* though its claim, its event and their writes can be cut apart by a crash.
MessageShownOnce ==
    ~stale => IsInjective(mem.users \o mem.turnQ \o mem.stepQ \o drv.batch)

\* kick, "turns until nothing is owed": an idle driver with pending input had its
\* last turn fail.
IdleOwesNothing == run /\ drv.phase = "idle" /\ HasPending(mem) => mem.end = "error"

\* SessionPersistence::load, "only a torn final record is discarded"; an artifact
\* this process wrote can be loaded again.
ArtifactLoads == Loads
=============================================================================
