------------------------------- MODULE AcpTurns -------------------------------
(***************************************************************************)
(* One agent session over the Agent Client Protocol: run_session's select  *)
(* loop (crates/harness/src/acp/mod.rs) between the engine (steering       *)
(* mailbox, interrupt token, event stream) and the agent child behind      *)
(* RpcClient (crates/harness/src/jsonrpc.rs).                              *)
(*                                                                         *)
(* A select branch is one step.  The reader resolves responses directly    *)
(* and queues everything else, so a response can overtake notifications    *)
(* the agent wrote before it.  The agent is external: it may continue on   *)
(* its own, merge a prompt into such a turn and never answer it, refuse a  *)
(* steering call, or exit.  Steers are numbered in the order they arrive.  *)
(***************************************************************************)
EXTENDS Naturals, Sequences, SequencesExt, FiniteSets

CONSTANTS
    SteerExt,     \* steer_ext: the agent advertises _session/steering
    MaxSteers, MaxIncoming, MaxDrops, MaxFails, MaxAsks, MaxOwn   \* bounds

ASSUME AcpBounds == /\ MaxSteers \in Nat /\ MaxIncoming \in Nat /\ MaxDrops \in Nat
                    /\ MaxFails \in Nat /\ MaxAsks \in Nat /\ MaxOwn \in Nat

VARIABLES
    phase,        \* setup, main or ended
    loop,         \* run_session's flags
    call,         \* steering_call: the steer in flight, or 0
    backlog,      \* steer_backlog
    queue,        \* queued_steers
    received,     \* steers taken from the mailbox
    boundary,     \* the last turn boundary sent to the engine: none, steered or done
    gone,         \* the engine dropped the event stream
    agent,        \* idle, own, prompt, next or merged: the turn the agent is running
    busy,         \* what it waits for: none, tool or user
    questions,    \* open_questions
    owed,         \* an injected message's cost is still to be reported
    reply,        \* the session/prompt response: none, ok, err or gone
    answer,       \* the _session/steering response
    incoming,     \* parsed notifications and requests, in stdout order
    cancel,       \* a session/cancel the agent has not acted on
    eof,          \* the child has exited
    delivered,    \* history: how often a steer's text reached the agent
    flooded,      \* history: a steering response was not parsed within a second
    late,         \* history: an injection was confirmed after its turn, with followers
    blind,        \* history: tool frames were drained past track_turn_signals
    misread,      \* history: an earlier turn's cost frame was read in a later one
    drops, fails, asks, owns

loopVars  == <<phase, loop, call, backlog, queue, received, boundary, gone>>
agentVars == <<agent, busy, owed, reply, answer, incoming, cancel, eof>>
histVars  == <<delivered, flooded, late, blind, misread>>
budget    == <<drops, fails, asks, owns>>
acpVars == <<loopVars, questions, agentVars, histVars, budget>>

Steers == 1..MaxSteers
Claude == loop.claude   \* cost_hint_enabled: cost frames settle, otherwise quiet_settle does
Costs == {"cost", "oldCost", "injectedCost"}   \* one and the same to the loop
ToolFrames == {"tool", "result"}

Count(s, x) == Cardinality({i \in DOMAIN s : s[i] = x})

\* Where a fresh turn's flags start; turn_content_seen, steered_this_turn and
\* open_tools are cleared wherever a prompt is sent.
NewTurn(l) == [l EXCEPT !.turn = TRUE, !.done = FALSE, !.content = FALSE,
                        !.steered = FALSE, !.tools = FALSE]

AcpInit ==
    /\ phase = "setup"
    /\ \E c \in BOOLEAN :
        loop = [turn |-> FALSE, done |-> FALSE, doneAfter |-> FALSE, content |-> FALSE,
                steered |-> FALSE, tools |-> FALSE, open |-> TRUE, interrupted |-> FALSE,
                starve |-> "no", flush |-> FALSE, claude |-> c]
    /\ call = 0 /\ backlog = <<>> /\ queue = <<>> /\ received = 0
    /\ boundary = "none" /\ gone = FALSE
    /\ agent = "idle" /\ busy = "none" /\ owed = FALSE /\ questions = 0
    /\ reply = "none" /\ answer = "none" /\ incoming = <<>> /\ cancel = FALSE /\ eof = FALSE
    /\ delivered = [s \in Steers |-> 0]
    /\ flooded = FALSE /\ late = FALSE /\ blind = FALSE /\ misread = FALSE
    /\ drops = 0 /\ fails = 0 /\ asks = 0 /\ owns = 0

(***************************************************************************)
(* The agent.                                                              *)
(***************************************************************************)
\* A prompt written to a busy agent is folded into the turn it is running, whose
\* reply the adapter never attributes to it; or it waits its turn; or the cancel
\* written before it has cleared the way.
Prompted == IF eof THEN {agent}
            ELSE IF agent = "idle" THEN {"prompt"}
            ELSE {"merged"} \cup (IF cancel THEN {"prompt"} ELSE {})
                            \cup (IF agent \in {"prompt", "next"} THEN {"next"} ELSE {})

CanEmit(n) == ~eof /\ Len(incoming) + n <= MaxIncoming

AgentContinues ==
    /\ ~eof /\ phase = "main" /\ agent = "idle" /\ owns < MaxOwn
    /\ agent' = "own" /\ owns' = owns + 1
    /\ UNCHANGED <<loopVars, questions, busy, owed, reply, answer, incoming, cancel, eof, histVars,
                   drops, fails, asks>>

AgentStreams ==
    /\ agent # "idle" /\ busy # "user" /\ CanEmit(1)
    /\ \E f \in {"text"} \cup (IF busy = "tool" THEN {"result"} ELSE {"tool"})
                          \cup (IF owed THEN {"injectedCost"} ELSE {}) :
        /\ incoming' = Append(incoming, f)
        /\ owed' = (owed /\ f # "injectedCost")
        /\ busy' = CASE f = "tool" -> "tool" [] f = "result" -> "none" [] OTHER -> busy
    /\ UNCHANGED <<loopVars, questions, agent, reply, answer, cancel, eof, histVars, budget>>

AgentAsks ==
    /\ agent # "idle" /\ busy = "none" /\ CanEmit(1) /\ asks < MaxAsks
    /\ incoming' = Append(incoming, "ask") /\ busy' = "user" /\ asks' = asks + 1
    /\ UNCHANGED <<loopVars, questions, agent, owed, reply, answer, cancel, eof, histVars,
                   drops, fails, owns>>

\* The turn ends: Claude's adapter reports its cost, a turn of its own is
\* announced with _session/turn_ended, and a prompt it tracks is answered.
AgentEnds ==
    LET frames == (IF Claude THEN <<IF agent \in {"own", "next"} THEN "oldCost" ELSE "cost">>
                   ELSE <<>>)
                    \o (IF Claude /\ agent = "own" THEN <<"ended">> ELSE <<>>)
    IN
    /\ agent # "idle" /\ busy = "none" /\ CanEmit(Len(frames))
    /\ incoming' = incoming \o frames
    /\ \/ /\ agent = "prompt" /\ loop.turn /\ reply' \in {"ok", "err"}
          /\ UNCHANGED drops
       \/ /\ agent = "prompt" /\ loop.turn => ~Claude /\ drops < MaxDrops /\ loop.content
          /\ drops' = drops + (IF agent = "prompt" /\ loop.turn THEN 1 ELSE 0)
          /\ UNCHANGED reply
    /\ agent' = IF agent = "next" THEN "prompt" ELSE "idle"
    /\ owed' = FALSE
    /\ UNCHANGED <<loopVars, questions, busy, answer, cancel, eof, histVars, fails, asks, owns>>

AgentCancelled ==
    /\ ~eof /\ cancel
    /\ cancel' = FALSE /\ agent' = "idle" /\ busy' = "none" /\ owed' = FALSE
    /\ reply' = IF agent = "prompt" /\ loop.turn THEN "ok" ELSE reply
    /\ UNCHANGED <<loopVars, questions, answer, incoming, eof, histVars, budget>>

\* A call is injected into a turn the adapter tracks; Claude will report a cost for
\* the injected message as well, some time before the turn ends.
AgentAnswersSteer ==
    /\ ~eof /\ call # 0 /\ answer = "none"
    /\ \/ /\ agent = "prompt"
          /\ answer' = "injected" /\ owed' = Claude
          /\ delivered' = [delivered EXCEPT ![call] = @ + 1]
          /\ UNCHANGED fails
       \/ /\ agent # "prompt"
          /\ answer' = "noRunningTurn"
          /\ UNCHANGED <<owed, delivered, fails>>
       \/ /\ fails < MaxFails
          /\ answer' \in {"promptRequired", "err"} /\ fails' = fails + 1
          /\ UNCHANGED <<owed, delivered>>
    /\ UNCHANGED <<loopVars, questions, agent, busy, reply, incoming, cancel, eof, flooded, late, blind,
                   misread, drops, asks, owns>>

\* The child exits; the reader fails every pending request before it queues Eof.
AgentExits ==
    /\ ~eof /\ phase # "ended"
    /\ eof' = TRUE /\ agent' = "idle" /\ busy' = "none" /\ owed' = FALSE /\ cancel' = FALSE
    /\ reply'  = IF loop.turn /\ reply = "none" THEN "gone" ELSE reply
    /\ answer' = IF call # 0 /\ answer = "none" THEN "err" ELSE answer
    /\ UNCHANGED <<loopVars, questions, incoming, histVars, budget>>

UserAnswers ==
    /\ questions > 0
    /\ questions' = questions - 1
    /\ busy' = IF busy = "user" THEN "none" ELSE busy
    /\ UNCHANGED <<loopVars, agent, owed, reply, answer, incoming, cancel, eof, histVars, budget>>

(***************************************************************************)
(* run_session.  Its setup is one step.                                    *)
(***************************************************************************)
\* Slip: only an interrupt is closed out.
FinalIfInterrupted(l, b) == IF l.interrupted /\ ~l.doneAfter THEN "done" ELSE b

\* Terminal bookkeeping: the Done a stream must not end without.
FinalBoundary(l, b) == IF (IF l.interrupted THEN l.doneAfter ELSE l.done) THEN b ELSE "done"

End(l, b) ==
    /\ phase' = "ended" /\ boundary' = FinalBoundary(l, b)
    /\ loop' = [l EXCEPT !.turn = FALSE]
    /\ UNCHANGED <<agent, busy, owed, reply, cancel, delivered>>

\* prompt_turn.  The agent reads its stdin in order, a session/cancel before the
\* prompt that follows it.
SendPrompt(s) ==
    /\ agent' \in Prompted
    /\ busy' = IF agent' = "prompt" THEN "none" ELSE busy
    /\ owed' = (owed /\ agent' # "prompt")
    /\ reply' = "none" /\ cancel' = FALSE
    /\ delivered' = IF eof THEN delivered ELSE [delivered EXCEPT ![s] = @ + 1]

\* A steer becomes the next turn: its Steered goes out, then its prompt.
StartTurn(l, s) ==
    /\ loop' = NewTurn(l) /\ boundary' = "steered"
    /\ SendPrompt(s)
    /\ UNCHANGED phase

\* Slip: the queue waits for the mailbox.
AfterDoneWaits(l, q) ==
    /\ queue' = q
    /\ IF l.open THEN /\ loop' = l /\ boundary' = "done"
                      /\ UNCHANGED <<phase, agent, busy, owed, reply, cancel, delivered>>
       ELSE End(l, "done")

\* What follows a Done: the next queued steer, or the end once the mailbox closed.
AfterDone(l, q) ==
    IF q # <<>> THEN StartTurn(l, Head(q)) /\ queue' = Tail(q)
    ELSE /\ queue' = q
         /\ IF l.open THEN /\ loop' = l /\ boundary' = "done"
                           /\ UNCHANGED <<phase, agent, busy, owed, reply, cancel, delivered>>
            ELSE End(l, "done")

\* try_recv until empty: the events are sent on, a request still opens its
\* question, the turn's signals are not tracked.
Drain ==
    /\ incoming' = <<>>
    /\ questions' = questions + Count(incoming, "ask")

DrainsTools == blind' = (blind \/ \E i \in DOMAIN incoming : incoming[i] \in ToolFrames)

SetupOk ==
    /\ phase = "setup" /\ ~eof
    /\ phase' = "main" /\ loop' = NewTurn(loop) /\ agent' = "prompt"
    /\ UNCHANGED <<call, backlog, queue, received, boundary, gone, questions, busy, owed, reply,
                   answer, incoming, cancel, eof, histVars, budget>>

\* The handshake fails or the interrupt token fires during it.
SetupFails ==
    /\ phase = "setup"
    /\ phase' = "ended" /\ boundary' = "done"
    /\ UNCHANGED <<loop, call, backlog, queue, received, gone, questions, agentVars, histVars,
                   budget>>

\* How a steering call in flight is settled when its turn's response is in.
SettledCall ==
    IF call = 0 THEN {"no"}
    ELSE {IF answer = "none" THEN "timeout" ELSE answer}
           \cup (IF MaxFails > 0 THEN {"timeout"} ELSE {})

\* Slip: an unsettled call is not redelivered.
RedoRefused(out) == IF out \in {"promptRequired", "noRunningTurn"} THEN <<call>> ELSE <<>>

\* The steer of a refused, failed or unsettled call is redelivered.
Redo(out) == IF out \in {"no", "injected"} \/ loop.interrupted THEN <<>> ELSE <<call>>

SettleEvents(out) == (IF out = "injected" THEN <<"steered">> ELSE <<>>) \o <<"done">>

TurnResponds ==
    /\ phase = "main" /\ loop.turn /\ reply # "none"
    /\ \E out \in SettledCall :
        LET l == [loop EXCEPT !.turn = FALSE, !.starve = "no", !.done = TRUE,
                              !.doneAfter = @ \/ loop.interrupted]
            q == IF out = "no" THEN queue ELSE queue \o Redo(out) \o backlog
        IN
        /\ IF loop.interrupted \/ reply \in {"err", "gone"}
             THEN End(l, Last(SettleEvents(out))) /\ queue' = q
             ELSE AfterDone(l, q)
        /\ flooded' = (flooded \/ (out = "timeout" /\ answer = "injected"))
        /\ backlog' = IF out = "no" THEN backlog ELSE <<>>
    /\ call' = 0 /\ answer' = "none"
    /\ Drain /\ DrainsTools
    /\ UNCHANGED <<received, gone, eof, late, misread, budget>>

\* Slip: the cost of an injected message counts.
ArmsMidSteer(f) ==
    /\ Claude /\ f \in Costs
    /\ loop.turn /\ ~loop.interrupted /\ call = 0 /\ loop.starve = "no"

\* Slip: there is no cost hint.
ArmsNever(f) == FALSE

\* A cost frame read while our prompt is outstanding arms the fast settle.
ArmsSettle(f) ==
    /\ Claude /\ f \in Costs
    /\ loop.turn /\ ~loop.interrupted /\ ~loop.steered /\ call = 0 /\ loop.starve = "no"

Tracked(l, f) ==
    CASE f = "text"   -> [l EXCEPT !.content = TRUE]
      [] f = "tool"   -> [l EXCEPT !.content = TRUE, !.tools = TRUE]
      [] f = "result" -> [l EXCEPT !.tools = FALSE]
      [] OTHER        -> l

ReadIncoming ==
    /\ phase = "main" /\ incoming # <<>>
    /\ LET f == Head(incoming) IN
        /\ incoming' = Tail(incoming)
        /\ loop' = IF ArmsSettle(f) THEN [loop EXCEPT !.starve = "cost"] ELSE Tracked(loop, f)
        /\ misread' = (misread \/ (ArmsSettle(f) /\ f = "oldCost"))
        /\ boundary' = IF f = "ended" /\ ~loop.turn /\ ~loop.interrupted THEN "done"
                       ELSE boundary
        /\ questions' = IF f = "ask" THEN questions + 1 ELSE questions
    /\ UNCHANGED <<phase, call, backlog, queue, received, gone, agent, busy, owed, reply, answer,
                   cancel, eof, delivered, flooded, late, blind, budget>>

\* Eof: a response the reader resolved first is a clean finish, anything else a crash.
ReadEof ==
    /\ phase = "main" /\ eof /\ incoming = <<>>
    /\ IF loop.turn /\ reply = "ok"
         THEN End([loop EXCEPT !.done = TRUE, !.doneAfter = @ \/ loop.interrupted], "done")
         ELSE End(loop, boundary)
    /\ UNCHANGED <<call, backlog, queue, received, gone, questions, answer, incoming, eof,
                   flooded, late, blind, misread, budget>>

\* The backlog after a call was answered: the next call while a turn is live,
\* otherwise the queue.
Pump(live, q) ==
    IF backlog = <<>> THEN call' = 0 /\ queue' = q /\ UNCHANGED backlog
    ELSE IF live THEN call' = Head(backlog) /\ backlog' = Tail(backlog) /\ queue' = q
    ELSE call' = 0 /\ backlog' = <<>> /\ queue' = q \o backlog

SteerAbandoned ==
    /\ loop.interrupted
    /\ Pump(FALSE, queue)
    /\ UNCHANGED <<phase, loop, boundary, questions, agent, busy, owed, reply, incoming, cancel,
                   delivered, late, blind>>

SteerInjected ==
    /\ ~loop.interrupted /\ answer = "injected" /\ loop.turn
    /\ loop' = [loop EXCEPT !.steered = TRUE, !.starve = "no"]
    /\ Drain /\ DrainsTools /\ boundary' = "steered"
    /\ Pump(TRUE, queue)
    /\ UNCHANGED <<phase, agent, busy, owed, reply, cancel, delivered, late>>

\* Slip: the boundary is announced although the turn is over.
AnnouncedLate ==
    /\ ~loop.interrupted /\ answer = "injected" /\ ~loop.turn
    /\ late' = (late \/ backlog # <<>>) /\ boundary' = "steered"
    /\ Pump(FALSE, queue)
    /\ UNCHANGED <<phase, loop, questions, agent, busy, owed, reply, incoming, cancel, delivered, blind>>

\* Confirmed after the turn's Done: the injection was consumed by that turn.
SteerInjectedLate ==
    /\ ~loop.interrupted /\ answer = "injected" /\ ~loop.turn
    /\ late' = (late \/ backlog # <<>>)
    /\ Pump(FALSE, queue)
    /\ UNCHANGED <<phase, loop, boundary, questions, agent, busy, owed, reply, incoming, cancel,
                   delivered, blind>>

SteerRefused ==
    /\ ~loop.interrupted /\ answer # "injected"
    /\ IF loop.turn
         THEN /\ loop' = IF answer = "noRunningTurn" THEN [loop EXCEPT !.starve = "steer"] ELSE loop
              /\ Pump(TRUE, Append(queue, call))
              /\ UNCHANGED <<phase, boundary, agent, busy, owed, reply, cancel, delivered>>
         ELSE StartTurn(loop, call) /\ Pump(TRUE, queue)
    /\ UNCHANGED <<questions, incoming, late, blind>>

SteeringAnswered ==
    /\ phase = "main" /\ call # 0 /\ answer # "none"
    /\ SteerAbandoned \/ SteerInjected \/ SteerInjectedLate \/ SteerRefused
    /\ answer' = "none"
    /\ UNCHANGED <<received, gone, eof, flooded, misread, budget>>

\* A grace is a second or more and a select takes a ready branch at once: a timer
\* fires when nothing else is ready.
NothingReady == incoming = <<>> /\ reply = "none" /\ answer = "none"

\* The unowned turn had its cancel and its time to die: prompt, or leave.
FlushExpires ==
    /\ phase = "main" /\ loop.flush /\ ~loop.interrupted /\ NothingReady
    /\ LET l == [loop EXCEPT !.flush = FALSE] IN
        IF ~l.turn /\ queue # <<>> THEN StartTurn(l, Head(queue)) /\ queue' = Tail(queue)
        ELSE /\ UNCHANGED queue
             /\ IF ~l.turn /\ ~l.open THEN End(l, boundary)
                ELSE loop' = l /\ UNCHANGED <<phase, boundary, agent, busy, owed, reply, cancel, delivered>>
    /\ UNCHANGED <<call, backlog, received, gone, questions, answer, incoming, eof, flooded,
                   late, blind, misread, budget>>

\* Half a minute without a frame after output that looks complete.
QuietSettle ==
    /\ phase = "main" /\ ~Claude /\ NothingReady
    /\ loop.starve = "no" /\ loop.turn /\ ~loop.interrupted /\ loop.content /\ ~loop.tools
    /\ questions = 0
    /\ loop' = [loop EXCEPT !.starve = "quiet"]
    /\ UNCHANGED <<phase, call, backlog, queue, received, boundary, gone, questions, agentVars,
                   histVars, budget>>

\* The grace passed without a response: close the dead turn out.
StarveExpires ==
    /\ phase = "main" /\ loop.starve # "no" /\ loop.turn /\ ~loop.interrupted /\ NothingReady
    /\ AfterDone([loop EXCEPT !.starve = "no", !.turn = FALSE, !.done = TRUE], queue)
    /\ UNCHANGED <<call, backlog, received, gone, questions, answer, incoming, eof, flooded,
                   late, blind, misread, budget>>

\* A steer between turns: behind a flush, behind a cancel of the agent's own
\* turn when it looks busy (Claude merges instead), or as the next turn.
SteerIdle(s) ==
    /\ ~loop.turn /\ UNCHANGED <<call, backlog>>
    /\ \/ /\ loop.flush /\ queue' = Append(queue, s)
          /\ UNCHANGED <<phase, loop, boundary, agent, busy, owed, reply, cancel, delivered>>
       \/ /\ ~loop.flush /\ ~Claude          \* open_tools, or an update in the last seconds
          /\ loop' = [loop EXCEPT !.flush = TRUE] /\ queue' = Append(queue, s)
          /\ cancel' = ~eof
          /\ UNCHANGED <<phase, boundary, agent, busy, owed, reply, delivered>>
       \/ /\ ~loop.flush /\ (Claude \/ ~loop.tools)
          /\ StartTurn(loop, s) /\ UNCHANGED queue

SteerMidTurn(s) ==
    /\ loop.turn
    /\ IF ~SteerExt THEN queue' = Append(queue, s) /\ UNCHANGED <<call, backlog>>
       ELSE /\ IF call = 0 THEN call' = s /\ UNCHANGED backlog
               ELSE backlog' = Append(backlog, s) /\ UNCHANGED call
            /\ UNCHANGED queue
    /\ UNCHANGED <<phase, loop, boundary, agent, busy, owed, reply, cancel, delivered>>

SteerArrives ==
    /\ phase = "main" /\ loop.open /\ ~loop.interrupted /\ received < MaxSteers
    /\ received' = received + 1
    /\ SteerIdle(received + 1) \/ SteerMidTurn(received + 1)
    /\ UNCHANGED <<gone, questions, answer, incoming, eof, flooded, late, blind, misread, budget>>

MailboxCloses ==
    /\ phase = "main" /\ loop.open /\ ~loop.interrupted
    /\ LET l == [loop EXCEPT !.open = FALSE] IN
        IF ~l.turn /\ queue = <<>> THEN End(l, boundary)
        ELSE loop' = l /\ UNCHANGED <<phase, boundary, agent, busy, owed, reply, cancel, delivered>>
    /\ UNCHANGED <<call, backlog, queue, received, gone, questions, answer, incoming, eof,
                   flooded, late, blind, misread, budget>>

Interrupt ==
    /\ phase = "main" /\ ~loop.interrupted
    /\ LET l == [loop EXCEPT !.interrupted = TRUE] IN
        IF l.turn THEN /\ loop' = l /\ cancel' = ~eof
                       /\ UNCHANGED <<phase, boundary, agent, busy, owed, reply, delivered>>
        ELSE End(l, boundary)
    /\ UNCHANGED <<call, backlog, queue, received, gone, questions, answer, incoming, eof,
                   flooded, late, blind, misread, budget>>

\* Slip: an agent that ignores the cancel is left alone.
NeverEscalates == FALSE

\* SIGTERM, then SIGKILL, unless the loop ended first.
Escalates == loop.interrupted /\ AgentExits

\* Any send that fails, and the closed() branch.
ConsumerGone ==
    /\ phase # "ended"
    /\ phase' = "ended" /\ gone' = TRUE /\ loop' = [loop EXCEPT !.turn = FALSE]
    /\ UNCHANGED <<call, backlog, queue, received, boundary, questions, agentVars,
                   histVars, budget>>

LoopStep ==
    \/ TurnResponds \/ ReadIncoming \/ ReadEof \/ SteeringAnswered \/ FlushExpires
    \/ QuietSettle \/ StarveExpires

AgentStep ==
    \/ AgentContinues \/ AgentStreams \/ AgentAsks \/ AgentEnds \/ AgentCancelled
    \/ AgentAnswersSteer \/ AgentExits \/ UserAnswers

AcpNext ==
    \/ SetupOk \/ SetupFails \/ LoopStep \/ SteerArrives \/ MailboxCloses \/ Interrupt
    \/ ConsumerGone \/ AgentStep

AcpSpec == AcpInit /\ [][AcpNext]_acpVars

ToolFinishes == AgentStreams /\ busy = "tool" /\ busy' = "none"

\* The select polls its branches in random order, so each ready one is taken; the
\* agent ends the turns it runs and answers calls; an interrupted child that does
\* not wind down is killed.
AcpFairSpec ==
    /\ AcpSpec
    /\ WF_acpVars(SetupOk) /\ WF_acpVars(TurnResponds) /\ WF_acpVars(ReadIncoming) /\ WF_acpVars(ReadEof)
    /\ WF_acpVars(SteeringAnswered) /\ SF_acpVars(FlushExpires \/ QuietSettle \/ StarveExpires)
    /\ SF_acpVars(AgentEnds) /\ SF_acpVars(AgentAnswersSteer)
    /\ WF_acpVars(UserAnswers) /\ SF_acpVars(ToolFinishes)
    /\ WF_acpVars(Escalates)

(***************************************************************************)
(* Properties.                                                             *)
(***************************************************************************)
\* Every variable stays in its range, and an idle loop has nothing armed on a
\* turn that is over.
AcpTypeOK ==
    /\ phase \in {"setup", "main", "ended"}
    /\ loop.starve \in {"no", "cost", "steer", "quiet"}
    /\ call \in 0..MaxSteers /\ received \in 0..MaxSteers
    /\ queue \in Seq(Steers) /\ backlog \in Seq(Steers)
    /\ boundary \in {"none", "steered", "done"}
    /\ agent \in {"idle", "own", "prompt", "next", "merged"} /\ busy \in {"none", "tool", "user"}
    /\ reply \in {"none", "ok", "err", "gone"}
    /\ answer \in {"none", "injected", "promptRequired", "noRunningTurn", "err"}
    /\ questions \in 0..MaxAsks
    /\ backlog # <<>> /\ phase = "main" => call # 0
    /\ phase = "main" => (loop.turn <=> ~loop.done)

\* The engine is never left Working with nobody to finish: between turns the last
\* boundary it was sent is a Done, never the Steered of an injection confirmed
\* after its turn.
NoStrandedWorking == phase = "main" /\ ~loop.turn => boundary = "done"

\* The event stream never ends without a Done unless the engine hung up.
EndsWithDone == phase = "ended" /\ ~gone => boundary = "done"

\* A steer taken from the mailbox reaches the agent once: as a prompt, as an
\* injection, or it still waits in exactly one place.
Held(s) ==
    Count(queue, s) + Count(backlog, s)
      + (IF call = s /\ answer # "injected" THEN 1 ELSE 0)

SteerReachesAgentOnce ==
    phase = "main" /\ ~loop.interrupted /\ ~eof /\ ~flooded =>
        \A s \in 1..received : delivered[s] + Held(s) = 1

\* A queued steer has a boundary coming: a live turn or a flush, and no steer
\* sits in a loop that waits for the mailbox (but for the followers of an
\* injection confirmed after its turn).
QueuedSteerHasBoundary ==
    phase = "main" /\ queue # <<>> => loop.turn \/ loop.flush \/ loop.interrupted \/ late

\* The two ways to settle a turn whose prompt is unanswered.  Silence behind a
\* running tool or an open question is waited for (but for tool frames a steer's
\* drain swallowed); a cost frame counts only when the agent has finished, an
\* injected message's cost never does (but for an earlier turn's frame read too
\* late).
SettleStep ==
    /\ QuietSettle /\ agent = "prompt" => busy = "none" \/ blind
    /\ StarveExpires /\ loop.starve = "cost" => agent # "prompt" \/ misread

OnlyDeadTurnsAreSettled == [][SettleStep]_acpVars

\* An interrupted run ends, whatever the agent does with the cancel.
InterruptEnds == loop.interrupted ~> phase = "ended"

\* A turn is settled even when the agent never answers its prompt.
TurnSettles == loop.turn ~> ~loop.turn \/ blind \/ misread \/ fails > 0
=============================================================================
