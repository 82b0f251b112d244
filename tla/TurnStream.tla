------------------------------ MODULE TurnStream ------------------------------
(***************************************************************************)
(* What one chat's run writes down: drive_run's event loop                 *)
(* (crates/engine/src/sessions.rs), the fold it keeps                      *)
(* (crates/doc/src/parts.rs), the entries its SegmentWriter streams into   *)
(* the document (crates/doc/src/schema.rs), the run journal                *)
(* (crates/engine/src/run_journal.rs) and the recovery of stale journals   *)
(* at boot (recover_stale).                                                *)
(*                                                                         *)
(* An event of the harness and the loop's handling of it are one step.     *)
(* The journal is flushed per event, the document is saved a second after  *)
(* it changed: a crash can find them apart.  Who may start, steer or stop  *)
(* a run is SessionRuns; the harness here is steerable.                    *)
(***************************************************************************)
EXTENDS Naturals, Sequences, SequencesExt

CONSTANTS
    Tools,       \* tool call ids
    Questions,   \* input requests
    MaxResume,   \* MAX_AUTO_RESUME
    MaxUsers, MaxEvents, MaxCrashes   \* bounds

ASSUME StreamBounds == /\ MaxResume \in Nat /\ MaxUsers \in Nat
                       /\ MaxEvents \in Nat /\ MaxCrashes \in Nat

VARIABLES
    entries,     \* assistant entries of the live document
    users,       \* user messages in the live document
    disk,        \* the saved snapshot: entries and users
    journal,     \* the last event: none, event or done
    attempts,    \* the .resume file
    status,      \* the session row
    run,         \* the run's handle and drive_run's local state
    turn,        \* harness: a prompt is being worked on
    mail,        \* user messages accepted as steers and not yet delivered: in the
                 \* live run's mailbox, or with the task that dispatches a dead run's
    pending,     \* pending_inputs: questions with a resolver
    eng,         \* engine_rx
    asked,       \* questions the harness has used
    boot,        \* up, scan, stamp or stampResume: where recover_stale is
    reviving,    \* the message of a spawned re-dispatch that has not run yet, or 0
    revivals,    \* history: revivals since a turn last completed
    finished,    \* history: user messages whose turn completed
    prompted,    \* history: the user message being worked on
    orphans,     \* history: entries a crash left streaming for good
    otherCut,    \* history: a crash cut a turn short that no, or an older, message began
    emitted, crashes

runVars  == <<run, turn, mail, pending, eng, asked>>
bootVars == <<boot, reviving>>
turnHist == <<revivals, finished, prompted, orphans, otherCut>>
streamVars == <<entries, users, disk, journal, attempts, status, runVars, bootVars, turnHist,
          emitted, crashes>>

NoRun == [live |-> FALSE, folded |-> <<>>, writer |-> 0, idle |-> "no", self |-> FALSE,
          cancelled |-> FALSE, seen |-> {}, base |-> 0]
FreshRun == [NoRun EXCEPT !.live = TRUE, !.base = Len(entries)]

StreamInit ==
    /\ entries = <<>> /\ users = 0
    /\ disk = [entries |-> <<>>, users |-> 0]
    /\ journal = "none"
    /\ attempts = 0 /\ status = "Idle"
    /\ run = NoRun /\ turn = FALSE /\ mail = <<>>
    /\ pending = {} /\ eng = <<>> /\ asked = {}
    /\ boot = "up" /\ reviving = 0
    /\ revivals = 0 /\ finished = {} /\ prompted = 0 /\ orphans = {} /\ otherCut = FALSE
    /\ emitted = 0 /\ crashes = 0

-----------------------------------------------------------------------------
(* The journal.                                                            *)

\* RunJournal::append.  A line torn by a crash is skipped by every reader, so
\* it is as if the crash had come before it.
JournalAppend(kind) == kind

\* stale_sessions: the last event is not a Done.
Stale == journal = "event"

-----------------------------------------------------------------------------
(* The fold and the segment.                                               *)

Part(kind, id) == [kind |-> kind, id |-> id, resolved |-> FALSE]
Resolve(parts, kind, id) ==
    [i \in DOMAIN parts |-> IF parts[i].kind = kind /\ parts[i].id = id
                              THEN [parts[i] EXCEPT !.resolved = TRUE] ELSE parts[i]]
Has(parts, kind, id) == \E i \in DOMAIN parts : parts[i].kind = kind /\ parts[i].id = id

FoldText(parts) ==
    IF parts # <<>> /\ Last(parts).kind = "text" THEN parts ELSE Append(parts, Part("text", "text"))
FoldOnce(parts, kind, id) ==
    IF Has(parts, kind, id) THEN parts ELSE Append(parts, Part(kind, id))

\* Slip: the boundary drops the writer without its final status.
FinishDropped(es, r, st) == es

\* finish_segment: the last parts and a terminal status; nothing for nothing.
FinishSegment(es, r, st) ==
    IF r.writer # 0 THEN [es EXCEPT ![r.writer] = [status |-> st, parts |-> r.folded]]
    ELSE IF r.folded # <<>> THEN Append(es, [status |-> st, parts |-> r.folded])
    ELSE es

Cleared(r) == [r EXCEPT !.folded = <<>>, !.writer = 0, !.self = FALSE]
Parked(r)  == [Cleared(r) EXCEPT !.idle = "gate"]

-----------------------------------------------------------------------------
(* Starting a turn.                                                        *)

\* dispatch of a message with no run on the map: a fresh one.
Launch(u) ==
    /\ run' = FreshRun /\ turn' = TRUE /\ status' = "Working"
    /\ pending' = {} /\ eng' = <<>> /\ prompted' = u

\* dispatch: the live run's mailbox, or a fresh run; Working either way.
Deliver(u) ==
    \/ /\ run.live
       /\ mail' = Append(mail, u) /\ status' = "Working"
       /\ UNCHANGED <<run, turn, pending, eng, prompted>>
    \/ ~run.live /\ Launch(u) /\ UNCHANGED mail

Send ==
    /\ boot = "up" /\ users < MaxUsers
    /\ users' = users + 1
    /\ Deliver(users + 1)
    /\ UNCHANGED <<entries, disk, journal, attempts, asked, bootVars, revivals, finished,
                   orphans, otherCut, emitted, crashes>>

\* A run that was not interrupted leaves its unconfirmed steers to a task that
\* dispatches them; once the first has its run the others are routed into it.
Redispatch ==
    /\ boot = "up" /\ ~run.live /\ mail # <<>>
    /\ Launch(Head(mail)) /\ mail' = Tail(mail)
    /\ UNCHANGED <<entries, users, disk, journal, attempts, asked, bootVars, revivals, finished,
                   orphans, otherCut, emitted, crashes>>

\* What is left of the mailbox when the run ends.
Orphaned == IF run.cancelled THEN <<>> ELSE mail

Listening == run.live /\ eng = <<>>

\* Steered: the harness took the oldest queued steer at a boundary.
Steered ==
    /\ Listening /\ mail # <<>>
    /\ journal' = JournalAppend("event")
    /\ entries' = FinishSegment(entries, run, "complete")
    /\ run' = [Cleared(run) EXCEPT !.idle = "no"]
    /\ turn' = TRUE /\ mail' = Tail(mail) /\ status' = "Working"
    /\ prompted' = Head(mail)
    /\ UNCHANGED <<users, disk, attempts, pending, eng, asked, bootVars, revivals, finished,
                   orphans, otherCut, emitted, crashes>>

-----------------------------------------------------------------------------
(* Stream events.                                                          *)

\* The coalesced commit: begin the entry on its first parts, then sync.
SyncSegment ==
    /\ run.live /\ run.folded # <<>>
    /\ run.writer # 0 => entries[run.writer].parts # run.folded
    /\ IF run.writer = 0
         THEN /\ entries' = Append(entries, [status |-> "streaming", parts |-> run.folded])
              /\ run' = [run EXCEPT !.writer = Len(entries) + 1]
         ELSE /\ entries' = [entries EXCEPT ![run.writer].parts = run.folded]
              /\ UNCHANGED run
    /\ UNCHANGED <<users, disk, journal, attempts, status, turn, mail, pending, eng, asked,
                   bootVars, turnHist, emitted, crashes>>

\* An event that reaches the fold; a parked session it resumes is at work again.
Fold(parts, seen) ==
    /\ run' = [run EXCEPT !.folded = parts, !.idle = "no", !.seen = seen,
                           !.self = @ \/ run.idle # "no"]
    /\ journal' = JournalAppend("event")
    /\ status' = IF run.idle # "no" THEN "Working" ELSE status

Emits == Listening /\ emitted < MaxEvents /\ emitted' = emitted + 1

\* Text: dropped inside the resume gate, a self-continued turn after it.
TextDelta ==
    /\ Emits
    /\ IF run.idle = "gate" THEN UNCHANGED <<run, journal, status>>
       ELSE Fold(FoldText(run.folded), run.seen)
    /\ UNCHANGED <<entries, users, disk, attempts, turn, mail, pending, eng, asked, bootVars,
                   turnHist, crashes>>

\* Slip: an echo of an earlier segment's tool is folded again.
EchoFolded(t) == FALSE

\* A tool the run folded in an earlier segment.
StaleEcho(t) == t \in run.seen /\ ~Has(run.folded, "tool", t)

ToolCall(t) ==
    /\ Emits
    /\ IF run.idle = "gate" \/ StaleEcho(t) THEN UNCHANGED <<run, journal, status>>
       ELSE Fold(FoldOnce(run.folded, "tool", t), run.seen \cup {t})
    /\ UNCHANGED <<entries, users, disk, attempts, turn, mail, pending, eng, asked, bootVars,
                   turnHist, crashes>>

Unresolved(kind) == {i \in DOMAIN run.folded : run.folded[i].kind = kind /\ ~run.folded[i].resolved}

\* A result resolves its chip; one for an earlier segment is dropped.
ToolResult(t) ==
    /\ Listening
    /\ \E i \in Unresolved("tool") : run.folded[i].id = t
    /\ Fold(Resolve(run.folded, "tool", t), run.seen)
    /\ UNCHANGED <<entries, users, disk, attempts, turn, mail, pending, eng, asked, bootVars,
                   turnHist, emitted, crashes>>

\* The one-second resume gate passes.
GateOpens ==
    /\ run.live /\ run.idle = "gate"
    /\ run' = [run EXCEPT !.idle = "ripe"]
    /\ UNCHANGED <<entries, users, disk, journal, attempts, status, turn, mail, pending, eng,
                   asked, bootVars, turnHist, emitted, crashes>>

-----------------------------------------------------------------------------
(* Questions.                                                              *)

\* The input bridge: the resolver is parked before the event is sent.
Ask(q) ==
    /\ run.live /\ q \in Questions \ asked
    /\ asked' = asked \cup {q}
    /\ pending' = pending \cup {q}
    /\ eng' = Append(eng, [type |-> "requested", q |-> q])
    /\ UNCHANGED <<entries, users, disk, journal, attempts, status, run, turn, mail, bootVars,
                   turnHist, emitted, crashes>>

\* respond_input: the resolver is used up, then the event is sent.
Answer(q) ==
    /\ run.live /\ q \in pending
    /\ pending' = pending \ {q}
    /\ eng' = Append(eng, [type |-> "resolved", q |-> q])
    /\ UNCHANGED <<entries, users, disk, journal, attempts, status, run, turn, mail, asked,
                   bootVars, turnHist, emitted, crashes>>

\* Slip: a question nobody can answer any more is shown.
EveryQuestionKnown(q) == TRUE

Known(q) == q \in pending

\* A request is folded if its resolver is there, and declined when the session
\* is parked.
Requested(q) ==
    \/ ~Known(q) /\ UNCHANGED <<run, journal, status, pending>>
    \/ /\ Known(q) /\ run.idle # "no"
       /\ pending' = pending \ {q}
       /\ UNCHANGED <<run, journal, status>>
    \/ /\ Known(q) /\ run.idle = "no"
       /\ run' = [run EXCEPT !.folded = FoldOnce(@, "input", q)]
       /\ journal' = JournalAppend("event")
       /\ status' = "AwaitingInput"
       /\ UNCHANGED pending

\* A harness that emits its own copy of a request.
TwinRequest(q) ==
    /\ Emits /\ q \in Questions \ asked
    /\ Requested(q)
    /\ UNCHANGED <<entries, users, disk, attempts, turn, mail, eng, asked, bootVars, turnHist,
                   crashes>>

\* The bridge's request, or the answer that resolves its chip.
EngineEvent ==
    /\ run.live /\ eng # <<>>
    /\ eng' = Tail(eng)
    /\ LET e == Head(eng) IN
       \/ e.type = "requested" /\ Requested(e.q)
       \/ /\ e.type = "resolved" /\ run.idle # "no"
          /\ UNCHANGED <<run, journal, status, pending>>
       \/ /\ e.type = "resolved" /\ run.idle = "no"
          /\ run' = [run EXCEPT !.folded = Resolve(@, "input", e.q)]
          /\ journal' = JournalAppend("event")
          /\ status' = "Working"
          /\ UNCHANGED pending
    /\ UNCHANGED <<entries, users, disk, attempts, turn, mail, asked, bootVars, turnHist,
                   emitted, crashes>>

-----------------------------------------------------------------------------
(* The end of a turn.                                                      *)

AllResolved(parts) ==
    [i \in DOMAIN parts |-> IF parts[i].kind = "input" THEN [parts[i] EXCEPT !.resolved = TRUE]
                            ELSE parts[i]]

\* Slip: every end of a run gives it its revivals back.
AlwaysCleared(outcome) == 0

\* Only a turn that completed gives the budget back.
AttemptsAfter(outcome) == IF outcome = "completed" THEN 0 ELSE attempts

\* Done: the open questions are drained and resolved, the segment finished, the
\* budget reset by a completed turn; a completed turn parks the session unless
\* it is being stopped, any other ends the run.
Finish(outcome) ==
    LET final == [run EXCEPT !.folded =
                    IF outcome = "errored" THEN Append(AllResolved(@), Part("error", "error"))
                    ELSE AllResolved(@)]
    IN  /\ journal' = JournalAppend("done")
        /\ entries' = FinishSegment(entries, final,
                                    IF outcome = "interrupted" THEN "aborted" ELSE "complete")
        /\ pending' = {}
        /\ attempts' = AttemptsAfter(outcome)
        /\ IF outcome = "completed"
             THEN revivals' = 0 /\ finished' = finished \cup {prompted}
             ELSE UNCHANGED <<revivals, finished>>
        /\ turn' = FALSE
        /\ IF outcome = "completed" /\ ~run.cancelled
             THEN run' = Parked(run) /\ status' = "Idle" /\ UNCHANGED <<mail, eng>>
             ELSE /\ run' = NoRun /\ mail' = Orphaned /\ eng' = <<>>
                  /\ status' = IF outcome = "errored" THEN "Errored" ELSE "Idle"
        /\ UNCHANGED <<users, disk, asked, bootVars, prompted, orphans, otherCut, emitted,
                      crashes>>

Completes == Listening /\ turn /\ Finish("completed")

\* A stream error, or a stream that ends without Done, in the middle of a turn.
Dies == Listening /\ run.idle = "no" /\ Finish("errored")

\* The same while parked, or the idle reaper: the turn was settled long ago.
EndsParked ==
    /\ Listening /\ run.idle # "no"
    /\ run' = NoRun /\ turn' = FALSE /\ pending' = {} /\ status' = "Idle" /\ mail' = Orphaned
    /\ UNCHANGED <<entries, users, disk, journal, attempts, eng, asked, bootVars,
                   turnHist, emitted, crashes>>

\* interrupt: the questions are drained, the run is told to stop.
InterruptRun ==
    /\ run.live /\ ~run.cancelled
    /\ run' = [run EXCEPT !.cancelled = TRUE]
    /\ pending' = {}
    /\ UNCHANGED <<entries, users, disk, journal, attempts, status, turn, mail, eng, asked,
                   bootVars, turnHist, emitted, crashes>>

\* The stream ends, or three seconds pass: a synthetic Done.
Stops == Listening /\ run.cancelled /\ Finish("interrupted")

\* The harness loses the turn's Done.
LosesDone ==
    /\ run.live /\ turn
    /\ turn' = FALSE
    /\ UNCHANGED <<entries, users, disk, journal, attempts, status, run, mail, pending, eng,
                   asked, bootVars, turnHist, emitted, crashes>>

\* Slip: the watchdog passes over a turn that has written nothing yet.
QuiesceWritten ==
    /\ Listening /\ run.idle = "no" /\ ~run.cancelled /\ run.folded # <<>>
    /\ Unresolved("tool") = {} /\ Unresolved("input") = {}
    /\ entries' = FinishSegment(entries, run, "complete")
    /\ run' = Parked(run)
    /\ status' = "Idle"
    /\ UNCHANGED <<users, disk, journal, attempts, turn, mail, pending, eng, asked, bootVars,
                   turnHist, emitted, crashes>>

\* The watchdog: silence, and nothing in flight in the fold.
Quiesce ==
    /\ Listening /\ run.idle = "no" /\ ~run.cancelled
    /\ Unresolved("tool") = {} /\ Unresolved("input") = {}
    /\ entries' = FinishSegment(entries, run, "complete")
    /\ run' = Parked(run)
    /\ status' = "Idle"
    /\ UNCHANGED <<users, disk, journal, attempts, turn, mail, pending, eng, asked, bootVars,
                   turnHist, emitted, crashes>>

-----------------------------------------------------------------------------
(* Saving, dying, recovering.                                              *)

SaveSnapshot ==
    /\ disk # [entries |-> entries, users |-> users]
    /\ disk' = [entries |-> entries, users |-> users]
    /\ UNCHANGED <<entries, users, journal, attempts, status, runVars, bootVars, turnHist,
                   emitted, crashes>>

Streaming(es) == {i \in DOMAIN es : es[i].status = "streaming"}

\* The engine dies and comes back.
Crash ==
    /\ crashes < MaxCrashes
    /\ crashes' = crashes + 1
    /\ entries' = disk.entries /\ users' = disk.users
    /\ status' = "Idle" /\ run' = NoRun /\ turn' = FALSE /\ mail' = <<>>
    /\ pending' = {} /\ eng' = <<>>
    /\ boot' = "scan" /\ reviving' = 0
    /\ orphans' = orphans \cup {i \in Streaming(disk.entries) :
                                  ~Stale \/ i \notin Streaming(entries)}
    /\ otherCut' = (otherCut \/ (run.live /\ (run.self \/ prompted # users)))
    /\ finished' = finished \cap 1..disk.users
    /\ UNCHANGED <<disk, journal, attempts, asked, revivals, prompted, emitted>>

\* Slip: any stale journal counts as a turn to pick up.
FreshWhenStale == BOOLEAN

\* The newest streaming entry is younger than twelve hours, if there is one.
Fresh == IF Streaming(entries) = {} THEN {FALSE} ELSE BOOLEAN

\* recover_stale, first half: decide, and close the journal.
RecoverScan ==
    /\ boot = "scan"
    /\ IF ~Stale THEN boot' = "up" /\ UNCHANGED journal
       ELSE /\ \E fresh \in Fresh :
                 boot' = IF fresh /\ users > 0 /\ attempts < MaxResume
                           THEN "stampResume" ELSE "stamp"
            /\ journal' = JournalAppend("done")
    /\ UNCHANGED <<entries, users, disk, attempts, status, runVars, reviving, turnHist,
                   emitted, crashes>>

\* Second half: stamp what was abandoned, spend an attempt, spawn the dispatch.
RecoverStamp ==
    /\ boot \in {"stamp", "stampResume"}
    /\ entries' = [i \in DOMAIN entries |->
                     IF i \in Streaming(entries) THEN [entries[i] EXCEPT !.status = "aborted"]
                     ELSE entries[i]]
    /\ boot' = "up"
    /\ reviving' = IF boot = "stampResume" THEN users ELSE 0
    /\ attempts' = IF boot = "stampResume" THEN attempts + 1 ELSE attempts
    /\ UNCHANGED <<users, disk, journal, status, runVars, turnHist, emitted, crashes>>

\* The spawned task dispatches the last user message again.
Revive ==
    /\ reviving # 0
    /\ reviving' = 0
    /\ revivals' = revivals + 1
    /\ Deliver(reviving)
    /\ UNCHANGED <<entries, users, disk, journal, attempts, asked, boot, finished, orphans, otherCut,
                   emitted, crashes>>

-----------------------------------------------------------------------------
Loop == \/ Steered \/ SyncSegment \/ (\E t \in Tools : ToolResult(t)) \/ EngineEvent
        \/ Stops \/ Quiesce \/ Redispatch
Recovery == RecoverScan \/ RecoverStamp \/ Revive

StreamNext ==
    \/ Send \/ Loop \/ TextDelta \/ GateOpens \/ (\E t \in Tools : ToolCall(t))
    \/ (\E q \in Questions : Ask(q) \/ Answer(q) \/ TwinRequest(q))
    \/ Completes \/ Dies \/ EndsParked \/ InterruptRun \/ LosesDone
    \/ SaveSnapshot \/ Crash \/ Recovery

StreamSpec == StreamInit /\ [][StreamNext]_streamVars

\* The loop is polled, boot recovery and re-dispatches run, the harness takes a
\* steer at a boundary (AcpTurns), and every tool returns in the end.
Fairness == WF_streamVars(Loop) /\ WF_streamVars(Recovery)
StreamFairSpec == StreamSpec /\ Fairness

-----------------------------------------------------------------------------
\* The shape of the run's state; a parked session shows no work but a message
\* it is about to take.
StreamTypeOK ==
    /\ run.idle \in {"no", "gate", "ripe"}
    /\ run.writer \in 0..Len(entries)
    /\ status \in {"Idle", "Working", "AwaitingInput", "Errored"}
    /\ run.idle # "no" =>
         /\ run.live /\ run.folded = <<>> /\ run.writer = 0
         /\ status = "Idle" \/ (status = "Working" /\ mail # <<>>)

\* SegmentWriter, recover_stale: outside recovery an entry says "streaming" only
\* while the live run is writing it - through steers, parking, the watchdog,
\* interrupts, deaths and crashes.  The entries a crash strands (orphans) are
\* those whose end was in the journal, or only in memory.
StreamingHasWriter ==
    boot = "up" => Streaming(entries) \subseteq {run.writer} \cup orphans

\* drive_run: a tool's chip is in one entry of the run, however often the
\* harness repeats the call after the fold was reset.
ToolShownOnce ==
    run.live => \A t \in Tools, i, j \in (run.base + 1)..Len(entries) :
      Has(entries[i].parts, "tool", t) /\ Has(entries[j].parts, "tool", t) => i = j

\* drive_run: a question shown unresolved in the segment being written still
\* has its resolver, or its answer is on the way.
OpenQuestionAnswerable ==
    run.live /\ ~run.cancelled =>
      \A i \in Unresolved("input") :
        \/ run.folded[i].id \in pending
        \/ \E k \in DOMAIN eng : eng[k] = [type |-> "resolved", q |-> run.folded[i].id]

\* MAX_AUTO_RESUME: a run that keeps killing the engine is revived a bounded
\* number of times, wherever in the recovery the engine dies (the one more: a
\* turn of the user's may complete while a revival waits to be dispatched).
RevivalsBounded ==
    /\ revivals + (IF reviving # 0 THEN 1 ELSE 0) <= attempts + 1
    /\ attempts <= MaxResume

\* recover_stale: a message whose turn completed is not run again by a revival,
\* unless a crash lost the saved end of its entry or cut short a turn that the
\* last message did not begin.
RevivalStep ==
    reviving # 0 /\ reviving' = 0 /\ crashes' = crashes /\ orphans = {} /\ ~otherCut
      => reviving \notin finished

NeverRevivesFinished == [][RevivalStep]_streamVars

\* The turn-quiesce watchdog: a session does not stay Working for ever, though
\* the harness may lose the turn's Done.
WorkingSettles == status = "Working" ~> status # "Working"
=============================================================================
