---------------------------- MODULE CommandPlane ----------------------------
(***************************************************************************)
(* The durable command plane of one chat on the device that hosts it:      *)
(* crates/doc/src/commands.rs (the ledger rules), DocsStore (the SQLite    *)
(* snapshot and processed-command ledger of crates/sync/src/store.rs) and  *)
(* the executor of crates/engine/src/doc_host.rs.                          *)
(*                                                                         *)
(* Composers append immutable entries to the chat's document; the host     *)
(* drains them: pick the first pending entry, evaluate it, mark it in the  *)
(* ledger, execute it, write its outcome back.  The ledger is durable at   *)
(* once; the document is saved on a one second debounce, so a crash rolls  *)
(* the document back but never the ledger.  What had reached the room      *)
(* comes back through sync.                                                *)
(*                                                                         *)
(* A command is a natural number: its position in the document's command   *)
(* list.  It also stands for the client-minted id of the user message that *)
(* the command delivers.                                                   *)
(***************************************************************************)
EXTENDS Naturals

CONSTANTS
    Cmds,        \* the commands that may be issued, in document order
    Remote,      \* those of them that another device's composer issues
    Issued,      \* the kinds of command issued in this instance
    Workers,     \* concurrent drains: Task, and possibly the set_sessions kick
    Task,        \* the drain that belongs to the chat's chat_task
    Replies,     \* ids of assistant entries
    None,        \* "no turn" in based_on, "no message" in the transcript
    Splits,      \* a steer may be injected while the run's question is open
    TTL,         \* COMMAND_DEFAULT_TTL_MS, in clock ticks
    MaxNow,      \* bound on the wall clock
    MaxCrashes   \* bound on engine crashes

ASSUME CmdsAssumption    == Cmds \subseteq Nat /\ Remote \subseteq Cmds
ASSUME IssuedAssumption  == Issued \subseteq {"Run", "Steer", "Interrupt", "RespondInput"}
ASSUME WorkersAssumption == Task \in Workers
ASSUME RepliesAssumption == Replies \cap Cmds = {} /\ None \notin Cmds \cup Replies
ASSUME SplitsAssumption  == Splits \in BOOLEAN
ASSUME BoundsAssumption  == TTL \in Nat /\ MaxNow \in Nat /\ MaxCrashes \in Nat

VARIABLES
    now,        \* the host's wall clock
    entry,      \* [Cmds -> what the composer wrote], immutable once queued
    status,     \* [Cmds -> outcome field in the host's live document]
    talk,       \* the live transcript: its messages, the last one, the question
    saved,      \* the snapshot on disk: a status and a talk
    room,       \* [Cmds -> outcome field in the room other devices read]
    ledger,     \* processed_commands: the set of marked commands, on disk
    wired,      \* the sessions engine is attached (set_sessions)
    row,        \* this chat's workspace row: whose device hosts it
    live,       \* the live run: none, one with a steering mailbox, one without
    config,     \* a previous run's request is remembered in memory
    resolver,   \* the live run is parked on a question (pending_inputs)
    notified,   \* the document changed since chat_task last looked
    armed,      \* chat_task's snapshot deadline is armed
    pc, cur, newer, verdict, skipped,   \* per worker: the drain loop's locals
    minted,     \* assistant ids handed out
    execs,      \* history: how often each command reached execute()
    answers,    \* history: times the question was answered since the last boot
    split,      \* history: a steer boundary left that question behind
    crashes     \* crashes so far

docVars    == <<status, talk>>
diskVars   == <<saved, ledger>>
runVars    == <<live, config, resolver>>
workerVars == <<pc, cur, newer, verdict, skipped>>
histVars   == <<execs, answers, split, crashes>>
vars == <<now, entry, docVars, diskVars, room, wired, row, runVars, notified,
          armed, workerVars, minted, histVars>>

-----------------------------------------------------------------------------
(* The vocabulary.                                                         *)

Kinds    == {"Run", "Steer", "Interrupt", "RespondInput"}
Outcomes == {"Applied", "Rejected", "Expired", "Superseded"}
Statuses == {"absent", "Pending"} \cup Outcomes
Verdicts == {"Skip", "Execute"} \cup Outcomes
Times    == 0..MaxNow
Msgs     == Cmds \cup Replies

\* SessionCommandEntry without its outcome: only interrupts read based_on.
Entries == [kind : Kinds, issuedAt : Times, basedOn : Msgs \cup {None}]
Blank   == [kind |-> "Run", issuedAt |-> 0, basedOn |-> None]

\* What the command plane reads of the transcript.  The question of the run is
\* open on the entry being written, or was left open on an earlier one.
Talks    == [msgs : SUBSET Msgs, last : Msgs \cup {None},
             ask : {"none", "open", "left", "resolved"}]
NoTalk   == [msgs |-> {}, last |-> None, ask |-> "none"]
Settled(s) == s \in Outcomes

\* write_user_message and the assistant segments append by id; an id that is
\* already there is left where it is.
Append1(t, m) == IF m \in t.msgs THEN t
                 ELSE [t EXCEPT !.msgs = @ \cup {m}, !.last = m]

-----------------------------------------------------------------------------
(* Rule 3 of the ledger: pure evaluation of one pending command.           *)

EffectiveExpiry(c) == entry[c].issuedAt + TTL

\* Slip: an entry of the same instant counts as newer.
HasNewerOrEqualSameKind(c) ==
    \E d \in Cmds \ {c} : /\ status[d] = "Pending"
                          /\ entry[d].kind = entry[c].kind
                          /\ entry[d].issuedAt >= entry[c].issuedAt

\* has_newer_same_kind over the commands the drain read.
HasNewerSameKind(c) ==
    \E d \in Cmds \ {c} : /\ status[d] = "Pending"
                          /\ entry[d].kind = entry[c].kind
                          /\ entry[d].issuedAt > entry[c].issuedAt

\* An interrupt aimed at a turn that is in the transcript but not its last.
AimsAtPastTurn(c) ==
    /\ entry[c].kind = "Interrupt"
    /\ entry[c].basedOn \in talk.msgs
    /\ entry[c].basedOn # talk.last

EvaluateCommand(c, hasNewer) ==
    IF c \in ledger THEN "Skip"
    ELSE IF now >= EffectiveExpiry(c) THEN "Expired"
    ELSE IF entry[c].kind \in {"Steer", "Interrupt"} /\ hasNewer THEN "Superseded"
    ELSE IF AimsAtPastTurn(c) THEN "Superseded"
    ELSE "Execute"

-----------------------------------------------------------------------------
Init ==
    /\ now = 0
    /\ entry = [c \in Cmds |-> Blank]
    /\ status = [c \in Cmds |-> "absent"]
    /\ talk = NoTalk
    /\ saved = [status |-> status, talk |-> talk]
    /\ room = [c \in Cmds |-> "absent"]
    /\ ledger = {}
    /\ wired = IF Workers = {Task} THEN TRUE ELSE FALSE
    /\ row = "none"
    /\ live = "none" /\ config = FALSE /\ resolver = FALSE
    /\ notified = FALSE /\ armed = FALSE
    /\ pc = [w \in Workers |-> IF w = Task THEN "start" ELSE "idle"]
    /\ cur = [w \in Workers |-> None]
    /\ newer = [w \in Workers |-> FALSE]
    /\ verdict = [w \in Workers |-> "Skip"]
    /\ skipped = [w \in Workers |-> {}]
    /\ minted = {}
    /\ execs = [c \in Cmds |-> 0]
    /\ answers = 0 /\ split = FALSE /\ crashes = 0

-----------------------------------------------------------------------------
(* Composers and sync.                                                     *)

Fresh(c) == status[c] = "absent" /\ room[c] = "absent" /\ saved.status[c] = "absent"
            /\ entry[c] = Blank /\ c \notin ledger

\* DocHost::queue_command on this device: append at the end of the list.
QueueCommand(c) ==
    /\ c \in Cmds \ Remote /\ Fresh(c)
    /\ \A d \in Cmds : status[d] # "absent" => d < c
    /\ \E k \in Issued :
         entry' = [entry EXCEPT ![c] =
            [kind |-> k, issuedAt |-> now,
             basedOn |-> IF k = "Interrupt" THEN talk.last ELSE None]]
    /\ status' = [status EXCEPT ![c] = "Pending"]
    /\ notified' = TRUE
    /\ UNCHANGED <<now, talk, diskVars, room, wired, row, runVars, armed,
                   workerVars, minted, histVars>>

\* Another device's composer appends to its replica, which reaches the room;
\* its clock is its own and its view of the transcript may be old.
RemoteQueue(c) ==
    /\ c \in Remote /\ Fresh(c)
    /\ \E k \in Issued, t \in Times, b \in talk.msgs \cup {None} :
         /\ k # "Interrupt" => b = None
         /\ entry' = [entry EXCEPT ![c] = [kind |-> k, issuedAt |-> t, basedOn |-> b]]
    /\ room' = [room EXCEPT ![c] = "Pending"]
    /\ UNCHANGED <<now, docVars, diskVars, wired, row, runVars, notified, armed,
                   workerVars, minted, histVars>>

\* Slip: the copy that arrives wins.
Arrives(a, b) == IF b = "absent" THEN a ELSE b

\* Of two copies of an entry's outcome field, the one written later: the host
\* is the field's only writer, and writes it once.
Later(a, b) == IF a = "absent" \/ (a = "Pending" /\ Settled(b)) THEN b ELSE a

\* The host's commits reach the room, in the order they were made.
Push ==
    /\ room' = [c \in Cmds |-> Later(room[c], status[c])]
    /\ room' # room
    /\ UNCHANGED <<now, entry, docVars, diskVars, wired, row, runVars, notified,
                   armed, workerVars, minted, histVars>>

\* The room's entries reach the host: new ones, and those a crash rolled back.
\* The chat2 sink saves the document with each row; the s2 room does not.
Import ==
    /\ status' = [c \in Cmds |-> Later(status[c], room[c])]
    /\ status' # status
    /\ notified' = TRUE
    /\ saved' \in {saved, [status |-> status', talk |-> talk]}
    /\ UNCHANGED <<now, entry, talk, ledger, room, wired, row, runVars, armed,
                   workerVars, minted, histVars>>

\* The registry brings the chat's row: another device's createChat.
RowArrives ==
    /\ row = "none"
    /\ row' \in {"ours", "theirs"}
    /\ UNCHANGED <<now, entry, docVars, diskVars, room, wired, runVars, notified,
                   armed, workerVars, minted, histVars>>

-----------------------------------------------------------------------------
(* chat_task, set_sessions and the drain loop.                             *)

\* WorkspaceHost::is_host: a chat without a row is claimable.
IsHost == row # "theirs"

\* Slip: the executor is attached and nobody drains what already waits.
SetSessionsNoKick ==
    /\ ~wired
    /\ wired' = TRUE
    /\ UNCHANGED <<now, entry, docVars, diskVars, room, row, runVars, notified,
                   armed, workerVars, minted, histVars>>

\* set_sessions: attach the executor, then drain every open document.
SetSessions ==
    /\ ~wired
    /\ wired' = TRUE
    /\ pc' = [w \in Workers |-> IF w # Task THEN "start" ELSE pc[w]]
    /\ UNCHANGED <<now, entry, docVars, diskVars, room, row, runVars, notified,
                   armed, cur, newer, verdict, skipped, minted, histVars>>

\* chat_task's changed() branch: the version is seen before the drain runs.
\* The deadline it arms after the drain cannot fire before the drain returns.
Wake ==
    /\ pc[Task] = "idle" /\ notified
    /\ notified' = FALSE
    /\ armed' = TRUE
    /\ pc' = [pc EXCEPT ![Task] = "start"]
    /\ UNCHANGED <<now, entry, docVars, diskVars, room, wired, row, runVars, cur,
                   newer, verdict, skipped, minted, histVars>>

\* chat_task's deadline branch: save_snapshot.
SaveSnapshot ==
    /\ pc[Task] = "idle" /\ armed
    /\ saved' = [status |-> status, talk |-> talk]
    /\ armed' = FALSE
    /\ UNCHANGED <<now, entry, docVars, ledger, room, wired, row, runVars,
                   notified, workerVars, minted, histVars>>

\* drain_commands' early returns.
Enter(w) ==
    /\ pc[w] = "start"
    /\ pc' = [pc EXCEPT ![w] = IF wired /\ IsHost THEN "loop" ELSE "idle"]
    /\ UNCHANGED <<now, entry, docVars, diskVars, room, wired, row, runVars,
                   notified, armed, cur, newer, verdict, skipped, minted, histVars>>

Drainable(w) == {c \in Cmds : /\ status[c] = "Pending"
                              /\ c \notin skipped[w]
                              /\ c \notin ledger}

\* The end of one iteration: the loop's locals go out of scope.
Forget(w) == /\ cur' = [cur EXCEPT ![w] = None]
             /\ newer' = [newer EXCEPT ![w] = FALSE]
             /\ verdict' = [verdict EXCEPT ![w] = "Skip"]

\* read_commands and the find over them.
Pick(w) ==
    /\ pc[w] = "loop"
    /\ Drainable(w) # {}
    /\ \E c \in Drainable(w) :
         /\ \A d \in Drainable(w) : c <= d
         /\ cur' = [cur EXCEPT ![w] = c]
         /\ newer' = [newer EXCEPT ![w] = HasNewerSameKind(c)]
    /\ pc' = [pc EXCEPT ![w] = "picked"]
    /\ UNCHANGED <<now, entry, docVars, diskVars, room, wired, row, runVars,
                   notified, armed, verdict, skipped, minted, histVars>>

DrainReturns(w) ==
    /\ pc[w] = "loop"
    /\ Drainable(w) = {}
    /\ pc' = [pc EXCEPT ![w] = "idle"]
    /\ skipped' = [skipped EXCEPT ![w] = {}]
    /\ UNCHANGED <<now, entry, docVars, diskVars, room, wired, row, runVars,
                   notified, armed, cur, newer, verdict, minted, histVars>>

\* evaluate_command against the transcript, ledger and clock of this moment.
Evaluate(w) ==
    /\ pc[w] = "picked"
    /\ verdict' = [verdict EXCEPT ![w] = EvaluateCommand(cur[w], newer[w])]
    /\ pc' = [pc EXCEPT ![w] = "evaluated"]
    /\ UNCHANGED <<now, entry, docVars, diskVars, room, wired, row, runVars,
                   notified, armed, cur, newer, skipped, minted, histVars>>

\* Slip: the mark is not on disk when the command runs.
MarkLost(c) == ledger

\* DocsStore::mark_processed: INSERT OR IGNORE, committed before it returns.
MarkProcessed(c) == ledger \cup {c}

\* drain_commands marks before executing; whether the row was new is not
\* looked at.
Mark(w) ==
    /\ pc[w] = "evaluated"
    /\ ledger' = MarkProcessed(cur[w])
    /\ pc' = [pc EXCEPT ![w] = CASE verdict[w] = "Skip"    -> "loop"
                                 [] verdict[w] = "Execute" -> "marked"
                                 [] OTHER                  -> "ran"]
    /\ IF verdict[w] = "Skip"
         THEN Forget(w) /\ skipped' = [skipped EXCEPT ![w] = @ \cup {cur[w]}]
         ELSE UNCHANGED <<cur, newer, verdict, skipped>>
    /\ UNCHANGED <<now, entry, docVars, saved, room, wired, row, runVars,
                   notified, armed, minted, histVars>>

-----------------------------------------------------------------------------
(* execute(): one command against the sessions engine.                     *)

\* SessionDoc::resolve_input, and the fold of an InputResolved event.
ResolveInput(t) == [t EXCEPT !.ask = "resolved"]

\* Slip: the question is stamped with the message's status.
CloseQuestionAborted(t) == IF live # "none" /\ t.ask = "open"
                             THEN [t EXCEPT !.ask = "aborted"] ELSE t

\* A run that ends, for any reason, resolves the question on its last entry.
CloseQuestion(t) == IF live # "none" /\ t.ask = "open"
                      THEN ResolveInput(t) ELSE t

\* sessions.dispatch on transcript t.  A live run with a mailbox takes the
\* prompt as its next turn; otherwise any live run is interrupted first and a
\* new one starts.  Starting can fail once the old run is gone.
Dispatch(c, t, out) ==
    \/ /\ out = "Applied" /\ live = "steerable"
       /\ talk' = Append1(t, c)
       /\ UNCHANGED runVars
    \/ /\ out = "Applied"
       /\ talk' = Append1(CloseQuestion(t), c)
       /\ live' \in {"steerable", "fixed"} /\ resolver' = FALSE /\ config' = TRUE
    \/ /\ out = "Rejected"
       /\ talk' = CloseQuestion(t)
       /\ live' = "none" /\ resolver' = FALSE
       /\ UNCHANGED config

\* Run: claim the row if there is none, then dispatch.
ExecuteRun(c, out) ==
    /\ row' = IF row = "none" THEN "ours" ELSE row
    /\ Dispatch(c, talk, out)
    /\ UNCHANGED answers

\* last_request, else the request rebuilt from the chat's row.
HaveConfig == config \/ row # "none"

\* Steer: into the live run's mailbox, else as a new turn, else rejected.
ExecuteSteer(c, out) ==
    /\ \/ HaveConfig /\ Dispatch(c, talk, out)
       \/ /\ out = "Applied" /\ live = "steerable"
          /\ talk' = Append1(talk, c)
          /\ UNCHANGED runVars
       \/ /\ out = "Rejected" /\ ~HaveConfig /\ live # "steerable"
          /\ UNCHANGED <<talk, runVars>>
    /\ UNCHANGED <<row, answers>>

\* Interrupt: waits until the live run has settled.
ExecuteInterrupt(c, out) ==
    /\ out = "Applied"
    /\ live' = "none" /\ resolver' = FALSE
    /\ talk' = CloseQuestion(talk)
    /\ UNCHANGED <<row, config, answers>>

\* Slip: a question on a still streaming entry counts as an orphan.
AnyOpenQuestion == talk.ask \in {"open", "left"}

\* The orphan fallback wants the question open on an entry no run is writing.
OpenOrphanQuestion == talk.ask = "left" \/ (talk.ask = "open" /\ live = "none")

\* RespondInput: the parked resolver; else the answer becomes the next turn of
\* a question whose run died, stamped resolved before the dispatch.
ExecuteRespondInput(c, out) ==
    /\ \/ /\ resolver
          /\ out = "Applied"
          /\ resolver' = FALSE
          /\ UNCHANGED <<talk, live, config>>
       \/ /\ ~resolver /\ OpenOrphanQuestion /\ HaveConfig
          /\ Dispatch(c, ResolveInput(talk), out)
       \/ /\ ~resolver /\ ~(OpenOrphanQuestion /\ HaveConfig)
          /\ out = "Rejected"
          /\ UNCHANGED <<talk, runVars>>
    /\ answers' = IF out = "Applied" THEN answers + 1 ELSE answers
    /\ UNCHANGED row

Execute(w) ==
    /\ pc[w] = "marked"
    /\ \E out \in {"Applied", "Rejected"} :
         /\ verdict' = [verdict EXCEPT ![w] = out]
         /\ CASE entry[cur[w]].kind = "Run"       -> ExecuteRun(cur[w], out)
              [] entry[cur[w]].kind = "Steer"     -> ExecuteSteer(cur[w], out)
              [] entry[cur[w]].kind = "Interrupt" -> ExecuteInterrupt(cur[w], out)
              [] OTHER                            -> ExecuteRespondInput(cur[w], out)
    /\ execs' = [execs EXCEPT ![cur[w]] = @ + 1]
    /\ notified' = (notified \/ talk' # talk)
    /\ pc' = [pc EXCEPT ![w] = "ran"]
    /\ UNCHANGED <<now, entry, status, diskVars, room, wired, armed, cur, newer,
                   skipped, minted, split, crashes>>

\* resolve_command: the host writes the outcome into the document.
Resolve(w) ==
    /\ pc[w] = "ran"
    /\ status' = [status EXCEPT ![cur[w]] = verdict[w]]
    /\ notified' = TRUE
    /\ pc' = [pc EXCEPT ![w] = "loop"]
    /\ Forget(w)
    /\ UNCHANGED <<now, entry, talk, diskVars, room, wired, row, runVars, armed,
                   skipped, minted, histVars>>

-----------------------------------------------------------------------------
(* The live run, as far as the command plane sees it.                      *)

\* The run streams a new assistant entry.
RunReplies ==
    /\ live # "none"
    /\ \E r \in Replies \ minted : talk' = Append1(talk, r) /\ minted' = minted \cup {r}
    /\ notified' = TRUE
    /\ UNCHANGED <<now, entry, status, diskVars, room, wired, row, runVars, armed,
                   workerVars, histVars>>

\* The harness asks: the bridge parks the resolver, the question is folded.
RunAsks ==
    /\ live # "none" /\ talk.ask = "none" /\ talk.msgs # {}
    /\ resolver' = TRUE
    /\ talk' = [talk EXCEPT !.ask = "open"]
    /\ notified' = TRUE
    /\ UNCHANGED <<now, entry, status, diskVars, room, wired, row, live, config,
                   armed, workerVars, minted, histVars>>

\* A Steered boundary in the middle of the turn: the entry is finished with the
\* question as it stands, and no later fold of this run reaches it.
RunSteered ==
    /\ Splits /\ live = "steerable" /\ talk.ask = "open"
    /\ talk' = [talk EXCEPT !.ask = "left"]
    /\ split' = TRUE
    /\ notified' = TRUE
    /\ UNCHANGED <<now, entry, status, diskVars, room, wired, row, runVars, armed,
                   workerVars, minted, execs, answers, crashes>>

\* InputResolved is folded some time after the resolver was consumed.
RunFoldsAnswer ==
    /\ live # "none" /\ talk.ask = "open" /\ ~resolver
    /\ talk' = ResolveInput(talk)
    /\ notified' = TRUE
    /\ UNCHANGED <<now, entry, status, diskVars, room, wired, row, runVars, armed,
                   workerVars, minted, histVars>>

\* Done: resolvers drained, input parts resolved.
RunEnds ==
    /\ live # "none"
    /\ live' = "none" /\ resolver' = FALSE
    /\ talk' = CloseQuestion(talk)
    /\ notified' = TRUE
    /\ UNCHANGED <<now, entry, status, diskVars, room, wired, row, config, armed,
                   workerVars, minted, histVars>>

-----------------------------------------------------------------------------
Tick ==
    /\ now < MaxNow
    /\ now' = now + 1
    /\ UNCHANGED <<entry, docVars, diskVars, room, wired, row, runVars, notified,
                   armed, workerVars, minted, histVars>>

\* Everything in memory goes; the reopened document is the last snapshot.
CrashAndReopen ==
    /\ crashes < MaxCrashes
    /\ crashes' = crashes + 1
    /\ status' = saved.status /\ talk' = saved.talk
    /\ wired' = IF Workers = {Task} THEN TRUE ELSE FALSE
    /\ live' = "none" /\ config' = FALSE /\ resolver' = FALSE
    /\ notified' = FALSE /\ armed' = FALSE
    /\ pc' = [w \in Workers |-> IF w = Task THEN "start" ELSE "idle"]
    /\ cur' = [w \in Workers |-> None]
    /\ newer' = [w \in Workers |-> FALSE]
    /\ verdict' = [w \in Workers |-> "Skip"]
    /\ skipped' = [w \in Workers |-> {}]
    /\ answers' = 0 /\ split' = FALSE
    /\ UNCHANGED <<now, entry, diskVars, room, row, minted, execs>>

Drain(w) == Enter(w) \/ Pick(w) \/ DrainReturns(w) \/ Evaluate(w) \/ Mark(w)
            \/ Execute(w) \/ Resolve(w)

Next ==
    \/ \E c \in Cmds : QueueCommand(c) \/ RemoteQueue(c)
    \/ Push \/ Import \/ RowArrives \/ SetSessions \/ Wake \/ SaveSnapshot
    \/ \E w \in Workers : Drain(w)
    \/ RunReplies \/ RunAsks \/ RunSteered \/ RunFoldsAnswer \/ RunEnds
    \/ Tick \/ CrashAndReopen

Spec == Init /\ [][Next]_vars

\* The tokio runtime keeps polling chat_task and the drains it spawned.
Fairness == WF_vars(Wake) /\ WF_vars(SetSessions)
            /\ \A w \in Workers : WF_vars(Drain(w))
FairSpec == Spec /\ Fairness

-----------------------------------------------------------------------------
\* Every variable has the shape the code gives it.
TypeOK ==
    /\ now \in Times
    /\ entry \in [Cmds -> Entries]
    /\ status \in [Cmds -> Statuses]
    /\ talk \in Talks
    /\ saved \in [status : [Cmds -> Statuses], talk : Talks]
    /\ room \in [Cmds -> Statuses]
    /\ ledger \subseteq Cmds
    /\ wired \in BOOLEAN
    /\ row \in {"none", "ours", "theirs"}
    /\ live \in {"none", "steerable", "fixed"}
    /\ config \in BOOLEAN /\ resolver \in BOOLEAN
    /\ notified \in BOOLEAN /\ armed \in BOOLEAN
    /\ pc \in [Workers -> {"idle", "start", "loop", "picked", "evaluated", "marked", "ran"}]
    /\ cur \in [Workers -> Cmds \cup {None}]
    /\ newer \in [Workers -> BOOLEAN]
    /\ verdict \in [Workers -> Verdicts]
    /\ skipped \in [Workers -> SUBSET Cmds]
    /\ minted \subseteq Replies
    /\ execs \in [Cmds -> Nat] /\ answers \in Nat /\ split \in BOOLEAN /\ crashes \in 0..MaxCrashes

\* The drain loop's locals are in use.
Active(w) == pc[w] \in {"picked", "evaluated", "marked", "ran"}

\* What the locals hold at each point of the loop.
LocalsOK ==
    \A w \in Workers :
        /\ Active(w) => cur[w] \in Cmds
        /\ pc[w] = "evaluated" => verdict[w] \in {"Skip", "Execute", "Expired", "Superseded"}
        /\ pc[w] = "marked" => verdict[w] = "Execute"
        /\ pc[w] = "ran" => verdict[w] \in Outcomes

\* With one drain: an executed or settled command is marked; the command in
\* hand is unmarked until Mark, then not yet executed until Execute, and has
\* no outcome anywhere a rollback or an import could bring it back from.
DrainInv ==
    /\ \A c \in Cmds : /\ execs[c] \in {0, 1}
                       /\ execs[c] = 1 => c \in ledger
                       /\ Settled(status[c]) => c \in ledger
                       /\ Settled(saved.status[c]) => c \in ledger
                       /\ Settled(room[c]) => c \in ledger
    /\ \A w \in Workers :
        /\ Active(w) => status[cur[w]] = "Pending" /\ ~Settled(room[cur[w]])
        /\ pc[w] \in {"picked", "evaluated"} => cur[w] \notin ledger
        /\ pc[w] = "marked" => cur[w] \in ledger /\ execs[cur[w]] = 0
        /\ pc[w] = "ran" => cur[w] \in ledger

\* An outcome says whether the command ran.
Told(s, c) == /\ s \in {"Applied", "Rejected"} => execs[c] = 1
              /\ s \in {"Expired", "Superseded"} => execs[c] = 0

\* Every copy of an outcome tells the truth, and the saved one is the live one.
ToldInv ==
    /\ \A c \in Cmds : /\ Told(status[c], c) /\ Told(room[c], c)
                       /\ Settled(saved.status[c]) => status[c] = saved.status[c]
    /\ \A w \in Workers : pc[w] = "ran" => Told(verdict[w], cur[w])

\* With the entries en, c is not the last word of its kind in the document f.
Overtaken(en, f, c) ==
    \/ \E d \in Cmds : /\ f[d] # "absent"
                       /\ en[d].kind = en[c].kind
                       /\ en[d].issuedAt > en[c].issuedAt
    \/ en[c].kind = "Interrupt" /\ en[c].basedOn # None

\* What is superseded is overtaken in each copy that says so, and what a drain
\* saw newer, or decided, is still so when it writes its verdict.
SupersededInv ==
    /\ \A c \in Cmds :
         /\ status[c] = "Superseded" => Overtaken(entry, status, c)
         /\ saved.status[c] = "Superseded" => Overtaken(entry, saved.status, c)
         /\ room[c] = "Superseded" => Overtaken(entry, room, c)
    /\ \A w \in Workers : Active(w) =>
         /\ status[cur[w]] # "absent"
         /\ newer[w] => Overtaken(entry, status, cur[w])
         /\ verdict[w] = "Superseded" /\ pc[w] # "picked" => Overtaken(entry, status, cur[w])

Ledger == INSTANCE CommandLedger WITH outcome <- room, taken <- ledger, runs <- execs

\* drain_commands with the processed_commands ledger does what CommandLedger
\* promises to the composers of all devices: taken once, run at most once and
\* only after that, one final outcome, and one that says whether it ran -
\* through crashes between any two steps, rollbacks and re-imports.
ImplementsLedger == Ledger!Spec

\* DocsStore and drain_commands: no command is executed twice, whatever
\* crashes, rollbacks of the document and re-imports happen in between.
AtMostOnce == \A c \in Cmds : execs[c] <= 1

\* resolve_command: the outcome of a command is written once.  Only losing
\* the unsaved document in a crash takes an outcome back.
OutcomeIsFinal ==
    [][\A c \in Cmds : Settled(status[c]) /\ crashes' = crashes
                         => status'[c] = status[c]]_vars

\* evaluate_command: an entry dropped as superseded is never the user's last
\* word of its kind - a strictly newer one is in the document - except an
\* interrupt whose turn is over.
NewestIsNeverSuperseded ==
    \A c \in Cmds : status[c] = "Superseded" => Overtaken(entry, status, c)

\* execute, RespondInput: between two boots one question is answered at most
\* once, by the live resolver or by the orphan fallback's new turn - unless a
\* steer boundary left the question behind on a finished entry.
QuestionAnsweredOnce == split \/ answers <= 1

\* chat_task: an unmarked pending entry of a chat this device hosts is
\* eventually marked, unless a crash loses it or the chat turns out to be
\* another device's.
Undrained(c) == status[c] = "Pending" /\ c \notin ledger
EveryCommandIsDrained ==
    \A c \in Cmds : Undrained(c) ~> (~Undrained(c) \/ ~IsHost)
=============================================================================
