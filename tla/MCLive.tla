------------------------------ MODULE MCLive ------------------------------
(***************************************************************************)
(* What must happen in the end: AcpTurns settles its turns ("acp"),         *)
(* TurnStream leaves Working ("stream"), and RegistrySync has every write   *)
(* acknowledged ("registry").  A behaviour is one of the three: the others' *)
(* variables are 0.                                                         *)
(***************************************************************************)
EXTENDS Naturals, Sequences

VARIABLES
    part, disk, crashes, drops,
    phase, loop, call, backlog, queue, received, boundary, gone, agent, busy, questions,
    owed, reply, answer, incoming, cancel, eof, delivered, flooded, late, blind, misread,
    fails, asks, owns,
    entries, users, journal, attempts, status, run, turn, mail, pending, eng, asked, boot,
    reviving, revivals, finished, prompted, orphans, otherCut, emitted,
    doc, clock, conn, up, down, ready, room, left, wiped, acked, merged, rejoined

A == INSTANCE AcpTurns WITH SteerExt <- TRUE, MaxSteers <- 1,
        MaxIncoming <- 2, MaxDrops <- 0, MaxFails <- 0, MaxAsks <- 0, MaxOwn <- 1
T == INSTANCE TurnStream WITH Tools <- {"t"}, Questions <- {}, MaxResume <- 1,
        MaxUsers <- 2, MaxEvents <- 1, MaxCrashes <- 1
R == INSTANCE RegistrySync WITH Fields <- {"cwd"}, Claimed <- {"cwd"}, NDevices <- 1,
        MaxTick <- 1, MaxGcFloor <- 0,
        Budgets <- {[writes |-> 2, drops |-> 1, crashes |-> 1, resets |-> 1]}

NoAcp ==
    /\ phase = 0 /\ loop = 0 /\ call = 0 /\ backlog = 0 /\ queue = 0 /\ received = 0
    /\ boundary = 0 /\ gone = 0 /\ agent = 0 /\ busy = 0 /\ questions = 0 /\ owed = 0
    /\ reply = 0 /\ answer = 0 /\ incoming = 0 /\ cancel = 0 /\ eof = 0 /\ delivered = 0
    /\ flooded = 0 /\ late = 0 /\ blind = 0 /\ misread = 0 /\ fails = 0 /\ asks = 0
    /\ owns = 0
NoStream ==
    /\ entries = 0 /\ users = 0 /\ journal = 0 /\ attempts = 0 /\ status = 0 /\ run = 0
    /\ turn = 0 /\ mail = 0 /\ pending = 0 /\ eng = 0 /\ asked = 0 /\ boot = 0
    /\ reviving = 0 /\ revivals = 0 /\ finished = 0 /\ prompted = 0 /\ orphans = 0 /\ otherCut = 0
    /\ emitted = 0
NoRegistry ==
    /\ doc = 0 /\ clock = 0 /\ conn = 0 /\ up = 0 /\ down = 0 /\ ready = 0
    /\ room = 0 /\ left = 0 /\ wiped = 0 /\ acked = 0 /\ merged = 0 /\ rejoined = 0

acpVars == <<
    phase, loop, call, backlog, queue, received, boundary, gone, agent, busy, questions,
    owed, reply, answer, incoming, cancel, eof, delivered, flooded, late, blind, misread,
    fails, asks, owns>>
streamVars == <<
    entries, users, journal, attempts, status, run, turn, mail, pending, eng, asked, boot,
    reviving, revivals, finished, prompted, orphans, otherCut, emitted>>
registryVars == <<
    doc, clock, conn, up, down, ready, room, left, wiped, acked, merged, rejoined>>
vars == <<part, disk, crashes, drops, acpVars, streamVars, registryVars>>

Init ==
    \/ /\ part = "acp" /\ A!AcpInit /\ A!Claude /\ disk = 0 /\ crashes = 0
       /\ NoStream /\ NoRegistry
    \/ part = "stream" /\ T!StreamInit /\ drops = 0 /\ NoAcp /\ NoRegistry
    \/ /\ part = "registry" /\ R!Init /\ crashes = 0 /\ drops = 0
       /\ NoAcp /\ NoStream

Acp(step) ==
    /\ part = "acp" /\ step
    /\ UNCHANGED <<part, disk, crashes, streamVars, registryVars>>
Stream(step) ==
    part = "stream" /\ step /\ UNCHANGED <<part, drops, acpVars, registryVars>>
Registry(step) ==
    /\ part = "registry" /\ step
    /\ UNCHANGED <<part, crashes, drops, acpVars, streamVars>>

Next ==
    /\ UNCHANGED part
    /\ \/ /\ part = "acp" /\ A!AcpNext
          /\ UNCHANGED <<disk, crashes, streamVars, registryVars>>
       \/ part = "stream" /\ T!StreamNext /\ UNCHANGED <<drops, acpVars, registryVars>>
       \/ /\ part = "registry" /\ R!Next
          /\ UNCHANGED <<crashes, drops, acpVars, streamVars>>

\* The components' own fairness.
Fairness ==
    /\ WF_vars(Acp(A!SetupOk)) /\ WF_vars(Acp(A!TurnResponds)) /\ WF_vars(Acp(A!ReadIncoming))
    /\ WF_vars(Acp(A!ReadEof)) /\ WF_vars(Acp(A!SteeringAnswered))
    /\ SF_vars(Acp(A!FlushExpires \/ A!QuietSettle \/ A!StarveExpires))
    /\ SF_vars(Acp(A!AgentEnds))
    /\ SF_vars(Acp(A!AgentAnswersSteer)) /\ WF_vars(Acp(A!UserAnswers))
    /\ SF_vars(Acp(A!ToolFinishes)) /\ WF_vars(Acp(A!Escalates))
    /\ WF_vars(Stream(T!Loop)) /\ WF_vars(Stream(T!Recovery))
    /\ WF_vars(Registry(R!SyncStep(1)))

FairSpec == Init /\ [][Next]_vars /\ Fairness

\* run_session: an interrupted run ends, whatever the agent does with the cancel.
InterruptEnds == part = "acp" /\ loop.interrupted ~> part = "acp" /\ phase = "ended"

\* run_session: a turn is settled even when the agent never answers its prompt.
TurnSettles ==
    part = "acp" /\ loop.turn ~> part = "acp" /\ (~loop.turn \/ blind \/ misread)

\* drive_run's watchdog: a session does not stay Working for ever, though the
\* harness may lose the turn's Done.
WorkingSettles ==
    part = "stream" /\ status = "Working" ~> part = "stream" /\ status # "Working"

\* RegistryClient: every local write is acknowledged in the end, whatever
\* connections are lost.
EveryBatchIsAcked ==
    part = "registry" /\ doc[1].pending # <<>> ~> part = "registry" /\ doc[1].pending = <<>>
============================================================================
