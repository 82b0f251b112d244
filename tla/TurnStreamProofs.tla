-------------------------- MODULE TurnStreamProofs --------------------------
(***************************************************************************)
(* Theorems about TurnStream, for every set of tools and questions, every   *)
(* MAX_AUTO_RESUME and every bound.                                        *)
(***************************************************************************)
EXTENDS TurnStream, TLAPS

-----------------------------------------------------------------------------
(* The shape of the state.                                                 *)

Parts == [kind : {"text", "tool", "input", "error"},
          id : {"text", "error"} \cup Tools \cup Questions, resolved : BOOLEAN]
Entries == [status : {"streaming", "complete", "aborted"}, parts : Seq(Parts)]
Runs == [live : BOOLEAN, folded : Seq(Parts), writer : Nat, idle : {"no", "gate", "ripe"},
         self : BOOLEAN, cancelled : BOOLEAN, seen : SUBSET Tools, base : Nat]
Bridged == [type : {"requested", "resolved"}, q : Questions]

\* A run that is gone left no state, and a parked one has no segment.
RunShape ==
    /\ entries \in Seq(Entries)
    /\ run \in Runs /\ run.writer \in 0..Len(entries)
    /\ ~run.live => run = NoRun
    /\ run.idle # "no" => run.folded = <<>> /\ run.writer = 0

StreamShape ==
    /\ RunShape
    /\ disk \in [entries : Seq(Entries), users : Nat] /\ users \in Nat
    /\ journal \in {"none", "event", "done"}
    /\ mail \in Seq(Nat) /\ eng \in Seq(Bridged) /\ pending \subseteq Questions
    /\ boot \in {"up", "scan", "stamp", "stampResume"} /\ reviving \in Nat
    /\ boot # "up" => ~run.live /\ reviving = 0

LEMMA NoRunShape == NoRun \in Runs /\ ~NoRun.live /\ NoRun.writer = 0 /\ NoRun.folded = <<>>
                    /\ NoRun.idle = "no"
BY DEF NoRun, Runs

LEMMA FreshShape == ASSUME entries \in Seq(Entries)
                    PROVE  /\ FreshRun \in Runs /\ FreshRun.live /\ FreshRun.writer = 0
                           /\ FreshRun.folded = <<>> /\ FreshRun.idle = "no"
                           /\ FreshRun.base = Len(entries) /\ ~FreshRun.self
<1>1. Len(entries) \in Nat
  OBVIOUS
<1>2. ASSUME NEW r \in Runs, NEW n \in Nat
      PROVE  LET f == [r EXCEPT !.live = TRUE, !.base = n] IN
             /\ f \in Runs /\ f.live /\ f.base = n /\ f.writer = r.writer
             /\ f.folded = r.folded /\ f.idle = r.idle /\ f.self = r.self
  BY DEF Runs
<1>3. ~NoRun.self
  BY DEF NoRun
<1> QED BY <1>1, <1>2, <1>3, NoRunShape DEF FreshRun

\* A boundary clears the segment and leaves the rest of the run alone.
LEMMA ClearedShape ==
    ASSUME NEW r \in Runs, NEW i \in {"no", "gate", "ripe"}
    PROVE  LET c == [Cleared(r) EXCEPT !.idle = i] IN
           /\ c \in Runs /\ c.folded = <<>> /\ c.writer = 0 /\ ~c.self /\ c.idle = i
           /\ c.live = r.live /\ c.seen = r.seen /\ c.base = r.base /\ c.cancelled = r.cancelled
<1>1. /\ Cleared(r) \in Runs /\ Cleared(r).folded = <<>> /\ Cleared(r).writer = 0 /\ ~Cleared(r).self
      /\ Cleared(r).live = r.live /\ Cleared(r).seen = r.seen /\ Cleared(r).base = r.base
      /\ Cleared(r).cancelled = r.cancelled
  <2>1. <<>> \in Seq(Parts) /\ 0 \in Nat
    OBVIOUS
  <2> QED BY <2>1 DEF Cleared, Runs
<1> HIDE DEF Cleared
<1> QED BY <1>1 DEF Runs

LEMMA PartShape == /\ Part("text", "text") \in Parts /\ Part("error", "error") \in Parts
                   /\ \A t \in Tools : Part("tool", t) \in Parts
                   /\ \A q \in Questions : Part("input", q) \in Parts
BY DEF Part, Parts

LEMMA ResolveShape ==
    ASSUME NEW ps \in Seq(Parts), NEW kind, NEW id
    PROVE  /\ Resolve(ps, kind, id) \in Seq(Parts) /\ Len(Resolve(ps, kind, id)) = Len(ps)
           /\ \A i \in 1..Len(ps) :
                /\ Resolve(ps, kind, id)[i].kind = ps[i].kind
                /\ Resolve(ps, kind, id)[i].id = ps[i].id
                /\ Resolve(ps, kind, id)[i].resolved
                     = (ps[i].resolved \/ (ps[i].kind = kind /\ ps[i].id = id))
<1> DEFINE r == Resolve(ps, kind, id)
<1>1. /\ DOMAIN ps = 1..Len(ps) /\ Len(ps) \in Nat /\ \A i \in 1..Len(ps) : ps[i] \in Parts
  OBVIOUS
<1>2. /\ r = [i \in 1..Len(ps) |-> r[i]]
      /\ \A i \in 1..Len(ps) :
           r[i] = IF ps[i].kind = kind /\ ps[i].id = id
                    THEN [ps[i] EXCEPT !.resolved = TRUE] ELSE ps[i]
  BY <1>1 DEF Resolve
<1>3. ASSUME NEW i \in 1..Len(ps)
      PROVE /\ r[i] \in Parts /\ r[i].kind = ps[i].kind /\ r[i].id = ps[i].id
            /\ r[i].resolved = (ps[i].resolved \/ (ps[i].kind = kind /\ ps[i].id = id))
  BY <1>1, <1>2 DEF Parts
<1> HIDE DEF r
<1>4. r \in Seq(Parts) /\ Len(r) = Len(ps)
  BY <1>1, <1>2, <1>3
<1> QED BY <1>3, <1>4 DEF r

LEMMA AllResolvedShape ==
    ASSUME NEW ps \in Seq(Parts)
    PROVE  /\ AllResolved(ps) \in Seq(Parts) /\ Len(AllResolved(ps)) = Len(ps)
           /\ \A i \in 1..Len(ps) : AllResolved(ps)[i].kind = ps[i].kind
                                    /\ AllResolved(ps)[i].id = ps[i].id
<1> DEFINE r == AllResolved(ps)
<1>1. /\ DOMAIN ps = 1..Len(ps) /\ Len(ps) \in Nat /\ \A i \in 1..Len(ps) : ps[i] \in Parts
  OBVIOUS
<1>2. /\ r = [i \in 1..Len(ps) |-> r[i]]
      /\ \A i \in 1..Len(ps) :
           r[i] = IF ps[i].kind = "input" THEN [ps[i] EXCEPT !.resolved = TRUE] ELSE ps[i]
  BY <1>1 DEF AllResolved
<1>3. \A i \in 1..Len(ps) : r[i] \in Parts /\ r[i].kind = ps[i].kind /\ r[i].id = ps[i].id
  BY <1>1, <1>2 DEF Parts
<1> HIDE DEF r
<1>4. r \in Seq(Parts) /\ Len(r) = Len(ps)
  BY <1>1, <1>2, <1>3
<1> QED BY <1>3, <1>4 DEF r

LEMMA FoldShape ==
    ASSUME NEW ps \in Seq(Parts)
    PROVE  /\ FoldText(ps) \in Seq(Parts)
           /\ \A t \in Tools : FoldOnce(ps, "tool", t) \in Seq(Parts)
           /\ \A q \in Questions : FoldOnce(ps, "input", q) \in Seq(Parts)
BY PartShape DEF FoldText, FoldOnce

\* What finish_segment leaves: the segment's own entry, with its last parts and
\* no longer streaming.
LEMMA FinishShape ==
    ASSUME NEW es \in Seq(Entries), NEW r, r.folded \in Seq(Parts), r.writer \in 0..Len(es),
           NEW st \in {"complete", "aborted"}, NEW fs, fs = FinishSegment(es, r, st)
    PROVE  /\ fs \in Seq(Entries) /\ Len(fs) >= Len(es)
           /\ Streaming(fs) \subseteq Streaming(es) \ {r.writer}
           /\ \A i \in 1..Len(fs) :
                \/ i \in 1..Len(es) /\ i # r.writer /\ fs[i] = es[i]
                \/ /\ fs[i].status = st /\ fs[i].parts = r.folded
                   /\ i = r.writer \/ (r.writer = 0 /\ i = Len(es) + 1)
<1> DEFINE e == [status |-> st, parts |-> r.folded]
<1>0. /\ e \in Entries /\ e.status # "streaming" /\ Len(es) \in Nat
      /\ e.status = st /\ e.parts = r.folded
  BY DEF Entries
<1> HIDE DEF e
<1>1. CASE r.writer # 0
  <2>1. FinishSegment(es, r, st) = [es EXCEPT ![r.writer] = e]
    BY <1>1 DEF FinishSegment, e
  <2> QED BY <2>1, <1>0, <1>1 DEF Streaming
<1>2. CASE r.writer = 0 /\ r.folded # <<>>
  <2>1. FinishSegment(es, r, st) = Append(es, e)
    BY <1>2 DEF FinishSegment, e
  <2>2. /\ Append(es, e) \in Seq(Entries) /\ Len(Append(es, e)) = Len(es) + 1
        /\ \A i \in 1..Len(es) : Append(es, e)[i] = es[i]
        /\ Append(es, e)[Len(es) + 1] = e
    BY <1>0
  <2> QED BY <2>1, <2>2, <1>0, <1>2 DEF Streaming
<1>3. CASE r.writer = 0 /\ r.folded = <<>>
  <2>1. FinishSegment(es, r, st) = es
    BY <1>3 DEF FinishSegment
  <2> QED BY <2>1, <1>0, <1>3 DEF Streaming
<1> QED BY <1>1, <1>2, <1>3

\* recover_stale's stamp: nothing is left streaming.
Stamped(es) == [i \in DOMAIN es |-> IF i \in Streaming(es) THEN [es[i] EXCEPT !.status = "aborted"]
                                    ELSE es[i]]

LEMMA StampShape ==
    ASSUME NEW es \in Seq(Entries)
    PROVE  /\ Stamped(es) \in Seq(Entries) /\ Len(Stamped(es)) = Len(es)
           /\ Streaming(Stamped(es)) = {}
           /\ \A i \in 1..Len(es) : Stamped(es)[i].parts = es[i].parts
<1> DEFINE s == Stamped(es)
<1>1. DOMAIN es = 1..Len(es) /\ Len(es) \in Nat /\ \A i \in 1..Len(es) : es[i] \in Entries
  OBVIOUS
<1>2. s = [i \in 1..Len(es) |-> s[i]]
  BY <1>1 DEF Stamped
<1>3. ASSUME NEW i \in 1..Len(es)
      PROVE  s[i] \in Entries /\ s[i].parts = es[i].parts /\ s[i].status # "streaming"
  <2>1. s[i] = IF es[i].status = "streaming" THEN [es[i] EXCEPT !.status = "aborted"] ELSE es[i]
    BY <1>1 DEF Stamped, Streaming
  <2> QED BY <1>1, <2>1 DEF Entries
<1> HIDE DEF s
<1>4. s \in Seq(Entries) /\ Len(s) = Len(es)
  BY <1>1, <1>2, <1>3
<1>5. Streaming(s) = {}
  BY <1>3, <1>4 DEF Streaming
<1> QED BY <1>3, <1>4, <1>5 DEF s

\* A commit puts the fold into the segment's entry, a new one at first.
LEMMA SyncShape ==
    ASSUME entries \in Seq(Entries), run \in Runs, run.writer \in 0..Len(entries), SyncSegment
    PROVE  /\ run' = [run EXCEPT !.writer = run'.writer] /\ run' \in Runs /\ run'.live
           /\ run'.idle = run.idle /\ run'.folded = run.folded /\ run'.seen = run.seen
           /\ run'.base = run.base /\ run'.cancelled = run.cancelled /\ run'.self = run.self
           /\ entries' \in Seq(Entries) /\ Len(entries') >= Len(entries)
           /\ run'.writer \in 1..Len(entries') /\ entries'[run'.writer].parts = run.folded
           /\ run'.writer = IF run.writer = 0 THEN Len(entries) + 1 ELSE run.writer
           /\ \A i \in 1..Len(entries') : i # run'.writer => i \in 1..Len(entries) /\ entries'[i] = entries[i]
<1>0. Len(entries) \in Nat /\ run.folded \in Seq(Parts) /\ run.live
  BY DEF Runs, SyncSegment
<1>1. CASE run.writer = 0
  <2> DEFINE e == [status |-> "streaming", parts |-> run.folded]
  <2>1. e \in Entries /\ e.parts = run.folded
    BY <1>0 DEF Entries
  <2>2. entries' = Append(entries, e) /\ run' = [run EXCEPT !.writer = Len(entries) + 1]
    BY <1>1 DEF SyncSegment
  <2> HIDE DEF e
  <2>3. /\ entries' \in Seq(Entries) /\ Len(entries') = Len(entries) + 1
        /\ entries'[Len(entries) + 1] = e /\ \A i \in 1..Len(entries) : entries'[i] = entries[i]
    BY <2>1, <2>2
  <2>4. /\ run' \in Runs /\ run'.writer = Len(entries) + 1 /\ run'.live
        /\ run'.idle = run.idle /\ run'.folded = run.folded /\ run'.seen = run.seen
        /\ run'.base = run.base /\ run'.cancelled = run.cancelled /\ run'.self = run.self
    BY <2>2, <1>0 DEF Runs
  <2>5. \A i \in 1..Len(entries') : i # Len(entries) + 1 => i \in 1..Len(entries)
    BY <2>3, <1>0
  <2> QED BY <2>1, <2>2, <2>3, <2>4, <2>5, <1>0, <1>1
<1>2. CASE run.writer # 0
  <2>1. run' = run /\ entries' = [entries EXCEPT ![run.writer].parts = run.folded]
    BY <1>2 DEF SyncSegment
  <2>2. run.writer \in 1..Len(entries) /\ entries[run.writer] \in Entries
    BY <1>0, <1>2
  <2> DEFINE e == [entries[run.writer] EXCEPT !.parts = run.folded]
  <2>3. e \in Entries /\ e.parts = run.folded
    BY <2>2, <1>0 DEF Entries
  <2>4. entries' = [entries EXCEPT ![run.writer] = e]
    BY <2>1, <2>2
  <2> HIDE DEF e
  <2>5. /\ entries' \in Seq(Entries) /\ Len(entries') = Len(entries)
        /\ entries'[run.writer] = e
        /\ \A i \in 1..Len(entries) : i # run.writer => entries'[i] = entries[i]
    BY <2>2, <2>3, <2>4
  <2>6. run = [run EXCEPT !.writer = run.writer]
    BY DEF Runs
  <2> QED BY <2>1, <2>2, <2>3, <2>5, <2>6, <1>0, <1>2
<1> QED BY <1>1, <1>2

LEMMA InitShape == StreamInit => StreamShape
BY NoRunShape DEF StreamInit, StreamShape, RunShape, Entries

\* A message handed to the session: the live run's mailbox or a fresh run.
LEMMA DeliverShape ==
    ASSUME StreamShape, NEW u \in Nat, Deliver(u), entries' = entries
    PROVE  RunShape' /\ mail' \in Seq(Nat) /\ eng' \in Seq(Bridged) /\ pending' \subseteq Questions
<1>1. RunShape /\ entries \in Seq(Entries)
  BY DEF StreamShape, RunShape
<1>2. CASE run.live
  <2>1. mail' = Append(mail, u) /\ UNCHANGED <<run, pending, eng>>
    BY <1>2 DEF Deliver
  <2>2. RunShape'
    BY <2>1, <1>1 DEF RunShape
  <2> QED BY <2>1, <2>2 DEF StreamShape
<1>3. CASE ~run.live
  <2>1. run' = FreshRun /\ pending' = {} /\ eng' = <<>> /\ mail' = mail
    BY <1>3 DEF Deliver, Launch
  <2>2. RunShape'
    BY <2>1, <1>1, FreshShape DEF RunShape
  <2> QED BY <2>1, <2>2 DEF StreamShape
<1> QED BY <1>2, <1>3

LEMMA StepShape == StreamShape /\ [StreamNext]_streamVars => StreamShape'
<1> SUFFICES ASSUME StreamShape, [StreamNext]_streamVars PROVE StreamShape'
  OBVIOUS
<1> USE DEF StreamShape
<1>h. /\ entries \in Seq(Entries) /\ run \in Runs /\ run.folded \in Seq(Parts)
      /\ run.writer \in 0..Len(entries) /\ Len(entries) \in Nat /\ RunShape
  BY DEF RunShape, Runs
<1>f. ASSUME NEW ps \in Seq(Parts), NEW seen \in SUBSET Tools, Fold(ps, seen), entries' = entries,
             run.live
      PROVE  RunShape' /\ journal' \in {"none", "event", "done"} /\ run'.live
  BY <1>f, <1>h DEF Fold, RunShape, Runs, JournalAppend
<1>1. CASE Send
  <2>1. users + 1 \in Nat /\ Deliver(users + 1) /\ entries' = entries
    BY <1>1 DEF Send
  <2> QED BY <2>1, <1>1, DeliverShape DEF Send, bootVars
<1>2. CASE Steered
  <2>1. /\ entries' \in Seq(Entries) /\ Len(entries') >= Len(entries)
    BY <1>2, <1>h, FinishShape DEF Steered
  <2>2. RunShape' /\ run'.live
    <3>1. run' \in Runs /\ run'.live /\ run'.folded = <<>> /\ run'.writer = 0
      BY <1>2, <1>h, ClearedShape DEF Steered, Listening
    <3>2. Len(entries') \in Nat
      BY <2>1
    <3> QED BY <2>1, <3>1, <3>2 DEF RunShape
  <2> QED BY <2>2, <1>2, <1>h DEF Steered, JournalAppend, bootVars, Listening
<1>3. CASE SyncSegment
  <2>1. /\ entries' \in Seq(Entries) /\ run' \in Runs /\ run'.writer \in 0..Len(entries')
        /\ run'.live /\ run'.idle = run.idle /\ run'.folded = run.folded /\ run.folded # <<>>
    BY <1>3, <1>h, SyncShape DEF SyncSegment
  <2>2. RunShape'
    BY <2>1, <1>h DEF RunShape
  <2> QED BY <2>1, <2>2, <1>3, <1>h DEF SyncSegment, bootVars
<1>4. CASE \E t \in Tools : ToolResult(t)
  <2>1. PICK t \in Tools : ToolResult(t)
    BY <1>4
  <2>2. RunShape' /\ journal' \in {"none", "event", "done"} /\ run'.live
    <3>1. Resolve(run.folded, "tool", t) \in Seq(Parts) /\ run.seen \in SUBSET Tools /\ run.live
      BY <2>1, <1>h, ResolveShape DEF Runs, ToolResult, Listening
    <3> QED BY <3>1, <2>1, <1>f DEF ToolResult
  <2> QED BY <2>1, <2>2 DEF ToolResult, Listening, bootVars
<1>r. ASSUME NEW q \in Questions, Requested(q), entries' = entries, run.live
      PROVE  /\ RunShape' /\ journal' \in {"none", "event", "done"} /\ run'.live
             /\ pending' \subseteq Questions
  <2>1. FoldOnce(run.folded, "input", q) \in Seq(Parts)
    BY <1>h, FoldShape
  <2> QED BY <2>1, <1>r, <1>h DEF Requested, RunShape, Runs, JournalAppend
<1>5. CASE EngineEvent
  <2>1. /\ Head(eng) \in Bridged /\ eng' \in Seq(Bridged) /\ entries' = entries /\ run.live
    BY <1>5 DEF EngineEvent
  <2>2. /\ RunShape' /\ journal' \in {"none", "event", "done"} /\ run'.live
        /\ pending' \subseteq Questions
    <3>1. CASE Requested(Head(eng).q)
      <4>1. Head(eng).q \in Questions
        BY <2>1 DEF Bridged
      <4> QED BY <4>1, <3>1, <2>1, <1>r
    <3>2. CASE UNCHANGED <<run, journal, pending>>
      BY <3>2, <2>1, <1>h DEF RunShape
    <3>3. CASE /\ run' = [run EXCEPT !.folded = Resolve(@, "input", Head(eng).q)]
               /\ run.idle = "no" /\ journal' = JournalAppend("event") /\ pending' = pending
      <4>1. Resolve(run.folded, "input", Head(eng).q) \in Seq(Parts)
        BY <1>h, ResolveShape
      <4> QED BY <4>1, <3>3, <2>1, <1>h DEF RunShape, Runs, JournalAppend
    <3> QED BY <1>5, <3>1, <3>2, <3>3 DEF EngineEvent
  <2> QED BY <1>5, <2>1, <2>2 DEF EngineEvent, bootVars
<1>e. ASSUME NEW outcome \in {"completed", "errored", "interrupted"}, Finish(outcome), run.live
      PROVE  StreamShape'
  <2> DEFINE ps == IF outcome = "errored" THEN Append(AllResolved(run.folded), Part("error", "error"))
                   ELSE AllResolved(run.folded)
             final == [run EXCEPT !.folded = ps]
             st == IF outcome = "interrupted" THEN "aborted" ELSE "complete"
  <2>1. ps \in Seq(Parts)
    <3>1. AllResolved(run.folded) \in Seq(Parts) /\ Part("error", "error") \in Parts
      BY <1>h, AllResolvedShape, PartShape
    <3> QED BY <3>1
  <2>2. entries' = FinishSegment(entries, final, st) /\ st \in {"complete", "aborted"}
    BY <1>e DEF Finish
  <2> HIDE DEF ps, st
  <2>3. final.folded = ps /\ final.writer = run.writer
    BY <1>h DEF Runs
  <2> HIDE DEF final
  <2>4. entries' \in Seq(Entries) /\ Len(entries') >= Len(entries)
    BY <2>1, <2>2, <2>3, <1>h, FinishShape
  <2>5. CASE outcome = "completed" /\ ~run.cancelled
    <3>1. run' = Parked(run) /\ UNCHANGED <<mail, eng>>
      BY <1>e, <2>5 DEF Finish
    <3>2. RunShape' /\ run'.live
      <4>1. run' \in Runs /\ run'.live /\ run'.folded = <<>> /\ run'.writer = 0
        BY <3>1, <1>e, <1>h, ClearedShape DEF Parked
      <4>2. Len(entries') \in Nat
        BY <2>4
      <4> QED BY <2>4, <4>1, <4>2 DEF RunShape
    <3> QED BY <3>1, <3>2, <1>e, <1>h DEF Finish, JournalAppend, bootVars
  <2>6. CASE ~(outcome = "completed" /\ ~run.cancelled)
    <3>1. run' = NoRun /\ eng' = <<>> /\ mail' = Orphaned
      BY <1>e, <2>6 DEF Finish
    <3>2. RunShape' /\ ~run'.live
      BY <3>1, <2>4, NoRunShape DEF RunShape
    <3> QED BY <3>1, <3>2, <1>e, <1>h DEF Finish, JournalAppend, bootVars, Orphaned
  <2> QED BY <2>5, <2>6
<1>6. CASE Stops
  BY <1>6, <1>e DEF Stops, Listening
<1>7. CASE Quiesce
  <2>1. /\ entries' \in Seq(Entries) /\ Len(entries') >= Len(entries)
    BY <1>7, <1>h, FinishShape DEF Quiesce
  <2>2. RunShape' /\ run'.live
    <3>1. run' \in Runs /\ run'.live /\ run'.folded = <<>> /\ run'.writer = 0
      BY <1>7, <1>h, ClearedShape DEF Quiesce, Parked, Listening
    <3>2. Len(entries') \in Nat
      BY <2>1
    <3> QED BY <2>1, <3>1, <3>2 DEF RunShape
  <2> QED BY <2>2, <1>7, <1>h DEF Quiesce, bootVars, Listening
<1>8. CASE Redispatch
  <2>1. RunShape'
    BY <1>8, <1>h, FreshShape DEF Redispatch, Launch, RunShape
  <2> QED BY <2>1, <1>8 DEF Redispatch, Launch, bootVars
<1>9. CASE TextDelta
  <2>1. RunShape' /\ journal' \in {"none", "event", "done"} /\ run'.live
    <3>1. /\ FoldText(run.folded) \in Seq(Parts) /\ run.seen \in SUBSET Tools
          /\ run.live /\ entries' = entries
      BY <1>9, <1>h, FoldShape DEF Runs, TextDelta, Emits, Listening
    <3>2. CASE UNCHANGED <<run, journal>>
      BY <3>1, <3>2, <1>h DEF RunShape
    <3> QED BY <3>1, <3>2, <1>9, <1>f DEF TextDelta
  <2> QED BY <1>9, <2>1 DEF TextDelta, Emits, Listening, bootVars
<1>10. CASE GateOpens
  <2>1. RunShape' /\ run'.live
    BY <1>10, <1>h DEF GateOpens, RunShape, Runs
  <2> QED BY <1>10, <2>1, <1>h DEF GateOpens, bootVars
<1>11. CASE \E t \in Tools : ToolCall(t)
  <2>0. PICK t \in Tools : ToolCall(t)
    BY <1>11
  <2>1. RunShape' /\ journal' \in {"none", "event", "done"} /\ run'.live
    <3>1. /\ FoldOnce(run.folded, "tool", t) \in Seq(Parts) /\ run.seen \cup {t} \in SUBSET Tools
          /\ run.live /\ entries' = entries
      BY <2>0, <1>h, FoldShape DEF Runs, ToolCall, Emits, Listening
    <3>2. CASE UNCHANGED <<run, journal>>
      BY <3>1, <3>2, <1>h DEF RunShape
    <3> QED BY <3>1, <3>2, <2>0, <1>f DEF ToolCall
  <2> QED BY <2>0, <2>1 DEF ToolCall, Emits, Listening, bootVars
<1>12. CASE \E q \in Questions : Ask(q) \/ Answer(q) \/ TwinRequest(q)
  <2>0. PICK q \in Questions : Ask(q) \/ Answer(q) \/ TwinRequest(q)
    BY <1>12
  <2>1. CASE Ask(q)
    BY <2>1, <1>h DEF Ask, Bridged, RunShape, bootVars
  <2>2. CASE Answer(q)
    BY <2>2, <1>h DEF Answer, Bridged, RunShape, bootVars
  <2>3. CASE TwinRequest(q)
    BY <2>3, <1>r DEF TwinRequest, Emits, Listening, bootVars
  <2> QED BY <2>0, <2>1, <2>2, <2>3
<1>13. CASE Completes
  BY <1>13, <1>e DEF Completes, Listening
<1>14. CASE Dies
  BY <1>14, <1>e DEF Dies, Listening
<1>15. CASE EndsParked
  BY <1>15, <1>h, NoRunShape DEF EndsParked, RunShape, Orphaned, bootVars, Listening
<1>16. CASE InterruptRun
  <2>1. RunShape' /\ run'.live
    BY <1>16, <1>h DEF InterruptRun, RunShape, Runs
  <2> QED BY <1>16, <2>1, <1>h DEF InterruptRun, bootVars
<1>17. CASE LosesDone
  BY <1>17, <1>h DEF LosesDone, RunShape, bootVars
<1>18. CASE SaveSnapshot
  BY <1>18, <1>h DEF SaveSnapshot, RunShape, runVars, bootVars
<1>19. CASE Crash
  BY <1>19, NoRunShape DEF Crash, RunShape
<1>20. CASE RecoverScan
  BY <1>20, <1>h DEF RecoverScan, RunShape, JournalAppend, runVars
<1>21. CASE RecoverStamp
  <2>1. entries' \in Seq(Entries) /\ Len(entries') = Len(entries)
    BY <1>21, <1>h, StampShape DEF RecoverStamp, Stamped
  <2>2. RunShape'
    BY <2>1, <1>21, <1>h DEF RecoverStamp, RunShape, runVars
  <2> QED BY <2>2, <1>21 DEF RecoverStamp, runVars
<1>22. CASE Revive
  <2>1. Deliver(reviving) /\ entries' = entries /\ reviving # 0
    BY <1>22 DEF Revive
  <2> QED BY <2>1, <1>22, DeliverShape DEF Revive
<1>23. CASE UNCHANGED streamVars
  BY <1>23, <1>h DEF streamVars, runVars, bootVars, RunShape
<1> QED BY <1>1, <1>2, <1>3, <1>4, <1>5, <1>6, <1>7, <1>8, <1>9, <1>10, <1>11, <1>12, <1>13,
           <1>14, <1>15, <1>16, <1>17, <1>18, <1>19, <1>20, <1>21, <1>22, <1>23
           DEF StreamNext, Loop, Recovery

-----------------------------------------------------------------------------
(* The revival budget.                                                     *)

BudgetInv ==
    /\ attempts \in Nat /\ revivals \in Nat
    /\ boot = "stampResume" => attempts < MaxResume
    /\ boot # "up" => reviving = 0
    /\ RevivalsBounded

LEMMA InitBudget == StreamInit => BudgetInv
BY StreamBounds DEF StreamInit, BudgetInv, RevivalsBounded

LEMMA StepBudget == StreamShape /\ BudgetInv /\ [StreamNext]_streamVars => BudgetInv'
<1> SUFFICES ASSUME StreamShape, BudgetInv, [StreamNext]_streamVars PROVE BudgetInv'
  OBVIOUS
<1> USE StreamBounds DEF BudgetInv, RevivalsBounded
<1>0. ASSUME UNCHANGED <<attempts, revivals, boot, reviving>> PROVE BudgetInv'
  BY <1>0
<1>1. CASE Send \/ Redispatch
  BY <1>1, <1>0 DEF Send, Redispatch, bootVars
<1>2. CASE Steered \/ SyncSegment \/ EngineEvent \/ Quiesce \/ TextDelta \/ GateOpens
           \/ EndsParked \/ InterruptRun \/ LosesDone \/ SaveSnapshot
  BY <1>2, <1>0 DEF Steered, SyncSegment, EngineEvent, Quiesce, TextDelta, GateOpens,
     EndsParked, InterruptRun, LosesDone, SaveSnapshot, bootVars, turnHist
<1>3. CASE \E t \in Tools : ToolResult(t) \/ ToolCall(t)
  BY <1>3, <1>0 DEF ToolResult, ToolCall, bootVars, turnHist
<1>4. CASE \E q \in Questions : Ask(q) \/ Answer(q) \/ TwinRequest(q)
  BY <1>4, <1>0 DEF Ask, Answer, TwinRequest, bootVars, turnHist
<1>5. ASSUME NEW outcome, Finish(outcome) PROVE BudgetInv'
  <2>1. CASE outcome = "completed"
    BY <1>5, <2>1 DEF Finish, AttemptsAfter, bootVars
  <2>2. CASE outcome # "completed"
    BY <1>5, <2>2 DEF Finish, AttemptsAfter, bootVars
  <2> QED BY <2>1, <2>2
<1>6. CASE Stops \/ Completes \/ Dies
  BY <1>5, <1>6 DEF Stops, Completes, Dies
<1>7. CASE Crash
  BY <1>7 DEF Crash
<1>8. CASE RecoverScan
  BY <1>8 DEF RecoverScan, turnHist
<1>9. CASE RecoverStamp
  BY <1>9 DEF RecoverStamp, turnHist
<1>10. CASE Revive
  BY <1>10 DEF Revive, StreamShape
<1>11. CASE UNCHANGED streamVars
  BY <1>11, <1>0 DEF streamVars, bootVars, turnHist
<1> QED BY <1>1, <1>2, <1>3, <1>4, <1>6, <1>7, <1>8, <1>9, <1>10, <1>11
        DEF StreamNext, Loop, Recovery

LEMMA ShapeAlways == StreamSpec => []StreamShape
BY InitShape, StepShape, PTL DEF StreamSpec

\* MAX_AUTO_RESUME, for every value of it: however often and wherever in the
\* recovery the engine dies, a run that kills it is revived a bounded number of
\* times.
THEOREM RevivalsAreBounded == StreamSpec => []RevivalsBounded
<1>1. StreamSpec => []BudgetInv
  BY ShapeAlways, InitBudget, StepBudget, PTL DEF StreamSpec
<1>2. BudgetInv => RevivalsBounded
  BY DEF BudgetInv
<1> QED BY <1>1, <1>2, PTL

-----------------------------------------------------------------------------
(* The segments of a run.                                                  *)

ToolsIn(ps) == {t \in Tools : Has(ps, "tool", t)}

\* The entries a run has written share no tool with each other or with the
\* segment it is folding, which its writer's entry follows; and seen knows them
\* all.
Apart(es, r) ==
    /\ r.base <= Len(es) /\ (r.writer # 0 => r.base < r.writer)
    /\ ToolsIn(r.folded) \subseteq r.seen
    /\ \A i \in (r.base + 1)..Len(es) :
         /\ ToolsIn(es[i].parts) \subseteq r.seen
         /\ i = r.writer => ToolsIn(es[i].parts) \subseteq ToolsIn(r.folded)
         /\ i # r.writer => ToolsIn(es[i].parts) \cap ToolsIn(r.folded) = {}
         /\ \A j \in (r.base + 1)..Len(es) :
              i # j => ToolsIn(es[i].parts) \cap ToolsIn(es[j].parts) = {}

LEMMA ToolsEmpty == ToolsIn(<<>>) = {}
BY DEF ToolsIn, Has

\* Parts of the same kinds and ids show the same tools.
LEMMA ToolsSame ==
    ASSUME NEW ps \in Seq(Parts), NEW qs \in Seq(Parts), Len(qs) = Len(ps),
           \A i \in 1..Len(ps) : qs[i].kind = ps[i].kind /\ qs[i].id = ps[i].id
    PROVE  ToolsIn(qs) = ToolsIn(ps)
BY DEF ToolsIn, Has

LEMMA ToolsAppend ==
    ASSUME NEW ps \in Seq(Parts), NEW p \in Parts
    PROVE  ToolsIn(Append(ps, p)) = ToolsIn(ps) \cup {t \in Tools : p.kind = "tool" /\ p.id = t}
<1> DEFINE a == Append(ps, p)
<1>1. /\ Len(ps) \in Nat /\ DOMAIN ps = 1..Len(ps) /\ DOMAIN a = 1..(Len(ps) + 1)
      /\ \A i \in 1..Len(ps) : a[i] = ps[i]
      /\ a[Len(ps) + 1] = p
  OBVIOUS
<1> HIDE DEF a
<1>2. \A t : Has(a, "tool", t) <=> Has(ps, "tool", t) \/ (p.kind = "tool" /\ p.id = t)
  BY <1>1 DEF Has
<1> QED BY <1>2 DEF ToolsIn, a

\* Text, questions and their answers leave the segment's tools as they are, a tool
\* call adds its own.
LEMMA ToolsFolded ==
    ASSUME NEW ps \in Seq(Parts)
    PROVE  /\ ToolsIn(FoldText(ps)) = ToolsIn(ps)
           /\ \A q \in Questions : ToolsIn(FoldOnce(ps, "input", q)) = ToolsIn(ps)
           /\ \A t \in Tools : ToolsIn(FoldOnce(ps, "tool", t)) = ToolsIn(ps) \cup {t}
           /\ \A kind, id : ToolsIn(Resolve(ps, kind, id)) = ToolsIn(ps)
           /\ ToolsIn(AllResolved(ps)) = ToolsIn(ps)
           /\ ToolsIn(Append(AllResolved(ps), Part("error", "error"))) = ToolsIn(ps)
<1>1. ToolsIn(FoldText(ps)) = ToolsIn(ps)
  <2>1. ToolsIn(Append(ps, Part("text", "text"))) = ToolsIn(ps)
    BY PartShape, ToolsAppend DEF Part
  <2> QED BY <2>1 DEF FoldText
<1>2. ASSUME NEW q \in Questions PROVE ToolsIn(FoldOnce(ps, "input", q)) = ToolsIn(ps)
  <2>1. Part("input", q) \in Parts /\ Part("input", q).kind = "input"
    BY PartShape DEF Part
  <2>2. ToolsIn(Append(ps, Part("input", q))) = ToolsIn(ps)
    BY <2>1, ToolsAppend
  <2> QED BY <2>2 DEF FoldOnce
<1>3. ASSUME NEW t \in Tools PROVE ToolsIn(FoldOnce(ps, "tool", t)) = ToolsIn(ps) \cup {t}
  <2>1. ToolsIn(Append(ps, Part("tool", t))) = ToolsIn(ps) \cup {t}
    BY PartShape, ToolsAppend DEF Part
  <2>2. Has(ps, "tool", t) => t \in ToolsIn(ps)
    BY DEF ToolsIn
  <2> QED BY <2>1, <2>2 DEF FoldOnce
<1>4. ASSUME NEW kind, NEW id PROVE ToolsIn(Resolve(ps, kind, id)) = ToolsIn(ps)
  BY ResolveShape, ToolsSame
<1>5. ToolsIn(AllResolved(ps)) = ToolsIn(ps) /\ AllResolved(ps) \in Seq(Parts)
  BY AllResolvedShape, ToolsSame
<1>6. ToolsIn(Append(AllResolved(ps), Part("error", "error"))) = ToolsIn(ps)
  <2>1. ToolsIn(Append(AllResolved(ps), Part("error", "error"))) = ToolsIn(AllResolved(ps))
    BY <1>5, PartShape, ToolsAppend DEF Part
  <2> QED BY <2>1, <1>5
<1> QED BY <1>1, <1>2, <1>3, <1>4, <1>5, <1>6

\* A boundary keeps them apart: the finished entry is the fold, the new fold is
\* empty.
LEMMA ApartFinish ==
    ASSUME NEW es \in Seq(Entries), NEW r \in Runs, r.writer \in 0..Len(es), Apart(es, r),
           NEW st \in {"complete", "aborted"}, NEW c \in Runs,
           c.folded = <<>>, c.writer = 0, c.seen = r.seen, c.base = r.base,
           NEW f, f.folded \in Seq(Parts), f.writer = r.writer,
           ToolsIn(f.folded) = ToolsIn(r.folded)
    PROVE  Apart(FinishSegment(es, f, st), c)
<1> DEFINE fs == FinishSegment(es, f, st)
<1>1. /\ fs \in Seq(Entries) /\ Len(fs) >= Len(es)
      /\ \A i \in 1..Len(fs) :
           \/ i \in 1..Len(es) /\ i # r.writer /\ fs[i] = es[i]
           \/ /\ fs[i].parts = f.folded
              /\ i = r.writer \/ (r.writer = 0 /\ i = Len(es) + 1)
  <2>1. f.writer \in 0..Len(es)
    OBVIOUS
  <2>2. /\ fs \in Seq(Entries) /\ Len(fs) >= Len(es)
        /\ \A i \in 1..Len(fs) :
             \/ i \in 1..Len(es) /\ i # f.writer /\ fs[i] = es[i]
             \/ /\ fs[i].parts = f.folded
                /\ i = f.writer \/ (f.writer = 0 /\ i = Len(es) + 1)
    <3>1. fs = FinishSegment(es, f, st)
      OBVIOUS
    <3> HIDE DEF fs
    <3> QED BY <2>1, <3>1, FinishShape
  <2> HIDE DEF fs
  <2> QED BY <2>2
<1> HIDE DEF fs
<1>2. r.base \in Nat /\ Len(es) \in Nat /\ Len(fs) \in Nat
  BY <1>1 DEF Runs
<1>3. ASSUME NEW i \in (r.base + 1)..Len(fs)
      PROVE  \/ /\ i \in (r.base + 1)..Len(es) /\ i # r.writer
                /\ ToolsIn(fs[i].parts) = ToolsIn(es[i].parts)
             \/ /\ ToolsIn(fs[i].parts) = ToolsIn(r.folded)
                /\ i = r.writer \/ (r.writer = 0 /\ i = Len(es) + 1)
  <2>1. i \in 1..Len(fs)
    BY <1>2
  <2> QED BY <2>1, <1>1, <1>2
<1>4. c.base <= Len(fs) /\ ToolsIn(c.folded) = {}
  BY <1>1, <1>2, ToolsEmpty DEF Apart
<1>5. ASSUME NEW i \in (r.base + 1)..Len(fs) PROVE ToolsIn(fs[i].parts) \subseteq c.seen
  BY <1>3 DEF Apart
<1>6. ASSUME NEW i \in (r.base + 1)..Len(fs), NEW j \in (r.base + 1)..Len(fs), i # j
      PROVE  ToolsIn(fs[i].parts) \cap ToolsIn(fs[j].parts) = {}
  <2>0. \/ /\ j \in (r.base + 1)..Len(es) /\ j # r.writer
           /\ ToolsIn(fs[j].parts) = ToolsIn(es[j].parts)
        \/ /\ ToolsIn(fs[j].parts) = ToolsIn(r.folded)
           /\ j = r.writer \/ (r.writer = 0 /\ j = Len(es) + 1)
    BY <1>3
  <2>1. CASE i \in (r.base + 1)..Len(es) /\ i # r.writer /\ ToolsIn(fs[i].parts) = ToolsIn(es[i].parts)
    BY <2>1, <2>0, <1>6 DEF Apart
  <2>2. CASE /\ ToolsIn(fs[i].parts) = ToolsIn(r.folded)
             /\ i = r.writer \/ (r.writer = 0 /\ i = Len(es) + 1)
    <3>1. j \in (r.base + 1)..Len(es) /\ j # r.writer /\ ToolsIn(fs[j].parts) = ToolsIn(es[j].parts)
      BY <2>0, <2>2, <1>2, <1>6
    <3> QED BY <2>2, <3>1 DEF Apart
  <2> QED BY <1>3, <2>1, <2>2
<1>7. \A i \in (r.base + 1)..Len(fs) : i # c.writer
  BY <1>2
<1>8. Apart(fs, c)
  BY <1>4, <1>5, <1>6, <1>7 DEF Apart
<1> QED BY <1>8 DEF fs

LEMMA ApartSync ==
    ASSUME entries \in Seq(Entries), run \in Runs, run.writer \in 0..Len(entries), SyncSegment,
           Apart(entries, run)
    PROVE  Apart(entries', run')
<1>1. /\ run' \in Runs /\ run'.folded = run.folded /\ run'.seen = run.seen
      /\ run'.base = run.base
      /\ entries' \in Seq(Entries) /\ Len(entries') >= Len(entries)
      /\ run'.writer \in 1..Len(entries') /\ entries'[run'.writer].parts = run.folded
      /\ run'.writer = IF run.writer = 0 THEN Len(entries) + 1 ELSE run.writer
      /\ \A i \in 1..Len(entries') : i # run'.writer => i \in 1..Len(entries) /\ entries'[i] = entries[i]
  BY SyncShape
<1>2. run.base \in Nat /\ Len(entries) \in Nat /\ Len(entries') \in Nat
  BY <1>1 DEF Runs
<1>3. ASSUME NEW i \in (run.base + 1)..Len(entries'), i # run'.writer
      PROVE  i \in (run.base + 1)..Len(entries) /\ i # run.writer /\ entries'[i] = entries[i]
  <2>1. i \in 1..Len(entries')
    BY <1>2
  <2> QED BY <2>1, <1>1, <1>2, <1>3
<1>4. run'.base <= Len(entries') /\ run'.base < run'.writer /\ ToolsIn(run'.folded) \subseteq run'.seen
  BY <1>1, <1>2 DEF Apart
<1>5. ASSUME NEW i \in (run.base + 1)..Len(entries')
      PROVE  /\ ToolsIn(entries'[i].parts) \subseteq run'.seen
             /\ i = run'.writer => ToolsIn(entries'[i].parts) \subseteq ToolsIn(run'.folded)
             /\ i # run'.writer => ToolsIn(entries'[i].parts) \cap ToolsIn(run'.folded) = {}
  BY <1>1, <1>3 DEF Apart
<1>6. ASSUME NEW i \in (run.base + 1)..Len(entries'), NEW j \in (run.base + 1)..Len(entries'), i # j
      PROVE  ToolsIn(entries'[i].parts) \cap ToolsIn(entries'[j].parts) = {}
  <2>1. CASE i = run'.writer
    BY <2>1, <1>1, <1>3, <1>6 DEF Apart
  <2>2. CASE j = run'.writer
    BY <2>2, <1>1, <1>3, <1>6 DEF Apart
  <2>3. CASE i # run'.writer /\ j # run'.writer
    BY <2>3, <1>3, <1>6 DEF Apart
  <2> QED BY <2>1, <2>2, <2>3
<1> QED BY <1>1, <1>4, <1>5, <1>6 DEF Apart

\* Folding more into the segment: its own tools, or one the run has not seen.
LEMMA ApartFold ==
    ASSUME NEW es, NEW r, NEW f, Apart(es, r), f.base = r.base, f.writer = r.writer, NEW T,
           ToolsIn(f.folded) = ToolsIn(r.folded) \cup T, f.seen = r.seen \cup T,
           T \cap r.seen \subseteq ToolsIn(r.folded)
    PROVE  Apart(es, f)
BY DEF Apart

SegmentInv ==
    /\ StreamingHasWriter
    /\ boot = "scan" /\ ~Stale => Streaming(entries) \subseteq orphans
    /\ run.live => Apart(entries, run)

LEMMA InitSegment == StreamInit => SegmentInv
BY NoRunShape DEF StreamInit, SegmentInv, StreamingHasWriter, Streaming, Stale

LEMMA ApartFresh == ASSUME entries \in Seq(Entries) PROVE Apart(entries, FreshRun)
<1>1. FreshRun.writer = 0 /\ FreshRun.base = Len(entries) /\ FreshRun.folded = <<>>
  BY FreshShape
<1>2. (Len(entries) + 1)..Len(entries) = {} /\ Len(entries) \in Nat
  OBVIOUS
<1> QED BY <1>1, <1>2, ToolsEmpty DEF Apart

LEMMA StepSegment == StreamShape /\ SegmentInv /\ [StreamNext]_streamVars => SegmentInv'
<1> SUFFICES ASSUME StreamShape, SegmentInv, [StreamNext]_streamVars PROVE SegmentInv'
  OBVIOUS
<1>h. /\ entries \in Seq(Entries) /\ run \in Runs /\ run.folded \in Seq(Parts)
      /\ run.writer \in 0..Len(entries) /\ Len(entries) \in Nat
      /\ run.live => boot = "up" /\ Apart(entries, run)
      /\ ~run.live => run = NoRun /\ run.writer = 0
      /\ reviving # 0 => boot = "up"
  BY NoRunShape DEF StreamShape, RunShape, Runs, SegmentInv
\* the entries are left alone, and the run keeps its writer
<1>k. ASSUME UNCHANGED <<entries, boot, orphans>>, run'.writer = run.writer,
             journal' = journal \/ boot = "up", run'.live => Apart(entries, run')
      PROVE  SegmentInv'
  BY <1>k DEF SegmentInv, StreamingHasWriter, Stale
<1>u. ASSUME UNCHANGED <<entries, boot, orphans, run>>, journal' = journal \/ boot = "up"
      PROVE  SegmentInv'
  BY <1>u, <1>k, <1>h
\* the live run folds something into its segment
<1>f. ASSUME UNCHANGED <<entries, boot, orphans>>, run.live, run'.writer = run.writer,
             run'.base = run.base, NEW T, ToolsIn(run'.folded) = ToolsIn(run.folded) \cup T,
             run'.seen = run.seen \cup T, T \cap run.seen \subseteq ToolsIn(run.folded)
      PROVE  SegmentInv'
  <2>1. Apart(entries, run')
    BY <1>f, <1>h, ApartFold
  <2> QED BY <1>f, <1>h, <1>k, <2>1
\* a boundary: the segment is finished
<1>b. ASSUME run.live, UNCHANGED <<boot, orphans>>, NEW f, f.folded \in Seq(Parts),
             f.writer = run.writer, ToolsIn(f.folded) = ToolsIn(run.folded),
             NEW st \in {"complete", "aborted"}, entries' = FinishSegment(entries, f, st),
             run'.live => run' \in Runs /\ run'.folded = <<>> /\ run'.writer = 0
                          /\ run'.seen = run.seen /\ run'.base = run.base
      PROVE  SegmentInv'
  <2>1. Streaming(entries') \subseteq Streaming(entries) \ {run.writer}
    <3>1. f.writer \in 0..Len(entries)
      BY <1>b, <1>h
    <3>2. Streaming(entries') \subseteq Streaming(entries) \ {f.writer}
      BY <3>1, <1>b, <1>h, FinishShape
    <3> QED BY <3>2, <1>b
  <2>2. run'.live => Apart(entries', run')
    BY <1>b, <1>h, ApartFinish
  <2> QED BY <2>1, <2>2, <1>b, <1>h DEF SegmentInv, StreamingHasWriter
<1>d. ASSUME NEW u, Deliver(u), UNCHANGED <<entries, boot, orphans, journal>> PROVE SegmentInv'
  <2>1. CASE run.live
    BY <1>d, <2>1, <1>u DEF Deliver
  <2>2. CASE ~run.live
    <3>1. run' = FreshRun
      BY <1>d, <2>2 DEF Deliver, Launch
    <3> QED BY <3>1, <1>d, <2>2, <1>h, <1>k, FreshShape, ApartFresh
  <2> QED BY <2>1, <2>2
<1>1. CASE Send
  BY <1>1, <1>d DEF Send, bootVars
<1>2. CASE Steered
  <2>1. /\ run' \in Runs /\ run'.folded = <<>> /\ run'.writer = 0
        /\ run'.seen = run.seen /\ run'.base = run.base
    BY <1>2, <1>h, ClearedShape DEF Steered
  <2>2. /\ run.live /\ UNCHANGED <<boot, orphans>>
        /\ entries' = FinishSegment(entries, run, "complete")
    BY <1>2 DEF Steered, Listening, bootVars
  <2> QED BY <2>1, <2>2, <1>b, <1>h
<1>3. CASE SyncSegment
  <2>0. /\ run'.writer \in 1..Len(entries') /\ entries' \in Seq(Entries)
        /\ run'.writer = IF run.writer = 0 THEN Len(entries) + 1 ELSE run.writer
        /\ \A i \in 1..Len(entries') :
             i # run'.writer => i \in 1..Len(entries) /\ entries'[i] = entries[i]
    BY <1>3, <1>h, SyncShape
  <2>1. Apart(entries', run')
    BY <1>3, <1>h, ApartSync DEF SyncSegment
  <2>2. Streaming(entries') \subseteq (Streaming(entries) \ {run.writer}) \cup {run'.writer}
    BY <2>0, <1>h DEF Streaming
  <2> QED BY <2>1, <2>2, <1>3, <1>h DEF SyncSegment, SegmentInv, StreamingHasWriter, bootVars, turnHist
<1>4. CASE \E t \in Tools : ToolResult(t)
  <2>1. PICK t \in Tools : ToolResult(t)
    BY <1>4
  <2>2. /\ run.live /\ UNCHANGED <<entries, boot, orphans>> /\ run'.writer = run.writer
        /\ run'.base = run.base /\ run'.seen = run.seen
        /\ run'.folded = Resolve(run.folded, "tool", t)
    BY <2>1, <1>h DEF ToolResult, Listening, Fold, bootVars, turnHist, Runs
  <2>3. ToolsIn(run'.folded) = ToolsIn(run.folded) \cup {}
    BY <2>2, <1>h, ToolsFolded
  <2>4. run'.seen = run.seen \cup {} /\ {} \cap run.seen \subseteq ToolsIn(run.folded)
    BY <2>2
  <2> QED BY <2>2, <2>3, <2>4, <1>f
<1>r. ASSUME NEW q \in Questions, Requested(q), UNCHANGED <<entries, boot, orphans>>, run.live
      PROVE  SegmentInv'
  <2>1. CASE run' = run
    BY <1>r, <2>1, <1>u, <1>h
  <2>2. CASE run' = [run EXCEPT !.folded = FoldOnce(@, "input", q)]
    <3>1. /\ run'.writer = run.writer /\ run'.base = run.base /\ run'.seen = run.seen
          /\ run'.folded = FoldOnce(run.folded, "input", q)
      BY <2>2, <1>h DEF Runs
    <3>2. ToolsIn(run'.folded) = ToolsIn(run.folded) \cup {}
      BY <3>1, <1>h, ToolsFolded
    <3>3. run'.seen = run.seen \cup {} /\ {} \cap run.seen \subseteq ToolsIn(run.folded)
      BY <3>1
    <3> QED BY <3>1, <3>2, <3>3, <1>r, <1>f
  <2> QED BY <1>r, <2>1, <2>2 DEF Requested
<1>5. CASE EngineEvent
  <2>0. /\ run.live /\ UNCHANGED <<entries, boot, orphans>> /\ Head(eng).q \in Questions
    <3>1. Head(eng) \in Bridged
      BY <1>5 DEF EngineEvent, StreamShape
    <3> QED BY <3>1, <1>5 DEF EngineEvent, bootVars, turnHist, Bridged
  <2>1. CASE Requested(Head(eng).q)
    BY <2>0, <2>1, <1>r
  <2>2. CASE run' = run
    BY <2>0, <2>2, <1>u, <1>h
  <2>3. CASE run' = [run EXCEPT !.folded = Resolve(@, "input", Head(eng).q)]
    <3>1. /\ run'.writer = run.writer /\ run'.base = run.base /\ run'.seen = run.seen
          /\ run'.folded = Resolve(run.folded, "input", Head(eng).q)
      BY <2>3, <1>h DEF Runs
    <3>2. ToolsIn(run'.folded) = ToolsIn(run.folded) \cup {}
      BY <3>1, <1>h, ToolsFolded
    <3>3. run'.seen = run.seen \cup {} /\ {} \cap run.seen \subseteq ToolsIn(run.folded)
      BY <3>1
    <3> QED BY <3>1, <3>2, <3>3, <2>0, <1>f
  <2> QED BY <1>5, <2>1, <2>2, <2>3 DEF EngineEvent
<1>e. ASSUME NEW outcome \in {"completed", "errored", "interrupted"}, Finish(outcome), run.live
      PROVE  SegmentInv'
  <2> DEFINE ps == IF outcome = "errored" THEN Append(AllResolved(run.folded), Part("error", "error"))
                   ELSE AllResolved(run.folded)
             final == [run EXCEPT !.folded = ps]
             st == IF outcome = "interrupted" THEN "aborted" ELSE "complete"
  <2>1. ps \in Seq(Parts) /\ ToolsIn(ps) = ToolsIn(run.folded)
    <3>1. AllResolved(run.folded) \in Seq(Parts) /\ Part("error", "error") \in Parts
      BY <1>h, AllResolvedShape, PartShape
    <3> QED BY <3>1, <1>h, ToolsFolded
  <2>2. entries' = FinishSegment(entries, final, st) /\ st \in {"complete", "aborted"}
    BY <1>e DEF Finish
  <2> HIDE DEF ps, st
  <2>3. final.folded = ps /\ final.writer = run.writer
    BY <1>h DEF Runs
  <2> HIDE DEF final
  <2>4. run'.live => run' \in Runs /\ run'.folded = <<>> /\ run'.writer = 0
                     /\ run'.seen = run.seen /\ run'.base = run.base
    <3>1. CASE run' = NoRun
      BY <3>1, NoRunShape
    <3>2. CASE run' = Parked(run)
      BY <3>2, <1>h, ClearedShape DEF Parked
    <3> QED BY <1>e, <3>1, <3>2 DEF Finish
  <2>5. UNCHANGED <<boot, orphans>>
    BY <1>e DEF Finish, bootVars
  <2> QED BY <2>1, <2>2, <2>3, <2>4, <2>5, <1>e, <1>b
<1>6. CASE Stops
  BY <1>6, <1>e DEF Stops, Listening
<1>7. CASE Quiesce
  <2>1. /\ run' \in Runs /\ run'.folded = <<>> /\ run'.writer = 0
        /\ run'.seen = run.seen /\ run'.base = run.base
    BY <1>7, <1>h, ClearedShape DEF Quiesce, Parked
  <2>2. /\ run.live /\ UNCHANGED <<boot, orphans>>
        /\ entries' = FinishSegment(entries, run, "complete")
    BY <1>7 DEF Quiesce, Listening, bootVars, turnHist
  <2> QED BY <2>1, <2>2, <1>b, <1>h
<1>8. CASE Redispatch
  <2>1. run' = FreshRun /\ UNCHANGED <<entries, boot, orphans, journal>> /\ run.writer = 0
    BY <1>8, <1>h DEF Redispatch, Launch, bootVars
  <2> QED BY <2>1, <1>h, <1>k, FreshShape, ApartFresh
<1>9. CASE TextDelta
  <2>0. run.live /\ UNCHANGED <<entries, boot, orphans>>
    BY <1>9 DEF TextDelta, Emits, Listening, bootVars, turnHist
  <2>1. CASE run' = run
    BY <2>0, <2>1, <1>u, <1>h
  <2>2. CASE Fold(FoldText(run.folded), run.seen)
    <3>1. /\ run'.writer = run.writer /\ run'.base = run.base /\ run'.seen = run.seen
          /\ run'.folded = FoldText(run.folded)
      BY <2>2, <1>h DEF Fold, Runs
    <3>2. ToolsIn(run'.folded) = ToolsIn(run.folded) \cup {}
      BY <3>1, <1>h, ToolsFolded
    <3>3. run'.seen = run.seen \cup {} /\ {} \cap run.seen \subseteq ToolsIn(run.folded)
      BY <3>1
    <3> QED BY <3>1, <3>2, <3>3, <2>0, <1>f
  <2> QED BY <1>9, <2>1, <2>2 DEF TextDelta
<1>10. CASE GateOpens
  <2>1. /\ run.live /\ UNCHANGED <<entries, boot, orphans>> /\ run'.writer = run.writer
        /\ run'.base = run.base /\ run'.seen = run.seen \cup {}
        /\ run'.folded = run.folded /\ ToolsIn(run'.folded) = ToolsIn(run.folded) \cup {}
    BY <1>10, <1>h DEF GateOpens, Runs, bootVars, turnHist
  <2>2. {} \cap run.seen \subseteq ToolsIn(run.folded)
    OBVIOUS
  <2> QED BY <2>1, <2>2, <1>f
<1>11. CASE \E t \in Tools : ToolCall(t)
  <2>0. PICK t \in Tools : ToolCall(t)
    BY <1>11
  <2>1. run.live /\ UNCHANGED <<entries, boot, orphans>>
    BY <2>0 DEF ToolCall, Emits, Listening, bootVars, turnHist
  <2>2. CASE run' = run
    BY <2>1, <2>2, <1>u, <1>h
  <2>3. CASE ~StaleEcho(t) /\ Fold(FoldOnce(run.folded, "tool", t), run.seen \cup {t})
    <3>1. /\ run'.writer = run.writer /\ run'.base = run.base /\ run'.seen = run.seen \cup {t}
          /\ run'.folded = FoldOnce(run.folded, "tool", t)
      BY <2>3, <1>h DEF Fold, Runs
    <3>2. ToolsIn(run'.folded) = ToolsIn(run.folded) \cup {t}
      BY <3>1, <1>h, ToolsFolded
    <3>3. {t} \cap run.seen \subseteq ToolsIn(run.folded)
      BY <2>3 DEF StaleEcho, ToolsIn
    <3> QED BY <3>1, <3>2, <3>3, <2>1, <1>f
  <2> QED BY <2>0, <2>2, <2>3 DEF ToolCall
<1>12. CASE \E q \in Questions : Ask(q) \/ Answer(q) \/ TwinRequest(q)
  <2>0. PICK q \in Questions : Ask(q) \/ Answer(q) \/ TwinRequest(q)
    BY <1>12
  <2>1. CASE Ask(q) \/ Answer(q)
    BY <2>1, <1>u DEF Ask, Answer, bootVars, turnHist
  <2>2. CASE TwinRequest(q)
    BY <2>2, <1>r DEF TwinRequest, Emits, Listening, bootVars, turnHist
  <2> QED BY <2>0, <2>1, <2>2
<1>13. CASE Completes
  BY <1>13, <1>e DEF Completes, Listening
<1>14. CASE Dies
  BY <1>14, <1>e DEF Dies, Listening
<1>15. CASE EndsParked
  <2>1. run.writer = 0 /\ run' = NoRun /\ UNCHANGED <<entries, boot, orphans, journal>>
    BY <1>15 DEF EndsParked, bootVars, turnHist, StreamShape, RunShape
  <2> QED BY <2>1, <1>k, NoRunShape
<1>16. CASE InterruptRun
  <2>1. /\ run.live /\ UNCHANGED <<entries, boot, orphans>> /\ run'.writer = run.writer
        /\ run'.base = run.base /\ run'.seen = run.seen \cup {}
        /\ run'.folded = run.folded /\ ToolsIn(run'.folded) = ToolsIn(run.folded) \cup {}
    BY <1>16, <1>h DEF InterruptRun, Runs, bootVars, turnHist
  <2>2. {} \cap run.seen \subseteq ToolsIn(run.folded)
    OBVIOUS
  <2> QED BY <2>1, <2>2, <1>f
<1>17. CASE LosesDone
  BY <1>17, <1>u DEF LosesDone, bootVars, turnHist
<1>18. CASE SaveSnapshot
  BY <1>18, <1>u DEF SaveSnapshot, runVars, bootVars, turnHist
<1>19. CASE Crash
  <2>1. /\ run' = NoRun /\ boot' = "scan" /\ entries' = disk.entries /\ journal' = journal
        /\ orphans' = orphans \cup {i \in Streaming(disk.entries) :
                                     ~Stale \/ i \notin Streaming(entries)}
    BY <1>19 DEF Crash
  <2> QED BY <2>1, NoRunShape DEF SegmentInv, StreamingHasWriter, Stale
<1>20. CASE RecoverScan
  BY <1>20, <1>h DEF RecoverScan, SegmentInv, StreamingHasWriter, runVars, turnHist, Stale
<1>21. CASE RecoverStamp
  <2>1. Streaming(entries') = {}
    BY <1>21, <1>h, StampShape DEF RecoverStamp, Stamped
  <2>2. ~run.live /\ run' = run
    BY <1>21, <1>h DEF RecoverStamp, runVars
  <2> QED BY <2>1, <2>2, <1>21 DEF SegmentInv, StreamingHasWriter
<1>22. CASE Revive
  BY <1>22, <1>d DEF Revive
<1>23. CASE UNCHANGED streamVars
  BY <1>23, <1>u DEF streamVars, runVars, bootVars, turnHist
<1> QED BY <1>1, <1>2, <1>3, <1>4, <1>5, <1>6, <1>7, <1>8, <1>9, <1>10, <1>11, <1>12, <1>13,
           <1>14, <1>15, <1>16, <1>17, <1>18, <1>19, <1>20, <1>21, <1>22, <1>23
           DEF StreamNext, Loop, Recovery

LEMMA SegmentAlways == StreamSpec => []SegmentInv
BY ShapeAlways, InitSegment, StepSegment, PTL DEF StreamSpec

\* SegmentWriter and recover_stale: outside recovery an entry says "streaming" only
\* while the live run writes it, but for those a crash stranded.
THEOREM StreamingHasItsWriter == StreamSpec => []StreamingHasWriter
<1>1. SegmentInv => StreamingHasWriter
  BY DEF SegmentInv
<1> QED BY <1>1, SegmentAlways, PTL

\* drive_run's stale-echo rule: a tool's chip is in one entry of the run.
THEOREM ToolsShownOnce == StreamSpec => []ToolShownOnce
<1>1. SegmentInv => ToolShownOnce
  BY DEF SegmentInv, Apart, ToolShownOnce, ToolsIn
<1> QED BY <1>1, SegmentAlways, PTL

-----------------------------------------------------------------------------
(* Questions.                                                              *)

OpenIn(ps) == {ps[i].id : i \in {k \in DOMAIN ps : ps[k].kind = "input" /\ ~ps[k].resolved}}

\* The questions that have a resolver, or an answer on its way.
Resolved(q) == [type |-> "resolved", q |-> q]
Answerable(p, e) == p \cup {q \in Questions : \E k \in DOMAIN e : e[k] = Resolved(q)}

QuestionInv == run.live /\ ~run.cancelled => OpenIn(run.folded) \subseteq Answerable(pending, eng)

LEMMA OpenEmpty == OpenIn(<<>>) = {}
BY DEF OpenIn

LEMMA OpenAppend ==
    ASSUME NEW ps \in Seq(Parts), NEW p \in Parts
    PROVE  OpenIn(Append(ps, p)) \subseteq OpenIn(ps) \cup (IF p.kind = "input" THEN {p.id} ELSE {})
<1> DEFINE a == Append(ps, p)
<1>1. /\ Len(ps) \in Nat /\ DOMAIN ps = 1..Len(ps) /\ DOMAIN a = 1..(Len(ps) + 1)
      /\ \A i \in 1..Len(ps) : a[i] = ps[i]
      /\ a[Len(ps) + 1] = p
  OBVIOUS
<1> HIDE DEF a
<1>2. ASSUME NEW i \in DOMAIN a, a[i].kind = "input", ~a[i].resolved
      PROVE  a[i].id \in OpenIn(ps) \cup (IF p.kind = "input" THEN {p.id} ELSE {})
  <2>1. CASE i \in 1..Len(ps)
    BY <2>1, <1>1, <1>2 DEF OpenIn
  <2>2. CASE i = Len(ps) + 1
    BY <2>2, <1>1, <1>2
  <2> QED BY <2>1, <2>2, <1>1
<1> QED BY <1>2 DEF OpenIn, a

\* Only a request opens a question, and its answer closes it.
LEMMA OpenFolded ==
    ASSUME NEW ps \in Seq(Parts)
    PROVE  /\ OpenIn(FoldText(ps)) \subseteq OpenIn(ps)
           /\ \A t \in Tools : OpenIn(FoldOnce(ps, "tool", t)) \subseteq OpenIn(ps)
           /\ \A q \in Questions : OpenIn(FoldOnce(ps, "input", q)) \subseteq OpenIn(ps) \cup {q}
           /\ \A t : OpenIn(Resolve(ps, "tool", t)) \subseteq OpenIn(ps)
           /\ \A q : OpenIn(Resolve(ps, "input", q)) \subseteq OpenIn(ps) \ {q}
<1>1. OpenIn(FoldText(ps)) \subseteq OpenIn(ps)
  <2>1. Part("text", "text") \in Parts /\ Part("text", "text").kind # "input"
    BY PartShape DEF Part
  <2>2. OpenIn(Append(ps, Part("text", "text"))) \subseteq OpenIn(ps)
    BY <2>1, OpenAppend
  <2> QED BY <2>2 DEF FoldText
<1>2. ASSUME NEW t \in Tools PROVE OpenIn(FoldOnce(ps, "tool", t)) \subseteq OpenIn(ps)
  <2>1. Part("tool", t) \in Parts /\ Part("tool", t).kind # "input"
    BY PartShape DEF Part
  <2>2. OpenIn(Append(ps, Part("tool", t))) \subseteq OpenIn(ps)
    BY <2>1, OpenAppend
  <2> QED BY <2>2 DEF FoldOnce
<1>3. ASSUME NEW q \in Questions PROVE OpenIn(FoldOnce(ps, "input", q)) \subseteq OpenIn(ps) \cup {q}
  <2>1. Part("input", q) \in Parts /\ Part("input", q).kind = "input" /\ Part("input", q).id = q
    BY PartShape DEF Part
  <2>2. OpenIn(Append(ps, Part("input", q))) \subseteq OpenIn(ps) \cup {q}
    BY <2>1, OpenAppend
  <2> QED BY <2>2 DEF FoldOnce
<1>4. ASSUME NEW kind, NEW id
      PROVE  \A x \in OpenIn(Resolve(ps, kind, id)) : x \in OpenIn(ps) /\ ~(kind = "input" /\ x = id)
  <2> DEFINE rs == Resolve(ps, kind, id)
  <2>1. /\ DOMAIN ps = 1..Len(ps) /\ DOMAIN rs = 1..Len(ps)
        /\ \A i \in 1..Len(ps) :
             /\ rs[i].kind = ps[i].kind /\ rs[i].id = ps[i].id
             /\ rs[i].resolved = (ps[i].resolved \/ (ps[i].kind = kind /\ ps[i].id = id))
    BY ResolveShape
  <2> HIDE DEF rs
  <2>2. ASSUME NEW i \in DOMAIN rs, rs[i].kind = "input", ~rs[i].resolved
        PROVE  rs[i].id \in OpenIn(ps) /\ ~(kind = "input" /\ rs[i].id = id)
    BY <2>1, <2>2 DEF OpenIn
  <2>3. \A x \in OpenIn(rs) : x \in OpenIn(ps) /\ ~(kind = "input" /\ x = id)
    BY <2>2 DEF OpenIn
  <2> QED BY <2>3 DEF rs
<1> QED BY <1>1, <1>2, <1>3, <1>4

LEMMA InitQuestion == StreamInit => QuestionInv
BY NoRunShape DEF StreamInit, QuestionInv

LEMMA StepQuestion == StreamShape /\ QuestionInv /\ [StreamNext]_streamVars => QuestionInv'
<1> SUFFICES ASSUME StreamShape, QuestionInv, [StreamNext]_streamVars PROVE QuestionInv'
  OBVIOUS
<1>h. /\ run \in Runs /\ run.folded \in Seq(Parts) /\ entries \in Seq(Entries)
      /\ run.idle # "no" => run.folded = <<>>
      /\ pending \subseteq Questions /\ eng \in Seq(Bridged)
  BY DEF StreamShape, RunShape, Runs
<1>e. ASSUME run'.live => run'.folded = <<>> PROVE QuestionInv'
  BY <1>e, OpenEmpty DEF QuestionInv
<1>f. ASSUME run.live, run'.cancelled = run.cancelled, OpenIn(run'.folded) \subseteq OpenIn(run.folded),
             UNCHANGED <<pending, eng>>
      PROVE  QuestionInv'
  BY <1>f DEF QuestionInv
<1>u. ASSUME UNCHANGED <<run, pending, eng>> PROVE QuestionInv'
  BY <1>u DEF QuestionInv
<1>d. ASSUME NEW u, Deliver(u) PROVE QuestionInv'
  BY <1>d, <1>e, <1>h, <1>u, FreshShape DEF Deliver, Launch
<1>1. CASE Send \/ Revive
  BY <1>1, <1>d DEF Send, Revive
<1>2. CASE Steered
  <2>1. run'.folded = <<>>
    BY <1>2, <1>h, ClearedShape DEF Steered
  <2> QED BY <2>1, <1>e
<1>3. CASE SyncSegment
  <2>1. run' = run \/ run' = [run EXCEPT !.writer = Len(entries) + 1]
    BY <1>3 DEF SyncSegment
  <2>2. run'.folded = run.folded /\ run'.cancelled = run.cancelled /\ run'.live = run.live
    BY <2>1, <1>h DEF Runs
  <2>3. UNCHANGED <<pending, eng>>
    BY <1>3 DEF SyncSegment
  <2> QED BY <2>2, <2>3 DEF QuestionInv
<1>4. CASE \E t \in Tools : ToolResult(t)
  <2>1. PICK t \in Tools : ToolResult(t)
    BY <1>4
  <2>2. /\ run.live /\ run'.cancelled = run.cancelled /\ UNCHANGED <<pending, eng>>
        /\ run'.folded = Resolve(run.folded, "tool", t)
    BY <2>1, <1>h DEF ToolResult, Listening, Fold, Runs
  <2>3. OpenIn(run'.folded) \subseteq OpenIn(run.folded)
    BY <2>2, <1>h, OpenFolded
  <2> QED BY <2>2, <2>3, <1>f
\* a request, read from the bridge or repeated by the harness
<1>r. ASSUME NEW q \in Questions, Requested(q), run.live, NEW e, eng' = e,
             \A x \in Questions : (\E k \in DOMAIN eng : eng[k] = Resolved(x))
                                    => \E k \in DOMAIN e : e[k] = Resolved(x)
      PROVE  QuestionInv'
  <2>1. Answerable(pending, eng) \subseteq Answerable(pending, eng')
    BY <1>r DEF Answerable
  <2>2. CASE run' = run /\ pending' = pending
    BY <2>1, <2>2 DEF QuestionInv
  <2>3. CASE run.idle # "no" /\ run' = run
    BY <2>3, <1>h, <1>e
  <2>4. CASE Known(q) /\ run' = [run EXCEPT !.folded = FoldOnce(@, "input", q)] /\ pending' = pending
    <3>1. run'.folded = FoldOnce(run.folded, "input", q) /\ run'.cancelled = run.cancelled
      BY <2>4, <1>h DEF Runs
    <3>2. OpenIn(run'.folded) \subseteq OpenIn(run.folded) \cup {q}
      BY <3>1, <1>h, OpenFolded
    <3>3. q \in Answerable(pending', eng')
      BY <2>4 DEF Known, Answerable
    <3>4. Answerable(pending, eng) \subseteq Answerable(pending', eng')
      BY <2>1, <2>4
    <3> QED BY <3>1, <3>2, <3>3, <3>4, <1>r DEF QuestionInv
  <2> QED BY <1>r, <2>2, <2>3, <2>4 DEF Requested
<1>5. CASE EngineEvent
  <2> DEFINE e == Head(eng)
  <2>0. /\ run.live /\ e \in Bridged /\ eng' = Tail(eng) /\ eng # <<>>
    BY <1>5, <1>h DEF EngineEvent
  <2>1. ASSUME NEW x, x # e, \E k \in DOMAIN eng : eng[k] = x
        PROVE  \E k \in DOMAIN eng' : eng'[k] = x
    <3>1. PICK k \in DOMAIN eng : eng[k] = x
      BY <2>1
    <3>2. k \in 1..Len(eng) /\ Len(eng) \in Nat
      BY <1>h
    <3>3. k # 1 /\ k - 1 \in 1..Len(Tail(eng)) /\ Tail(eng)[k - 1] = eng[k]
      BY <3>1, <3>2, <2>0, <2>1, <1>h
    <3>4. k - 1 \in DOMAIN Tail(eng)
      BY <3>3, <2>0, <1>h
    <3> QED BY <3>1, <3>3, <3>4, <2>0
  <2>2. CASE e.type = "requested" /\ Requested(e.q)
    <3>1. \A x \in Questions : e # Resolved(x)
      BY <2>2 DEF Resolved
    <3>2. e.q \in Questions
      BY <2>0 DEF Bridged
    <3>3. \A x \in Questions : (\E k \in DOMAIN eng : eng[k] = Resolved(x))
                                   => \E k \in DOMAIN eng' : eng'[k] = Resolved(x)
      BY <3>1, <2>1
    <3> QED BY <3>2, <3>3, <2>0, <2>2, <1>r
  <2>3. CASE run' = run /\ run.idle # "no"
    BY <2>3, <1>h, <1>e
  <2>4. CASE /\ e.type = "resolved" /\ run' = [run EXCEPT !.folded = Resolve(@, "input", e.q)]
             /\ pending' = pending
    <3>1. run'.folded = Resolve(run.folded, "input", e.q) /\ run'.cancelled = run.cancelled
      BY <2>4, <1>h DEF Runs
    <3>2. OpenIn(run'.folded) \subseteq OpenIn(run.folded) \ {e.q}
      BY <3>1, <1>h, OpenFolded
    <3>3. \A x \in Questions : x # e.q => Resolved(x) # e
      BY DEF Resolved
    <3>4. Answerable(pending, eng) \ {e.q} \subseteq Answerable(pending', eng')
      BY <3>3, <2>1, <2>4 DEF Answerable
    <3> HIDE DEF e
    <3> QED BY <3>1, <3>2, <3>4, <2>0 DEF QuestionInv
  <2> QED BY <1>5, <2>2, <2>3, <2>4 DEF EngineEvent
<1>6. ASSUME NEW outcome, Finish(outcome) PROVE QuestionInv'
  <2>1. run' = NoRun \/ run' = Parked(run)
    BY <1>6 DEF Finish
  <2>2. run'.folded = <<>>
    <3>1. Parked(run).folded = <<>>
      BY <1>h, ClearedShape DEF Parked
    <3> QED BY <2>1, <3>1, NoRunShape
  <2> QED BY <2>2, <1>e
<1>7. CASE Stops \/ Completes \/ Dies
  BY <1>7, <1>6 DEF Stops, Completes, Dies
<1>8. CASE Quiesce
  <2>1. run'.folded = <<>>
    BY <1>8, <1>h, ClearedShape DEF Quiesce, Parked
  <2> QED BY <2>1, <1>e
<1>9. CASE Redispatch
  BY <1>9, <1>h, <1>e, FreshShape DEF Redispatch, Launch
<1>10. CASE TextDelta
  <2>0. run.live /\ UNCHANGED <<pending, eng>>
    BY <1>10 DEF TextDelta, Emits, Listening
  <2>1. CASE run' = run
    BY <2>0, <2>1, <1>u
  <2>2. CASE Fold(FoldText(run.folded), run.seen)
    <3>1. run'.folded = FoldText(run.folded) /\ run'.cancelled = run.cancelled
      BY <2>2, <1>h DEF Fold, Runs
    <3>2. OpenIn(run'.folded) \subseteq OpenIn(run.folded)
      BY <3>1, <1>h, OpenFolded
    <3> QED BY <3>1, <3>2, <2>0, <1>f
  <2> QED BY <1>10, <2>1, <2>2 DEF TextDelta
<1>11. CASE \E t \in Tools : ToolCall(t)
  <2>0. PICK t \in Tools : ToolCall(t)
    BY <1>11
  <2>1. run.live /\ UNCHANGED <<pending, eng>>
    BY <2>0 DEF ToolCall, Emits, Listening
  <2>2. CASE run' = run
    BY <2>1, <2>2, <1>u
  <2>3. CASE Fold(FoldOnce(run.folded, "tool", t), run.seen \cup {t})
    <3>1. run'.folded = FoldOnce(run.folded, "tool", t) /\ run'.cancelled = run.cancelled
      BY <2>3, <1>h DEF Fold, Runs
    <3>2. OpenIn(run'.folded) \subseteq OpenIn(run.folded)
      BY <3>1, <1>h, OpenFolded
    <3> QED BY <3>1, <3>2, <2>1, <1>f
  <2> QED BY <2>0, <2>2, <2>3 DEF ToolCall
<1>12. CASE GateOpens
  <2>1. /\ run.live /\ run'.cancelled = run.cancelled /\ run'.folded = run.folded
        /\ UNCHANGED <<pending, eng>>
    BY <1>12, <1>h DEF GateOpens, Runs
  <2> QED BY <2>1, <1>f
<1>13. CASE \E q \in Questions : Ask(q) \/ Answer(q) \/ TwinRequest(q)
  <2>0. PICK q \in Questions : Ask(q) \/ Answer(q) \/ TwinRequest(q)
    BY <1>13
  <2>a. ASSUME NEW x \in Bridged, eng' = Append(eng, x)
        PROVE  /\ \A y : (\E k \in DOMAIN eng : eng[k] = y) => \E k \in DOMAIN eng' : eng'[k] = y
               /\ \E k \in DOMAIN eng' : eng'[k] = x
    <3>1. /\ DOMAIN eng = 1..Len(eng) /\ DOMAIN eng' = 1..(Len(eng) + 1) /\ Len(eng) \in Nat
          /\ \A k \in 1..Len(eng) : eng'[k] = eng[k]
          /\ eng'[Len(eng) + 1] = x
      BY <2>a, <1>h
    <3> QED BY <3>1
  <2>1. CASE Ask(q)
    <3>1. /\ [type |-> "requested", q |-> q] \in Bridged
          /\ eng' = Append(eng, [type |-> "requested", q |-> q])
          /\ pending' = pending \cup {q} /\ run' = run
      BY <2>1 DEF Ask, Bridged
    <3>2. Answerable(pending, eng) \subseteq Answerable(pending', eng')
      BY <3>1, <2>a DEF Answerable
    <3> QED BY <3>1, <3>2 DEF QuestionInv
  <2>2. CASE Answer(q)
    <3>1. /\ Resolved(q) \in Bridged /\ eng' = Append(eng, Resolved(q))
          /\ pending' = pending \ {q} /\ run' = run
      BY <2>2 DEF Answer, Bridged, Resolved
    <3>2. Answerable(pending, eng) \subseteq Answerable(pending', eng')
      <4>1. q \in Answerable(pending', eng')
        BY <3>1, <2>a DEF Answerable
      <4>2. \A x \in Answerable(pending, eng) : x # q => x \in Answerable(pending', eng')
        BY <3>1, <2>a DEF Answerable
      <4> QED BY <4>1, <4>2
    <3> QED BY <3>1, <3>2 DEF QuestionInv
  <2>3. CASE TwinRequest(q)
    <3>1. Requested(q) /\ run.live /\ eng' = eng
      BY <2>3 DEF TwinRequest, Emits, Listening
    <3> QED BY <3>1, <1>r
  <2> QED BY <2>0, <2>1, <2>2, <2>3
<1>14. CASE EndsParked \/ Crash
  BY <1>14, <1>e, NoRunShape DEF EndsParked, Crash
<1>15. CASE InterruptRun
  <2>1. run'.cancelled
    BY <1>15, <1>h DEF InterruptRun, Runs
  <2> QED BY <2>1 DEF QuestionInv
<1>16. CASE LosesDone \/ SaveSnapshot \/ RecoverScan \/ RecoverStamp
  BY <1>16, <1>u DEF LosesDone, SaveSnapshot, RecoverScan, RecoverStamp, runVars
<1>17. CASE UNCHANGED streamVars
  BY <1>17, <1>u DEF streamVars, runVars
<1> QED BY <1>1, <1>2, <1>3, <1>4, <1>5, <1>7, <1>8, <1>9, <1>10, <1>11, <1>12, <1>13,
           <1>14, <1>15, <1>16, <1>17 DEF StreamNext, Loop, Recovery

\* The input bridge and drive_run: a question shown open in the segment being
\* written still has its resolver, or its answer is on the way.
THEOREM OpenQuestionsAnswerable == StreamSpec => []OpenQuestionAnswerable
<1>1. StreamSpec => []QuestionInv
  BY ShapeAlways, InitQuestion, StepQuestion, PTL DEF StreamSpec
<1>2. QuestionInv => OpenQuestionAnswerable
  BY DEF QuestionInv, OpenQuestionAnswerable, OpenIn, Answerable, Resolved, Unresolved
<1> QED BY <1>1, <1>2, PTL

-----------------------------------------------------------------------------
(* What a revival runs again.                                              *)

Waiting(m) == {m[i] : i \in DOMAIN m}

\* The snapshot is an earlier state of the document; an entry of the segment
\* being written is in it only together with the message the segment answers.
DiskInv ==
    /\ disk.users <= users /\ Len(disk.entries) <= Len(entries) /\ prompted \in Nat
    /\ boot = "scan" => disk.entries = entries /\ disk.users = users
    /\ boot \in {"stamp", "stampResume"} => journal = "done"
    /\ run.live /\ run.writer \in Streaming(disk.entries) => prompted <= disk.users

\* A message is in one place: waiting, being worked on, or about to be revived.
WaitingInv ==
    /\ \A i, j \in DOMAIN mail : mail[i] = mail[j] => i = j
    /\ boot # "up" => mail = <<>>
    /\ finished \subseteq Nat /\ \A u \in Waiting(mail) \cup finished : u <= users
    /\ reviving <= users /\ (reviving # 0 => reviving \notin Waiting(mail))
    /\ run.live => /\ prompted <= users /\ prompted \notin Waiting(mail)
                   /\ reviving # 0 => prompted # reviving

Accountable == orphans = {} /\ ~otherCut

\* While every crash left its turn accounted for, what waits, runs or is about to
\* be revived has not completed, and neither has the last message of a journal
\* that recovery will find stale.
UnfinishedInv ==
    Accountable =>
      /\ Waiting(mail) \cap finished = {}
      /\ reviving # 0 => reviving \notin finished
      /\ run.live /\ run.idle = "no" /\ ~run.self => prompted \notin finished
      /\ boot = "scan" /\ Stale /\ Streaming(entries) # {} => users \notin finished
      /\ boot = "stampResume" => users \notin finished

RevivalInv == DiskInv /\ WaitingInv /\ UnfinishedInv

LEMMA InitRevival == StreamInit => RevivalInv
<1> SUFFICES ASSUME StreamInit PROVE RevivalInv
  OBVIOUS
<1>1. /\ mail = <<>> /\ Waiting(mail) = {} /\ finished = {} /\ reviving = 0 /\ ~run.live /\ boot = "up"
      /\ users = 0 /\ disk.users = 0 /\ disk.entries = <<>> /\ entries = <<>> /\ prompted = 0
  BY NoRunShape DEF StreamInit, Waiting
<1> QED BY <1>1 DEF RevivalInv, DiskInv, WaitingInv, UnfinishedInv

\* A step of the run that neither starts nor completes a turn.
Quiet ==
    /\ UNCHANGED <<users, disk, prompted, finished, reviving, boot, orphans, otherCut>>
    /\ mail' \in {mail, <<>>}
    /\ boot = "up" \/ UNCHANGED <<entries, journal>>
    /\ Len(entries') >= Len(entries)
    /\ run'.live => /\ run.live /\ (run'.writer \in {run.writer, 0} \/ run'.writer > Len(entries))
                    /\ run'.idle = "no" /\ ~run'.self => run.idle = "no" /\ ~run.self

LEMMA QuietKeeps ==
    ASSUME StreamShape, StreamShape', RevivalInv, Quiet
    PROVE  RevivalInv'
<1>0. /\ Len(disk.entries) \in Nat /\ Len(entries) \in Nat /\ Len(entries') \in Nat
      /\ DOMAIN disk.entries = 1..Len(disk.entries) /\ run.writer \in Nat /\ run'.writer \in Nat
  BY DEF StreamShape, RunShape, Runs
<1>1. Waiting(mail') \subseteq Waiting(mail)
  BY DEF Quiet, Waiting
<1>2. run'.live /\ run'.writer \in Streaming(disk.entries) => run.live /\ run.writer \in Streaming(disk.entries)
  <2>1. run'.writer \in Streaming(disk.entries) => run'.writer \in 1..Len(disk.entries)
    BY <1>0 DEF Streaming
  <2>2. Len(disk.entries) <= Len(entries)
    BY DEF RevivalInv, DiskInv
  <2> QED BY <1>0, <2>1, <2>2 DEF Quiet
<1>3. DiskInv'
  <2>1. Len(disk'.entries) <= Len(entries')
    BY <1>0 DEF RevivalInv, DiskInv, Quiet
  <2>2. boot = "up" \/ UNCHANGED <<entries, journal>>
    BY DEF Quiet
  <2>3. UNCHANGED <<users, disk, prompted, boot>>
    BY DEF Quiet
  <2> QED BY <1>2, <2>1, <2>2, <2>3 DEF RevivalInv, DiskInv
<1>4. WaitingInv'
  <2>1. \A i, j \in DOMAIN mail' : mail'[i] = mail'[j] => i = j
    BY DEF RevivalInv, WaitingInv, Quiet
  <2>2. boot' # "up" => mail' = <<>>
    BY DEF RevivalInv, WaitingInv, Quiet
  <2>3. UNCHANGED <<users, prompted, finished, reviving>> /\ (run'.live => run.live)
    BY DEF Quiet
  <2> QED BY <1>1, <2>1, <2>2, <2>3 DEF RevivalInv, WaitingInv
<1>5. UnfinishedInv'
  <2>1. UNCHANGED <<users, prompted, finished, reviving, boot, orphans, otherCut>>
    BY DEF Quiet
  <2>2. boot = "scan" => entries' = entries /\ journal' = journal
    BY DEF Quiet
  <2>3. run'.live /\ run'.idle = "no" /\ ~run'.self => run.live /\ run.idle = "no" /\ ~run.self
    BY DEF Quiet
  <2> QED BY <1>1, <2>1, <2>2, <2>3 DEF RevivalInv, UnfinishedInv, Accountable, Stale
<1> QED BY <1>3, <1>4, <1>5 DEF RevivalInv

\* A turn that begins on message u, which was nowhere else and had not completed.
LEMMA BeginsKeeps ==
    ASSUME StreamShape, StreamShape', RevivalInv, NEW u \in Nat,
           UNCHANGED <<disk, finished, boot, orphans, otherCut>>, boot = "up",
           prompted' = u, users <= users', u <= users', Len(entries') >= Len(entries),
           run'.live, run'.writer = 0, reviving' \in {reviving, 0}, reviving' # 0 => reviving' # u,
           u \notin Waiting(mail'), Waiting(mail') \subseteq Waiting(mail),
           \A i, j \in DOMAIN mail' : mail'[i] = mail'[j] => i = j,
           Accountable => u \notin finished
    PROVE  RevivalInv'
<1>0. /\ Len(disk.entries) \in Nat /\ Len(entries) \in Nat /\ Len(entries') \in Nat
      /\ 0 \notin DOMAIN disk.entries /\ users \in Nat /\ users' \in Nat /\ disk.users \in Nat
      /\ \A v \in Waiting(mail) : v \in Nat
  BY DEF StreamShape, RunShape, Waiting
<1>1. DiskInv'
  <2>1. disk'.users <= users' /\ Len(disk'.entries) <= Len(entries') /\ prompted' \in Nat
    BY <1>0 DEF RevivalInv, DiskInv
  <2>2. run'.writer \notin Streaming(disk'.entries)
    BY <1>0 DEF Streaming
  <2> QED BY <2>1, <2>2 DEF DiskInv
<1>2. WaitingInv'
  <2>1. ASSUME NEW v \in Waiting(mail') \cup finished' PROVE v <= users'
    <3>1. v \in Waiting(mail) \cup finished
      OBVIOUS
    <3>2. v \in Nat /\ v <= users
      BY <1>0, <3>1 DEF RevivalInv, WaitingInv
    <3> QED BY <1>0, <3>2
  <2>2. reviving' <= users' /\ (reviving' # 0 => reviving' \notin Waiting(mail'))
    BY <1>0 DEF RevivalInv, WaitingInv, StreamShape
  <2>3. finished' \subseteq Nat
    BY DEF RevivalInv, WaitingInv
  <2> QED BY <2>1, <2>2, <2>3 DEF WaitingInv
<1>3. UnfinishedInv'
  <2>1. Accountable' <=> Accountable
    BY DEF Accountable
  <2>2. Accountable => Waiting(mail') \cap finished' = {} /\ (reviving' # 0 => reviving' \notin finished')
    BY DEF RevivalInv, UnfinishedInv
  <2> QED BY <2>1, <2>2 DEF UnfinishedInv
<1> QED BY <1>1, <1>2, <1>3 DEF RevivalInv

\* A message handed to the session.
LEMMA DeliverKeeps ==
    ASSUME StreamShape, StreamShape', RevivalInv, NEW u \in Nat, Deliver(u),
           UNCHANGED <<disk, finished, boot, orphans, otherCut, entries, journal>>, boot = "up",
           users <= users', u <= users', reviving' \in {reviving, 0}, reviving' # 0 => reviving' # u,
           u \notin Waiting(mail), run.live => u # prompted, Accountable => u \notin finished
    PROVE  RevivalInv'
<1>0. mail \in Seq(Nat) /\ entries \in Seq(Entries) /\ users \in Nat /\ users' \in Nat
      /\ Len(entries) \in Nat /\ disk.users \in Nat
  BY DEF StreamShape, RunShape
<1>1. CASE ~run.live
  <2>1. run' = FreshRun /\ mail' = mail /\ prompted' = u
    BY <1>1 DEF Deliver, Launch
  <2>2. run'.live /\ run'.writer = 0
    BY <1>0, <2>1, FreshShape
  <2>3. \A i, j \in DOMAIN mail' : mail'[i] = mail'[j] => i = j
    BY <2>1 DEF RevivalInv, WaitingInv
  <2>4. Waiting(mail') \subseteq Waiting(mail) /\ u \notin Waiting(mail') /\ Len(entries') >= Len(entries)
    BY <1>0, <2>1
  <2> QED BY <2>1, <2>2, <2>3, <2>4, BeginsKeeps
<1>2. CASE run.live
  <2>1. mail' = Append(mail, u) /\ UNCHANGED <<run, prompted>>
    BY <1>2 DEF Deliver
  <2>2. /\ Len(mail') = Len(mail) + 1 /\ mail'[Len(mail) + 1] = u /\ Len(mail) \in Nat
        /\ DOMAIN mail' = 1..(Len(mail) + 1) /\ DOMAIN mail = 1..Len(mail)
        /\ \A i \in 1..Len(mail) : mail'[i] = mail[i]
    BY <1>0, <2>1
  <2>3. Waiting(mail') = Waiting(mail) \cup {u}
    BY <2>2 DEF Waiting
  <2>4. \A i, j \in DOMAIN mail' : mail'[i] = mail'[j] => i = j
    <3>1. \A i \in 1..Len(mail) : mail[i] # u
      BY <2>2 DEF Waiting
    <3> QED BY <2>2, <3>1 DEF RevivalInv, WaitingInv
  <2>5. DiskInv'
    BY <1>0, <2>1 DEF RevivalInv, DiskInv
  <2>6. WaitingInv'
    <3>1. ASSUME NEW v \in Waiting(mail') \cup finished', v # u PROVE v <= users'
      <4>1. v \in Waiting(mail) \cup finished
        BY <2>3, <3>1
      <4>2. v \in Nat
        <5>1. v \in Waiting(mail) => v \in Nat
          BY <1>0 DEF Waiting
        <5>2. finished \subseteq Nat
          BY DEF RevivalInv, WaitingInv
        <5> QED BY <4>1, <5>1, <5>2
      <4>3. v <= users
        BY <4>1 DEF RevivalInv, WaitingInv
      <4> QED BY <1>0, <4>2, <4>3
    <3>2. reviving' <= users' /\ (reviving' # 0 => reviving' \notin Waiting(mail'))
      BY <1>0, <2>3 DEF RevivalInv, WaitingInv, StreamShape
    <3>3. prompted' <= users' /\ prompted' \notin Waiting(mail') /\ (reviving' # 0 => prompted' # reviving')
      BY <1>0, <1>2, <2>1, <2>3 DEF RevivalInv, WaitingInv, DiskInv
    <3> QED BY <2>4, <3>1, <3>2, <3>3 DEF WaitingInv, RevivalInv
  <2>7. UnfinishedInv'
    <3>1. Accountable' <=> Accountable
      BY DEF Accountable
    <3>2. Accountable => Waiting(mail') \cap finished' = {} /\ (reviving' # 0 => reviving' \notin finished')
      BY <2>3 DEF RevivalInv, UnfinishedInv
    <3> QED BY <2>1, <3>1, <3>2 DEF UnfinishedInv, RevivalInv
  <2> QED BY <2>5, <2>6, <2>7 DEF RevivalInv
<1> QED BY <1>1, <1>2

\* Taking the oldest waiting message leaves the others waiting.
LEMMA TakeOldest ==
    ASSUME NEW m \in Seq(Nat), m # <<>>, \A i, j \in DOMAIN m : m[i] = m[j] => i = j
    PROVE  /\ Head(m) \in Waiting(m) /\ Head(m) \in Nat
           /\ Head(m) \notin Waiting(Tail(m)) /\ Waiting(Tail(m)) \subseteq Waiting(m)
           /\ \A i, j \in DOMAIN Tail(m) : Tail(m)[i] = Tail(m)[j] => i = j
<1> DEFINE t == Tail(m)
<1>1. /\ Len(m) \in Nat /\ Len(m) >= 1 /\ DOMAIN m = 1..Len(m) /\ Head(m) = m[1] /\ Head(m) \in Nat
      /\ DOMAIN t = 1..(Len(m) - 1) /\ \A i \in 1..(Len(m) - 1) : t[i] = m[i + 1]
  OBVIOUS
<1> HIDE DEF t
<1>2. \A i \in DOMAIN t : i + 1 \in DOMAIN m /\ i + 1 # 1 /\ t[i] = m[i + 1] /\ i \in Nat
  BY <1>1
<1>3. 1 \in DOMAIN m
  BY <1>1
<1>4. \A i, j \in DOMAIN t : t[i] = t[j] => i = j
  <2> SUFFICES ASSUME NEW i \in DOMAIN t, NEW j \in DOMAIN t, t[i] = t[j] PROVE i = j
    OBVIOUS
  <2>1. i + 1 = j + 1
    BY <1>2
  <2> QED BY <1>2, <2>1
<1>5. m[1] \notin Waiting(t)
  BY <1>2, <1>3 DEF Waiting
<1>6. Waiting(t) \subseteq Waiting(m)
  BY <1>2 DEF Waiting
<1> QED BY <1>1, <1>3, <1>4, <1>5, <1>6 DEF t, Waiting

\* A turn that completes: its message was not waiting.
LEMMA CompletesKeeps ==
    ASSUME StreamShape, StreamShape', RevivalInv, run.live,
           UNCHANGED <<users, disk, prompted, reviving, boot, orphans, otherCut>>,
           finished' = finished \cup {prompted}, mail' \in {mail, <<>>}, Len(entries') >= Len(entries),
           run'.live => run'.writer = 0 /\ run'.idle # "no"
    PROVE  RevivalInv'
<1>0. /\ Len(disk.entries) \in Nat /\ Len(entries) \in Nat /\ Len(entries') \in Nat
      /\ 0 \notin DOMAIN disk.entries /\ boot = "up"
  BY DEF StreamShape, RunShape
<1>1. Waiting(mail') \subseteq Waiting(mail)
  BY DEF Waiting
<1>2. DiskInv'
  <2>1. Len(disk'.entries) <= Len(entries')
    BY <1>0 DEF RevivalInv, DiskInv
  <2>2. run'.live => run'.writer \notin Streaming(disk'.entries)
    BY <1>0 DEF Streaming
  <2> QED BY <1>0, <2>1, <2>2 DEF DiskInv, RevivalInv
<1>3. WaitingInv'
  <2>1. \A i, j \in DOMAIN mail' : mail'[i] = mail'[j] => i = j
    BY DEF RevivalInv, WaitingInv
  <2>2. prompted <= users /\ prompted \in Nat
    BY DEF RevivalInv, WaitingInv, DiskInv
  <2> QED BY <1>0, <1>1, <2>1, <2>2 DEF RevivalInv, WaitingInv
<1>4. UnfinishedInv'
  <2>1. Accountable' <=> Accountable
    BY DEF Accountable
  <2>2. prompted \notin Waiting(mail) /\ (reviving # 0 => prompted # reviving)
    BY DEF RevivalInv, WaitingInv
  <2>3. Accountable => Waiting(mail') \cap finished' = {} /\ (reviving' # 0 => reviving' \notin finished')
    BY <1>1, <2>2 DEF RevivalInv, UnfinishedInv
  <2> QED BY <1>0, <2>1, <2>3 DEF UnfinishedInv
<1> QED BY <1>2, <1>3, <1>4 DEF RevivalInv

\* A crash whose turn is accounted for: the entry it left streaming on disk belongs to the
\* turn the last message began, and the snapshot has that message.
LEMMA CrashKeeps ==
    ASSUME StreamShape, StreamShape', SegmentInv, RevivalInv, Crash
    PROVE  RevivalInv'
<1>0. /\ users \in Nat /\ disk.users \in Nat /\ prompted \in Nat /\ finished \subseteq Nat
      /\ Len(disk.entries) \in Nat /\ run.writer \in Nat
  <2>1. users \in Nat /\ disk.users \in Nat /\ Len(disk.entries) \in Nat /\ run.writer \in Nat
    BY DEF StreamShape, RunShape, Runs
  <2>2. prompted \in Nat /\ finished \subseteq Nat
    BY DEF RevivalInv, WaitingInv, DiskInv
  <2> QED BY <2>1, <2>2
<1>1. /\ entries' = disk.entries /\ users' = disk.users /\ run' = NoRun /\ mail' = <<>>
      /\ boot' = "scan" /\ reviving' = 0 /\ UNCHANGED <<disk, journal, prompted>>
      /\ finished' = finished \cap 1..disk.users
      /\ orphans' = orphans \cup {i \in Streaming(disk.entries) : ~Stale \/ i \notin Streaming(entries)}
      /\ otherCut' = (otherCut \/ (run.live /\ (run.self \/ prompted # users)))
  BY DEF Crash
<1>2. ~run'.live /\ Waiting(mail') = {}
  BY <1>1, NoRunShape DEF Waiting
<1>3. DiskInv'
  BY <1>0, <1>1, <1>2 DEF DiskInv
<1>4. WaitingInv'
  BY <1>0, <1>1, <1>2 DEF WaitingInv
<1>5. ASSUME Accountable', Stale, NEW i \in Streaming(disk.entries) PROVE disk.users \notin finished
  <2>1. orphans = {} /\ ~otherCut /\ i \in Streaming(entries)
    BY <1>1, <1>5 DEF Accountable
  <2>2. CASE boot = "scan"
    BY <1>5, <2>1, <2>2 DEF RevivalInv, DiskInv, UnfinishedInv, Accountable
  <2>3. CASE boot = "up"
    <3>1. i = run.writer
      BY <2>1, <2>3 DEF SegmentInv, StreamingHasWriter
    <3>2. run.writer # 0
      BY <1>0, <1>5, <3>1 DEF Streaming, StreamShape
    <3>3. run.live /\ run.idle = "no"
      BY <3>2, NoRunShape DEF StreamShape, RunShape
    <3>4. ~run.self /\ prompted = users
      BY <1>1, <1>5, <3>3 DEF Accountable
    <3>5. prompted <= disk.users /\ disk.users <= users
      BY <1>5, <3>1, <3>3 DEF RevivalInv, DiskInv
    <3>6. prompted = disk.users
      BY <1>0, <3>4, <3>5
    <3> QED BY <2>1, <3>3, <3>4, <3>6 DEF RevivalInv, UnfinishedInv, Accountable
  <2>4. CASE boot \in {"stamp", "stampResume"}
    BY <1>5, <2>4 DEF RevivalInv, DiskInv, Stale
  <2> QED BY <2>2, <2>3, <2>4 DEF StreamShape
<1>6. UnfinishedInv'
  <2>1. Stale' <=> Stale
    BY <1>1 DEF Stale
  <2>2. Accountable' /\ Stale' /\ Streaming(entries') # {} => users' \notin finished'
    BY <1>1, <1>5, <2>1
  <2> QED BY <1>1, <1>2, <2>2 DEF UnfinishedInv
<1> QED BY <1>3, <1>4, <1>6 DEF RevivalInv

LEMMA StepRevival ==
    ASSUME StreamShape, StreamShape', SegmentInv, RevivalInv, [StreamNext]_streamVars
    PROVE  RevivalInv'
<1>h. /\ entries \in Seq(Entries) /\ run \in Runs /\ run.folded \in Seq(Parts)
      /\ run.writer \in 0..Len(entries) /\ Len(entries) \in Nat /\ mail \in Seq(Nat)
      /\ run.live => boot = "up"
      /\ users \in Nat /\ reviving \in Nat
  BY DEF StreamShape, RunShape, Runs
<1>m. \A i, j \in DOMAIN mail : mail[i] = mail[j] => i = j
  BY DEF RevivalInv, WaitingInv
<1>w. /\ \A u \in Waiting(mail) : u <= users
      /\ Accountable => Waiting(mail) \cap finished = {}
      /\ reviving # 0 => reviving \notin Waiting(mail)
      /\ \A u \in Waiting(mail) \cup finished : u \in Nat
  <2>1. \A u \in Waiting(mail) : u \in Nat
    BY <1>h DEF Waiting
  <2> QED BY <2>1 DEF RevivalInv, WaitingInv, UnfinishedInv
\* a step that leaves all but the run alone
<1>q. ASSUME UNCHANGED <<users, disk, prompted, finished, reviving, boot, orphans, otherCut, mail>>,
             boot = "up" \/ UNCHANGED <<entries, journal>>, Len(entries') >= Len(entries),
             run'.live => /\ run.live /\ run'.writer \in {run.writer, 0}
                          /\ run'.idle = "no" /\ ~run'.self => run.idle = "no" /\ ~run.self
      PROVE  RevivalInv'
  BY <1>q, QuietKeeps DEF Quiet
<1>u. ASSUME UNCHANGED <<users, disk, prompted, finished, reviving, boot, orphans, otherCut, mail>>,
             entries' = entries, run.live, UNCHANGED run
      PROVE  RevivalInv'
  BY <1>h, <1>q, <1>u
\* the live run folds something
<1>f. ASSUME NEW ps, NEW seen, Fold(ps, seen), run.live, entries' = entries,
             UNCHANGED <<users, disk, prompted, finished, reviving, boot, orphans, otherCut, mail>>
      PROVE  RevivalInv'
  <2>1. run'.writer = run.writer /\ run'.live = run.live /\ (~run'.self => ~run.self /\ run.idle = "no")
    BY <1>h, <1>f DEF Fold, Runs
  <2> QED BY <1>h, <1>f, <1>q, <2>1
<1>r. ASSUME NEW q \in Questions, Requested(q), run.live, entries' = entries,
             UNCHANGED <<users, disk, prompted, finished, reviving, boot, orphans, otherCut, mail>>
      PROVE  RevivalInv'
  <2>1. run'.writer = run.writer /\ run'.live = run.live /\ run'.self = run.self /\ run'.idle = run.idle
    BY <1>h, <1>r DEF Requested, Runs
  <2> QED BY <1>h, <1>r, <1>q, <2>1
\* the segment is finished
<1>s. ASSUME NEW f, f.folded \in Seq(Parts), f.writer = run.writer, NEW st \in {"complete", "aborted"},
             entries' = FinishSegment(entries, f, st)
      PROVE  Len(entries') >= Len(entries)
  BY <1>s, <1>h, FinishShape
<1>1. CASE Send
  <2>1. /\ Deliver(users + 1) /\ users' = users + 1 /\ boot = "up"
        /\ UNCHANGED <<disk, finished, boot, reviving, orphans, otherCut, entries, journal>>
    BY <1>1 DEF Send, bootVars
  <2>2. /\ users + 1 \in Nat /\ users <= users' /\ users + 1 <= users'
        /\ \A v \in Waiting(mail) : v # users + 1
    BY <1>h, <1>w, <2>1
  <2>3. users + 1 \notin finished
    BY <1>h, <1>w DEF RevivalInv, WaitingInv
  <2>4. reviving # users + 1 /\ (run.live => prompted # users + 1)
    BY <1>h DEF RevivalInv, WaitingInv, DiskInv
  <2> QED BY <2>1, <2>2, <2>3, <2>4, DeliverKeeps
<1>2. CASE Steered
  <2>1. /\ mail # <<>> /\ mail' = Tail(mail) /\ prompted' = Head(mail) /\ run.live
        /\ run' = [Cleared(run) EXCEPT !.idle = "no"] /\ entries' = FinishSegment(entries, run, "complete")
        /\ UNCHANGED <<users, disk, finished, boot, reviving, orphans, otherCut>>
    BY <1>2 DEF Steered, Listening, bootVars
  <2>2. run'.live /\ run'.writer = 0
    <3>1. run' \in Runs /\ run'.live = run.live /\ run'.writer = 0
      BY <1>2, <1>h, ClearedShape DEF Steered
    <3> QED BY <2>1, <3>1
  <2>3. Len(entries') >= Len(entries)
    BY <1>h, <1>s, <2>1
  <2>4. /\ Head(mail) \in Waiting(mail) /\ Head(mail) \in Nat /\ Head(mail) \notin Waiting(mail')
        /\ Waiting(mail') \subseteq Waiting(mail)
        /\ \A i, j \in DOMAIN mail' : mail'[i] = mail'[j] => i = j
    BY <1>h, <1>m, <2>1, TakeOldest
  <2>5. /\ Head(mail) <= users' /\ users <= users' /\ (Accountable => Head(mail) \notin finished)
        /\ reviving' # 0 => reviving' # Head(mail)
    BY <1>h, <1>w, <2>1, <2>4
  <2> QED BY <1>h, <2>1, <2>2, <2>3, <2>4, <2>5, BeginsKeeps
<1>3. CASE Redispatch
  <2>1. /\ mail # <<>> /\ mail' = Tail(mail) /\ prompted' = Head(mail) /\ boot = "up"
        /\ run' = FreshRun /\ entries' = entries
        /\ UNCHANGED <<users, disk, finished, boot, reviving, orphans, otherCut>>
    BY <1>3 DEF Redispatch, Launch, bootVars
  <2>2. run'.live /\ run'.writer = 0 /\ Len(entries') >= Len(entries)
    BY <1>h, <2>1, FreshShape
  <2>4. /\ Head(mail) \in Waiting(mail) /\ Head(mail) \in Nat /\ Head(mail) \notin Waiting(mail')
        /\ Waiting(mail') \subseteq Waiting(mail)
        /\ \A i, j \in DOMAIN mail' : mail'[i] = mail'[j] => i = j
    BY <1>h, <1>m, <2>1, TakeOldest
  <2>5. /\ Head(mail) <= users' /\ users <= users' /\ (Accountable => Head(mail) \notin finished)
        /\ reviving' # 0 => reviving' # Head(mail)
    BY <1>h, <1>w, <2>1, <2>4
  <2> QED BY <2>1, <2>2, <2>4, <2>5, BeginsKeeps
<1>4. CASE SyncSegment
  <2>1. /\ run'.live /\ run'.idle = run.idle /\ run'.self = run.self /\ Len(entries') >= Len(entries)
        /\ run'.writer = IF run.writer = 0 THEN Len(entries) + 1 ELSE run.writer
    BY <1>4, <1>h, SyncShape
  <2>2. /\ UNCHANGED <<users, disk, prompted, finished, reviving, boot, orphans, otherCut, mail>> /\ run.live
    BY <1>4 DEF SyncSegment, bootVars, turnHist
  <2> QED BY <1>h, <2>1, <2>2, QuietKeeps DEF Quiet
<1>5. CASE \E t \in Tools : ToolResult(t) \/ ToolCall(t)
  <2>0. PICK t \in Tools : ToolResult(t) \/ ToolCall(t)
    BY <1>5
  <2>1. /\ UNCHANGED <<users, disk, prompted, finished, reviving, boot, orphans, otherCut, mail>> /\ run.live
        /\ entries' = entries /\ (run' = run \/ \E ps, seen : Fold(ps, seen))
    BY <2>0 DEF ToolResult, ToolCall, Emits, Listening, bootVars, turnHist
  <2> QED BY <2>1, <1>u, <1>f
<1>6. CASE TextDelta
  <2>1. /\ UNCHANGED <<users, disk, prompted, finished, reviving, boot, orphans, otherCut, mail>> /\ run.live
        /\ entries' = entries /\ (run' = run \/ \E ps, seen : Fold(ps, seen))
    BY <1>6 DEF TextDelta, Emits, Listening, bootVars, turnHist
  <2> QED BY <2>1, <1>u, <1>f
<1>7. CASE EngineEvent
  <2>1. /\ UNCHANGED <<users, disk, prompted, finished, reviving, boot, orphans, otherCut, mail>> /\ run.live
        /\ entries' = entries
    BY <1>7 DEF EngineEvent, bootVars, turnHist
  <2>2. Head(eng) \in Bridged
    BY <1>7 DEF EngineEvent, StreamShape
  <2>3. CASE Requested(Head(eng).q)
    BY <2>1, <2>2, <2>3, <1>r DEF Bridged
  <2>4. CASE run' = run
    BY <2>1, <2>4, <1>u
  <2>5. CASE run' = [run EXCEPT !.folded = Resolve(@, "input", Head(eng).q)]
    <3>1. run'.writer = run.writer /\ run'.live = run.live /\ run'.self = run.self /\ run'.idle = run.idle
      BY <1>h, <2>5 DEF Runs
    <3> QED BY <1>h, <2>1, <3>1, <1>q
  <2> QED BY <1>7, <2>3, <2>4, <2>5 DEF EngineEvent
<1>8. CASE \E q \in Questions : Ask(q) \/ Answer(q) \/ TwinRequest(q)
  <2>0. PICK q \in Questions : Ask(q) \/ Answer(q) \/ TwinRequest(q)
    BY <1>8
  <2>1. /\ UNCHANGED <<users, disk, prompted, finished, reviving, boot, orphans, otherCut, mail>> /\ run.live
        /\ entries' = entries /\ (run' = run \/ Requested(q))
    BY <2>0 DEF Ask, Answer, TwinRequest, Emits, Listening, bootVars, turnHist
  <2> QED BY <2>1, <1>u, <1>r
<1>9. CASE GateOpens \/ InterruptRun \/ LosesDone
  <2>1. /\ UNCHANGED <<users, disk, prompted, finished, reviving, boot, orphans, otherCut, mail>> /\ run.live
        /\ entries' = entries
    BY <1>9 DEF GateOpens, InterruptRun, LosesDone, bootVars, turnHist
  <2>2. run'.writer = run.writer /\ run'.live = run.live /\ run'.self = run.self
        /\ (run'.idle = "no" => run.idle = "no")
    BY <1>9, <1>h DEF GateOpens, InterruptRun, LosesDone, Runs
  <2> QED BY <1>h, <2>1, <2>2, <1>q
<1>10. CASE Quiesce
  <2>1. /\ UNCHANGED <<users, disk, prompted, finished, reviving, boot, orphans, otherCut, mail>> /\ run.live
        /\ entries' = FinishSegment(entries, run, "complete")
    BY <1>10 DEF Quiesce, Listening, bootVars, turnHist
  <2>2. run'.writer = 0 /\ run'.live = run.live /\ run'.idle # "no"
    BY <1>10, <1>h, ClearedShape DEF Quiesce, Parked
  <2>3. Len(entries') >= Len(entries)
    BY <1>h, <1>s, <2>1
  <2> QED BY <1>h, <2>1, <2>2, <2>3, <1>q
<1>11. CASE EndsParked
  <2>1. /\ UNCHANGED <<users, disk, prompted, finished, reviving, boot, orphans, otherCut>> /\ run.live
        /\ entries' = entries /\ mail' \in {mail, <<>>} /\ ~run'.live
    BY <1>11, NoRunShape DEF EndsParked, Listening, Orphaned, bootVars, turnHist
  <2> QED BY <1>h, <2>1, QuietKeeps DEF Quiet
<1>e. ASSUME NEW outcome \in {"completed", "errored", "interrupted"}, Finish(outcome), run.live
      PROVE  RevivalInv'
  <2> DEFINE ps == IF outcome = "errored" THEN Append(AllResolved(run.folded), Part("error", "error"))
                   ELSE AllResolved(run.folded)
             final == [run EXCEPT !.folded = ps]
             st == IF outcome = "interrupted" THEN "aborted" ELSE "complete"
  <2>1. ps \in Seq(Parts)
    <3>1. AllResolved(run.folded) \in Seq(Parts) /\ Part("error", "error") \in Parts
      BY <1>h, AllResolvedShape, PartShape
    <3> QED BY <3>1
  <2>2. entries' = FinishSegment(entries, final, st) /\ st \in {"complete", "aborted"}
    BY <1>e DEF Finish
  <2> HIDE DEF ps, st
  <2>3. final.folded = ps /\ final.writer = run.writer
    BY <1>h DEF Runs
  <2> HIDE DEF final
  <2>4. Len(entries') >= Len(entries)
    BY <2>1, <2>2, <2>3, <1>s
  <2>5. run'.live => run.live /\ run'.writer = 0 /\ run'.idle # "no"
    <3>1. CASE run' = NoRun
      BY <3>1, NoRunShape
    <3>2. CASE run' = Parked(run)
      BY <3>2, <1>h, <1>e, ClearedShape DEF Parked
    <3> QED BY <1>e, <3>1, <3>2 DEF Finish
  <2>6. /\ UNCHANGED <<users, disk, prompted, reviving, boot, orphans, otherCut>>
        /\ mail' \in {mail, <<>>}
        /\ finished' = IF outcome = "completed" THEN finished \cup {prompted} ELSE finished
    BY <1>e DEF Finish, bootVars, Orphaned
  <2>7. CASE outcome = "completed"
    BY <1>e, <2>4, <2>5, <2>6, <2>7, CompletesKeeps
  <2>8. CASE outcome # "completed"
    BY <1>e, <1>h, <2>4, <2>5, <2>6, <2>8, QuietKeeps DEF Quiet
  <2> QED BY <2>7, <2>8
<1>12. CASE Stops \/ Completes \/ Dies
  BY <1>12, <1>e DEF Stops, Completes, Dies, Listening
<1>13. CASE SaveSnapshot
  <2>1. /\ disk' = [entries |-> entries, users |-> users]
        /\ UNCHANGED <<entries, users, journal, run, mail, boot, reviving, finished, prompted, orphans, otherCut>>
    BY <1>13 DEF SaveSnapshot, runVars, bootVars, turnHist
  <2>2. DiskInv'
    <3>1. disk'.entries = entries /\ disk'.users = users
      BY <2>1
    <3>2. run.live => prompted <= users
      BY DEF RevivalInv, WaitingInv
    <3> QED BY <1>h, <2>1, <3>1, <3>2 DEF RevivalInv, DiskInv
  <2>3. WaitingInv'
    BY <2>1 DEF RevivalInv, WaitingInv
  <2>4. UnfinishedInv'
    BY <2>1 DEF RevivalInv, UnfinishedInv, Accountable, Stale
  <2> QED BY <2>2, <2>3, <2>4 DEF RevivalInv
<1>14. CASE Crash
  BY <1>14, CrashKeeps
<1>15. CASE RecoverScan
  <2>1. /\ boot = "scan" /\ UNCHANGED <<entries, users, disk, run, mail, reviving, finished, prompted, orphans, otherCut>>
        /\ \/ ~Stale /\ boot' = "up" /\ journal' = journal
           \/ /\ Stale /\ boot' \in {"stamp", "stampResume"} /\ journal' = "done"
              /\ boot' = "stampResume" => Streaming(entries) # {}
    BY <1>15 DEF RecoverScan, Fresh, JournalAppend, runVars, turnHist
  <2>2. ~run.live /\ reviving = 0 /\ mail = <<>>
    BY <2>1 DEF StreamShape, RevivalInv, WaitingInv
  <2>3. DiskInv'
    BY <2>1, <2>2 DEF RevivalInv, DiskInv
  <2>4. WaitingInv'
    BY <2>1, <2>2 DEF RevivalInv, WaitingInv
  <2>5. UnfinishedInv'
    BY <2>1, <2>2 DEF RevivalInv, UnfinishedInv, Accountable
  <2> QED BY <2>3, <2>4, <2>5 DEF RevivalInv
<1>16. CASE RecoverStamp
  <2>1. /\ boot \in {"stamp", "stampResume"} /\ boot' = "up" /\ reviving' = IF boot = "stampResume" THEN users ELSE 0
        /\ UNCHANGED <<users, disk, journal, run, mail, finished, prompted, orphans, otherCut>>
        /\ entries' = Stamped(entries)
    BY <1>16 DEF RecoverStamp, runVars, turnHist, Stamped
  <2>2. ~run.live /\ mail = <<>> /\ Waiting(mail) = {}
    BY <2>1 DEF StreamShape, RevivalInv, WaitingInv, Waiting
  <2>3. Len(entries') = Len(entries)
    BY <1>h, <2>1, StampShape
  <2>4. DiskInv'
    BY <2>1, <2>2, <2>3 DEF RevivalInv, DiskInv
  <2>5. WaitingInv'
    BY <1>h, <2>1, <2>2 DEF RevivalInv, WaitingInv
  <2>6. UnfinishedInv'
    BY <2>1, <2>2 DEF RevivalInv, UnfinishedInv, Accountable
  <2> QED BY <2>4, <2>5, <2>6 DEF RevivalInv
<1>17. CASE Revive
  <2>1. /\ reviving # 0 /\ reviving' = 0 /\ Deliver(reviving) /\ boot = "up"
        /\ UNCHANGED <<users, disk, finished, boot, orphans, otherCut, entries, journal>>
    BY <1>17 DEF Revive, StreamShape
  <2>2. /\ reviving <= users' /\ users <= users' /\ reviving \notin Waiting(mail)
        /\ run.live => reviving # prompted
    BY <1>h, <2>1 DEF RevivalInv, WaitingInv
  <2>3. Accountable => reviving \notin finished
    BY <2>1 DEF RevivalInv, UnfinishedInv
  <2> QED BY <1>h, <2>1, <2>2, <2>3, DeliverKeeps
<1>18. CASE UNCHANGED streamVars
  <2>1. UNCHANGED <<users, disk, prompted, finished, reviving, boot, orphans, otherCut, mail, entries, journal, run>>
    BY <1>18 DEF streamVars, runVars, bootVars, turnHist
  <2> QED BY <1>h, <2>1, <1>q
<1> QED BY <1>1, <1>2, <1>3, <1>4, <1>5, <1>6, <1>7, <1>8, <1>9, <1>10, <1>11, <1>12, <1>13,
           <1>14, <1>15, <1>16, <1>17, <1>18 DEF StreamNext, Loop, Recovery

\* recover_stale: however often the engine dies and wherever, a revival does not run a
\* message again whose turn completed, unless a crash lost the saved end of its entry or
\* cut short a turn the last message did not begin.
THEOREM RevivesOnlyUnfinished == StreamSpec => NeverRevivesFinished
<1>1. StreamSpec => []RevivalInv
  <2>1. StreamShape /\ StreamShape' /\ SegmentInv /\ RevivalInv /\ [StreamNext]_streamVars => RevivalInv'
    BY StepRevival
  <2> QED BY <2>1, ShapeAlways, SegmentAlways, InitRevival, PTL DEF StreamSpec
<1>2. RevivalInv => [RevivalStep]_streamVars
  BY DEF RevivalInv, UnfinishedInv, Accountable, RevivalStep
<1> QED BY <1>1, <1>2, PTL DEF NeverRevivesFinished
=============================================================================
