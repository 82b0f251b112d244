--------------------------- MODULE AcpTurnsProofs ---------------------------
(***************************************************************************)
(* Theorems about AcpTurns, for every kind of agent and every bound.        *)
(***************************************************************************)
EXTENDS AcpTurns, FiniteSetTheorems, TLAPS

Flags == [turn : BOOLEAN, done : BOOLEAN, doneAfter : BOOLEAN, content : BOOLEAN,
          steered : BOOLEAN, tools : BOOLEAN, open : BOOLEAN, interrupted : BOOLEAN,
          starve : {"no", "cost", "steer", "quiet"}, flush : BOOLEAN, claude : BOOLEAN]

-----------------------------------------------------------------------------
(* Boundaries.                                                             *)

BoundaryInv ==
    /\ loop \in Flags
    /\ phase \in {"setup", "main", "ended"}
    /\ phase # "ended" => ~loop.doneAfter
    /\ phase = "main" => (loop.turn <=> ~loop.done)
    /\ NoStrandedWorking
    /\ EndsWithDone
    /\ QueuedSteerHasBoundary

LEMMA EndCloses ==
    ASSUME NEW l \in Flags, NEW b, End(l, b),
           (IF l.interrupted THEN l.doneAfter ELSE l.done) => b = "done"
    PROVE  phase' = "ended" /\ boundary' = "done" /\ loop' \in Flags
BY DEF End, FinalBoundary, Flags

LEMMA StartOpens ==
    ASSUME NEW l \in Flags, NEW s, StartTurn(l, s), ~l.doneAfter
    PROVE  /\ loop' \in Flags /\ phase' = phase
           /\ loop'.turn /\ ~loop'.done /\ ~loop'.doneAfter
BY DEF StartTurn, NewTurn, Flags

LEMMA AfterDoneSettles ==
    ASSUME NEW l \in Flags, NEW q, AfterDone(l, q), phase = "main",
           ~l.turn, l.done, ~l.doneAfter
    PROVE  /\ loop' \in Flags /\ phase' \in {"main", "ended"}
           /\ phase' = "ended" => boundary' = "done"
           /\ phase' = "main" => /\ ~loop'.doneAfter /\ (loop'.turn <=> ~loop'.done)
                                 /\ ~loop'.turn => boundary' = "done" /\ queue' = <<>>
<1>1. CASE q # <<>>
  BY <1>1, StartOpens DEF AfterDone
<1>2. CASE q = <<>> /\ l.open
  BY <1>2 DEF AfterDone
<1>3. CASE q = <<>> /\ ~l.open
  BY <1>3, EndCloses DEF AfterDone
<1> QED BY <1>1, <1>2, <1>3

LEMMA InitBoundary == AcpInit => BoundaryInv
BY DEF AcpInit, BoundaryInv, Flags, NoStrandedWorking, EndsWithDone, QueuedSteerHasBoundary

LEMMA StepBoundary == BoundaryInv /\ [AcpNext]_acpVars => BoundaryInv'
<1> SUFFICES ASSUME BoundaryInv, [AcpNext]_acpVars PROVE BoundaryInv'
  OBVIOUS
<1> USE DEF BoundaryInv, NoStrandedWorking, EndsWithDone, QueuedSteerHasBoundary
<1>0. ASSUME UNCHANGED <<loopVars, late>> PROVE BoundaryInv'
  BY <1>0 DEF loopVars
<1>1. CASE SetupOk
  BY <1>1 DEF SetupOk, NewTurn, Flags, histVars
<1>2. CASE SetupFails
  BY <1>2 DEF SetupFails, histVars
<1>3. CASE TurnResponds
  <2> DEFINE l == [loop EXCEPT !.turn = FALSE, !.starve = "no", !.done = TRUE,
                               !.doneAfter = @ \/ loop.interrupted]
  <2>1. PICK out \in SettledCall :
          LET q == IF out = "no" THEN queue ELSE queue \o Redo(out) \o backlog IN
          IF loop.interrupted \/ reply \in {"err", "gone"}
            THEN End(l, Last(SettleEvents(out))) /\ queue' = q
            ELSE AfterDone(l, q)
    BY <1>3 DEF TurnResponds
  <2>2. /\ l \in Flags /\ ~l.turn /\ l.done
        /\ l.doneAfter = loop.interrupted /\ phase = "main" /\ gone' = gone /\ late' = late
        /\ l.interrupted = loop.interrupted
    BY <1>3 DEF TurnResponds, Flags
  <2>3. Last(SettleEvents(out)) = "done"
    BY DEF SettleEvents, Last
  <2> HIDE DEF l
  <2>4. CASE loop.interrupted \/ reply \in {"err", "gone"}
    <3>1. End(l, Last(SettleEvents(out)))
      BY <2>1, <2>4
    <3>2. phase' = "ended" /\ boundary' = "done" /\ loop' \in Flags
      BY <3>1, <2>2, <2>3, EndCloses
    <3> QED BY <3>2
  <2>5. CASE ~(loop.interrupted \/ reply \in {"err", "gone"})
    <3>1. PICK q : AfterDone(l, q)
      BY <2>1, <2>5
    <3> QED BY <3>1, <2>2, <2>5, AfterDoneSettles
  <2> QED BY <2>4, <2>5
<1>4. CASE ReadIncoming
  <2>1. PICK f : /\ loop' = IF ArmsSettle(f) THEN [loop EXCEPT !.starve = "cost"]
                            ELSE Tracked(loop, f)
                 /\ boundary' = IF f = "ended" /\ ~loop.turn /\ ~loop.interrupted THEN "done"
                                ELSE boundary
                 /\ UNCHANGED <<phase, gone, queue, late>>
    BY <1>4 DEF ReadIncoming
  <2>2. /\ loop' \in Flags /\ loop'.turn = loop.turn /\ loop'.done = loop.done
        /\ loop'.doneAfter = loop.doneAfter /\ loop'.flush = loop.flush
        /\ loop'.interrupted = loop.interrupted
    <3>1. CASE ArmsSettle(f)
      BY <2>1, <3>1 DEF Flags
    <3>2. CASE ~ArmsSettle(f)
      BY <2>1, <3>2 DEF Flags, Tracked
    <3> QED BY <3>1, <3>2
  <2> QED BY <2>1, <2>2, <1>4 DEF ReadIncoming
<1>5. CASE ReadEof
  <2>1. CASE loop.turn /\ reply = "ok"
    <3> DEFINE l == [loop EXCEPT !.done = TRUE, !.doneAfter = @ \/ loop.interrupted]
    <3>1. l \in Flags /\ End(l, "done") /\ gone' = gone
      BY <1>5, <2>1 DEF ReadEof, Flags
    <3> HIDE DEF l
    <3>2. phase' = "ended" /\ boundary' = "done" /\ loop' \in Flags
      BY <3>1, EndCloses
    <3> QED BY <3>1, <3>2
  <2>2. CASE ~(loop.turn /\ reply = "ok")
    <3>1. End(loop, boundary) /\ phase = "main" /\ gone' = gone
      BY <1>5, <2>2 DEF ReadEof
    <3>2. phase' = "ended" /\ boundary' = "done" /\ loop' \in Flags
      BY <3>1, EndCloses
    <3> QED BY <3>1, <3>2
  <2> QED BY <2>1, <2>2
<1>6. CASE SteeringAnswered
  <2> USE <1>6 DEF SteeringAnswered
  <2>1. CASE SteerAbandoned
    BY <2>1 DEF SteerAbandoned
  <2>2. CASE SteerInjected
    BY <2>2 DEF SteerInjected, Flags
  <2>3. CASE SteerInjectedLate
    BY <2>3 DEF SteerInjectedLate, Pump
  <2>4. CASE SteerRefused /\ loop.turn
    BY <2>4 DEF SteerRefused, Flags
  <2>5. CASE SteerRefused /\ ~loop.turn
    <3>1. StartTurn(loop, call) /\ gone' = gone
      BY <2>5 DEF SteerRefused
    <3> QED BY <3>1, StartOpens
  <2> QED BY <2>1, <2>2, <2>3, <2>4, <2>5
<1>7. CASE FlushExpires
  <2> DEFINE l == [loop EXCEPT !.flush = FALSE]
  <2>1. /\ l \in Flags /\ l.turn = loop.turn /\ l.done = loop.done
        /\ l.doneAfter = loop.doneAfter /\ l.interrupted = loop.interrupted
        /\ phase = "main" /\ ~loop.interrupted /\ UNCHANGED <<gone, late>>
    BY <1>7 DEF FlushExpires, Flags
  <2>2. CASE ~l.turn /\ queue # <<>>
    <3>1. StartTurn(l, Head(queue))
      BY <1>7, <2>2 DEF FlushExpires
    <3> HIDE DEF l
    <3> QED BY <3>1, <2>1, StartOpens
  <2>3. CASE ~(~l.turn /\ queue # <<>>) /\ ~l.turn /\ ~l.open
    <3>1. End(l, boundary)
      BY <1>7, <2>3 DEF FlushExpires
    <3> HIDE DEF l
    <3>2. phase' = "ended" /\ boundary' = "done" /\ loop' \in Flags
      BY <3>1, <2>1, <2>3, EndCloses
    <3> QED BY <3>2
  <2>4. CASE ~(~l.turn /\ queue # <<>>) /\ ~(~l.turn /\ ~l.open)
    <3>1. loop' = l /\ UNCHANGED <<phase, boundary, queue>>
      BY <1>7, <2>4 DEF FlushExpires
    <3> HIDE DEF l
    <3> QED BY <3>1, <2>1, <2>4
  <2> QED BY <2>2, <2>3, <2>4
<1>8. CASE QuietSettle
  BY <1>8 DEF QuietSettle, Flags, histVars
<1>9. CASE StarveExpires
  <2> DEFINE l == [loop EXCEPT !.starve = "no", !.turn = FALSE, !.done = TRUE]
  <2>1. /\ l \in Flags /\ ~l.turn /\ l.done /\ ~l.doneAfter /\ phase = "main"
        /\ AfterDone(l, queue) /\ gone' = gone
    BY <1>9 DEF StarveExpires, Flags
  <2> HIDE DEF l
  <2> QED BY <2>1, AfterDoneSettles
<1>10. CASE SteerArrives
  <2> USE <1>10 DEF SteerArrives
  <2>1. CASE SteerIdle(received + 1)
    <3>1. CASE StartTurn(loop, received + 1)
      BY <2>1, <3>1, StartOpens
    <3>2. CASE UNCHANGED <<loop, phase, boundary>> /\ loop.flush
      BY <3>2
    <3>3. CASE loop' = [loop EXCEPT !.flush = TRUE] /\ UNCHANGED <<phase, boundary>>
      BY <3>3 DEF Flags
    <3> QED BY <2>1, <3>1, <3>2, <3>3 DEF SteerIdle
  <2>2. CASE SteerMidTurn(received + 1)
    BY <2>2 DEF SteerMidTurn
  <2> QED BY <2>1, <2>2
<1>11. CASE MailboxCloses
  <2> DEFINE l == [loop EXCEPT !.open = FALSE]
  <2>1. /\ l \in Flags /\ l.turn = loop.turn /\ l.done = loop.done /\ l.flush = loop.flush
        /\ l.doneAfter = loop.doneAfter /\ l.interrupted = loop.interrupted
        /\ phase = "main" /\ ~loop.interrupted /\ UNCHANGED <<gone, late, queue>>
    BY <1>11 DEF MailboxCloses, Flags
  <2>2. CASE ~l.turn /\ queue = <<>>
    <3>1. End(l, boundary)
      BY <1>11, <2>2 DEF MailboxCloses
    <3> HIDE DEF l
    <3>2. phase' = "ended" /\ boundary' = "done" /\ loop' \in Flags
      BY <3>1, <2>1, <2>2, EndCloses
    <3> QED BY <3>2
  <2>3. CASE ~(~l.turn /\ queue = <<>>)
    <3>1. loop' = l /\ UNCHANGED <<phase, boundary>>
      BY <1>11, <2>3 DEF MailboxCloses
    <3> HIDE DEF l
    <3> QED BY <3>1, <2>1
  <2> QED BY <2>2, <2>3
<1>12. CASE Interrupt
  <2> DEFINE l == [loop EXCEPT !.interrupted = TRUE]
  <2>1. /\ l \in Flags /\ l.turn = loop.turn /\ l.done = loop.done /\ l.flush = loop.flush
        /\ l.doneAfter = loop.doneAfter /\ l.interrupted
        /\ phase = "main" /\ UNCHANGED <<gone, late, queue>>
    BY <1>12 DEF Interrupt, Flags
  <2>2. CASE l.turn
    <3>1. loop' = l /\ UNCHANGED <<phase, boundary>>
      BY <1>12, <2>2 DEF Interrupt
    <3> HIDE DEF l
    <3> QED BY <3>1, <2>1
  <2>3. CASE ~l.turn
    <3>1. End(l, boundary)
      BY <1>12, <2>3 DEF Interrupt
    <3> HIDE DEF l
    <3>2. phase' = "ended" /\ boundary' = "done" /\ loop' \in Flags
      BY <3>1, <2>1, EndCloses
    <3> QED BY <3>2
  <2> QED BY <2>2, <2>3
<1>13. CASE ConsumerGone
  BY <1>13 DEF ConsumerGone, Flags
<1>14. CASE AgentStep
  <2>1. UNCHANGED <<loopVars, late>>
    BY <1>14 DEF AgentStep, AgentContinues, AgentStreams, AgentAsks, AgentEnds,
       AgentCancelled, AgentAnswersSteer, AgentExits, UserAnswers, histVars
  <2> QED BY <2>1, <1>0
<1>15. CASE UNCHANGED acpVars
  BY <1>15, <1>0 DEF acpVars, histVars
<1> QED BY <1>1, <1>2, <1>3, <1>4, <1>5, <1>6, <1>7, <1>8, <1>9, <1>10, <1>11, <1>12, <1>13,
           <1>14, <1>15 DEF AcpNext, LoopStep

LEMMA BoundaryAlways == AcpSpec => []BoundaryInv
BY InitBoundary, StepBoundary, PTL DEF AcpSpec

\* run_session: between turns the last boundary the engine was sent is a Done,
\* never the Steered of an injection confirmed after its turn.
THEOREM NeverStrandsWorking == AcpSpec => []NoStrandedWorking
<1>1. BoundaryInv => NoStrandedWorking
  BY DEF BoundaryInv
<1> QED BY <1>1, BoundaryAlways, PTL

\* run_session: the event stream ends with a Done unless the engine hung up.
THEOREM StreamEndsWithDone == AcpSpec => []EndsWithDone
<1>1. BoundaryInv => EndsWithDone
  BY DEF BoundaryInv
<1> QED BY <1>1, BoundaryAlways, PTL

\* run_session: no queued steer waits for a boundary that will not come.
THEOREM QueuedSteersHaveBoundary == AcpSpec => []QueuedSteerHasBoundary
<1>1. BoundaryInv => QueuedSteerHasBoundary
  BY DEF BoundaryInv
<1> QED BY <1>1, BoundaryAlways, PTL

-----------------------------------------------------------------------------
(* Counting the places of a value in a sequence.                           *)

Places(s, x) == {i \in DOMAIN s : s[i] = x}

LEMMA PlacesFinite ==
    ASSUME NEW S, NEW s \in Seq(S), NEW x
    PROVE  /\ IsFiniteSet(Places(s, x)) /\ Count(s, x) = Cardinality(Places(s, x))
           /\ Count(s, x) \in Nat
<1>1. Len(s) \in Nat /\ DOMAIN s = 1..Len(s) /\ Places(s, x) \subseteq 1..Len(s)
  BY DEF Places
<1>2. IsFiniteSet(1..Len(s))
  BY <1>1, FS_Interval
<1>3. IsFiniteSet(Places(s, x))
  BY <1>1, <1>2, FS_Subset
<1>4. Count(s, x) = Cardinality(Places(s, x))
  BY DEF Count, Places
<1> QED BY <1>3, <1>4, FS_CardinalityType

LEMMA CountEmpty == ASSUME NEW x PROVE Count(<<>>, x) = 0
BY FS_EmptySet DEF Count

LEMMA CountSome ==
    ASSUME NEW S, NEW s \in Seq(S), NEW i \in DOMAIN s
    PROVE  Count(s, s[i]) > 0
<1>1. i \in Places(s, s[i])
  BY DEF Places
<1>2. IsFiniteSet(Places(s, s[i])) /\ Count(s, s[i]) = Cardinality(Places(s, s[i]))
  BY PlacesFinite
<1>3. Cardinality(Places(s, s[i])) # 0
  BY <1>1, <1>2, FS_EmptySet
<1> QED BY <1>2, <1>3, PlacesFinite

LEMMA CountAppend ==
    ASSUME NEW S, NEW s \in Seq(S), NEW y \in S, NEW x
    PROVE  Count(Append(s, y), x) = Count(s, x) + (IF y = x THEN 1 ELSE 0)
<1> DEFINE t == Append(s, y)
<1>1. t \in Seq(S) /\ Len(t) = Len(s) + 1 /\ Len(s) \in Nat
  OBVIOUS
<1>2. \A i \in 1..Len(s) : t[i] = s[i]
  OBVIOUS
<1>3. t[Len(s) + 1] = y
  OBVIOUS
<1>4. Places(t, x) = Places(s, x) \cup (IF y = x THEN {Len(s) + 1} ELSE {})
  <2>1. \A i : i \in DOMAIN t <=> i \in DOMAIN s \/ i = Len(s) + 1
    BY <1>1
  <2> QED BY <2>1, <1>2, <1>3 DEF Places
<1>5. Len(s) + 1 \notin Places(s, x)
  BY <1>1 DEF Places
<1>6. IsFiniteSet(Places(s, x)) /\ Count(s, x) = Cardinality(Places(s, x)) /\ Count(s, x) \in Nat
  BY PlacesFinite
<1>7. Count(t, x) = Cardinality(Places(t, x))
  BY <1>1, PlacesFinite
<1> HIDE DEF t
<1>8. CASE y = x
  <2>1. Places(t, x) = Places(s, x) \cup {Len(s) + 1}
    BY <1>4, <1>8
  <2>2. Cardinality(Places(s, x) \cup {Len(s) + 1}) = Cardinality(Places(s, x)) + 1
    BY <1>5, <1>6, FS_AddElement
  <2> QED BY <2>1, <2>2, <1>6, <1>7, <1>8 DEF t
<1>9. CASE y # x
  <2>1. Places(t, x) = Places(s, x)
    BY <1>4, <1>9
  <2> QED BY <2>1, <1>6, <1>7, <1>9 DEF t
<1> QED BY <1>8, <1>9

LEMMA CountConcat ==
    ASSUME NEW S, NEW s \in Seq(S), NEW t \in Seq(S), NEW x
    PROVE  Count(s \o t, x) = Count(s, x) + Count(t, x)
<1> DEFINE n == Len(s)
           shift == [i \in Places(t, x) |-> n + i]
           moved == {n + i : i \in Places(t, x)}
<1>1. /\ s \o t \in Seq(S) /\ Len(s \o t) = n + Len(t) /\ n \in Nat /\ Len(t) \in Nat
      /\ DOMAIN s = 1..n /\ DOMAIN t = 1..Len(t) /\ DOMAIN (s \o t) = 1..(n + Len(t))
  OBVIOUS
<1>2. /\ \A i \in 1..n : (s \o t)[i] = s[i]
      /\ \A i \in 1..Len(t) : (s \o t)[n + i] = t[i]
  OBVIOUS
<1>3. Places(s \o t, x) = Places(s, x) \cup moved
  <2>1. ASSUME NEW i \in Places(s \o t, x) PROVE i \in Places(s, x) \cup moved
    <3>1. CASE i \in 1..n
      BY <3>1, <1>1, <1>2, <2>1 DEF Places
    <3>2. CASE i \notin 1..n
      <4>1. i - n \in 1..Len(t) /\ i = n + (i - n)
        BY <3>2, <1>1, <2>1 DEF Places
      <4>2. t[i - n] = x
        BY <4>1, <1>2, <2>1 DEF Places
      <4> QED BY <4>1, <4>2, <1>1 DEF Places
    <3> QED BY <3>1, <3>2
  <2>2. ASSUME NEW i \in Places(s, x) PROVE i \in Places(s \o t, x)
    BY <1>1, <1>2 DEF Places
  <2>3. ASSUME NEW i \in Places(t, x) PROVE n + i \in Places(s \o t, x)
    BY <1>1, <1>2 DEF Places
  <2> QED BY <2>1, <2>2, <2>3
<1>4. Places(s, x) \cap moved = {}
  BY <1>1 DEF Places
<1>5. shift \in Bijection(Places(t, x), moved)
  <2>1. \A i \in Places(t, x) : i \in Nat
    BY <1>1 DEF Places
  <2>2. shift \in [Places(t, x) -> moved]
    OBVIOUS
  <2>3. \A i, j \in Places(t, x) : shift[i] = shift[j] => i = j
    BY <2>1, <1>1
  <2>4. \A m \in moved : \E i \in Places(t, x) : shift[i] = m
    OBVIOUS
  <2> HIDE DEF shift, moved
  <2> QED BY <2>2, <2>3, <2>4 DEF Bijection, Injection, Surjection, IsInjective
<1>6. /\ IsFiniteSet(Places(s, x)) /\ IsFiniteSet(Places(t, x))
      /\ Count(s, x) = Cardinality(Places(s, x)) /\ Count(t, x) = Cardinality(Places(t, x))
      /\ Count(s, x) \in Nat /\ Count(t, x) \in Nat
      /\ Count(s \o t, x) = Cardinality(Places(s \o t, x))
  BY <1>1, PlacesFinite
<1> HIDE DEF moved, shift, n
<1>7. IsFiniteSet(moved) /\ Cardinality(moved) = Cardinality(Places(t, x))
  BY <1>5, <1>6, FS_Bijection DEF ExistsBijection
<1>8. Cardinality(Places(s, x) \cup moved) =
        Cardinality(Places(s, x)) + Cardinality(moved) - Cardinality(Places(s, x) \cap moved)
  BY <1>6, <1>7, FS_Union
<1>9. Cardinality(Places(s, x) \cap moved) = 0
  BY <1>4, FS_EmptySet
<1> QED BY <1>3, <1>6, <1>7, <1>8, <1>9

LEMMA CountTail ==
    ASSUME NEW S, NEW s \in Seq(S), s # <<>>, NEW x
    PROVE  Count(s, x) = Count(Tail(s), x) + (IF Head(s) = x THEN 1 ELSE 0)
<1>1. /\ Head(s) \in S /\ Tail(s) \in Seq(S) /\ <<Head(s)>> \in Seq(S)
      /\ Len(s) \in Nat \ {0} /\ Len(Tail(s)) = Len(s) - 1
      /\ \A i \in 1..Len(Tail(s)) : Tail(s)[i] = s[i + 1]
  OBVIOUS
<1>2. Count(<<Head(s)>>, x) = IF Head(s) = x THEN 1 ELSE 0
  <2>1. Places(<<Head(s)>>, x) = IF Head(s) = x THEN {1} ELSE {}
    BY DEF Places
  <2>2. Cardinality({1}) = 1 /\ Cardinality({}) = 0
    BY FS_EmptySet, FS_Singleton
  <2>3. Count(<<Head(s)>>, x) = Cardinality(Places(<<Head(s)>>, x))
    BY <1>1, PlacesFinite
  <2> QED BY <2>1, <2>2, <2>3
<1>5. s = <<Head(s)>> \o Tail(s)
  <2> DEFINE u == <<Head(s)>> \o Tail(s)
  <2>1. u \in Seq(S) /\ Len(u) = Len(s)
    BY <1>1
  <2>2. ASSUME NEW i \in 1..Len(s) PROVE u[i] = s[i]
    <3>1. CASE i = 1
      BY <3>1, <1>1
    <3>2. CASE i # 1
      <4>1. i - 1 \in 1..Len(Tail(s)) /\ i = 1 + (i - 1)
        BY <3>2, <1>1
      <4>2. u[i] = Tail(s)[i - 1]
        BY <4>1, <1>1
      <4> QED BY <4>1, <4>2, <1>1
    <3> QED BY <3>1, <3>2
  <2> HIDE DEF u
  <2>3. s = u
    BY <2>1, <2>2
  <2> QED BY <2>3 DEF u
<1>3. Count(s, x) = Count(<<Head(s)>>, x) + Count(Tail(s), x)
  <2>1. \A a, b \in Seq(S) : Count(a \o b, x) = Count(a, x) + Count(b, x)
    BY CountConcat
  <2>2. Count(<<Head(s)>> \o Tail(s), x) = Count(<<Head(s)>>, x) + Count(Tail(s), x)
    BY <1>1, <2>1
  <2> QED BY <1>5, <2>2, Zenon
<1>4. Count(Tail(s), x) \in Nat
  BY <1>1, PlacesFinite
<1> QED BY <1>2, <1>3, <1>4

-----------------------------------------------------------------------------
(* Steers.                                                                 *)

Answers == {"none", "injected", "promptRequired", "noRunningTurn", "err"}

\* The sessions SteerReachesAgentOnce is about, from their first step on.
Sound == phase # "ended" /\ ~loop.interrupted /\ ~eof /\ ~flooded

SteerTypes ==
    /\ queue \in Seq(Steers) /\ backlog \in Seq(Steers)
    /\ call \in 0..MaxSteers /\ received \in 0..MaxSteers
    /\ delivered \in [Steers -> Nat]
    /\ answer \in Answers /\ (call = 0 => answer = "none")

\* A steer not yet received is nowhere; one that was is in one place.
SteerInv ==
    /\ SteerTypes
    /\ Sound => \A s \in Steers : delivered[s] + Held(s) = IF s <= received THEN 1 ELSE 0

\* Where a steer waits, given the queue, the backlog, the call and its answer.
HeldIn(q, b, c, a, s) ==
    Count(q, s) + Count(b, s) + (IF c = s /\ a # "injected" THEN 1 ELSE 0)

LEMMA CountOne == ASSUME NEW c \in Steers, NEW s
                  PROVE <<c>> \in Seq(Steers) /\ Count(<<c>>, s) = IF c = s THEN 1 ELSE 0
<1>1. <<c>> \in Seq(Steers) /\ <<c>> # <<>> /\ Head(<<c>>) = c /\ Tail(<<c>>) = <<>>
  OBVIOUS
<1>2. Count(<<c>>, s) = Count(Tail(<<c>>), s) + (IF Head(<<c>>) = s THEN 1 ELSE 0)
  BY <1>1, CountTail
<1> QED BY <1>1, <1>2, CountEmpty

\* The steer that becomes the next turn leaves the queue and reaches the agent.
LEMMA StartMoves ==
    ASSUME SteerTypes, NEW l, NEW s \in Steers, StartTurn(l, s)
    PROVE  /\ delivered' \in [Steers -> Nat]
           /\ ~eof => \A x \in Steers : delivered'[x] = delivered[x] + (IF x = s THEN 1 ELSE 0)
BY DEF StartTurn, SendPrompt, SteerTypes

LEMMA AfterDoneMoves ==
    ASSUME SteerTypes, NEW l, NEW q \in Seq(Steers), AfterDone(l, q)
    PROVE  /\ delivered' \in [Steers -> Nat] /\ queue' \in Seq(Steers)
           /\ ~eof => \A x \in Steers :
                delivered'[x] + Count(queue', x) = delivered[x] + Count(q, x)
<1>1. CASE q # <<>>
  <2>1. /\ StartTurn(l, Head(q)) /\ queue' = Tail(q) /\ Head(q) \in Steers
        /\ Tail(q) \in Seq(Steers)
    BY <1>1 DEF AfterDone
  <2>2. \A x : Count(q, x) = Count(Tail(q), x) + (IF Head(q) = x THEN 1 ELSE 0)
    BY <1>1, CountTail
  <2>3. \A x : Count(Tail(q), x) \in Nat
    BY <2>1, PlacesFinite
  <2>4. /\ delivered' \in [Steers -> Nat]
        /\ ~eof => \A x \in Steers :
             delivered'[x] = delivered[x] + (IF x = Head(q) THEN 1 ELSE 0)
    BY <2>1, StartMoves
  <2>5. ASSUME ~eof, NEW x \in Steers
        PROVE  delivered'[x] + Count(queue', x) = delivered[x] + Count(q, x)
    <3>1. delivered[x] \in Nat
      BY DEF SteerTypes
    <3>2. Count(queue', x) = Count(Tail(q), x)
      BY <2>1
    <3> QED BY <2>2, <2>3, <2>4, <2>5, <3>1, <3>2
  <2> QED BY <2>1, <2>4, <2>5
<1>2. CASE q = <<>>
  <2>1. queue' = q /\ delivered' = delivered
    BY <1>2 DEF AfterDone, End
  <2> QED BY <2>1 DEF SteerTypes
<1> QED BY <1>1, <1>2

\* After an answer the backlog's first steer is the next call, or all of it is
\* queued.
LEMMA PumpMoves ==
    ASSUME SteerTypes, NEW live \in BOOLEAN, NEW q \in Seq(Steers), Pump(live, q),
           answer' = "none"
    PROVE  /\ queue' \in Seq(Steers) /\ backlog' \in Seq(Steers) /\ call' \in 0..MaxSteers
           /\ \A s \in Steers : HeldIn(queue', backlog', call', answer', s)
                                  = Count(q, s) + Count(backlog, s)
<1> USE AcpBounds DEF SteerTypes, Steers
<1>0. \A s : Count(q, s) \in Nat /\ Count(backlog, s) \in Nat /\ Count(<<>>, s) = 0
  BY PlacesFinite, CountEmpty
<1>1. CASE backlog = <<>>
  <2>1. call' = 0 /\ queue' = q /\ backlog' = backlog
    BY <1>1 DEF Pump
  <2> QED BY <2>1, <1>0 DEF HeldIn
<1>2. CASE backlog # <<>> /\ live
  <2>1. /\ call' = Head(backlog) /\ backlog' = Tail(backlog) /\ queue' = q
        /\ Head(backlog) \in Steers /\ Tail(backlog) \in Seq(Steers)
    BY <1>2 DEF Pump
  <2>2. \A s : Count(backlog, s) = Count(Tail(backlog), s) + (IF Head(backlog) = s THEN 1 ELSE 0)
    BY <1>2, CountTail
  <2>3. \A s : Count(Tail(backlog), s) \in Nat
    BY <2>1, PlacesFinite
  <2>4. ASSUME NEW s \in Steers
        PROVE  HeldIn(queue', backlog', call', answer', s) = Count(q, s) + Count(backlog, s)
    <3>1. HeldIn(queue', backlog', call', answer', s)
            = Count(q, s) + Count(Tail(backlog), s) + (IF Head(backlog) = s THEN 1 ELSE 0)
      BY <2>1 DEF HeldIn
    <3> QED BY <3>1, <2>2, <2>3, <1>0
  <2> QED BY <2>1, <2>4
<1>3. CASE backlog # <<>> /\ ~live
  <2>1. /\ call' = 0 /\ backlog' = <<>> /\ queue' = q \o backlog /\ q \o backlog \in Seq(Steers)
    BY <1>3 DEF Pump
  <2>2. \A s : Count(q \o backlog, s) = Count(q, s) + Count(backlog, s)
    BY CountConcat
  <2> QED BY <2>1, <2>2, <1>0 DEF HeldIn
<1> QED BY <1>1, <1>2, <1>3

LEMMA InitSteer == AcpInit => SteerInv
<1> SUFFICES ASSUME AcpInit PROVE SteerInv
  OBVIOUS
<1>1. SteerTypes
  BY AcpBounds DEF AcpInit, SteerTypes, Steers, Answers
<1>2. \A s \in Steers : Held(s) = 0 /\ delivered[s] = 0 /\ ~(s <= received)
  BY CountEmpty, AcpBounds DEF AcpInit, Held, Steers
<1> QED BY <1>1, <1>2 DEF SteerInv

\* A session once unsound stays so: nothing is taken back.
LEMMA SoundBefore == ASSUME BoundaryInv, AcpNext PROVE Sound' => Sound
<1> SUFFICES ASSUME Sound' PROVE Sound
  OBVIOUS
<1> USE DEF Sound, BoundaryInv
<1>0. ASSUME UNCHANGED <<phase, loop>>, eof => eof', flooded => flooded' PROVE Sound
  BY <1>0
<1>1. CASE SetupOk
  BY <1>1 DEF SetupOk, NewTurn, Flags, histVars
<1>2. CASE SetupFails
  BY <1>2 DEF SetupFails, histVars
<1>3. CASE TurnResponds
  <2>1. phase = "main" /\ eof' = eof /\ (flooded => flooded')
    BY <1>3 DEF TurnResponds
  <2>2. CASE loop.interrupted
    <3>1. phase' = "ended"
      BY <1>3, <2>2 DEF TurnResponds, End
    <3> QED BY <3>1
  <2>3. CASE ~loop.interrupted
    BY <2>1, <2>3
  <2> QED BY <2>2, <2>3
<1>4. CASE ReadIncoming
  <2>1. loop'.interrupted = loop.interrupted
    BY <1>4 DEF ReadIncoming, Flags, Tracked
  <2> QED BY <1>4, <2>1 DEF ReadIncoming
<1>5. CASE ReadEof
  BY <1>5 DEF ReadEof, End
<1>6. CASE SteeringAnswered
  <2>1. phase = "main" /\ UNCHANGED <<eof, flooded>>
    BY <1>6 DEF SteeringAnswered
  <2>2. CASE SteerAbandoned
    BY <2>1, <2>2 DEF SteerAbandoned
  <2>3. CASE ~SteerAbandoned
    <3>1. SteerInjected \/ SteerInjectedLate \/ SteerRefused
      BY <1>6, <2>3 DEF SteeringAnswered
    <3>2. ~loop.interrupted
      BY <3>1 DEF SteerInjected, SteerInjectedLate, SteerRefused
    <3> QED BY <2>1, <3>2
  <2> QED BY <2>2, <2>3
<1>7. CASE FlushExpires
  BY <1>7 DEF FlushExpires
<1>8. CASE QuietSettle
  BY <1>8 DEF QuietSettle, agentVars, histVars
<1>9. CASE StarveExpires
  BY <1>9 DEF StarveExpires
<1>10. CASE SteerArrives
  BY <1>10 DEF SteerArrives
<1>11. CASE MailboxCloses
  BY <1>11 DEF MailboxCloses
<1>12. CASE Interrupt
  BY <1>12 DEF Interrupt
<1>13. CASE ConsumerGone
  BY <1>13 DEF ConsumerGone
<1>14. CASE AgentStep
  <2>1. UNCHANGED <<phase, loop, flooded>> /\ (eof => eof')
    BY <1>14 DEF AgentStep, AgentContinues, AgentStreams, AgentAsks, AgentEnds, AgentCancelled,
       AgentAnswersSteer, AgentExits, UserAnswers, histVars, loopVars
  <2> QED BY <2>1, <1>0
<1> QED BY <1>1, <1>2, <1>3, <1>4, <1>5, <1>6, <1>7, <1>8, <1>9, <1>10, <1>11, <1>12, <1>13,
           <1>14 DEF AcpNext, LoopStep

LEMMA HeldIs == \A s : Held(s) = HeldIn(queue, backlog, call, answer, s)
BY DEF Held, HeldIn

LEMMA CountsNat ==
    ASSUME SteerTypes
    PROVE  \A s : Count(queue, s) \in Nat /\ Count(backlog, s) \in Nat
BY PlacesFinite DEF SteerTypes

\* A step that takes no steer from the mailbox only moves the ones it has.
LEMMA Moving ==
    ASSUME SteerInv, SteerTypes', received' = received, Sound' => Sound,
           Sound' => \A s \in Steers :
             delivered'[s] + HeldIn(queue', backlog', call', answer', s)
               = delivered[s] + HeldIn(queue, backlog, call, answer, s)
    PROVE  SteerInv'
<1>1. \A s : Held(s)' = HeldIn(queue', backlog', call', answer', s)
  BY DEF Held, HeldIn
<1> QED BY <1>1, HeldIs DEF SteerInv

\* A boundary's steer is the queue's first, and nothing else moves.
LEMMA Settled ==
    ASSUME SteerInv, UNCHANGED <<call, backlog, received, answer>>, Sound' => Sound,
           delivered' \in [Steers -> Nat], queue' \in Seq(Steers),
           ~eof => \A x \in Steers :
             delivered'[x] + Count(queue', x) = delivered[x] + Count(queue, x)
    PROVE  SteerInv'
<1>1. SteerTypes /\ SteerTypes'
  BY DEF SteerInv, SteerTypes
<1>2. ASSUME Sound', NEW s \in Steers
      PROVE  delivered'[s] + HeldIn(queue', backlog', call', answer', s)
               = delivered[s] + HeldIn(queue, backlog, call, answer, s)
  <2>1. ~eof /\ Count(queue, s) \in Nat /\ Count(backlog, s) \in Nat
    BY <1>1, <1>2, CountsNat DEF Sound
  <2>2. Count(queue', s) \in Nat /\ delivered'[s] \in Nat /\ delivered[s] \in Nat
    BY <1>1, PlacesFinite DEF SteerTypes
  <2>3. delivered'[s] + Count(queue', s) = delivered[s] + Count(queue, s)
    BY <2>1
  <2> DEFINE c == IF call = s /\ answer # "injected" THEN 1 ELSE 0
  <2>4. /\ HeldIn(queue', backlog', call', answer', s) = Count(queue', s) + Count(backlog, s) + c
        /\ HeldIn(queue, backlog, call, answer, s) = Count(queue, s) + Count(backlog, s) + c
        /\ c \in Nat
    BY DEF HeldIn
  <2> HIDE DEF c
  <2>5. PICK a, b, x, y, e \in Nat :
          /\ a = delivered'[s] /\ b = Count(queue', s)
          /\ x = delivered[s] /\ y = Count(queue, s) /\ e = Count(backlog, s)
    BY <2>1, <2>2
  <2>6. a + b = x + y
    BY <2>3, <2>5
  <2>7. a + (b + e + c) = x + (y + e + c)
    BY <2>4, <2>6
  <2> QED BY <2>4, <2>5, <2>7
<1> QED BY <1>1, <1>2, Moving

LEMMA StepSteer == BoundaryInv /\ SteerInv /\ [AcpNext]_acpVars => SteerInv'
<1> SUFFICES ASSUME BoundaryInv, SteerInv, [AcpNext]_acpVars PROVE SteerInv'
  OBVIOUS
<1> SteerTypes /\ loop \in Flags
  BY DEF SteerInv, BoundaryInv
<1> USE AcpBounds
<1>a. CASE UNCHANGED acpVars
  BY <1>a DEF acpVars, loopVars, agentVars, histVars, SteerInv, SteerTypes, Sound, Held
<1>b. CASE AcpNext
  <2>0. Sound' => Sound
    BY <1>b, SoundBefore
  <2>n. \A s : Count(queue, s) \in Nat /\ Count(backlog, s) \in Nat
    BY CountsNat
  <2>d. \A s \in Steers : delivered[s] \in Nat
    BY DEF SteerTypes
  <2>u. ASSUME UNCHANGED <<queue, backlog, call, answer, received, delivered>> PROVE SteerInv'
    BY <2>u, <2>0, Moving DEF SteerTypes
  <2>1. CASE SetupOk
    BY <2>1, <2>u DEF SetupOk, histVars
  <2>2. CASE SetupFails
    BY <2>2, <2>u DEF SetupFails, agentVars, histVars
  <2>3. CASE TurnResponds
    <3> DEFINE l == [loop EXCEPT !.turn = FALSE, !.starve = "no", !.done = TRUE,
                                 !.doneAfter = @ \/ loop.interrupted]
               q(out) == IF out = "no" THEN queue ELSE queue \o Redo(out) \o backlog
    <3>1. PICK out \in SettledCall :
          /\ IF loop.interrupted \/ reply \in {"err", "gone"}
               THEN End(l, Last(SettleEvents(out))) /\ queue' = q(out)
               ELSE AfterDone(l, q(out))
          /\ flooded' = (flooded \/ (out = "timeout" /\ answer = "injected"))
          /\ backlog' = IF out = "no" THEN backlog ELSE <<>>
      BY <2>3 DEF TurnResponds
    <3>2. /\ call' = 0 /\ answer' = "none" /\ received' = received /\ eof' = eof
      BY <2>3 DEF TurnResponds
    <3>3. /\ out = "no" <=> call = 0
          /\ out = "injected" => answer = "injected"
          /\ out # "injected" /\ answer = "injected" /\ call # 0 => out = "timeout"
      <4>1. answer \in Answers /\ (call = 0 => answer = "none") /\ out \in SettledCall
        BY <3>1 DEF SteerTypes
      <4>2. CASE call = 0
        BY <4>1, <4>2 DEF SettledCall
      <4>3. CASE call # 0 /\ answer = "none"
        BY <4>1, <4>3 DEF SettledCall
      <4>4. CASE call # 0 /\ answer # "none"
        BY <4>1, <4>4 DEF SettledCall, Answers
      <4> QED BY <4>2, <4>3, <4>4
    <3> HIDE DEF l
    <3>4. call # 0 => call \in Steers
      BY DEF SteerTypes, Steers
    <3>5. /\ Redo(out) \in Seq(Steers) /\ q(out) \in Seq(Steers)
          /\ \A s : Count(q(out), s) = IF out = "no" THEN Count(queue, s)
                      ELSE Count(queue, s) + Count(Redo(out), s) + Count(backlog, s)
      <4>1. CASE out = "no"
        BY <4>1, <3>3 DEF Redo, SteerTypes
      <4>2. CASE out # "no"
        <5>1. Redo(out) \in Seq(Steers)
          BY <4>2, <3>3, <3>4 DEF Redo
        <5>2. \A s : \A a, b \in Seq(Steers) : Count(a \o b, s) = Count(a, s) + Count(b, s)
          BY CountConcat
        <5>3. /\ queue \in Seq(Steers) /\ backlog \in Seq(Steers)
              /\ queue \o Redo(out) \in Seq(Steers)
              /\ (queue \o Redo(out)) \o backlog \in Seq(Steers)
          BY <5>1 DEF SteerTypes
        <5>4. \A s : Count((queue \o Redo(out)) \o backlog, s)
                       = (Count(queue, s) + Count(Redo(out), s)) + Count(backlog, s)
          BY <5>1, <5>2, <5>3
        <5> QED BY <5>1, <5>3, <5>4, <4>2
      <4> QED BY <4>1, <4>2
    <3>6. queue' \in Seq(Steers) /\ delivered' \in [Steers -> Nat]
      <4>1. CASE loop.interrupted \/ reply \in {"err", "gone"}
        BY <3>1, <3>5, <4>1 DEF End, SteerTypes
      <4>2. CASE ~(loop.interrupted \/ reply \in {"err", "gone"})
        BY <3>1, <3>5, <4>2, AfterDoneMoves
      <4> QED BY <4>1, <4>2
    <3>7. SteerTypes'
      BY <3>1, <3>2, <3>6 DEF SteerTypes, Answers
    <3>8. ASSUME Sound', NEW s \in Steers
          PROVE  delivered'[s] + HeldIn(queue', backlog', call', answer', s)
                   = delivered[s] + HeldIn(queue, backlog, call, answer, s)
      <4>1. ~eof /\ ~loop.interrupted /\ ~(out = "timeout" /\ answer = "injected")
        BY <3>8, <2>0, <3>1 DEF Sound
      <4>2. ~(reply \in {"err", "gone"})
        BY <3>8, <3>1 DEF Sound, End
      <4>3. delivered'[s] + Count(queue', s) = delivered[s] + Count(q(out), s)
        BY <3>1, <3>5, <4>1, <4>2, AfterDoneMoves
      <4>4. Count(queue', s) \in Nat /\ delivered'[s] \in Nat
        BY <3>6, PlacesFinite
      <4>5. Count(Redo(out), s) = IF out \in {"no", "injected"} THEN 0
                                  ELSE IF call = s THEN 1 ELSE 0
        <5>1. CASE out \in {"no", "injected"}
          BY <5>1, CountEmpty DEF Redo
        <5>2. CASE out \notin {"no", "injected"}
          <6>1. Redo(out) = <<call>> /\ call \in Steers
            BY <5>2, <4>1, <3>3, <3>4 DEF Redo
          <6>2. \A c \in Steers : Count(<<c>>, s) = IF c = s THEN 1 ELSE 0
            BY CountOne
          <6> QED BY <6>1, <6>2, <5>2
        <5> QED BY <5>1, <5>2
      <4>6. HeldIn(queue', backlog', call', answer', s) = Count(queue', s) + Count(backlog', s)
        <5>1. ~(call' = s) /\ Count(queue', s) \in Nat /\ Count(backlog', s) \in Nat
          BY <3>2, <3>7, PlacesFinite DEF Steers, SteerTypes
        <5> QED BY <5>1 DEF HeldIn
      <4>7. CASE out = "no"
        <5>1. Count(q(out), s) = Count(queue, s) /\ Count(backlog', s) = Count(backlog, s)
          BY <4>7, <3>5, <3>1
        <5>2. HeldIn(queue, backlog, call, answer, s) = Count(queue, s) + Count(backlog, s)
          BY <4>7, <3>3, <2>n DEF HeldIn, Steers
        <5> QED BY <5>1, <5>2, <4>3, <4>4, <4>6, <2>n, <2>d
      <4>8. CASE out # "no"
        <5>1. /\ Count(q(out), s) = Count(queue, s) + Count(Redo(out), s) + Count(backlog, s)
              /\ Count(backlog', s) = 0
          BY <4>8, <3>5, <3>1, CountEmpty
        <5>2. Count(Redo(out), s) = IF call = s /\ answer # "injected" THEN 1 ELSE 0
          BY <4>8, <4>5, <4>1, <3>3
        <5>3. HeldIn(queue, backlog, call, answer, s)
                = Count(queue, s) + Count(backlog, s) + Count(Redo(out), s)
          BY <5>2 DEF HeldIn
        <5>4. Count(Redo(out), s) \in Nat
          BY <5>2
        <5> HIDE DEF q
        <5> QED BY <5>1, <5>3, <5>4, <4>3, <4>4, <4>6, <2>n, <2>d
      <4> QED BY <4>7, <4>8
    <3> QED BY <3>2, <3>7, <3>8, <2>0, Moving
  <2>4. CASE ReadIncoming
    BY <2>4, <2>u DEF ReadIncoming
  <2>5. CASE ReadEof
    BY <2>5, <2>u DEF ReadEof, End
  <2>6. CASE SteeringAnswered
    <3>0. /\ call \in Steers /\ answer # "none" /\ answer' = "none" /\ received' = received
      BY <2>6 DEF SteeringAnswered, SteerTypes, Steers
    <3>1. CASE SteerAbandoned
      <4>1. Pump(FALSE, queue) /\ delivered' = delivered
        BY <3>1 DEF SteerAbandoned
      <4>2. SteerTypes'
        BY <4>1, <3>0, PumpMoves DEF SteerTypes, Answers
      <4>3. ~Sound
        BY <3>1 DEF SteerAbandoned, Sound
      <4> QED BY <4>2, <4>3, <3>0, <2>0, Moving
    <3>2. ASSUME answer = "injected", NEW live \in BOOLEAN, Pump(live, queue), delivered' = delivered
          PROVE  SteerInv'
      <4>1. /\ queue' \in Seq(Steers) /\ backlog' \in Seq(Steers) /\ call' \in 0..MaxSteers
            /\ \A s \in Steers : HeldIn(queue', backlog', call', answer', s)
                                   = Count(queue, s) + Count(backlog, s)
        <5>1. queue \in Seq(Steers)
          BY DEF SteerTypes
        <5> QED BY <5>1, <3>0, <3>2, PumpMoves
      <4>2. SteerTypes'
        BY <4>1, <3>0, <3>2 DEF SteerTypes, Answers
      <4>3. \A s \in Steers : HeldIn(queue, backlog, call, answer, s)
                                = Count(queue, s) + Count(backlog, s)
        BY <3>2, <2>n DEF HeldIn
      <4> QED BY <4>1, <4>2, <4>3, <3>0, <3>2, <2>0, Moving
    <3>3. CASE SteerInjected
      BY <3>2, <3>3 DEF SteerInjected
    <3>4. CASE SteerInjectedLate
      BY <3>2, <3>4 DEF SteerInjectedLate
    <3>5. CASE SteerRefused /\ loop.turn
      <4> DEFINE q == Append(queue, call)
      <4>1. Pump(TRUE, q) /\ delivered' = delivered /\ answer # "injected"
        BY <3>5 DEF SteerRefused
      <4>2. queue \in Seq(Steers) /\ q \in Seq(Steers)
        BY <3>0 DEF SteerTypes
      <4>3. \A s \in Steers : Count(q, s) = Count(queue, s) + (IF call = s THEN 1 ELSE 0)
        BY <3>0, <4>2, CountAppend
      <4> HIDE DEF q
      <4>4. /\ queue' \in Seq(Steers) /\ backlog' \in Seq(Steers) /\ call' \in 0..MaxSteers
            /\ \A s \in Steers : HeldIn(queue', backlog', call', answer', s)
                                   = Count(q, s) + Count(backlog, s)
        BY <4>1, <4>2, <3>0, PumpMoves
      <4>5. SteerTypes'
        BY <4>1, <4>4, <3>0 DEF SteerTypes, Answers
      <4>6. ASSUME NEW s \in Steers
            PROVE  HeldIn(queue', backlog', call', answer', s)
                     = HeldIn(queue, backlog, call, answer, s)
        <5>1. HeldIn(queue, backlog, call, answer, s)
                = Count(queue, s) + Count(backlog, s) + (IF call = s THEN 1 ELSE 0)
          BY <4>1 DEF HeldIn
        <5> QED BY <5>1, <4>3, <4>4, <2>n
      <4> QED BY <4>1, <4>5, <4>6, <3>0, <2>0, Moving
    <3>6. CASE SteerRefused /\ ~loop.turn
      <4>1. Pump(TRUE, queue) /\ StartTurn(loop, call) /\ answer # "injected"
        BY <3>6 DEF SteerRefused
      <4>2. queue \in Seq(Steers)
        BY DEF SteerTypes
      <4>3. /\ queue' \in Seq(Steers) /\ backlog' \in Seq(Steers) /\ call' \in 0..MaxSteers
            /\ \A s \in Steers : HeldIn(queue', backlog', call', answer', s)
                                   = Count(queue, s) + Count(backlog, s)
        BY <4>1, <4>2, <3>0, PumpMoves
      <4>4. /\ delivered' \in [Steers -> Nat]
            /\ ~eof => \A x \in Steers :
                 delivered'[x] = delivered[x] + (IF x = call THEN 1 ELSE 0)
        BY <4>1, <3>0, StartMoves
      <4>5. SteerTypes'
        BY <4>3, <4>4, <3>0 DEF SteerTypes, Answers
      <4>6. ASSUME Sound', NEW s \in Steers
            PROVE  delivered'[s] + HeldIn(queue', backlog', call', answer', s)
                     = delivered[s] + HeldIn(queue, backlog, call, answer, s)
        <5>1. HeldIn(queue, backlog, call, answer, s)
                = Count(queue, s) + Count(backlog, s) + (IF call = s THEN 1 ELSE 0)
          BY <4>1 DEF HeldIn
        <5>2. ~eof
          BY <4>6, <2>0 DEF Sound
        <5> QED BY <5>1, <5>2, <4>3, <4>4, <2>n, <2>d
      <4> QED BY <4>5, <4>6, <3>0, <2>0, Moving
    <3> QED BY <2>6, <3>1, <3>3, <3>4, <3>5, <3>6 DEF SteeringAnswered
  <2>7. CASE FlushExpires
    <3>0. UNCHANGED <<call, backlog, received, answer>>
      BY <2>7 DEF FlushExpires
    <3> DEFINE l == [loop EXCEPT !.flush = FALSE]
    <3>1. CASE ~l.turn /\ queue # <<>>
      <4>1. StartTurn(l, Head(queue)) /\ queue' = Tail(queue)
        BY <2>7, <3>1 DEF FlushExpires
      <4>2. AfterDone(l, queue)
        BY <4>1, <3>1 DEF AfterDone
      <4> HIDE DEF l
      <4>3. /\ delivered' \in [Steers -> Nat] /\ queue' \in Seq(Steers)
            /\ ~eof => \A x \in Steers :
                 delivered'[x] + Count(queue', x) = delivered[x] + Count(queue, x)
        BY <4>2, AfterDoneMoves DEF SteerTypes
      <4> QED BY <4>3, <3>0, <2>0, Settled
    <3>2. CASE ~(~l.turn /\ queue # <<>>)
      <4>1. UNCHANGED <<queue, delivered>>
        BY <2>7, <3>2 DEF FlushExpires, End
      <4> QED BY <4>1, <3>0, <2>u
    <3> QED BY <3>1, <3>2
  <2>8. CASE QuietSettle
    BY <2>8, <2>u DEF QuietSettle, agentVars, histVars
  <2>9. CASE StarveExpires
    <3> DEFINE l == [loop EXCEPT !.starve = "no", !.turn = FALSE, !.done = TRUE]
    <3>1. AfterDone(l, queue) /\ UNCHANGED <<call, backlog, received, answer>>
      BY <2>9 DEF StarveExpires
    <3> HIDE DEF l
    <3>2. /\ delivered' \in [Steers -> Nat] /\ queue' \in Seq(Steers)
          /\ ~eof => \A x \in Steers :
               delivered'[x] + Count(queue', x) = delivered[x] + Count(queue, x)
      BY <3>1, AfterDoneMoves DEF SteerTypes
    <3> QED BY <3>1, <3>2, <2>0, Settled
  <2>10. CASE SteerArrives
    <3> DEFINE n == received + 1
    <3>1. /\ n \in Steers /\ received' = n /\ answer' = answer
          /\ SteerIdle(n) \/ SteerMidTurn(n)
      BY <2>10 DEF SteerArrives, SteerTypes, Steers
    <3> HIDE DEF n
    <3>q. /\ queue \in Seq(Steers) /\ backlog \in Seq(Steers)
          /\ Append(queue, n) \in Seq(Steers) /\ Append(backlog, n) \in Seq(Steers)
          /\ \A s : Count(Append(queue, n), s) = Count(queue, s) + (IF n = s THEN 1 ELSE 0)
          /\ \A s : Count(Append(backlog, n), s) = Count(backlog, s) + (IF n = s THEN 1 ELSE 0)
      BY <3>1, CountAppend DEF SteerTypes
    <3>2. /\ SteerTypes'
          /\ ~eof => \A s \in Steers :
               delivered'[s] + HeldIn(queue', backlog', call', answer', s)
                 = delivered[s] + HeldIn(queue, backlog, call, answer, s)
                     + (IF n = s THEN 1 ELSE 0)
      <4>1. CASE queue' = Append(queue, n) /\ UNCHANGED <<call, backlog, delivered>>
        BY <4>1, <3>1, <3>q, <2>n, <2>d DEF SteerTypes, HeldIn, Steers
      <4>2. CASE StartTurn(loop, n) /\ UNCHANGED <<call, backlog, queue>>
        <5>1. /\ delivered' \in [Steers -> Nat]
              /\ ~eof => \A x \in Steers :
                   delivered'[x] = delivered[x] + (IF x = n THEN 1 ELSE 0)
          BY <4>2, <3>1, StartMoves
        <5>2. SteerTypes'
          BY <5>1, <4>2, <3>1 DEF SteerTypes, Steers
        <5>3. ASSUME ~eof, NEW s \in Steers
              PROVE  delivered'[s] + HeldIn(queue', backlog', call', answer', s)
                       = delivered[s] + HeldIn(queue, backlog, call, answer, s)
                           + (IF n = s THEN 1 ELSE 0)
          <6>1. HeldIn(queue', backlog', call', answer', s)
                  = HeldIn(queue, backlog, call, answer, s)
            BY <4>2, <3>1
          <6>2. HeldIn(queue, backlog, call, answer, s) \in Nat
            BY <2>n DEF HeldIn
          <6>3. delivered'[s] = delivered[s] + (IF s = n THEN 1 ELSE 0) /\ delivered[s] \in Nat
            BY <5>1, <5>3, <2>d
          <6> QED BY <6>1, <6>2, <6>3
        <5> QED BY <5>2, <5>3
      <4>3. CASE call = 0 /\ call' = n /\ UNCHANGED <<backlog, queue, delivered>>
        BY <4>3, <3>1, <2>n, <2>d DEF SteerTypes, HeldIn, Steers, Answers
      <4>4. CASE backlog' = Append(backlog, n) /\ UNCHANGED <<call, queue, delivered>>
        BY <4>4, <3>1, <3>q, <2>n, <2>d DEF SteerTypes, HeldIn, Steers
      <4>5. CASE SteerIdle(n)
        BY <4>1, <4>2, <4>5 DEF SteerIdle
      <4>6. CASE SteerMidTurn(n)
        BY <4>1, <4>3, <4>4, <4>6 DEF SteerMidTurn
      <4> QED BY <3>1, <4>5, <4>6
    <3>3. ASSUME Sound', NEW s \in Steers
          PROVE  delivered'[s] + Held(s)' = IF s <= received' THEN 1 ELSE 0
      <4>1. /\ Sound /\ ~eof
            /\ delivered[s] + HeldIn(queue, backlog, call, answer, s)
                 = IF s <= received THEN 1 ELSE 0
        BY <3>3, <2>0, HeldIs DEF SteerInv, Sound
      <4>2. Held(s)' = HeldIn(queue', backlog', call', answer', s)
        BY DEF Held, HeldIn
      <4>3. received \in Nat /\ s \in Nat
        BY DEF SteerTypes, Steers
      <4> QED BY <4>1, <4>2, <4>3, <3>1, <3>2 DEF n
    <3> QED BY <3>2, <3>3 DEF SteerInv
  <2>11. CASE MailboxCloses
    BY <2>11, <2>u DEF MailboxCloses, End
  <2>12. CASE Interrupt
    BY <2>12, <2>u DEF Interrupt, End
  <2>13. CASE ConsumerGone
    BY <2>13, <2>u DEF ConsumerGone, agentVars, histVars
  <2>14. CASE AgentStep
    <3>1. CASE AgentAnswersSteer
      <4>1. /\ call \in Steers /\ answer = "none" /\ answer' \in Answers
            /\ UNCHANGED <<queue, backlog, call, received>>
        BY <3>1 DEF AgentAnswersSteer, SteerTypes, Steers, Answers, loopVars
      <4>2. CASE answer' = "injected" /\ delivered' = [delivered EXCEPT ![call] = @ + 1]
        <5>1. SteerTypes'
          BY <4>1, <4>2 DEF SteerTypes, Steers
        <5>2. ASSUME NEW s \in Steers
              PROVE  delivered'[s] + HeldIn(queue', backlog', call', answer', s)
                       = delivered[s] + HeldIn(queue, backlog, call, answer, s)
          <6>1. delivered'[s] = delivered[s] + (IF s = call THEN 1 ELSE 0) /\ delivered[s] \in Nat
            BY <4>1, <4>2, <2>d DEF SteerTypes
          <6>2. HeldIn(queue', backlog', call', answer', s) = Count(queue, s) + Count(backlog, s)
            BY <4>1, <4>2, <2>n DEF HeldIn
          <6>3. HeldIn(queue, backlog, call, answer, s)
                  = Count(queue, s) + Count(backlog, s) + (IF s = call THEN 1 ELSE 0)
            BY <4>1, <2>n DEF HeldIn
          <6> QED BY <6>1, <6>2, <6>3, <2>n
        <5> QED BY <4>1, <5>1, <5>2, <2>0, Moving
      <4>3. CASE answer' # "injected" /\ delivered' = delivered
        BY <4>1, <4>3, <2>0, Moving DEF SteerTypes, HeldIn, Steers
      <4> QED BY <3>1, <4>2, <4>3 DEF AgentAnswersSteer
    <3>2. CASE AgentExits
      <4>1. /\ answer' \in Answers /\ (call = 0 => answer' = "none")
            /\ UNCHANGED <<queue, backlog, call, received, delivered>> /\ ~Sound'
        BY <3>2 DEF AgentExits, SteerTypes, Answers, loopVars, histVars, Sound
      <4> QED BY <4>1, <2>0, Moving DEF SteerTypes
    <3>3. CASE ~AgentAnswersSteer /\ ~AgentExits
      BY <2>14, <3>3, <2>u DEF AgentStep, AgentContinues, AgentStreams, AgentAsks, AgentEnds,
         AgentCancelled, UserAnswers, loopVars, histVars
    <3> QED BY <3>1, <3>2, <3>3
  <2> QED BY <1>b, <2>1, <2>2, <2>3, <2>4, <2>5, <2>6, <2>7, <2>8, <2>9, <2>10, <2>11, <2>12,
             <2>13, <2>14 DEF AcpNext, LoopStep
<1> QED BY <1>a, <1>b

\* run_session's steering: a steer taken from the mailbox reaches the agent once,
\* or waits in exactly one of the queue, the backlog and the call in flight.
THEOREM SteersReachAgentOnce == AcpSpec => []SteerReachesAgentOnce
<1>1. AcpSpec => [](BoundaryInv /\ SteerInv)
  BY InitBoundary, StepBoundary, InitSteer, StepSteer, PTL DEF AcpSpec
<1>2. SteerInv => SteerReachesAgentOnce
  BY AcpBounds DEF SteerInv, SteerTypes, Sound, SteerReachesAgentOnce, Steers
<1> QED BY <1>1, <1>2, PTL

-----------------------------------------------------------------------------
(* Dead turns.                                                             *)

Frames  == {"text", "tool", "result", "ask", "ended"} \cup Costs
Running == {"prompt", "next", "merged"}

Holds(s, f) == \E i \in 1..Len(s) : s[i] = f

\* A loop whose flag is t will have a tool open once it has read s.
ToolIn(s, t) ==
    \/ t /\ \A j \in 1..Len(s) : s[j] # "result"
    \/ \E i \in 1..Len(s) : s[i] = "tool" /\ \A j \in 1..Len(s) : j > i => s[j] # "result"

\* What an agent that runs our prompt waits for is on its way to the loop, or the loop
\* has seen it.
WatchInv ==
    /\ incoming \in Seq(Frames) /\ questions \in Nat /\ busy \in {"none", "tool", "user"}
    /\ owed \in BOOLEAN /\ agent \in {"idle", "own", "prompt", "next", "merged"}
    /\ eof => agent = "idle"
    /\ phase = "setup" => agent = "idle" /\ busy = "none" /\ incoming = <<>>
    /\ phase = "main" =>
         /\ busy = "user" => questions > 0 \/ Holds(incoming, "ask")
         /\ ~blind /\ agent = "prompt" /\ busy = "tool" => ToolIn(incoming, loop.tools)

\* Where Claude's cost frames can be.  A turn that ended reports its cost behind a reply,
\* or with nobody to reply to; the cost of an injected message follows the answer that
\* marks the turn as steered.
CostView ==
    /\ agent \in Running => loop.turn /\ reply = "none"
    /\ loop.starve = "cost" \/ Holds(incoming, "cost") => agent \notin Running
    /\ ~loop.turn => ~Holds(incoming, "cost") /\ ~Holds(incoming, "injectedCost")
    /\ owed => agent = "prompt"
    /\ ~loop.interrupted =>
         /\ owed => /\ answer # "noRunningTurn"
                    /\ answer = "injected" \/ (loop.steered /\ loop.starve = "no")
         /\ Holds(incoming, "injectedCost") => answer = "injected" \/ loop.steered

CostInv ==
    /\ loop.starve = "cost" => Claude
    /\ loop.starve = "quiet" => ~Claude
    /\ phase = "setup" => loop.starve = "no" /\ ~loop.turn /\ ~owed /\ reply = "none"
    /\ phase = "main" => /\ ~loop.turn => loop.starve = "no"
                         /\ loop.starve = "steer" => queue # <<>>
                         /\ Claude /\ ~misread => CostView

LEMMA HoldsNothing == ASSUME NEW f PROVE ~Holds(<<>>, f)
BY DEF Holds

LEMMA HoldsAppend ==
    ASSUME NEW s \in Seq(Frames), NEW g \in Frames, NEW f
    PROVE  Holds(Append(s, g), f) <=> Holds(s, f) \/ g = f
<1> DEFINE t == Append(s, g)
<1>1. /\ Len(t) = Len(s) + 1 /\ Len(s) \in Nat /\ t[Len(s) + 1] = g
      /\ \A i \in 1..Len(s) : t[i] = s[i]
  OBVIOUS
<1> HIDE DEF t
<1>2. Holds(t, f) => Holds(s, f) \/ g = f
  BY <1>1 DEF Holds
<1>3. Holds(s, f) => Holds(t, f)
  BY <1>1 DEF Holds
<1>4. g = f => Holds(t, f)
  BY <1>1 DEF Holds
<1> QED BY <1>2, <1>3, <1>4 DEF t

LEMMA HoldsTail ==
    ASSUME NEW s \in Seq(Frames), s # <<>>, NEW f
    PROVE  Holds(s, f) <=> Head(s) = f \/ Holds(Tail(s), f)
<1> DEFINE t == Tail(s)
<1>1. /\ Len(t) = Len(s) - 1 /\ Len(s) \in Nat /\ Len(s) >= 1 /\ Head(s) = s[1]
      /\ \A i \in 1..Len(t) : t[i] = s[i + 1]
  OBVIOUS
<1> HIDE DEF t
<1>2. Holds(t, f) => Holds(s, f)
  <2> SUFFICES ASSUME NEW i \in 1..Len(t), t[i] = f PROVE Holds(s, f)
    BY DEF Holds
  <2>1. i + 1 \in 1..Len(s) /\ s[i + 1] = f
    BY <1>1
  <2> QED BY <2>1 DEF Holds
<1>3. Holds(s, f) => s[1] = f \/ Holds(t, f)
  <2> SUFFICES ASSUME NEW i \in 1..Len(s), s[i] = f, i # 1 PROVE Holds(t, f)
    BY DEF Holds
  <2>1. i - 1 \in 1..Len(t) /\ (i - 1) + 1 = i
    BY <1>1
  <2>2. t[i - 1] = f
    BY <1>1, <2>1
  <2> QED BY <2>1, <2>2 DEF Holds
<1>4. s[1] = f => Holds(s, f)
  BY <1>1 DEF Holds
<1> QED BY <1>1, <1>2, <1>3, <1>4 DEF t

LEMMA ToolAppend ==
    ASSUME NEW s \in Seq(Frames), NEW g \in Frames, NEW t \in BOOLEAN, g # "result",
           ToolIn(s, t) \/ g = "tool"
    PROVE  ToolIn(Append(s, g), t)
<1> DEFINE u == Append(s, g)
<1>1. /\ Len(u) = Len(s) + 1 /\ Len(s) \in Nat /\ u[Len(s) + 1] = g
      /\ \A i \in 1..Len(s) : u[i] = s[i]
  OBVIOUS
<1> HIDE DEF u
<1>2. CASE t /\ \A j \in 1..Len(s) : s[j] # "result"
  BY <1>1, <1>2 DEF ToolIn
<1>3. ASSUME NEW i \in 1..Len(s), s[i] = "tool", \A j \in 1..Len(s) : j > i => s[j] # "result"
      PROVE  ToolIn(u, t)
  <2>1. i \in 1..Len(u) /\ u[i] = "tool" /\ \A j \in 1..Len(u) : j > i => u[j] # "result"
    BY <1>1, <1>3
  <2> QED BY <2>1 DEF ToolIn
<1>4. CASE g = "tool"
  <2>1. /\ Len(u) \in 1..Len(u) /\ u[Len(u)] = "tool"
        /\ \A j \in 1..Len(u) : j > Len(u) => u[j] # "result"
    BY <1>1, <1>4
  <2> QED BY <2>1 DEF ToolIn
<1> QED BY <1>2, <1>3, <1>4 DEF ToolIn, u

LEMMA ToolTail ==
    ASSUME NEW s \in Seq(Frames), s # <<>>, NEW t \in BOOLEAN, ToolIn(s, t), NEW v \in BOOLEAN,
           Head(s) = "tool" => v, Head(s) \notin {"tool", "result"} => v = t
    PROVE  ToolIn(Tail(s), v)
<1> DEFINE u == Tail(s)
<1>1. /\ Len(u) = Len(s) - 1 /\ Len(s) \in Nat /\ Len(s) >= 1 /\ Head(s) = s[1]
      /\ \A i \in 1..Len(u) : u[i] = s[i + 1]
  OBVIOUS
<1>2. \A i \in 1..Len(u) : i + 1 \in 1..Len(s) /\ i + 1 > 1
  BY <1>1
<1> HIDE DEF u
<1>3. CASE t /\ \A j \in 1..Len(s) : s[j] # "result"
  <2>1. Head(s) # "result"
    BY <1>1, <1>3
  <2>3. v
    <3>1. CASE Head(s) = "tool"
      BY <3>1
    <3>2. CASE Head(s) # "tool"
      <4>1. v = t
        BY <2>1, <3>2
      <4> QED BY <1>3, <4>1
    <3> QED BY <3>1, <3>2
  <2>2. \A j \in 1..Len(u) : u[j] # "result"
    BY <1>1, <1>2, <1>3
  <2> QED BY <2>2, <2>3 DEF ToolIn
<1>4. ASSUME NEW i \in 1..Len(s), s[i] = "tool", \A j \in 1..Len(s) : j > i => s[j] # "result"
      PROVE  ToolIn(u, v)
  <2>1. CASE i = 1
    <3>1. v /\ \A j \in 1..Len(u) : u[j] # "result"
      BY <1>1, <1>2, <1>4, <2>1
    <3> QED BY <3>1 DEF ToolIn
  <2>2. CASE i # 1
    <3>1. i - 1 \in 1..Len(u) /\ (i - 1) + 1 = i
      BY <1>1, <2>2
    <3>2. u[i - 1] = "tool"
      BY <1>1, <1>4, <3>1
    <3>3. ASSUME NEW j \in 1..Len(u), j > i - 1 PROVE u[j] # "result"
      <4>1. j + 1 \in 1..Len(s) /\ j + 1 > i
        BY <1>1, <3>3
      <4> QED BY <1>1, <1>4, <4>1
    <3> QED BY <3>1, <3>2, <3>3 DEF ToolIn
  <2> QED BY <2>1, <2>2
<1> QED BY <1>3, <1>4 DEF ToolIn, u

LEMMA ToolNothing == ASSUME NEW t \in BOOLEAN PROVE ToolIn(<<>>, t) <=> t
BY DEF ToolIn

\* A turn that begins finds the agent idle, or busy with another prompt.
Begins(l) ==
    /\ loop' = NewTurn(l) /\ reply' = "none" /\ phase' = phase
    /\ \/ ~eof /\ agent' = "prompt" /\ busy' = "none" /\ owed' = FALSE
       \/ eof /\ agent' = agent /\ owed' \in {owed, FALSE}
       \/ ~eof /\ agent' \in {"merged", "next"} /\ owed' = owed
    /\ busy' \in {busy, "none"}
    /\ agent \notin Running => agent' # "next"

Rests(l) == loop' = l /\ queue' = <<>> /\ UNCHANGED <<phase, agent, busy, owed, reply>>

LEMMA StartBegins == ASSUME NEW l, NEW s, StartTurn(l, s), owed \in BOOLEAN PROVE Begins(l)
BY DEF StartTurn, SendPrompt, Prompted, Begins, Running

LEMMA AfterDoneOutcomes ==
    ASSUME NEW l, NEW q, AfterDone(l, q), owed \in BOOLEAN
    PROVE  phase' = "ended" \/ Begins(l) \/ (Rests(l) /\ q = <<>>)
<1>1. CASE q # <<>>
  BY <1>1, StartBegins DEF AfterDone
<1>2. CASE q = <<>>
  BY <1>2 DEF AfterDone, End, Rests
<1> QED BY <1>1, <1>2

LEMMA InitDead == AcpInit => WatchInv /\ CostInv
<1> SUFFICES ASSUME AcpInit PROVE WatchInv /\ CostInv
  OBVIOUS
<1>1. phase = "setup" /\ loop.starve = "no"
  BY DEF AcpInit
<1>2. WatchInv
  <2>1. <<>> \in Seq(Frames) /\ incoming = <<>> /\ questions = 0 /\ busy = "none" /\ owed = FALSE /\ agent = "idle"
    BY DEF AcpInit
  <2> QED BY <1>1, <2>1 DEF WatchInv
<1>3. CostInv
  BY <1>1 DEF AcpInit, CostInv
<1> QED BY <1>2, <1>3

\* A step of the loop or the agent that leaves the queue of frames, the agent's work and
\* what the loop knows of it alone.
LEMMA WatchKept ==
    ASSUME WatchInv, UNCHANGED <<incoming, questions, busy, owed, eof, agent>>, phase' \in {phase, "ended"},
           blind' = blind, loop'.tools = loop.tools
    PROVE  WatchInv'
BY DEF WatchInv

\* A turn that begins with nothing unread, or with the frames as they are.
LEMMA WatchBegins ==
    ASSUME WatchInv, NEW l \in Flags, Begins(l), phase = "main", eof' = eof,
           questions' \in Nat, incoming' \in Seq(Frames),
           busy = "user" => questions' > 0 \/ Holds(incoming', "ask")
    PROVE  WatchInv'
<1>1. /\ busy' \in {"none", "tool", "user"} /\ owed' \in BOOLEAN /\ phase' = "main"
      /\ agent' \in {"idle", "own", "prompt", "next", "merged"}
  BY DEF WatchInv, Begins
<1>2. eof' => agent' = "idle"
  BY DEF WatchInv, Begins, Running
<1>3. agent' = "prompt" => busy' = "none"
  BY DEF WatchInv, Begins
<1>4. busy' = "user" => questions' > 0 \/ Holds(incoming', "ask")
  BY DEF Begins
<1> QED BY <1>1, <1>2, <1>3, <1>4 DEF WatchInv

\* The drain moves the requests among the frames to the open questions.
LEMMA DrainAsks ==
    ASSUME WatchInv, Drain, phase = "main"
    PROVE  /\ incoming' \in Seq(Frames) /\ questions' \in Nat
           /\ busy = "user" => questions' > 0
<1>1. Count(incoming, "ask") \in Nat
  BY PlacesFinite DEF WatchInv
<1>2. Holds(incoming, "ask") => Count(incoming, "ask") > 0
  <2> SUFFICES ASSUME NEW i \in 1..Len(incoming), incoming[i] = "ask" PROVE Count(incoming, "ask") > 0
    BY DEF Holds
  <2>1. i \in DOMAIN incoming /\ incoming \in Seq(Frames)
    BY DEF WatchInv
  <2> QED BY <2>1, CountSome
<1> QED BY <1>1, <1>2 DEF WatchInv, Drain

\* A drain past the loop's bookkeeping that saw no tool leaves the open one open.
LEMMA DrainTools ==
    ASSUME WatchInv, DrainsTools, ~blind', NEW t \in BOOLEAN, ToolIn(incoming, t)
    PROVE  ~blind /\ ToolIn(<<>>, t)
<1>1. ~blind /\ \A i \in DOMAIN incoming : incoming[i] \notin ToolFrames
  BY DEF DrainsTools
<1>2. \A i \in 1..Len(incoming) : incoming[i] # "tool"
  BY <1>1 DEF WatchInv, ToolFrames
<1>3. t
  BY <1>2 DEF ToolIn
<1> QED BY <1>1, <1>3, ToolNothing

LEMMA StepWatch ==
    ASSUME BoundaryInv, WatchInv, [AcpNext]_acpVars
    PROVE  WatchInv'
<1> USE DEF loopVars, agentVars, histVars, budget
<1>0. loop \in Flags /\ loop.tools \in BOOLEAN /\ incoming \in Seq(Frames) /\ questions \in Nat
      /\ owed \in BOOLEAN /\ phase \in {"setup", "main", "ended"}
  BY DEF BoundaryInv, WatchInv, Flags
<1>1. CASE SetupOk
  BY <1>1 DEF SetupOk, WatchInv
<1>2. CASE SetupFails \/ ConsumerGone
  <2>1. UNCHANGED <<incoming, questions, busy, owed, eof, agent>> /\ phase' = "ended"
    BY <1>2 DEF SetupFails, ConsumerGone
  <2> QED BY <2>1 DEF WatchInv
<1>3. CASE TurnResponds
  <2> DEFINE l == [loop EXCEPT !.turn = FALSE, !.starve = "no", !.done = TRUE,
                               !.doneAfter = @ \/ loop.interrupted]
  <2>1. (phase' = "ended" /\ UNCHANGED <<agent, busy, owed>>) \/ (\E q : AfterDone(l, q))
    BY <1>3 DEF TurnResponds, End
  <2>2. Drain /\ DrainsTools /\ phase = "main" /\ eof' = eof
    BY <1>3 DEF TurnResponds
  <2>3. l \in Flags /\ l.tools = loop.tools
    BY <1>0 DEF Flags
  <2>4. incoming' \in Seq(Frames) /\ questions' \in Nat /\ (busy = "user" => questions' > 0)
    BY <2>2, DrainAsks
  <2> HIDE DEF l
  <2>5. CASE phase' = "ended" /\ UNCHANGED <<agent, busy, owed>>
    BY <2>2, <2>4, <2>5 DEF WatchInv
  <2>6. ASSUME NEW q, AfterDone(l, q) PROVE WatchInv'
    <3>1. CASE phase' = "ended"
      <4>1. UNCHANGED <<agent, busy, owed>>
        BY <2>2, <2>6, <3>1 DEF AfterDone, StartTurn, End
      <4> QED BY <2>5, <3>1, <4>1
    <3>2. CASE Begins(l)
      BY <2>2, <2>3, <2>4, <3>2, WatchBegins
    <3>3. CASE Rests(l)
      <4>1. UNCHANGED <<agent, busy, owed>> /\ phase' = "main" /\ loop'.tools = loop.tools /\ incoming' = <<>>
        BY <2>2, <2>3, <3>3 DEF Rests, Drain
      <4>2. ~blind' /\ agent = "prompt" /\ busy = "tool" => ToolIn(<<>>, loop.tools)
        BY <1>0, <2>2, DrainTools DEF WatchInv, DrainsTools
      <4> QED BY <2>2, <2>4, <4>1, <4>2 DEF WatchInv
    <3> QED BY <1>0, <2>6, <3>1, <3>2, <3>3, AfterDoneOutcomes
  <2> QED BY <2>1, <2>5, <2>6
<1>4. CASE ReadIncoming
  <2> DEFINE f == Head(incoming)
  <2>1. /\ phase = "main" /\ incoming # <<>> /\ incoming' = Tail(incoming) /\ phase' = phase
        /\ UNCHANGED <<busy, owed, eof, agent, blind>>
        /\ loop' = IF ArmsSettle(f) THEN [loop EXCEPT !.starve = "cost"] ELSE Tracked(loop, f)
        /\ questions' = IF f = "ask" THEN questions + 1 ELSE questions
    BY <1>4 DEF ReadIncoming
  <2>2. f \in Frames /\ Tail(incoming) \in Seq(Frames)
    BY <1>0, <2>1
  <2>3. Holds(incoming, "ask") <=> f = "ask" \/ Holds(Tail(incoming), "ask")
    BY <1>0, <2>1, HoldsTail
  <2> HIDE DEF f
  <2>4. loop'.tools \in BOOLEAN /\ (f = "tool" => loop'.tools) /\ (f \notin {"tool", "result"} => loop'.tools = loop.tools)
    <3>1. CASE ArmsSettle(f)
      BY <1>0, <2>1, <3>1 DEF ArmsSettle, Costs, Flags
    <3>2. CASE ~ArmsSettle(f)
      BY <1>0, <2>1, <3>2 DEF Tracked, Flags
    <3> QED BY <3>1, <3>2
  <2>5. ToolIn(incoming, loop.tools) => ToolIn(Tail(incoming), loop'.tools)
    BY <1>0, <2>1, <2>4, ToolTail DEF f
  <2> QED BY <1>0, <2>1, <2>2, <2>3, <2>5 DEF WatchInv
<1>5. CASE ReadEof
  <2>1. UNCHANGED <<incoming, questions, busy, owed, eof, agent>> /\ phase' = "ended"
    BY <1>5 DEF ReadEof, End
  <2> QED BY <2>1 DEF WatchInv
<1>6. CASE SteeringAnswered
  <2>0. phase = "main" /\ eof' = eof
    BY <1>6 DEF SteeringAnswered
  <2>1. CASE SteerAbandoned \/ SteerInjectedLate
    BY <2>0, <2>1, WatchKept DEF SteerAbandoned, SteerInjectedLate
  <2>2. CASE SteerInjected
    <3>1. /\ Drain /\ DrainsTools /\ UNCHANGED <<phase, agent, busy, owed>> /\ incoming' = <<>>
          /\ loop'.tools = loop.tools
      BY <1>0, <2>2 DEF SteerInjected, Drain, Flags
    <3>2. incoming' \in Seq(Frames) /\ questions' \in Nat /\ (busy = "user" => questions' > 0)
      BY <2>0, <3>1, DrainAsks
    <3>3. ~blind' /\ agent = "prompt" /\ busy = "tool" => ToolIn(<<>>, loop.tools)
      BY <1>0, <2>0, <3>1, DrainTools DEF WatchInv, DrainsTools
    <3> QED BY <2>0, <3>1, <3>2, <3>3 DEF WatchInv
  <2>3. CASE SteerRefused /\ loop.turn
    <3>1. loop'.tools = loop.tools
      BY <1>0, <2>3 DEF SteerRefused, Flags
    <3> QED BY <2>0, <2>3, <3>1, WatchKept DEF SteerRefused
  <2>4. CASE SteerRefused /\ ~loop.turn
    <3>1. Begins(loop) /\ UNCHANGED <<questions, incoming>>
      BY <1>0, <2>4, StartBegins DEF SteerRefused
    <3> QED BY <1>0, <2>0, <3>1, WatchBegins DEF WatchInv
  <2> QED BY <1>6, <2>1, <2>2, <2>3, <2>4 DEF SteeringAnswered
<1>7. CASE FlushExpires
  <2> DEFINE l == [loop EXCEPT !.flush = FALSE]
  <2>0. l \in Flags /\ l.tools = loop.tools /\ phase = "main" /\ UNCHANGED <<questions, incoming, eof, blind>>
    BY <1>0, <1>7 DEF FlushExpires, Flags
  <2>1. \/ Begins(l)
        \/ phase' \in {phase, "ended"} /\ loop'.tools = loop.tools /\ UNCHANGED <<agent, busy, owed>>
    BY <1>0, <1>7, StartBegins DEF FlushExpires, End, Flags
  <2> HIDE DEF l
  <2>2. CASE Begins(l)
    BY <1>0, <2>0, <2>2, WatchBegins DEF WatchInv
  <2> QED BY <2>0, <2>1, <2>2, WatchKept
<1>8. CASE QuietSettle
  <2>1. loop'.tools = loop.tools
    BY <1>0, <1>8 DEF QuietSettle, Flags
  <2> QED BY <1>8, <2>1, WatchKept DEF QuietSettle
<1>9. CASE StarveExpires
  <2> DEFINE l == [loop EXCEPT !.starve = "no", !.turn = FALSE, !.done = TRUE]
  <2>0. l \in Flags /\ l.tools = loop.tools /\ phase = "main" /\ UNCHANGED <<questions, incoming, eof, blind>>
        /\ AfterDone(l, queue)
    BY <1>0, <1>9 DEF StarveExpires, Flags
  <2> HIDE DEF l
  <2>1. CASE phase' = "ended"
    <3>1. UNCHANGED <<agent, busy, owed>>
      BY <2>0, <2>1 DEF AfterDone, StartTurn, End
    <3> QED BY <2>0, <2>1, <3>1 DEF WatchInv
  <2>2. CASE Begins(l)
    BY <1>0, <2>0, <2>2, WatchBegins DEF WatchInv
  <2>3. CASE Rests(l)
    BY <2>0, <2>3, WatchKept DEF Rests
  <2> QED BY <1>0, <2>0, <2>1, <2>2, <2>3, AfterDoneOutcomes
<1>10. CASE SteerArrives
  <2>0. phase = "main" /\ UNCHANGED <<questions, incoming, eof, blind>>
    BY <1>10 DEF SteerArrives
  <2>1. CASE Begins(loop)
    BY <1>0, <2>0, <2>1, WatchBegins DEF WatchInv
  <2>2. CASE UNCHANGED <<phase, agent, busy, owed>> /\ loop'.tools = loop.tools
    BY <2>0, <2>2, WatchKept
  <2>3. CASE SteerIdle(received + 1)
    <3>1. StartTurn(loop, received + 1) \/ (UNCHANGED <<phase, agent, busy, owed>> /\ loop'.tools = loop.tools)
      BY <1>0, <2>3 DEF SteerIdle, Flags
    <3> QED BY <1>0, <2>1, <2>2, <3>1, StartBegins
  <2>4. CASE SteerMidTurn(received + 1)
    BY <2>2, <2>4 DEF SteerMidTurn
  <2> QED BY <1>10, <2>3, <2>4 DEF SteerArrives
<1>11. CASE MailboxCloses \/ Interrupt
  <2>1. /\ UNCHANGED <<incoming, questions, busy, owed, eof, agent, blind>> /\ phase' \in {phase, "ended"}
        /\ loop'.tools = loop.tools
    BY <1>0, <1>11 DEF MailboxCloses, Interrupt, End, Flags
  <2> QED BY <2>1, WatchKept
<1>12. CASE AgentContinues
  BY <1>12 DEF AgentContinues, WatchInv
<1>13. CASE AgentStreams
  <2>1. PICK f \in {"text", "tool", "result", "injectedCost"} :
           /\ incoming' = Append(incoming, f) /\ owed' = (owed /\ f # "injectedCost")
           /\ busy' = CASE f = "tool" -> "tool" [] f = "result" -> "none" [] OTHER -> busy
           /\ f \in {"tool", "result"} => busy \in {"none", "tool"}
    BY <1>13 DEF AgentStreams, WatchInv
  <2>2. UNCHANGED <<questions, agent, eof, loop, phase, blind>> /\ busy # "user" /\ agent # "idle"
    BY <1>13 DEF AgentStreams
  <2>3. f \in Frames
    BY <2>1 DEF Frames, Costs
  <2>4. incoming' \in Seq(Frames) /\ owed' \in BOOLEAN /\ busy' \in {"none", "tool"}
    BY <1>0, <2>1, <2>2, <2>3 DEF WatchInv
  <2>5. busy' = "tool" => f # "result" /\ (busy = "tool" \/ f = "tool")
    BY <2>1
  <2>6. phase = "main" /\ ~blind /\ agent = "prompt" /\ busy' = "tool" => ToolIn(incoming', loop.tools)
    <3> SUFFICES ASSUME phase = "main", ~blind, agent = "prompt", busy' = "tool" PROVE ToolIn(incoming', loop.tools)
      OBVIOUS
    <3>1. f # "result" /\ (ToolIn(incoming, loop.tools) \/ f = "tool")
      BY <2>5 DEF WatchInv
    <3> QED BY <1>0, <2>1, <2>3, <3>1, ToolAppend
  <2>7. phase # "setup"
    BY <2>2 DEF WatchInv
  <2> QED BY <1>0, <2>2, <2>4, <2>6, <2>7 DEF WatchInv
<1>14. CASE AgentAsks
  <2>1. /\ incoming' = Append(incoming, "ask") /\ busy' = "user" /\ agent # "idle" /\ "ask" \in Frames
        /\ UNCHANGED <<questions, agent, owed, eof, loop, phase, blind>>
    BY <1>14 DEF AgentAsks, Frames
  <2>2. incoming' \in Seq(Frames) /\ Holds(incoming', "ask")
    BY <1>0, <2>1, HoldsAppend
  <2> QED BY <1>0, <2>1, <2>2 DEF WatchInv
<1>15. CASE AgentEnds
  <2>1. incoming' \in Seq(Frames)
    <3>1. PICK fs \in Seq(Frames) : incoming' = incoming \o fs
      <4> DEFINE a == IF Claude THEN <<IF agent \in {"own", "next"} THEN "oldCost" ELSE "cost">> ELSE <<>>
                 b == IF Claude /\ agent = "own" THEN <<"ended">> ELSE <<>>
      <4>1. a \in Seq(Frames) /\ b \in Seq(Frames)
        <5>1. "oldCost" \in Frames /\ "cost" \in Frames /\ "ended" \in Frames
          BY DEF Frames, Costs
        <5>2. \A x \in Frames : <<x>> \in Seq(Frames)
          OBVIOUS
        <5> QED BY <5>1, <5>2
      <4>2. incoming' = incoming \o (a \o b)
        BY <1>15 DEF AgentEnds
      <4> HIDE DEF a, b
      <4>3. a \o b \in Seq(Frames)
        BY <4>1
      <4> QED BY <4>2, <4>3
    <3> QED BY <1>0, <3>1
  <2>2. /\ busy = "none" /\ owed' = FALSE /\ agent # "idle"
        /\ UNCHANGED <<questions, busy, eof, loop, phase, blind>> /\ agent' \in {"prompt", "idle"}
    BY <1>15 DEF AgentEnds
  <2> QED BY <1>0, <2>1, <2>2 DEF WatchInv
<1>16. CASE AgentCancelled
  BY <1>16 DEF AgentCancelled, WatchInv
<1>17. CASE AgentAnswersSteer
  <2>1. UNCHANGED <<incoming, questions, busy, eof, agent, phase, blind, loop>> /\ owed' \in BOOLEAN
    BY <1>0, <1>17 DEF AgentAnswersSteer, Claude, Flags
  <2> QED BY <2>1 DEF WatchInv
<1>18. CASE AgentExits
  BY <1>18 DEF AgentExits, WatchInv
<1>19. CASE UserAnswers
  <2>1. /\ questions' \in Nat /\ busy' \in {"none", "tool"} /\ (busy' = "tool" => busy = "tool")
        /\ UNCHANGED <<incoming, owed, eof, agent, phase, blind, loop>> /\ (busy = "none" => busy' = "none")
    BY <1>0, <1>19 DEF UserAnswers, WatchInv
  <2> QED BY <2>1 DEF WatchInv
<1>20. CASE UNCHANGED acpVars
  BY <1>20, WatchKept DEF acpVars
<1> QED
  BY <1>1, <1>2, <1>3, <1>4, <1>5, <1>6, <1>7, <1>8, <1>9, <1>10, <1>11, <1>12, <1>13, <1>14,
     <1>15, <1>16, <1>17, <1>18, <1>19, <1>20 DEF AcpNext, LoopStep, AgentStep

LEMMA HoldsConcat ==
    ASSUME NEW s \in Seq(Frames), NEW t \in Seq(Frames), NEW f
    PROVE  Holds(s \o t, f) <=> Holds(s, f) \/ Holds(t, f)
<1> DEFINE u == s \o t
<1>1. /\ Len(u) = Len(s) + Len(t) /\ Len(s) \in Nat /\ Len(t) \in Nat
      /\ \A i \in 1..Len(s) : u[i] = s[i]
      /\ \A i \in 1..Len(u) : i > Len(s) => u[i] = t[i - Len(s)]
  OBVIOUS
<1> HIDE DEF u
<1>2. Holds(s, f) => Holds(u, f)
  BY <1>1 DEF Holds
<1>3. ASSUME NEW i \in 1..Len(t), t[i] = f PROVE Holds(u, f)
  <2>1. i + Len(s) \in 1..Len(u) /\ i + Len(s) > Len(s) /\ (i + Len(s)) - Len(s) = i
    BY <1>1
  <2>2. u[i + Len(s)] = f
    BY <1>1, <1>3, <2>1
  <2> QED BY <2>1, <2>2 DEF Holds
<1>4. ASSUME NEW i \in 1..Len(u), u[i] = f PROVE Holds(s, f) \/ Holds(t, f)
  <2>1. CASE i <= Len(s)
    BY <1>1, <1>4, <2>1 DEF Holds
  <2>2. CASE i > Len(s)
    <3>1. i - Len(s) \in 1..Len(t) /\ t[i - Len(s)] = f
      BY <1>1, <1>4, <2>2
    <3> QED BY <3>1 DEF Holds
  <2> QED BY <1>1, <2>1, <2>2
<1> QED BY <1>2, <1>3, <1>4 DEF Holds, u

\* The frames of a turn that ends: at most a cost, and what turn it is of.
EndFrames(c, a) ==
    (IF c THEN <<IF a \in {"own", "next"} THEN "oldCost" ELSE "cost">> ELSE <<>>)
      \o (IF c /\ a = "own" THEN <<"ended">> ELSE <<>>)

LEMMA EndFramesHold ==
    ASSUME NEW c \in BOOLEAN, NEW a
    PROVE  /\ EndFrames(c, a) \in Seq(Frames)
           /\ ~Holds(EndFrames(c, a), "injectedCost")
           /\ Holds(EndFrames(c, a), "cost") => c /\ a \notin {"own", "next"}
<1> DEFINE p == IF c THEN <<IF a \in {"own", "next"} THEN "oldCost" ELSE "cost">> ELSE <<>>
           q == IF c /\ a = "own" THEN <<"ended">> ELSE <<>>
<1>1. \A x \in Frames : <<x>> \in Seq(Frames) /\ \A f : Holds(<<x>>, f) <=> x = f
  BY DEF Holds
<1>2. "oldCost" \in Frames /\ "cost" \in Frames /\ "ended" \in Frames
  BY DEF Frames, Costs
<1>3. p \in Seq(Frames) /\ q \in Seq(Frames)
  BY <1>1, <1>2
<1>4. ~Holds(p, "injectedCost") /\ (Holds(p, "cost") => c /\ a \notin {"own", "next"})
  <2>1. CASE ~c
    BY <2>1, HoldsNothing
  <2>2. CASE c /\ a \in {"own", "next"}
    <3>1. p = <<"oldCost">>
      BY <2>2
    <3> QED BY <1>1, <1>2, <3>1
  <2>3. CASE c /\ a \notin {"own", "next"}
    <3>1. p = <<"cost">>
      BY <2>3
    <3> QED BY <1>1, <1>2, <2>3, <3>1
  <2> QED BY <2>1, <2>2, <2>3
<1>5. ~Holds(q, "injectedCost") /\ ~Holds(q, "cost")
  <2>1. CASE q = <<>>
    BY <2>1, HoldsNothing
  <2>2. CASE q = <<"ended">>
    <3>1. "ended" # "cost" /\ "ended" # "injectedCost"
      OBVIOUS
    <3> HIDE DEF q
    <3> QED BY <1>1, <1>2, <2>2, <3>1
  <2> QED BY <2>1, <2>2
<1>6. EndFrames(c, a) = p \o q
  BY DEF EndFrames
<1> HIDE DEF p, q
<1>7. p \o q \in Seq(Frames)
  BY <1>3
<1> QED BY <1>3, <1>4, <1>5, <1>6, <1>7, HoldsConcat

\* A step that touches none of the evidence.
LEMMA CostKept ==
    ASSUME CostInv, phase = "main", phase' \in {"main", "ended"},
           UNCHANGED <<agent, reply, owed, answer, incoming, misread>>,
           loop'.turn = loop.turn, loop'.starve = loop.starve, loop'.claude = loop.claude,
           loop'.steered = loop.steered, loop.interrupted => loop'.interrupted,
           queue # <<>> => queue' # <<>>
    PROVE  CostInv'
<1>1. Claude' = Claude
  BY DEF Claude
<1>2. phase' = "main" /\ Claude /\ ~misread => CostView'
  BY DEF CostInv, CostView
<1> QED BY <1>1, <1>2 DEF CostInv

\* A turn that begins with no cost outstanding.
LEMMA CostBegins ==
    ASSUME WatchInv, CostInv, NEW l \in Flags, Begins(l), phase = "main", l.starve = "no",
           l.claude = loop.claude, misread' = misread,
           Claude /\ ~misread =>
             /\ ~Holds(incoming', "cost") /\ ~Holds(incoming', "injectedCost")
             /\ ~owed
    PROVE  CostInv'
<1>1. /\ loop'.turn = TRUE /\ loop'.starve = "no" /\ loop'.claude = loop.claude /\ phase' = "main"
      /\ reply' = "none"
  BY DEF Begins, NewTurn, Flags
<1>2. Claude' = Claude
  BY <1>1 DEF Claude
<1>3. owed' \in {owed, FALSE}
  BY DEF Begins
<1>4. Claude /\ ~misread => CostView'
  BY <1>1, <1>3 DEF CostView
<1> QED BY <1>1, <1>2, <1>4 DEF CostInv

\* Between turns, and behind a reply, nothing of ours runs.
LEMMA NothingOwed ==
    ASSUME CostInv, phase = "main", Claude, ~misread, ~loop.turn \/ reply # "none"
    PROVE  /\ agent \notin Running /\ ~owed
           /\ ~loop.turn => ~Holds(incoming, "cost") /\ ~Holds(incoming, "injectedCost")
BY DEF CostInv, CostView, Running

LEMMA StepCost ==
    ASSUME BoundaryInv, SteerInv, WatchInv, CostInv, [AcpNext]_acpVars
    PROVE  CostInv'
<1> USE DEF loopVars, agentVars, histVars, budget
<1>0. /\ loop \in Flags /\ loop.claude \in BOOLEAN /\ loop.turn \in BOOLEAN /\ incoming \in Seq(Frames)
      /\ owed \in BOOLEAN /\ phase \in {"setup", "main", "ended"} /\ queue \in Seq(Steers)
      /\ backlog \in Seq(Steers) /\ (call = 0 => answer = "none") /\ call \in 0..MaxSteers
  BY DEF BoundaryInv, WatchInv, Flags, SteerInv, SteerTypes
<1>e. ASSUME phase' = "ended", loop'.starve = "cost" => loop'.claude, loop'.starve = "quiet" => ~loop'.claude
      PROVE  CostInv'
  BY <1>e DEF CostInv, Claude
<1>l. (loop.starve = "cost" => loop.claude) /\ (loop.starve = "quiet" => ~loop.claude)
  BY DEF CostInv, Claude
<1>1. CASE SetupOk
  <2>1. /\ phase = "setup" /\ phase' = "main" /\ agent' = "prompt" /\ loop'.turn = TRUE
        /\ loop'.starve = loop.starve /\ loop'.claude = loop.claude
        /\ UNCHANGED <<reply, owed, incoming, misread>>
    BY <1>0, <1>1 DEF SetupOk, NewTurn, Flags
  <2>2. loop.starve = "no" /\ ~owed /\ reply = "none" /\ incoming = <<>>
    BY <2>1 DEF CostInv, WatchInv
  <2>3. CostView'
    BY <2>1, <2>2, HoldsNothing DEF CostView
  <2> QED BY <2>1, <2>2, <2>3 DEF CostInv
<1>2. CASE SetupFails
  BY <1>2, <1>e, <1>l DEF SetupFails
<1>3. CASE ConsumerGone
  <2>1. loop'.starve = loop.starve /\ loop'.claude = loop.claude /\ phase' = "ended"
    BY <1>0, <1>3 DEF ConsumerGone, Flags
  <2> QED BY <1>e, <1>l, <2>1
<1>4. CASE TurnResponds
  <2> DEFINE l == [loop EXCEPT !.turn = FALSE, !.starve = "no", !.done = TRUE,
                               !.doneAfter = @ \/ loop.interrupted]
  <2>1. /\ l \in Flags /\ ~l.turn /\ l.starve = "no" /\ l.claude = loop.claude /\ l.steered = loop.steered
        /\ l.interrupted = loop.interrupted
    BY <1>0 DEF Flags
  <2>2. phase = "main" /\ reply # "none" /\ incoming' = <<>> /\ answer' = "none" /\ misread' = misread
    BY <1>4 DEF TurnResponds, Drain
  <2>3. (\E b : End(l, b)) \/ \E q : AfterDone(l, q)
    BY <1>4 DEF TurnResponds
  <2>4. Claude /\ ~misread => agent \notin Running /\ ~owed
    BY <2>2, NothingOwed
  <2> HIDE DEF l
  <2>5. CASE \E b : End(l, b)
    <3>1. phase' = "ended" /\ loop'.starve = "no"
      BY <2>1, <2>5 DEF End, Flags
    <3> QED BY <1>e, <3>1
  <2>6. ASSUME NEW q, AfterDone(l, q) PROVE CostInv'
    <3>1. CASE phase' = "ended"
      <4>1. \E b : End(l, b)
        BY <2>2, <2>6, <3>1 DEF AfterDone, StartTurn
      <4> QED BY <2>5, <4>1
    <3>2. CASE Begins(l)
      BY <2>1, <2>2, <2>4, <3>2, CostBegins, HoldsNothing
    <3>3. CASE Rests(l)
      <4>1. /\ loop' = l /\ phase' = "main" /\ UNCHANGED <<agent, owed>>
        BY <2>2, <3>3 DEF Rests
      <4>2. Claude /\ ~misread => CostView'
        BY <2>1, <2>2, <2>4, <4>1, HoldsNothing DEF CostView, Running
      <4> QED BY <2>1, <2>2, <4>1, <4>2 DEF CostInv, Claude
    <3> QED BY <1>0, <2>6, <3>1, <3>2, <3>3, AfterDoneOutcomes
  <2> QED BY <2>3, <2>5, <2>6
<1>5. CASE ReadIncoming
  <2> DEFINE f == Head(incoming)
  <2>1. /\ phase = "main" /\ incoming # <<>> /\ incoming' = Tail(incoming) /\ phase' = phase
        /\ UNCHANGED <<agent, owed, reply, answer, queue>>
        /\ loop' = IF ArmsSettle(f) THEN [loop EXCEPT !.starve = "cost"] ELSE Tracked(loop, f)
        /\ misread' = (misread \/ (ArmsSettle(f) /\ f = "oldCost"))
    BY <1>5 DEF ReadIncoming
  <2>2. \A g : Holds(incoming, g) <=> f = g \/ Holds(incoming', g)
    BY <1>0, <2>1, HoldsTail
  <2> HIDE DEF f
  <2>3. CASE ArmsSettle(f)
    <3>1. /\ loop'.turn = loop.turn /\ loop'.claude = loop.claude /\ loop'.steered = loop.steered
          /\ loop'.interrupted = loop.interrupted /\ loop'.starve = "cost"
      BY <1>0, <2>1, <2>3 DEF Flags
    <3>2. Claude /\ f \in Costs /\ loop.turn /\ ~loop.interrupted /\ ~loop.steered /\ call = 0
      BY <2>3 DEF ArmsSettle
    <3>3. ~misread' => CostView'
      <4> SUFFICES ASSUME ~misread' PROVE CostView'
        OBVIOUS
      <4>1. CostView /\ f # "oldCost"
        BY <2>1, <2>3, <3>2 DEF CostInv
      <4>2. f # "injectedCost"
        BY <1>0, <2>2, <3>2, <4>1 DEF CostView
      <4>3. agent \notin Running
        BY <2>2, <3>2, <4>1, <4>2 DEF CostView, Costs
      <4>4. ~owed
        BY <4>1, <4>3 DEF CostView, Running
      <4> QED BY <2>1, <2>2, <3>1, <3>2, <4>1, <4>3, <4>4 DEF CostView
    <3> QED BY <2>1, <3>1, <3>2, <3>3 DEF CostInv, Claude
  <2>4. CASE ~ArmsSettle(f)
    <3>1. /\ loop'.turn = loop.turn /\ loop'.claude = loop.claude /\ loop'.steered = loop.steered
          /\ loop'.interrupted = loop.interrupted /\ loop'.starve = loop.starve
      BY <1>0, <2>1, <2>4 DEF Flags, Tracked
    <3>2. CostView => CostView'
      BY <2>1, <2>2, <3>1 DEF CostView
    <3> QED BY <2>1, <2>4, <3>1, <3>2 DEF CostInv, Claude
  <2> QED BY <2>3, <2>4
<1>6. CASE ReadEof
  <2>1. phase' = "ended" /\ loop'.starve = loop.starve /\ loop'.claude = loop.claude
    BY <1>0, <1>6 DEF ReadEof, End, Flags
  <2> QED BY <1>e, <1>l, <2>1
<1>7. CASE SteeringAnswered
  <2>0. phase = "main" /\ call # 0 /\ answer' = "none" /\ misread' = misread /\ answer # "none"
    BY <1>7 DEF SteeringAnswered
  <2>p. ASSUME NEW v, NEW q \in Seq(Steers), Pump(v, q) PROVE q # <<>> => queue' # <<>>
    BY <1>0, <2>p DEF Pump
  <2>1. CASE SteerAbandoned
    <3>1. loop.interrupted /\ UNCHANGED <<phase, loop, agent, owed, reply, incoming>> /\ (queue # <<>> => queue' # <<>>)
      BY <1>0, <2>1, <2>p DEF SteerAbandoned
    <3>2. CostView => CostView'
      BY <3>1 DEF CostView
    <3> QED BY <2>0, <3>1, <3>2 DEF CostInv, Claude
  <2>2. CASE SteerInjected
    <3>1. /\ loop.turn /\ loop'.turn = loop.turn /\ loop'.claude = loop.claude /\ loop'.steered = TRUE
          /\ loop'.interrupted = loop.interrupted /\ loop'.starve = "no" /\ incoming' = <<>>
          /\ UNCHANGED <<phase, agent, owed, reply>>
      BY <1>0, <2>2 DEF SteerInjected, Drain, Flags
    <3>2. CostView => CostView'
      BY <2>0, <3>1, HoldsNothing DEF CostView
    <3> QED BY <2>0, <3>1, <3>2 DEF CostInv, Claude
  <2>3. CASE SteerInjectedLate
    <3>1. ~loop.turn /\ UNCHANGED <<phase, loop, agent, owed, reply, incoming>> /\ (queue # <<>> => queue' # <<>>)
      BY <1>0, <2>3, <2>p DEF SteerInjectedLate
    <3>2. Claude /\ ~misread => ~owed /\ ~Holds(incoming, "injectedCost")
      BY <2>0, <3>1, NothingOwed
    <3>3. Claude /\ ~misread => CostView'
      BY <2>0, <3>1, <3>2 DEF CostView, CostInv
    <3> QED BY <2>0, <3>1, <3>3 DEF CostInv, Claude
  <2>4. CASE SteerRefused /\ loop.turn /\ answer = "noRunningTurn"
    <3>1. /\ loop'.turn = loop.turn /\ loop'.claude = loop.claude /\ loop'.steered = loop.steered
          /\ loop'.interrupted = loop.interrupted /\ loop'.starve = "steer" /\ ~loop.interrupted
          /\ UNCHANGED <<phase, agent, owed, reply, incoming>> /\ Pump(TRUE, Append(queue, call))
      BY <1>0, <2>4 DEF SteerRefused, Flags
    <3>2. queue' # <<>>
      <4>1. call \in Steers
        BY <1>0, <2>0 DEF Steers
      <4>2. Append(queue, call) \in Seq(Steers) /\ Append(queue, call) # <<>>
        BY <1>0, <4>1
      <4> QED BY <2>p, <3>1, <4>2
    <3>3. CostView => CostView'
      BY <2>0, <2>4, <3>1 DEF CostView
    <3> QED BY <2>0, <2>4, <3>1, <3>2, <3>3 DEF CostInv, Claude
  <2>5. CASE SteerRefused /\ loop.turn /\ answer # "noRunningTurn"
    <3>1. /\ loop' = loop /\ UNCHANGED <<phase, agent, owed, reply, incoming>> /\ answer # "injected"
          /\ Pump(TRUE, Append(queue, call))
      BY <2>5 DEF SteerRefused
    <3>2. queue' # <<>>
      <4>1. call \in Steers
        BY <1>0, <2>0 DEF Steers
      <4>2. Append(queue, call) \in Seq(Steers) /\ Append(queue, call) # <<>>
        BY <1>0, <4>1
      <4> QED BY <2>p, <3>1, <4>2
    <3>3. CostView => CostView'
      BY <2>0, <2>5, <3>1 DEF CostView
    <3> QED BY <2>0, <2>5, <3>1, <3>2, <3>3 DEF CostInv, Claude
  <2>6. CASE SteerRefused /\ ~loop.turn
    <3>1. Begins(loop) /\ UNCHANGED <<incoming>>
      BY <1>0, <2>6, StartBegins DEF SteerRefused
    <3>2. loop.starve = "no"
      BY <2>0, <2>6 DEF CostInv
    <3> QED BY <1>0, <2>0, <2>6, <3>1, <3>2, NothingOwed, CostBegins
  <2> QED BY <1>7, <2>1, <2>2, <2>3, <2>4, <2>5, <2>6 DEF SteeringAnswered
<1>8. CASE FlushExpires
  <2> DEFINE l == [loop EXCEPT !.flush = FALSE]
  <2>0. /\ l \in Flags /\ l.turn = loop.turn /\ l.starve = loop.starve /\ l.claude = loop.claude
        /\ l.steered = loop.steered /\ l.interrupted = loop.interrupted
    BY <1>0 DEF Flags
  <2>1. phase = "main" /\ UNCHANGED <<incoming, misread, answer>>
    BY <1>8 DEF FlushExpires
  <2>2. \/ ~loop.turn /\ \E s : StartTurn(l, s)
        \/ \E b : End(l, b)
        \/ loop' = l /\ UNCHANGED <<phase, agent, owed, reply, queue>>
    BY <1>8, <2>0 DEF FlushExpires
  <2> HIDE DEF l
  <2>3. CASE ~loop.turn /\ \E s : StartTurn(l, s)
    <3>1. Begins(l) /\ l.starve = "no"
      BY <1>0, <2>0, <2>1, <2>3, StartBegins DEF CostInv
    <3> QED BY <2>0, <2>1, <2>3, <3>1, NothingOwed, CostBegins
  <2>4. CASE \E b : End(l, b)
    <3>1. phase' = "ended" /\ loop'.starve = loop.starve /\ loop'.claude = loop.claude
      BY <2>0, <2>4 DEF End, Flags
    <3> QED BY <1>e, <1>l, <3>1
  <2>5. CASE loop' = l /\ UNCHANGED <<phase, agent, owed, reply, queue>>
    BY <2>0, <2>1, <2>5, CostKept
  <2> QED BY <2>2, <2>3, <2>4, <2>5
<1>9. CASE QuietSettle
  <2>1. /\ ~Claude /\ loop'.starve = "quiet" /\ loop.turn /\ loop'.turn = loop.turn
        /\ loop'.claude = loop.claude /\ phase = "main" /\ phase' = phase
    BY <1>0, <1>9 DEF QuietSettle, Flags
  <2> QED BY <2>1 DEF CostInv, Claude
<1>10. CASE StarveExpires
  <2> DEFINE l == [loop EXCEPT !.starve = "no", !.turn = FALSE, !.done = TRUE]
  <2>0. /\ l \in Flags /\ l.turn = FALSE /\ l.starve = "no" /\ l.claude = loop.claude
        /\ l.steered = loop.steered /\ l.interrupted = loop.interrupted
    BY <1>0 DEF Flags
  <2>1. /\ phase = "main" /\ UNCHANGED <<incoming, misread, answer>> /\ AfterDone(l, queue)
        /\ loop.starve # "no" /\ loop.turn /\ ~loop.interrupted
        /\ incoming = <<>> /\ reply = "none" /\ answer = "none"
    BY <1>10 DEF StarveExpires, NothingReady
  <2>2. Claude /\ ~misread => ~owed
    BY <2>1 DEF CostInv, CostView
  <2> HIDE DEF l
  <2>3. CASE phase' = "ended"
    <3>1. \E b : End(l, b)
      BY <2>1, <2>3 DEF AfterDone, StartTurn
    <3>2. loop'.starve = "no"
      BY <2>0, <3>1 DEF End, Flags
    <3> QED BY <1>e, <2>3, <3>2
  <2>4. CASE Begins(l)
    BY <2>0, <2>1, <2>2, <2>4, CostBegins, HoldsNothing
  <2>5. CASE Rests(l) /\ queue = <<>>
    <3>1. /\ loop' = l /\ phase' = "main" /\ UNCHANGED <<agent, owed, reply>>
      BY <2>1, <2>5 DEF Rests
    <3>2. Claude => loop.starve = "cost"
      BY <1>0, <2>1, <2>5 DEF CostInv, Flags
    <3>3. Claude /\ ~misread => agent \notin Running
      BY <2>1, <3>2 DEF CostInv, CostView
    <3>4. Claude /\ ~misread => CostView'
      BY <2>0, <2>1, <2>2, <3>1, <3>3, HoldsNothing DEF CostView, Running
    <3> QED BY <2>0, <2>1, <3>1, <3>4 DEF CostInv, Claude
  <2> QED BY <1>0, <2>1, <2>3, <2>4, <2>5, AfterDoneOutcomes
<1>11. CASE SteerArrives
  <2>0. phase = "main" /\ UNCHANGED <<incoming, answer, misread>>
    BY <1>11 DEF SteerArrives
  <2>a. queue # <<>> => Append(queue, received + 1) # <<>>
    BY <1>0
  <2>1. CASE ~loop.turn /\ StartTurn(loop, received + 1)
    <3>1. Begins(loop) /\ loop.starve = "no"
      BY <1>0, <2>0, <2>1, StartBegins DEF CostInv
    <3> QED BY <1>0, <2>0, <2>1, <3>1, NothingOwed, CostBegins
  <2>2. CASE /\ UNCHANGED <<phase, agent, owed, reply>> /\ queue' \in {queue, Append(queue, received + 1)}
             /\ loop' = loop \/ loop' = [loop EXCEPT !.flush = TRUE]
    <3>1. /\ loop'.turn = loop.turn /\ loop'.starve = loop.starve /\ loop'.claude = loop.claude
          /\ loop'.steered = loop.steered /\ loop'.interrupted = loop.interrupted
      BY <1>0, <2>2 DEF Flags
    <3> QED BY <2>0, <2>a, <2>2, <3>1, CostKept
  <2>3. CASE SteerIdle(received + 1)
    BY <2>1, <2>2, <2>3 DEF SteerIdle
  <2>4. CASE SteerMidTurn(received + 1)
    BY <2>2, <2>4 DEF SteerMidTurn
  <2> QED BY <1>11, <2>3, <2>4 DEF SteerArrives
<1>12. CASE MailboxCloses \/ Interrupt
  <2>1. /\ phase = "main" /\ phase' \in {"main", "ended"} /\ UNCHANGED <<agent, reply, owed, answer, incoming, misread, queue>>
        /\ loop'.starve = loop.starve /\ loop'.claude = loop.claude /\ loop'.steered = loop.steered
        /\ loop.interrupted => loop'.interrupted
        /\ phase' = "main" => loop'.turn = loop.turn
    BY <1>0, <1>12 DEF MailboxCloses, Interrupt, End, Flags
  <2> QED BY <1>e, <1>l, <2>1, CostKept
<1>13. CASE AgentContinues
  <2>1. /\ phase = "main" /\ agent' = "own" /\ agent = "idle"
        /\ UNCHANGED <<phase, loop, queue, reply, owed, answer, incoming, misread>>
    BY <1>13 DEF AgentContinues
  <2>2. CostView => CostView'
    BY <2>1 DEF CostView, Running
  <2> QED BY <2>1, <2>2 DEF CostInv, Claude
<1>14. CASE AgentStreams
  <2>1. PICK f \in {"text", "tool", "result", "injectedCost"} :
           /\ incoming' = Append(incoming, f) /\ owed' = (owed /\ f # "injectedCost")
           /\ f = "injectedCost" => owed
    BY <1>14 DEF AgentStreams
  <2>2. UNCHANGED <<phase, loop, queue, agent, reply, answer, misread>> /\ agent # "idle"
    BY <1>14 DEF AgentStreams
  <2>3. phase # "setup"
    BY <2>2 DEF WatchInv
  <2>4. f \in Frames /\ \A g : Holds(incoming', g) <=> Holds(incoming, g) \/ f = g
    <3>1. f \in Frames
      BY <2>1 DEF Frames, Costs
    <3> QED BY <1>0, <2>1, <3>1, HoldsAppend
  <2>5. CostView => CostView'
    <3> SUFFICES ASSUME CostView PROVE CostView'
      OBVIOUS
    <3>1. owed' => owed
      BY <2>1
    <3>2. Holds(incoming', "cost") <=> Holds(incoming, "cost")
      BY <2>1, <2>4
    <3>3. Holds(incoming', "injectedCost") => Holds(incoming, "injectedCost") \/ owed
      BY <2>1, <2>4
    <3>4. ~loop.turn => ~owed
      BY DEF CostView, Running
    <3> QED BY <2>2, <3>1, <3>2, <3>3, <3>4 DEF CostView
  <2> QED BY <2>2, <2>3, <2>5 DEF CostInv, Claude
<1>15. CASE AgentAsks
  <2>1. /\ incoming' = Append(incoming, "ask") /\ agent # "idle" /\ "ask" \in Frames
        /\ UNCHANGED <<phase, loop, queue, agent, owed, reply, answer, misread>>
    BY <1>15 DEF AgentAsks, Frames
  <2>2. \A g : Holds(incoming', g) <=> Holds(incoming, g) \/ "ask" = g
    BY <1>0, <2>1, HoldsAppend
  <2>3. CostView => CostView'
    <3>1. /\ Holds(incoming', "cost") <=> Holds(incoming, "cost")
          /\ Holds(incoming', "injectedCost") <=> Holds(incoming, "injectedCost")
      BY <2>2
    <3> QED BY <2>1, <3>1 DEF CostView
  <2>4. phase # "setup"
    BY <2>1 DEF WatchInv
  <2> QED BY <2>1, <2>3, <2>4 DEF CostInv, Claude
<1>16. CASE AgentEnds
  <2> DEFINE fs == EndFrames(Claude, agent)
  <2>1. /\ incoming' = incoming \o fs /\ agent # "idle" /\ owed' = FALSE
        /\ UNCHANGED <<phase, loop, queue, answer, misread>>
        /\ agent' = IF agent = "next" THEN "prompt" ELSE "idle"
        /\ agent = "next" => reply' = reply
    BY <1>16 DEF AgentEnds, EndFrames
  <2>2. /\ fs \in Seq(Frames) /\ ~Holds(fs, "injectedCost")
        /\ Holds(fs, "cost") => agent \notin {"own", "next"}
    BY <1>0, EndFramesHold DEF Claude
  <2> HIDE DEF fs
  <2>3. \A g : Holds(incoming', g) <=> Holds(incoming, g) \/ Holds(fs, g)
    BY <1>0, <2>1, <2>2, HoldsConcat
  <2>4. phase # "setup"
    BY <2>1 DEF WatchInv
  <2>5. ASSUME Claude, ~misread, phase = "main" PROVE CostView'
    <3>1. CostView
      BY <2>5 DEF CostInv
    <3>2. Holds(incoming', "injectedCost") <=> Holds(incoming, "injectedCost")
      BY <2>2, <2>3
    <3>3. ~loop.turn => ~Holds(incoming', "cost")
      <4>1. agent \in {"own", "idle"} \cup Running
        BY DEF WatchInv, Running
      <4>2. ~loop.turn => agent \in {"own", "idle"} /\ ~Holds(incoming, "cost")
        BY <3>1, <4>1 DEF CostView
      <4> QED BY <2>1, <2>2, <2>3, <4>2
    <3>4. CASE agent = "next"
      <4>1. Holds(incoming', "cost") <=> Holds(incoming, "cost")
        BY <2>2, <2>3, <3>4
      <4> QED BY <2>1, <3>1, <3>2, <3>4, <4>1 DEF CostView, Running
    <3>5. CASE agent # "next"
      BY <2>1, <3>1, <3>2, <3>3, <3>5 DEF CostView, Running
    <3> QED BY <3>4, <3>5
  <2> QED BY <2>1, <2>4, <2>5 DEF CostInv, Claude
<1>17. CASE AgentCancelled
  <2>1. agent' = "idle" /\ owed' = FALSE /\ UNCHANGED <<phase, loop, queue, answer, incoming, misread>>
    BY <1>17 DEF AgentCancelled
  <2>2. phase = "setup" => reply' = reply
    BY <1>17 DEF AgentCancelled, WatchInv
  <2>3. CostView => CostView'
    BY <2>1 DEF CostView, Running
  <2> QED BY <2>1, <2>2, <2>3 DEF CostInv, Claude
<1>18. CASE AgentAnswersSteer
  <2>1. /\ UNCHANGED <<phase, loop, queue, agent, reply, incoming, misread>> /\ answer = "none" /\ call # 0
        /\ \/ agent = "prompt" /\ answer' = "injected" /\ owed' = Claude
           \/ agent # "prompt" /\ answer' = "noRunningTurn" /\ owed' = owed
           \/ answer' \in {"promptRequired", "err"} /\ owed' = owed
    BY <1>18 DEF AgentAnswersSteer
  <2>2. CostView => CostView'
    BY <2>1 DEF CostView
  <2>3. phase = "setup" => owed' = owed
    BY <2>1 DEF WatchInv
  <2> QED BY <2>1, <2>2, <2>3 DEF CostInv, Claude
<1>19. CASE AgentExits
  <2>1. /\ agent' = "idle" /\ owed' = FALSE /\ UNCHANGED <<phase, loop, queue, incoming, misread>>
        /\ answer = "injected" => answer' = "injected"
    BY <1>19 DEF AgentExits
  <2>2. phase = "setup" => reply' = reply
    BY <1>19 DEF AgentExits, CostInv
  <2>3. CostView => CostView'
    BY <2>1 DEF CostView, Running
  <2> QED BY <2>1, <2>2, <2>3 DEF CostInv, Claude
<1>20. CASE UserAnswers \/ UNCHANGED acpVars
  <2>1. UNCHANGED <<phase, loop, queue, agent, reply, owed, answer, incoming, misread>>
    BY <1>20 DEF UserAnswers, acpVars
  <2>2. CostView => CostView'
    BY <2>1 DEF CostView
  <2> QED BY <2>1, <2>2 DEF CostInv, Claude
<1> QED
  BY <1>1, <1>2, <1>3, <1>4, <1>5, <1>6, <1>7, <1>8, <1>9, <1>10, <1>11, <1>12, <1>13, <1>14,
     <1>15, <1>16, <1>17, <1>18, <1>19, <1>20 DEF AcpNext, LoopStep, AgentStep

\* The loop settles a turn itself only when its agent is done with it or will never answer:
\* silence behind a running tool or an open question is waited for, and only the cost of our
\* own turn's end counts (quiet_settle and the cost hint of run_session), but for tool frames
\* a drain swallowed and an earlier turn's cost read too late.
THEOREM SettlesOnlyDeadTurns == AcpSpec => OnlyDeadTurnsAreSettled
<1> DEFINE DeadInv == BoundaryInv /\ SteerInv /\ WatchInv /\ CostInv
<1>1. AcpInit => DeadInv
  BY InitBoundary, InitSteer, InitDead
<1>2. DeadInv /\ [AcpNext]_acpVars => DeadInv'
  BY StepBoundary, StepSteer, StepWatch, StepCost
<1>3. DeadInv => SettleStep
  <2> SUFFICES ASSUME DeadInv PROVE SettleStep
    OBVIOUS
  <2>1. ASSUME QuietSettle, agent = "prompt" PROVE busy = "none" \/ blind
    <3>1. incoming = <<>> /\ questions = 0 /\ ~loop.tools /\ phase = "main" /\ loop.tools \in BOOLEAN
      BY <2>1 DEF QuietSettle, NothingReady, BoundaryInv, Flags
    <3>2. busy # "user"
      BY <3>1, HoldsNothing DEF WatchInv
    <3>3. ~ToolIn(incoming, loop.tools)
      BY <3>1, ToolNothing
    <3> QED BY <2>1, <3>1, <3>2, <3>3 DEF WatchInv
  <2>2. ASSUME StarveExpires, loop.starve = "cost" PROVE agent # "prompt" \/ misread
    BY <2>2 DEF StarveExpires, CostInv, CostView, Running
  <2> QED BY <2>1, <2>2 DEF SettleStep
<1>4. DeadInv => [SettleStep]_acpVars
  BY <1>3
<1> HIDE DEF DeadInv
<1> QED BY <1>1, <1>2, <1>4, PTL DEF AcpSpec, OnlyDeadTurnsAreSettled
=============================================================================
