---------------------------- MODULE DshLoopProofs ----------------------------
(***************************************************************************)
(* The proofs about DshLoop: in every reachable state, for any number of    *)
(* messages, tool calls, failed flushes and crashes, the session log is      *)
(* well formed, the artifact and the write-behind's queue rebuild it, no     *)
(* message is in two places and an idle driver owes no answer.              *)
(*                                                                         *)
(* Replay is a fold, so the first part opens it up: FoldLeft is a table over *)
(* the subsets of the domain, and induction on numbers (as a set, since the  *)
(* library's induction rules cannot be instantiated) gives what one event   *)
(* more and one run of events more do.  Then: what each event does to a log, *)
(* which runs of events are legal where, what becomes of the messages, the   *)
(* batches of the write-behind, the driver's steps, and the actions.         *)
(***************************************************************************)
EXTENDS DshLoop, FiniteSetTheorems, SequenceTheorems, WellFoundedInduction, TLAPS

-----------------------------------------------------------------------------
(* Induction and the fold.                                                 *)

\* A set of numbers that has 0 and the successor of each member has them all.
LEMMA Induct ==
    ASSUME NEW S, 0 \in S, \A n \in Nat : n \in S => n + 1 \in S
    PROVE  \A n \in Nat : n \in S
<1> DEFINE T == Nat \ S
<1>1. SUFFICES ASSUME T # {} PROVE FALSE
  OBVIOUS
<1>2. \E n \in T : \A m \in T : ~(<<m, n>> \in OpToRel(<, Nat))
  BY <1>1, NatLessThanWellFounded, WFMin
<1>3. PICK n \in T : \A m \in T : ~(m < n)
  BY <1>2 DEF OpToRel
<1>4. n # 0 /\ n - 1 \in Nat /\ n - 1 < n
  BY <1>3
<1>5. n - 1 \in S
  BY <1>3, <1>4
<1> QED BY <1>3, <1>4, <1>5

\* The recursive function behind FoldLeft.
Layer(f, es, g, s) == IF s = {} THEN f ELSE Apply(g[s \ {Max(s)}], es[Max(s)])
Table(f, es) == CHOOSE g : g = [s \in SUBSET (DOMAIN es) |-> Layer(f, es, g, s)]

\* FoldLeft reads its result off that table.
LEMMA ReplayTable == \A f, es : Replay(f, es) = Table(f, es)[DOMAIN es]
BY DEF Replay, FoldLeft, MapThenFoldSet, Table, Layer

\* A set of numbers up to n + 1 that has n + 1: its largest member, and the others.
LEMMA MaxOf ==
    ASSUME NEW n \in Nat, NEW s \in SUBSET (1..(n + 1)), n + 1 \in s
    PROVE  Max(s) = n + 1 /\ s \ {Max(s)} \in SUBSET (1..n)
<1>1. \A y \in s : n + 1 >= y
  OBVIOUS
<1>2. \A x \in s : (\A y \in s : x >= y) => x = n + 1
  OBVIOUS
<1>3. Max(s) = n + 1
  BY <1>1, <1>2 DEF Max
<1> QED BY <1>3

\* The table exists.
LEMMA TableExists ==
    ASSUME NEW f, NEW es, NEW N \in Nat, DOMAIN es = 1..N
    PROVE  Table(f, es) = [s \in SUBSET (1..N) |-> Layer(f, es, Table(f, es), s)]
<1> DEFINE Ok(n) == \E g : g = [s \in SUBSET (1..n) |-> Layer(f, es, g, s)]
           S == {n \in Nat : Ok(n)}
<1>1. 0 \in S
  <2> DEFINE g == [s \in SUBSET (1..0) |-> f]
  <2>1. \A s \in SUBSET (1..0) : Layer(f, es, g, s) = f
    BY DEF Layer
  <2>2. g = [s \in SUBSET (1..0) |-> Layer(f, es, g, s)]
    BY <2>1
  <2> QED BY <2>2
<1>2. ASSUME NEW n \in Nat, n \in S PROVE n + 1 \in S
  <2>1. PICK g : g = [s \in SUBSET (1..n) |-> Layer(f, es, g, s)]
    BY <1>2
  <2> DEFINE h == [s \in SUBSET (1..(n + 1)) |->
                    IF n + 1 \in s THEN Apply(g[s \ {n + 1}], es[n + 1]) ELSE g[s]]
  <2>2. ASSUME NEW s \in SUBSET (1..(n + 1)) PROVE h[s] = Layer(f, es, h, s)
    <3>1. CASE n + 1 \in s
      <4>1. Max(s) = n + 1 /\ s \ {n + 1} \in SUBSET (1..n)
        BY <3>1, MaxOf
      <4>2. h[s \ {n + 1}] = g[s \ {n + 1}]
        BY <4>1
      <4> QED BY <3>1, <4>1, <4>2 DEF Layer
    <3>2. CASE n + 1 \notin s
      <4>1. s \in SUBSET (1..n)
        BY <3>2
      <4>2. h[s] = Layer(f, es, g, s)
        BY <2>1, <3>2, <4>1
      <4>3. s \ {Max(s)} \in SUBSET (1..n) /\ n + 1 \notin s \ {Max(s)}
        <5> DEFINE m == Max(s)
        <5> HIDE DEF m
        <5>1. s \ {m} \in SUBSET (1..n) /\ n + 1 \notin s \ {m}
          BY <3>2, <4>1
        <5> QED BY <5>1 DEF m
      <4>4. h[s \ {Max(s)}] = g[s \ {Max(s)}]
        BY <4>3
      <4> QED BY <4>2, <4>4 DEF Layer
    <3> QED BY <3>1, <3>2
  <2>3. h = [s \in SUBSET (1..(n + 1)) |-> Layer(f, es, h, s)]
    BY <2>2
  <2>4. Ok(n + 1)
    BY <2>3
  <2> HIDE DEF Ok
  <2> QED BY <2>4
<1>3. Ok(N)
  <2>1. \A n \in Nat : n \in S => n + 1 \in S
    BY <1>2
  <2> HIDE DEF S
  <2>2. N \in S
    BY <1>1, <2>1, Induct
  <2> QED BY <2>2 DEF S
<1> QED BY <1>3 DEF Table

\* Tables of sequences that agree on a prefix agree on it.
LEMMA TablesAgree ==
    ASSUME NEW f, NEW es, NEW fs, NEW N \in Nat,
           DOMAIN es = 1..N, DOMAIN fs = 1..(N + 1), \A i \in 1..N : es[i] = fs[i]
    PROVE  Table(f, es)[1..N] = Table(f, fs)[1..N]
<1> DEFINE g == Table(f, es)
           h == Table(f, fs)
           S == {n \in Nat : n <= N => \A s \in SUBSET (1..n) : g[s] = h[s]}
<1>1. g = [s \in SUBSET (1..N) |-> Layer(f, es, g, s)]
  <2>1. N \in Nat /\ DOMAIN es = 1..N
    OBVIOUS
  <2> QED BY ONLY <2>1, TableExists, ZenonT(40)
<1>2. h = [s \in SUBSET (1..(N + 1)) |-> Layer(f, fs, h, s)]
  <2>1. N + 1 \in Nat /\ DOMAIN fs = 1..(N + 1)
    OBVIOUS
  <2> QED BY ONLY <2>1, TableExists, ZenonT(40)
<1> HIDE DEF g, h
<1>3. \A s \in SUBSET (1..N) : g[s] = Layer(f, es, g, s) /\ h[s] = Layer(f, fs, h, s)
  <2>1. \A s \in SUBSET (1..N) : s \in SUBSET (1..(N + 1))
    OBVIOUS
  <2> QED BY <1>1, <1>2, <2>1
<1>4. 0 \in S
  <2>1. \A s \in SUBSET (1..0) : s = {} /\ s \in SUBSET (1..N)
    OBVIOUS
  <2> QED BY <1>3, <2>1 DEF Layer
<1>5. ASSUME NEW n \in Nat, n \in S PROVE n + 1 \in S
  <2>0. n + 1 \in Nat /\ (n + 1 <= N => \A s \in SUBSET (1..n) : g[s] = h[s])
    BY <1>5
  <2> SUFFICES ASSUME n + 1 <= N, NEW s \in SUBSET (1..(n + 1)) PROVE g[s] = h[s]
    BY <2>0
  <2>1. s \in SUBSET (1..N)
    OBVIOUS
  <2>2. CASE n + 1 \in s
    <3>1. Max(s) = n + 1 /\ s \ {n + 1} \in SUBSET (1..n) /\ s # {}
      BY <2>2, MaxOf
    <3>2. g[s \ {n + 1}] = h[s \ {n + 1}]
      BY <2>0, <3>1
    <3>3. es[n + 1] = fs[n + 1]
      OBVIOUS
    <3> QED BY <1>3, <2>1, <3>1, <3>2, <3>3, ZenonT(40) DEF Layer
  <2>3. CASE n + 1 \notin s
    <3>1. s \in SUBSET (1..n)
      BY <2>3
    <3> QED BY <2>0, <3>1
  <2> QED BY <2>2, <2>3
<1>6. N \in S
  BY <1>4, <1>5, Induct
<1> QED BY <1>6 DEF g, h

\* A replay of nothing, and of one event more.
LEMMA ReplayNone == \A f : Replay(f, <<>>) = f
<1> SUFFICES ASSUME NEW f PROVE Replay(f, <<>>) = f
  OBVIOUS
<1>1. DOMAIN <<>> = 1..0
  OBVIOUS
<1>2. Table(f, <<>>)[1..0] = Layer(f, <<>>, Table(f, <<>>), 1..0)
  <2>1. Table(f, <<>>) = [s \in SUBSET (1..0) |-> Layer(f, <<>>, Table(f, <<>>), s)]
    <3> DEFINE es == <<>>
    <3>1. DOMAIN es = 1..0
      BY <1>1
    <3> HIDE DEF es
    <3>2. 0 \in Nat
      OBVIOUS
    <3>3. Table(f, es) = [s \in SUBSET (1..0) |-> Layer(f, es, Table(f, es), s)]
      BY ONLY <3>1, <3>2, TableExists, ZenonT(40)
    <3> QED BY <3>3 DEF es
  <2>2. 1..0 \in SUBSET (1..0)
    OBVIOUS
  <2> QED BY <2>1, <2>2
<1>3. 1..0 = {}
  OBVIOUS
<1> QED BY <1>1, <1>2, <1>3, ReplayTable DEF Layer

\* A replay of one event more is one more application.
LEMMA ReplayAppend ==
    ASSUME NEW f, NEW S, NEW es \in Seq(S), NEW e \in S
    PROVE  Replay(f, Append(es, e)) = Apply(Replay(f, es), e)
<1> DEFINE n == Len(es)
           fs == Append(es, e)
<1>1. /\ n \in Nat /\ DOMAIN es = 1..n /\ DOMAIN fs = 1..(n + 1)
      /\ fs[n + 1] = e /\ \A i \in 1..n : es[i] = fs[i]
  OBVIOUS
<1> HIDE DEF n, fs
<1>2. Table(f, fs)[1..(n + 1)] = Layer(f, fs, Table(f, fs), 1..(n + 1))
  <2>1. n + 1 \in Nat
    BY <1>1
  <2>2. Table(f, fs) = [s \in SUBSET (1..(n + 1)) |-> Layer(f, fs, Table(f, fs), s)]
    BY ONLY <1>1, <2>1, TableExists, ZenonT(40)
  <2>3. 1..(n + 1) \in SUBSET (1..(n + 1))
    OBVIOUS
  <2> QED BY <2>2, <2>3
<1>3. n + 1 \in 1..(n + 1) /\ 1..(n + 1) # {} /\ (1..(n + 1)) \ {n + 1} = 1..n
  <2>1. n + 1 \in 1..(n + 1)
    BY <1>1
  <2>2. \A x : x \in (1..(n + 1)) \ {n + 1} <=> x \in 1..n
    BY <1>1
  <2> QED BY <2>1, <2>2
<1>4. Max(1..(n + 1)) = n + 1
  BY <1>1, <1>3, MaxOf
<1>5. Table(f, fs)[1..(n + 1)] = Apply(Table(f, fs)[1..n], e)
  BY <1>1, <1>2, <1>3, <1>4 DEF Layer
<1>6. Table(f, es)[1..n] = Table(f, fs)[1..n]
  BY <1>1, TablesAgree
<1> QED BY <1>1, <1>5, <1>6, ReplayTable DEF fs

\* An element appended to the second of two sequences.
LEMMA ConcatAppend ==
    ASSUME NEW S, NEW s \in Seq(S), NEW t \in Seq(S), NEW e \in S
    PROVE  s \o t \in Seq(S) /\ s \o Append(t, e) = Append(s \o t, e)
<1>1. s \o t \in Seq(S) /\ Append(t, e) \in Seq(S) /\ <<e>> \in Seq(S)
  OBVIOUS
<1>2. Append(t, e) = t \o <<e>> /\ Append(s \o t, e) = (s \o t) \o <<e>>
  BY <1>1, AppendIsConcat
<1>3. (s \o t) \o <<e>> = s \o (t \o <<e>>)
  BY <1>1, ConcatAssociative
<1> QED BY <1>1, <1>2, <1>3

\* A replay in two parts.
LEMMA ReplayConcat ==
    ASSUME NEW f, NEW S, NEW xs \in Seq(S), NEW ys \in Seq(S)
    PROVE  Replay(f, xs \o ys) = Replay(Replay(f, xs), ys)
<1> DEFINE Ok(n) == \A cs \in Seq(S) : Len(cs) = n =>
                       Replay(f, xs \o cs) = Replay(Replay(f, xs), cs)
           T == {n \in Nat : Ok(n)}
<1>1. Ok(0)
  <2> SUFFICES ASSUME NEW cs \in Seq(S), Len(cs) = 0
               PROVE  Replay(f, xs \o cs) = Replay(Replay(f, xs), cs)
    OBVIOUS
  <2>1. cs = <<>> /\ xs \o <<>> = xs
    BY ConcatEmptySeq
  <2> QED BY <2>1, ReplayNone
<1>2. ASSUME NEW n \in Nat, Ok(n) PROVE Ok(n + 1)
  <2> SUFFICES ASSUME NEW cs \in Seq(S), Len(cs) = n + 1
               PROVE  Replay(f, xs \o cs) = Replay(Replay(f, xs), cs)
    OBVIOUS
  <2> DEFINE ds == SubSeq(cs, 1, n)
             e == cs[n + 1]
  <2>1. ds \in Seq(S) /\ e \in S /\ Len(ds) = n /\ cs = Append(ds, e)
    OBVIOUS
  <2> HIDE DEF ds, e
  <2>2. xs \o ds \in Seq(S) /\ xs \o Append(ds, e) = Append(xs \o ds, e)
    BY <2>1, ConcatAppend
  <2>3. Replay(f, xs \o ds) = Replay(Replay(f, xs), ds)
    BY <1>2, <2>1
  <2>4. Replay(f, Append(xs \o ds, e)) = Apply(Replay(f, xs \o ds), e)
    BY ONLY <2>1, <2>2, ReplayAppend, ZenonT(40)
  <2>5. Replay(Replay(f, xs), Append(ds, e)) = Apply(Replay(Replay(f, xs), ds), e)
    <3> DEFINE g == Replay(f, xs)
    <3> HIDE DEF g
    <3>1. Replay(g, Append(ds, e)) = Apply(Replay(g, ds), e)
      BY ONLY <2>1, ReplayAppend, ZenonT(40)
    <3> QED BY <3>1 DEF g
  <2> QED BY <2>1, <2>2, <2>3, <2>4, <2>5
<1>3. \A n \in Nat : Ok(n)
  <2> HIDE DEF Ok
  <2>1. 0 \in T
    BY <1>1
  <2>2. \A n \in Nat : n \in T => n + 1 \in T
    BY <1>2
  <2> HIDE DEF T
  <2>3. \A n \in Nat : n \in T
    BY <2>1, <2>2, Induct
  <2> QED BY <2>3 DEF T
<1>4. Len(ys) \in Nat
  OBVIOUS
<1>5. Ok(Len(ys))
  BY <1>3, <1>4
<1> QED BY <1>5

\* A replay of a single event.
LEMMA ReplayOne == \A f, e : Replay(f, <<e>>) = Apply(f, e)
<1> SUFFICES ASSUME NEW f, NEW e PROVE Replay(f, <<e>>) = Apply(f, e)
  OBVIOUS
<1>1. <<>> \in Seq({e}) /\ e \in {e} /\ Append(<<>>, e) = <<e>>
  OBVIOUS
<1>2. Replay(f, Append(<<>>, e)) = Apply(Replay(f, <<>>), e)
  BY ONLY <1>1, ReplayAppend, ZenonT(40)
<1> QED BY <1>1, <1>2, ReplayNone

-----------------------------------------------------------------------------
(* Logs.                                                                   *)

Still   == {"turn", "step", "stepEnd", "asst", "call", "result", "seed"}
Moving  == {"user", "putStep", "putTurn", "takeStep", "takeTurn"}
Endings == {"none", "completed", "maxTokens", "aborted", "error", "interrupted"}
Plain   == [type : Still, arg : Nat] \cup [type : {"turnEnd"}, arg : Endings]
Events  == Plain \cup [type : Moving, arg : Nat]

\* The fold of a log has the shape of one; while it is well formed, calls are open
\* in a step only.
Logs == [len : Nat, open : {"no", "turn", "step"}, calls : SUBSET Nat,
         turnQ : Seq(Nat), stepQ : Seq(Nat), users : Seq(Nat), end : Endings,
         marker : BOOLEAN, bad : BOOLEAN]
Shaped(f) ==
    /\ f \in Logs
    /\ IsFiniteSet(f.calls)
    /\ ~f.bad /\ f.open # "step" => f.calls = {}

\* A new session's log has the shape.
LEMMA NewLogShaped == Shaped(NewLog)
<1>1. IsFiniteSet({}) /\ <<>> \in Seq(Nat)
  BY FS_EmptySet
<1> QED BY <1>1 DEF NewLog, Shaped, Logs, Endings

\* What is left of an inbox queue after its first n messages is a queue.
LEMMA SkipSeq == ASSUME NEW s \in Seq(Nat), NEW n \in Nat PROVE Skip(s, n) \in Seq(Nat)
BY DEF Skip

\* What an event does to the fold, one event type at a time.
LEMMA FoldedShaped ==
    ASSUME NEW f, Shaped(f), NEW e \in Events
    PROVE  /\ Folded(f, e) \in Logs /\ IsFiniteSet(Folded(f, e).calls)
           /\ ~f.bad /\ Legal(f, e) /\ Folded(f, e).open # "step" => Folded(f, e).calls = {}
<1> DEFINE Goal == /\ Folded(f, e) \in Logs /\ IsFiniteSet(Folded(f, e).calls)
                   /\ ~f.bad /\ Legal(f, e) /\ Folded(f, e).open # "step" => Folded(f, e).calls = {}
<1>0. IsFiniteSet({}) /\ f \in Logs /\ IsFiniteSet(f.calls)
  BY FS_EmptySet DEF Shaped
<1>1. CASE e.type \in {"turn", "step", "call", "seed"}
  BY <1>0, <1>1 DEF Folded, Legal, Shaped, Logs
<1>2. CASE e.type = "turnEnd"
  <2>1. e.arg \in Endings
    BY <1>2 DEF Events, Plain, Still, Moving
  <2> QED BY <1>0, <1>2, <2>1 DEF Folded, Logs
<1>3. CASE e.type = "stepEnd"
  BY <1>0, <1>3 DEF Folded, Logs
<1>4. CASE e.type = "asst"
  <2>1. e.arg \in Nat
    BY <1>4 DEF Events, Plain, Still, Moving
  <2>2. IsFiniteSet(1..e.arg) /\ 1..e.arg \subseteq Nat
    BY <2>1, FS_Interval
  <2> QED BY <1>0, <1>4, <2>2 DEF Folded, Legal, Logs
<1>5. CASE e.type = "result"
  <2>1. IsFiniteSet(f.calls \ {e.arg})
    BY <1>0, FS_RemoveElement
  <2> QED BY <1>0, <1>5, <2>1 DEF Folded, Legal, Logs
<1>6. CASE e.type \in Moving
  <2>1. e.arg \in Nat
    BY <1>6 DEF Events, Plain, Still, Moving
  <2>2. f.turnQ \in Seq(Nat) /\ f.stepQ \in Seq(Nat) /\ f.users \in Seq(Nat)
    BY <1>0 DEF Logs
  <2>3. /\ Skip(f.turnQ, e.arg) \in Seq(Nat) /\ Skip(f.stepQ, e.arg) \in Seq(Nat)
        /\ Append(f.turnQ, e.arg) \in Seq(Nat) /\ Append(f.stepQ, e.arg) \in Seq(Nat)
        /\ Append(f.users, e.arg) \in Seq(Nat)
    <3> DEFINE m == e.arg
    <3>0. m \in Nat
      BY <2>1
    <3> HIDE DEF m
    <3>1. \A s \in Seq(Nat) : Append(s, m) \in Seq(Nat) /\ Skip(s, m) \in Seq(Nat)
      BY <3>0, SkipSeq
    <3> QED BY <2>2, <3>1 DEF m
  <2>4. Folded(f, e) \in Logs /\ Folded(f, e).calls = f.calls /\ Folded(f, e).open = f.open
    BY <1>0, <1>6, <2>3 DEF Folded, Logs, Moving
  <2> QED BY <1>0, <2>4 DEF Shaped
<1> QED BY <1>1, <1>2, <1>3, <1>4, <1>5, <1>6 DEF Events, Plain, Still, Moving

\* One event keeps the shape and counts itself; an illegal one makes the log bad.
LEMMA ApplyShaped ==
    ASSUME NEW f, Shaped(f), NEW e \in Events
    PROVE  /\ Shaped(Apply(f, e)) /\ Apply(f, e).len = f.len + 1
           /\ Apply(f, e).bad = (f.bad \/ ~Legal(f, e))
           /\ Apply(f, e).open = Folded(f, e).open /\ Apply(f, e).calls = Folded(f, e).calls
           /\ Apply(f, e).turnQ = Folded(f, e).turnQ /\ Apply(f, e).stepQ = Folded(f, e).stepQ
           /\ Apply(f, e).users = Folded(f, e).users /\ Apply(f, e).end = Folded(f, e).end
<1> DEFINE g == Folded(f, e)
           l == f.bad \/ ~Legal(f, e)
           m == (e.type = "seed")
<1>1. /\ g \in Logs /\ IsFiniteSet(g.calls)
      /\ ~l /\ g.open # "step" => g.calls = {}
  BY FoldedShaped
<1>2. Apply(f, e) = [g EXCEPT !.len = f.len + 1, !.bad = l, !.marker = m]
  BY DEF Apply
<1>3. f.len + 1 \in Nat /\ l \in BOOLEAN /\ m \in BOOLEAN
  BY DEF Shaped, Logs
<1> HIDE DEF g, l, m
<1>4. /\ Apply(f, e) \in Logs /\ Apply(f, e).len = f.len + 1 /\ Apply(f, e).bad = l
      /\ Apply(f, e).open = g.open /\ Apply(f, e).calls = g.calls
      /\ Apply(f, e).turnQ = g.turnQ /\ Apply(f, e).stepQ = g.stepQ
      /\ Apply(f, e).users = g.users /\ Apply(f, e).end = g.end
  BY <1>1, <1>2, <1>3 DEF Logs
<1>5. Shaped(Apply(f, e))
  BY <1>1, <1>4 DEF Shaped
<1> QED BY <1>4, <1>5 DEF g, l

\* A set of sequences that has the empty one and every extension of its members
\* has them all.
LEMMA SeqInduct ==
    ASSUME NEW S, NEW W, <<>> \in W,
           \A s \in Seq(S), e \in S : s \in W => Append(s, e) \in W
    PROVE  \A s \in Seq(S) : s \in W
<1> DEFINE T == {n \in Nat : \A s \in Seq(S) : Len(s) = n => s \in W}
<1>1. 0 \in T
  <2>1. \A s \in Seq(S) : Len(s) = 0 => s = <<>>
    OBVIOUS
  <2> QED BY <2>1
<1>2. ASSUME NEW n \in Nat, n \in T PROVE n + 1 \in T
  <2> SUFFICES ASSUME NEW s \in Seq(S), Len(s) = n + 1 PROVE s \in W
    OBVIOUS
  <2> DEFINE t == SubSeq(s, 1, n)
             e == s[n + 1]
  <2>1. t \in Seq(S) /\ e \in S /\ Len(t) = n /\ s = Append(t, e)
    OBVIOUS
  <2> HIDE DEF t, e
  <2>2. t \in W
    BY <1>2, <2>1
  <2> QED BY <2>1, <2>2
<1>3. \A n \in Nat : n \in T
  <2>1. \A n \in Nat : n \in T => n + 1 \in T
    BY <1>2
  <2> HIDE DEF T
  <2> QED BY <1>1, <2>1, Induct
<1>4. \A s \in Seq(S) : Len(s) \in Nat
  OBVIOUS
<1> QED BY <1>3, <1>4

\* A replay keeps the shape, counts its events and never makes a bad log good.
LEMMA ReplayShaped ==
    ASSUME NEW f, Shaped(f), NEW es \in Seq(Events)
    PROVE  /\ Shaped(Replay(f, es)) /\ Replay(f, es).len = f.len + Len(es)
           /\ f.bad => Replay(f, es).bad
<1> DEFINE P(s) == /\ Shaped(Replay(f, s)) /\ Replay(f, s).len = f.len + Len(s)
                   /\ f.bad => Replay(f, s).bad
           W == {s \in Seq(Events) : P(s)}
<1>1. P(<<>>)
  <2>1. f.len \in Nat /\ Len(<<>>) = 0
    BY DEF Shaped, Logs
  <2> QED BY <2>1, ReplayNone
<1>2. ASSUME NEW s \in Seq(Events), P(s), NEW e \in Events PROVE P(Append(s, e))
  <2>1. Replay(f, Append(s, e)) = Apply(Replay(f, s), e)
    BY ReplayAppend
  <2> DEFINE g == Replay(f, s)
  <2>2. Shaped(g) /\ g.len = f.len + Len(s) /\ (f.bad => g.bad)
    BY <1>2
  <2> HIDE DEF g
  <2>3. Shaped(Apply(g, e)) /\ Apply(g, e).len = g.len + 1 /\ Apply(g, e).bad = (g.bad \/ ~Legal(g, e))
    BY <2>2, ApplyShaped
  <2>4. Len(Append(s, e)) = Len(s) + 1 /\ Len(s) \in Nat /\ f.len \in Nat
    BY DEF Shaped, Logs
  <2>5. Apply(g, e).len = f.len + Len(Append(s, e))
    BY <2>2, <2>3, <2>4
  <2>6. f.bad => Apply(g, e).bad
    BY <2>2, <2>3
  <2>7. Replay(f, Append(s, e)) = Apply(g, e)
    BY <2>1 DEF g
  <2> HIDE DEF P
  <2> QED BY <2>3, <2>5, <2>6, <2>7 DEF P
<1> HIDE DEF P
<1>3. <<>> \in W /\ \A s \in Seq(Events), e \in Events : s \in W => Append(s, e) \in W
  BY <1>1, <1>2
<1> HIDE DEF W
<1>4. es \in W
  BY <1>3, SeqInduct
<1> QED BY <1>4 DEF W, P

\* Events other than messages and inbox splices leave both alone.
LEMMA ReplayPlain ==
    ASSUME NEW f, Shaped(f), NEW es \in Seq(Plain)
    PROVE  /\ Replay(f, es).users = f.users /\ Replay(f, es).turnQ = f.turnQ
           /\ Replay(f, es).stepQ = f.stepQ
<1> DEFINE P(s) == /\ Shaped(Replay(f, s)) /\ Replay(f, s).users = f.users
                   /\ Replay(f, s).turnQ = f.turnQ /\ Replay(f, s).stepQ = f.stepQ
           W == {s \in Seq(Plain) : P(s)}
<1>1. P(<<>>)
  BY ReplayNone
<1>2. ASSUME NEW s \in Seq(Plain), P(s), NEW e \in Plain PROVE P(Append(s, e))
  <2>1. Replay(f, Append(s, e)) = Apply(Replay(f, s), e)
    BY ReplayAppend
  <2> DEFINE g == Replay(f, s)
  <2>2. Shaped(g) /\ g.users = f.users /\ g.turnQ = f.turnQ /\ g.stepQ = f.stepQ
    BY <1>2
  <2>3. e \in Events
    BY DEF Events
  <2> HIDE DEF g
  <2>4. /\ Shaped(Apply(g, e)) /\ Apply(g, e).turnQ = Folded(g, e).turnQ
        /\ Apply(g, e).stepQ = Folded(g, e).stepQ /\ Apply(g, e).users = Folded(g, e).users
    BY <2>2, <2>3, ApplyShaped
  <2>5. /\ Folded(g, e).turnQ = g.turnQ /\ Folded(g, e).stepQ = g.stepQ
        /\ Folded(g, e).users = g.users
    <3>1. g \in Logs
      BY <2>2 DEF Shaped
    <3> QED BY <3>1 DEF Folded, Logs, Plain, Still
  <2> QED BY <2>1, <2>2, <2>4, <2>5 DEF g
<1> HIDE DEF P
<1>3. <<>> \in W /\ \A s \in Seq(Plain), e \in Plain : s \in W => Append(s, e) \in W
  BY <1>1, <1>2
<1> HIDE DEF W
<1>4. es \in W
  BY <1>3, SeqInduct
<1> QED BY <1>4 DEF W, P

\* The first i events.
LEMMA Prefix ==
    ASSUME NEW f, NEW S, NEW es \in Seq(S), NEW i \in 0..Len(es)
    PROVE  /\ SubSeq(es, 1, i) \in Seq(S) /\ Len(SubSeq(es, 1, i)) = i
           /\ SubSeq(es, i + 1, Len(es)) \in Seq(S)
           /\ Replay(f, es) = Replay(Replay(f, SubSeq(es, 1, i)), SubSeq(es, i + 1, Len(es)))
<1>1. /\ SubSeq(es, 1, i) \in Seq(S) /\ SubSeq(es, i + 1, Len(es)) \in Seq(S)
      /\ Len(SubSeq(es, 1, i)) = i
  OBVIOUS
<1>2. SubSeq(es, 1, i) \o SubSeq(es, i + 1, Len(es)) = es
  <2>1. 1 \in 1..(Len(es) + 1) /\ i \in (1 - 1)..Len(es) /\ Len(es) \in i..Len(es)
    OBVIOUS
  <2>2. SubSeq(es, 1, i) \o SubSeq(es, i + 1, Len(es)) = SubSeq(es, 1, Len(es))
    BY <2>1, ConcatAdjacentSubSeq
  <2>3. SubSeq(es, 1, Len(es)) = es
    BY SubSeqFull
  <2> QED BY <2>2, <2>3
<1> DEFINE p == SubSeq(es, 1, i)
           q == SubSeq(es, i + 1, Len(es))
<1>3. p \in Seq(S) /\ q \in Seq(S) /\ es = p \o q
  BY <1>1, <1>2
<1> HIDE DEF p, q
<1>4. Replay(f, p \o q) = Replay(Replay(f, p), q)
  BY <1>3, ReplayConcat
<1> QED BY <1>1, <1>3, <1>4 DEF p, q

\* The prefixes of a well-formed log are well formed.
LEMMA PrefixGood ==
    ASSUME NEW f, Shaped(f), NEW es \in Seq(Events), ~Replay(f, es).bad, NEW i \in 0..Len(es)
    PROVE  ~Replay(f, SubSeq(es, 1, i)).bad
<1> DEFINE p == SubSeq(es, 1, i)
           q == SubSeq(es, i + 1, Len(es))
<1>1. p \in Seq(Events) /\ q \in Seq(Events) /\ Replay(f, es) = Replay(Replay(f, p), q)
  BY Prefix
<1> HIDE DEF p, q
<1>2. Shaped(Replay(f, p))
  BY <1>1, ReplayShaped
<1>3. Replay(f, p).bad => Replay(Replay(f, p), q).bad
  BY <1>1, <1>2, ReplayShaped
<1> QED BY <1>1, <1>3 DEF p

\* A well-formed log at a boundary: what is open, which calls, how the last turn ended.
Stands(f, o, C, x) == Shaped(f) /\ ~f.bad /\ f.open = o /\ f.calls = C /\ f.end = x

\* The brackets: each is legal where the driver writes it.
LEMMA Brackets ==
    ASSUME NEW f, NEW C, NEW x
    PROVE  /\ Stands(f, "no", C, x) => Stands(Apply(f, Ev("turn", 0)), "turn", {}, x)
           /\ Stands(f, "turn", C, x) => Stands(Apply(f, Ev("step", 0)), "step", {}, x)
           /\ Stands(f, "step", {}, x) => Stands(Apply(f, Ev("stepEnd", 0)), "turn", {}, x)
           /\ \A y \in Endings :
                Stands(f, "turn", C, x) => Stands(Apply(f, Ev("turnEnd", y)), "no", {}, y)
           /\ \A n \in Nat :
                Stands(f, "step", {}, x) => Stands(Apply(f, Ev("asst", n)), "step", 1..n, x)
           /\ \A c \in Nat : Stands(f, "step", C, x) /\ c \in C =>
                /\ Stands(Apply(f, Ev("call", c)), "step", C, x)
                /\ Stands(Apply(f, Ev("result", c)), "step", C \ {c}, x)
<1>0. \A n \in Nat : /\ Ev("turn", n) \in Plain /\ Ev("step", n) \in Plain
                     /\ Ev("stepEnd", n) \in Plain /\ Ev("asst", n) \in Plain
                     /\ Ev("call", n) \in Plain /\ Ev("result", n) \in Plain
  BY DEF Ev, Plain, Still
<1>1. \A y \in Endings : Ev("turnEnd", y) \in Plain
  BY DEF Ev, Plain
<1>2. ASSUME NEW e \in Plain, Shaped(f), ~f.bad, Legal(f, e)
      PROVE  /\ Shaped(Apply(f, e)) /\ ~Apply(f, e).bad /\ Apply(f, e).end = Folded(f, e).end
             /\ Apply(f, e).open = Folded(f, e).open /\ Apply(f, e).calls = Folded(f, e).calls
  BY <1>2, ApplyShaped DEF Events
<1>3. Shaped(f) => f \in Logs /\ (~f.bad /\ f.open # "step" => f.calls = {})
  BY DEF Shaped
<1>4. Stands(f, "no", C, x) => Stands(Apply(f, Ev("turn", 0)), "turn", {}, x)
  <2> DEFINE e == Ev("turn", 0)
  <2>1. e \in Plain /\ e.type = "turn"
    BY <1>0 DEF Ev
  <2> HIDE DEF e
  <2>2. ASSUME Stands(f, "no", C, x) PROVE Stands(Apply(f, e), "turn", {}, x)
    <3>1. Legal(f, e) /\ Folded(f, e) = [f EXCEPT !.open = "turn", !.calls = {}]
      BY <2>1, <2>2 DEF Legal, Folded, Stands
    <3> QED BY <1>2, <1>3, <2>1, <2>2, <3>1 DEF Stands, Logs
  <2> QED BY <2>2 DEF e
<1>5. Stands(f, "turn", C, x) => Stands(Apply(f, Ev("step", 0)), "step", {}, x)
  <2> DEFINE e == Ev("step", 0)
  <2>1. e \in Plain /\ e.type = "step"
    BY <1>0 DEF Ev
  <2> HIDE DEF e
  <2>2. ASSUME Stands(f, "turn", C, x) PROVE Stands(Apply(f, e), "step", {}, x)
    <3>1. Legal(f, e) /\ Folded(f, e) = [f EXCEPT !.open = "step"]
      BY <2>1, <2>2 DEF Legal, Folded, Stands
    <3> QED BY <1>2, <1>3, <2>1, <2>2, <3>1 DEF Stands, Logs
  <2> QED BY <2>2 DEF e
<1>6. Stands(f, "step", {}, x) => Stands(Apply(f, Ev("stepEnd", 0)), "turn", {}, x)
  <2> DEFINE e == Ev("stepEnd", 0)
  <2>1. e \in Plain /\ e.type = "stepEnd"
    BY <1>0 DEF Ev
  <2> HIDE DEF e
  <2>2. ASSUME Stands(f, "step", {}, x) PROVE Stands(Apply(f, e), "turn", {}, x)
    <3>1. Legal(f, e) /\ Folded(f, e) = [f EXCEPT !.open = "turn", !.calls = {}]
      BY <2>1, <2>2 DEF Legal, Folded, Stands
    <3> QED BY <1>2, <1>3, <2>1, <2>2, <3>1 DEF Stands, Logs
  <2> QED BY <2>2 DEF e
<1>7. ASSUME NEW y \in Endings, Stands(f, "turn", C, x)
      PROVE  Stands(Apply(f, Ev("turnEnd", y)), "no", {}, y)
  <2> DEFINE e == Ev("turnEnd", y)
  <2>1. e \in Plain /\ e.type = "turnEnd" /\ e.arg = y
    BY <1>1 DEF Ev
  <2> HIDE DEF e
  <2>2. Stands(Apply(f, e), "no", {}, y)
    <3>1. Legal(f, e) /\ Folded(f, e) = [f EXCEPT !.open = "no", !.calls = {}, !.end = y]
      BY <2>1, <1>7 DEF Legal, Folded, Stands
    <3> QED BY <1>2, <1>3, <2>1, <1>7, <3>1 DEF Stands, Logs
  <2> QED BY <2>2 DEF e
<1>8. ASSUME NEW n \in Nat, Stands(f, "step", {}, x)
      PROVE  Stands(Apply(f, Ev("asst", n)), "step", 1..n, x)
  <2> DEFINE e == Ev("asst", n)
  <2>1. e \in Plain /\ e.type = "asst" /\ e.arg = n
    BY <1>0 DEF Ev
  <2> HIDE DEF e
  <2>2. Stands(Apply(f, e), "step", 1..n, x)
    <3>1. Legal(f, e) /\ Folded(f, e) = [f EXCEPT !.calls = 1..n]
      BY <2>1, <1>8 DEF Legal, Folded, Stands
    <3> QED BY <1>2, <1>3, <2>1, <1>8, <3>1 DEF Stands, Logs
  <2> QED BY <2>2 DEF e
<1>9. ASSUME NEW c \in Nat, Stands(f, "step", C, x), c \in C
      PROVE  /\ Stands(Apply(f, Ev("call", c)), "step", C, x)
             /\ Stands(Apply(f, Ev("result", c)), "step", C \ {c}, x)
  <2>1. Stands(Apply(f, Ev("call", c)), "step", C, x)
    <3> DEFINE e == Ev("call", c)
    <3>1. e \in Plain /\ e.type = "call" /\ e.arg = c
      BY <1>0 DEF Ev
    <3> HIDE DEF e
    <3>2. Legal(f, e) /\ Folded(f, e) = f
      BY <3>1, <1>9 DEF Legal, Folded, Stands
    <3>3. Stands(Apply(f, e), "step", C, x)
      BY <1>2, <3>1, <1>9, <3>2 DEF Stands
    <3> QED BY <3>3 DEF e
  <2>2. Stands(Apply(f, Ev("result", c)), "step", C \ {c}, x)
    <3> DEFINE e == Ev("result", c)
    <3>1. e \in Plain /\ e.type = "result" /\ e.arg = c
      BY <1>0 DEF Ev
    <3> HIDE DEF e
    <3>2. Legal(f, e) /\ Folded(f, e) = [f EXCEPT !.calls = f.calls \ {c}]
      BY <3>1, <1>9 DEF Legal, Folded, Stands
    <3>3. Stands(Apply(f, e), "step", C \ {c}, x)
      BY <1>2, <1>3, <3>1, <1>9, <3>2 DEF Stands, Logs
    <3> QED BY <3>3 DEF e
  <2> QED BY <2>1, <2>2
<1> QED BY <1>4, <1>5, <1>6, <1>7, <1>8, <1>9

\* One skipped call more: its call and its refusal join at the end.
LEMMA SkippedNext ==
    ASSUME NEW a \in Nat, NEW k \in Nat
    PROVE  Skipped(a, k + 1) =
             Append(Append(Skipped(a, k), Ev("call", a + k)), Ev("result", a + k))
<1> DEFINE E(i) == Ev(IF i % 2 = 1 THEN "call" ELSE "result", a + (i - 1) \div 2)
           p == Ev("call", a + k)
           q == Ev("result", a + k)
           N == 2 * k
           S == {p, q} \cup {E(i) : i \in 1..(N + 2)}
<1>1. E(N + 1) = p /\ E(N + 2) = q
  <2>1. (N + 1) % 2 = 1 /\ (N + 2) % 2 = 0 /\ (N + 1 - 1) \div 2 = k /\ (N + 2 - 1) \div 2 = k
    OBVIOUS
  <2> QED BY <2>1
<1>2. N \in Nat /\ 2 * (k + 1) = N + 2
  OBVIOUS
<1>3. Skipped(a, k) = [i \in 1..N |-> E(i)] /\ Skipped(a, k + 1) = [i \in 1..(N + 2) |-> E(i)]
  BY <1>2 DEF Skipped
<1>4. \A i \in 1..(N + 2) : E(i) \in S
  OBVIOUS
<1>5. p \in S /\ q \in S
  OBVIOUS
<1> HIDE DEF E, p, q, N, S
<1>6. [i \in 1..N |-> E(i)] \in Seq(S) /\ [i \in 1..(N + 2) |-> E(i)] \in Seq(S)
  BY <1>2, <1>4
<1>7. /\ Append(Append([i \in 1..N |-> E(i)], p), q) \in Seq(S)
      /\ Len(Append(Append([i \in 1..N |-> E(i)], p), q)) = N + 2
      /\ Len([i \in 1..(N + 2) |-> E(i)]) = N + 2
  BY <1>2, <1>5, <1>6
<1>8. \A j \in 1..(N + 2) : Append(Append([i \in 1..N |-> E(i)], p), q)[j] = E(j)
  BY <1>1, <1>2, <1>5, <1>6
<1>9. Append(Append([i \in 1..N |-> E(i)], p), q) = [i \in 1..(N + 2) |-> E(i)]
  BY <1>2, <1>6, <1>7, <1>8, SeqEqual
<1> QED BY <1>3, <1>9 DEF p, q

\* Calls that are skipped or not admitted: each is answered, the others stay open.
LEMMA SkippedRun ==
    ASSUME NEW f, NEW a \in Nat, NEW m \in Nat, NEW x, Stands(f, "step", a..m, x),
           NEW n \in Nat, a + n <= m + 1
    PROVE  /\ Skipped(a, n) \in Seq(Plain)
           /\ Stands(Replay(f, Skipped(a, n)), "step", (a + n)..m, x)
<1> DEFINE P(k) == /\ Skipped(a, k) \in Seq(Plain)
                   /\ a + k <= m + 1 => Stands(Replay(f, Skipped(a, k)), "step", (a + k)..m, x)
           T == {k \in Nat : P(k)}
<1>1. P(0)
  <2>1. Skipped(a, 0) = <<>>
    BY DEF Skipped
  <2>2. a + 0 = a /\ <<>> \in Seq(Plain)
    OBVIOUS
  <2> QED BY <2>1, <2>2, ReplayNone
<1>2. ASSUME NEW k \in Nat, P(k) PROVE P(k + 1)
  <2> DEFINE s == Skipped(a, k)
             c == a + k
             t == Append(s, Ev("call", c))
  <2>0. c \in Nat /\ a + (k + 1) = c + 1
    OBVIOUS
  <2>1. s \in Seq(Plain) /\ (c <= m + 1 => Stands(Replay(f, s), "step", c..m, x))
    BY <1>2
  <2>2. Skipped(a, k + 1) = Append(t, Ev("result", c))
    BY SkippedNext
  <2> HIDE DEF s, c, t
  <2>3. Ev("call", c) \in Plain /\ Ev("result", c) \in Plain
    BY <2>0 DEF Ev, Plain, Still
  <2>4. t \in Seq(Plain) /\ Append(t, Ev("result", c)) \in Seq(Plain)
    BY <2>1, <2>3 DEF t
  <2>5. ASSUME c + 1 <= m + 1
        PROVE  Stands(Replay(f, Skipped(a, k + 1)), "step", (c + 1)..m, x)
    <3>1. Stands(Replay(f, s), "step", c..m, x) /\ c \in c..m
      BY <2>0, <2>1, <2>5
    <3>2. Replay(f, t) = Apply(Replay(f, s), Ev("call", c))
      BY <2>1, <2>3, ReplayAppend DEF t
    <3>3. Stands(Replay(f, t), "step", c..m, x)
      BY <2>0, <3>1, <3>2, Brackets
    <3>r. Replay(f, Append(t, Ev("result", c))) = Apply(Replay(f, t), Ev("result", c))
      BY ONLY <2>3, <2>4, ReplayAppend
    <3>4. Replay(f, Skipped(a, k + 1)) = Apply(Replay(f, t), Ev("result", c))
      BY <2>2, <3>r
    <3>5. Stands(Replay(f, Skipped(a, k + 1)), "step", (c..m) \ {c}, x)
      BY <2>0, <3>1, <3>3, <3>4, Brackets
    <3>6. (c..m) \ {c} = (c + 1)..m
      BY <2>0
    <3> QED BY <3>5, <3>6
  <2> QED BY <2>0, <2>2, <2>4, <2>5
<1> HIDE DEF P
<1>3. 0 \in T /\ \A k \in Nat : k \in T => k + 1 \in T
  BY <1>1, <1>2
<1> HIDE DEF T
<1>4. n \in T
  BY <1>3, Induct
<1> QED BY <1>4 DEF T, P

\* SetToSeq lists a finite set.
LEMMA SetSeq ==
    ASSUME NEW R, IsFiniteSet(R)
    PROVE  /\ Cardinality(R) \in Nat /\ SetToSeq(R) \in [1..Cardinality(R) -> R]
           /\ \A i, j \in 1..Cardinality(R) : SetToSeq(R)[i] = SetToSeq(R)[j] => i = j
           /\ \A r \in R : \E i \in 1..Cardinality(R) : SetToSeq(R)[i] = r
<1> DEFINE n == Cardinality(R)
           q == SetToSeq(R)
<1>1. n \in Nat /\ ExistsBijection(1..n, R)
  BY FS_CardinalityType
<1>2. \E g \in [1..n -> R] : IsInjective(g)
  BY <1>1 DEF ExistsBijection, Bijection, Injection, IsInjective
<1>3. q \in [1..n -> R] /\ IsInjective(q)
  BY <1>2 DEF SetToSeq
<1> HIDE DEF n, q
<1>4. q \in Injection(1..n, R)
  BY <1>3 DEF Injection, IsInjective
<1>5. Range(q) \in SUBSET R /\ q \in Bijection(1..n, Range(q))
  BY <1>3 DEF Range, Bijection, Injection, Surjection, IsInjective
<1>6. ExistsBijection(1..n, Range(q))
  BY <1>5 DEF ExistsBijection
<1>7. Cardinality(Range(q)) = n
  BY <1>1, <1>6, FS_CountingElements
<1>8. Range(q) = R
  BY <1>5, <1>7, FS_Subset DEF n
<1>9. \A r \in R : \E i \in 1..n : q[i] = r
  BY <1>3, <1>8 DEF Range
<1> QED BY <1>1, <1>3, <1>9 DEF n, q, IsInjective

\* interrupted_turn_closers: the calls are answered, the step and the turn closed.
LEMMA ClosersRun ==
    ASSUME NEW f, Shaped(f), ~f.bad
    PROVE  /\ Closers(f) \in Seq(Plain)
           /\ Replay(f, Closers(f)).open = "no" /\ ~Replay(f, Closers(f)).bad
<1> DEFINE C == f.calls
           x == f.end
           R == {Ev("result", c) : c \in C}
           q == SetToSeq(R)
           n == Cardinality(R)
           Done(i) == {q[j].arg : j \in 1..i}
           close == IF f.open = "step" THEN <<Ev("stepEnd", 0)>> ELSE <<>>
           over == <<Ev("turnEnd", "interrupted")>>
<1>1. C \subseteq Nat /\ IsFiniteSet(C) /\ x \in Endings /\ f.open \in {"no", "turn", "step"}
  BY DEF Shaped, Logs
<1>2. CASE f.open = "no"
  <2>1. Closers(f) = <<>> /\ <<>> \in Seq(Plain)
    BY <1>2 DEF Closers
  <2> QED BY <1>2, <2>1, ReplayNone
<1>3. CASE f.open # "no"
  <2>1. Closers(f) = (q \o close) \o over
    BY <1>3 DEF Closers
  <2>2. IsFiniteSet(R)
    <3> DEFINE b == [c \in C |-> Ev("result", c)]
    <3>1. \A c \in C : Ev("result", c).arg = c /\ Ev("result", c) \in R
      BY DEF Ev
    <3>2. b \in [C -> R] /\ (\A c, d \in C : b[c] = b[d] => c = d) /\ \A r \in R : \E c \in C : b[c] = r
      BY <3>1
    <3> HIDE DEF b, R
    <3>3. b \in Bijection(C, R)
      BY <3>2 DEF Bijection, Injection, Surjection, IsInjective
    <3>4. ExistsBijection(C, R)
      BY <3>3 DEF ExistsBijection
    <3> QED BY <1>1, <3>4, FS_Bijection
  <2>3. \A r \in R : r \in Plain /\ r.type = "result" /\ r.arg \in C /\ r = Ev("result", r.arg)
    BY <1>1 DEF Ev, Plain, Still
  <2>4. \A c \in C : Ev("result", c) \in R /\ Ev("result", c).arg = c
    BY DEF Ev
  <2> HIDE DEF R
  <2>5. /\ n \in Nat /\ q \in [1..n -> R]
        /\ \A i, j \in 1..n : q[i] = q[j] => i = j
        /\ \A r \in R : \E i \in 1..n : q[i] = r
    BY <2>2, SetSeq
  <2> HIDE DEF q, n
  <2>6. q \in Seq(Plain) /\ Len(q) = n
    BY <2>3, <2>5
  <2>7. Replay(f, q).bad = FALSE /\ Stands(Replay(f, q), f.open, {}, x)
    <3>1. CASE f.open = "turn"
      <4>1. C = {}
        BY <3>1 DEF Shaped
      <4>2. n = 0
        BY <2>3, <2>5, <4>1
      <4>3. q = <<>>
        BY <2>6, <4>2
      <4> QED BY <1>1, <4>1, <4>3, ReplayNone DEF Stands
    <3>2. CASE f.open = "step"
      <4> DEFINE P(i) == i <= n => Stands(Replay(f, SubSeq(q, 1, i)), "step", C \ Done(i), x)
                 T == {i \in Nat : P(i)}
      <4>1. P(0)
        <5>1. SubSeq(q, 1, 0) = <<>> /\ Done(0) = {}
          BY <2>6
        <5>2. Stands(f, "step", C, x)
          BY <3>2 DEF Stands
        <5> QED BY <5>1, <5>2, ReplayNone
      <4>2. ASSUME NEW i \in Nat, P(i) PROVE P(i + 1)
        <5> SUFFICES ASSUME i + 1 <= n
                     PROVE  Stands(Replay(f, SubSeq(q, 1, i + 1)), "step", C \ Done(i + 1), x)
          OBVIOUS
        <5> DEFINE s == SubSeq(q, 1, i)
                   r == q[i + 1]
        <5>1. s \in Seq(Plain) /\ r \in R /\ SubSeq(q, 1, i + 1) = Append(s, r)
          BY <2>5, <2>6
        <5>2. r \in Plain /\ r.arg \in C /\ r = Ev("result", r.arg)
          BY <2>3, <5>1
        <5>3. Stands(Replay(f, s), "step", C \ Done(i), x)
          BY <2>5, <4>2
        <5>4. r.arg \notin Done(i)
          <6> SUFFICES ASSUME NEW j \in 1..i, q[j].arg = r.arg PROVE FALSE
            OBVIOUS
          <6>1. q[j] \in R /\ j \in 1..n /\ i + 1 \in 1..n
            BY <2>5
          <6>2. q[j] = r
            BY <2>3, <5>1, <6>1
          <6> QED BY <2>5, <6>1, <6>2
        <5>5. Done(i + 1) = Done(i) \cup {r.arg}
          <6>1. 1..(i + 1) = (1..i) \cup {i + 1}
            OBVIOUS
          <6> QED BY <6>1
        <5> HIDE DEF s, r, Done
        <5>6. Replay(f, Append(s, r)) = Apply(Replay(f, s), r)
          BY ONLY <5>1, <5>2, ReplayAppend
        <5>7. Stands(Apply(Replay(f, s), Ev("result", r.arg)), "step", (C \ Done(i)) \ {r.arg}, x)
          BY <1>1, <5>2, <5>3, <5>4, Brackets
        <5>8. (C \ Done(i)) \ {r.arg} = C \ Done(i + 1)
          BY <5>5
        <5> QED BY <5>1, <5>2, <5>6, <5>7, <5>8
      <4> HIDE DEF P
      <4>3. 0 \in T /\ \A i \in Nat : i \in T => i + 1 \in T
        BY <4>1, <4>2
      <4> HIDE DEF T
      <4>4. n \in T
        BY <2>5, <4>3, Induct
      <4>5. Stands(Replay(f, SubSeq(q, 1, n)), "step", C \ Done(n), x)
        BY <2>5, <4>4 DEF T, P
      <4>6. SubSeq(q, 1, n) = q
        BY <2>6
      <4>7. C \ Done(n) = {}
        <5>1. \A c \in C : \E i \in 1..n : q[i].arg = c
          BY <2>4, <2>5
        <5> QED BY <5>1
      <4>8. Stands(Replay(f, q), "step", {}, x)
        BY <4>5, <4>6, <4>7
      <4> QED BY <3>2, <4>8 DEF Stands
    <3> QED BY <1>1, <1>3, <3>1, <3>2
  <2>8. close \in Seq(Plain) /\ over \in Seq(Plain) /\ Ev("turnEnd", "interrupted") \in Plain
    <3>1. Ev("turnEnd", "interrupted") \in Plain /\ Ev("stepEnd", 0) \in Plain
      BY DEF Ev, Plain, Still, Endings
    <3>2. \A e \in Plain : <<e>> \in Seq(Plain)
      OBVIOUS
    <3>3. <<>> \in Seq(Plain)
      OBVIOUS
    <3> QED BY <3>1, <3>2, <3>3
  <2> HIDE DEF close, over
  <2>9. Replay(f, q \o close) = Replay(Replay(f, q), close)
    BY ONLY <2>6, <2>8, ReplayConcat
  <2>10. Stands(Replay(f, q \o close), "turn", {}, x)
    <3>1. CASE f.open = "step"
      <4>1. close = <<Ev("stepEnd", 0)>>
        BY <3>1 DEF close
      <4>2. Replay(Replay(f, q), close) = Apply(Replay(f, q), Ev("stepEnd", 0))
        BY <4>1, ReplayOne
      <4> QED BY <2>7, <2>9, <3>1, <4>2, Brackets
    <3>2. CASE f.open = "turn"
      <4>1. close = <<>>
        BY <3>2 DEF close
      <4> QED BY <2>7, <2>9, <3>2, <4>1, ReplayNone
    <3> QED BY <1>1, <1>3, <3>1, <3>2
  <2>11. q \o close \in Seq(Plain) /\ (q \o close) \o over \in Seq(Plain)
    <3>1. q \o close \in Seq(Plain)
      BY ONLY <2>6, <2>8, ConcatProperties
    <3>2. (q \o close) \o over \in Seq(Plain)
      BY ONLY <2>8, <3>1, ConcatProperties
    <3> QED BY <3>1, <3>2
  <2>12. Replay(f, (q \o close) \o over) = Replay(Replay(f, q \o close), over)
    <3>1. \A xs, ys \in Seq(Plain) : Replay(f, xs \o ys) = Replay(Replay(f, xs), ys)
      BY ReplayConcat
    <3> QED BY ONLY <2>8, <2>11, <3>1
  <2>13. Replay(Replay(f, q \o close), over) =
           Apply(Replay(f, q \o close), Ev("turnEnd", "interrupted"))
    BY ReplayOne DEF over
  <2>14. "interrupted" \in Endings
    BY DEF Endings
  <2>15. Stands(Replay(f, (q \o close) \o over), "no", {}, "interrupted")
    BY <2>10, <2>12, <2>13, <2>14, Brackets
  <2> QED BY <2>1, <2>11, <2>15 DEF Stands
<1> QED BY <1>2, <1>3

-----------------------------------------------------------------------------
(* The invariant.                                                          *)

Drivers == [phase : {"idle", "running"}, at : {"no", "turn", "pre", "model", "tool"},
            aborted : BOOLEAN, wake : BOOLEAN, fresh : BOOLEAN,
            ends : {"no", "completed", "maxTokens"}, batch : Seq(Nat), call : Nat,
            last : Nat, concluded : BOOLEAN]
Entries == [seq : Nat, ev : Events]

\* Where the driver awaits says what is open in the log.
Link(d, f) ==
    /\ d.phase = "idle" => d = Idle
    /\ d.at = "no" <=> d.phase = "idle"
    /\ d.at \in {"no", "turn"} => f.open = "no"
    /\ d.at = "pre" => f.open = "turn"
    /\ d.at = "model" => f.open = "step" /\ f.calls = {}
    /\ d.at = "tool" => f.open = "step" /\ d.call \in 1..d.last /\ f.calls = d.call..d.last

\* After an abort only input that latched the driver is pending; an idle driver's
\* pending input was left by a failed turn.
Spent(d, f) == d.aborted /\ ~d.wake => ~HasPending(f)
Owes(d, f)  == Spent(d, f) /\ (d.phase = "idle" /\ HasPending(f) => f.end = "error")

\* Messages are numbered up to n and each is in one place.
Held(s, n) == \A i \in 1..Len(s) : s[i] <= n /\ \A j \in 1..Len(s) : s[i] = s[j] => i = j
Dis(s, t)  == \A i \in 1..Len(s), j \in 1..Len(t) : s[i] # t[j]
Apart(f, b, n) ==
    /\ Held(f.users, n) /\ Held(f.turnQ, n) /\ Held(f.stepQ, n) /\ Held(b, n)
    /\ Dis(f.users, f.turnQ) /\ Dis(f.users, f.stepQ) /\ Dis(f.users, b)
    /\ Dis(f.turnQ, f.stepQ) /\ Dis(f.turnQ, b) /\ Dis(f.stepQ, b)

\* The driver and the live log.
Fine(d, f, n, st) ==
    /\ d \in Drivers /\ Shaped(f) /\ ~f.bad /\ Link(d, f) /\ Owes(d, f)
    /\ ~st => Apart(f, d.batch, n)

\* At every event of a run of events each message is in one place.
Clean(f, es, n) == \A k \in 0..Len(es) : Apart(Replay(f, SubSeq(es, 1, k)), <<>>, n)

\* The live log m is the artifact a followed by the queue q, as long as the watermark
\* w is where the artifact ends; only a failed write lets the watermark run ahead.
Evs(q) == [i \in DOMAIN q |-> q[i].ev]
Chained(live, m, a, q, w, n, failed) ==
    /\ \A i \in 1..Len(q) : q[i].seq + Len(q) + 1 = m.len + i
    /\ live => a.len <= w
    /\ live /\ a.len = w => m = Replay(a, Evs(q)) /\ Clean(a, Evs(q), n)
    /\ failed = 0 => w <= a.len
    /\ ~a.bad /\ Apart(a, <<>>, n)
Live  == run \/ queue # <<>>
Chain == Chained(Live, mem, artifact, queue, next, sent, fails)

DshTypes ==
    /\ run \in BOOLEAN /\ stale \in BOOLEAN /\ sent \in Nat /\ next \in Nat /\ fails \in Nat
    /\ queue \in Seq(Entries) /\ Shaped(artifact)
DshInv ==
    /\ DshTypes /\ Fine(drv, mem, sent, stale)
    /\ ~run => drv.phase = "idle"
    /\ ~stale => Chain

-----------------------------------------------------------------------------
(* Messages.                                                               *)

\* Without a claimed batch the three places of the log are what is apart.
LEMMA ApartNone == \A f, n : Apart(f, <<>>, n) <=>
    /\ Held(f.users, n) /\ Held(f.turnQ, n) /\ Held(f.stepQ, n)
    /\ Dis(f.users, f.turnQ) /\ Dis(f.users, f.stepQ) /\ Dis(f.turnQ, f.stepQ)
BY DEF Apart, Held, Dis

\* A batch that is dropped leaves the other places apart.
LEMMA ApartDrop == \A f, b, n : Apart(f, b, n) => Apart(f, <<>>, n)
BY ApartNone DEF Apart

\* More messages may have been sent than any place holds.
LEMMA ApartMore ==
    ASSUME NEW f, Shaped(f), NEW b \in Seq(Nat), NEW n \in Nat, Apart(f, b, n)
    PROVE  Apart(f, b, n + 1)
<1>1. \A s \in Seq(Nat) : Held(s, n) => Held(s, n + 1)
  BY DEF Held
<1>2. f.users \in Seq(Nat) /\ f.turnQ \in Seq(Nat) /\ f.stepQ \in Seq(Nat)
  BY DEF Shaped, Logs
<1> QED BY <1>1, <1>2 DEF Apart

\* A new message joins one place.
LEMMA HeldNew ==
    ASSUME NEW s \in Seq(Nat), NEW n \in Nat, Held(s, n)
    PROVE  /\ Held(Append(s, n + 1), n + 1) /\ Held(s, n + 1)
           /\ \A t \in Seq(Nat) : Held(t, n) /\ Dis(s, t) =>
                                    Dis(Append(s, n + 1), t) /\ Dis(t, Append(s, n + 1))
<1>1. /\ Append(s, n + 1) \in Seq(Nat) /\ Len(Append(s, n + 1)) = Len(s) + 1 /\ Len(s) \in Nat
      /\ \A i \in 1..Len(s) : Append(s, n + 1)[i] = s[i] /\ s[i] \in Nat
      /\ Append(s, n + 1)[Len(s) + 1] = n + 1
  OBVIOUS
<1> DEFINE a == Append(s, n + 1)
<1> HIDE DEF a
<1>2. \A i \in 1..Len(s) : s[i] <= n
  BY DEF Held
<1>3. ASSUME NEW i \in 1..Len(a)
      PROVE  \/ i \in 1..Len(s) /\ a[i] = s[i] /\ a[i] \in Nat /\ a[i] <= n
             \/ i = Len(s) + 1 /\ a[i] = n + 1
  <2>1. i \in 1..Len(s) \/ i = Len(s) + 1
    BY <1>1 DEF a
  <2>2. CASE i \in 1..Len(s)
    BY <1>1, <1>2, <2>2 DEF a
  <2>3. CASE i = Len(s) + 1
    BY <1>1, <2>3 DEF a
  <2> QED BY <2>1, <2>2, <2>3
<1>4. Held(s, n + 1)
  <2>1. \A i \in 1..Len(s) : s[i] <= n + 1
    BY <1>1, <1>2
  <2>2. \A i, j \in 1..Len(s) : s[i] = s[j] => i = j
    BY DEF Held
  <2> QED BY <2>1, <2>2 DEF Held
<1>5. ASSUME NEW i \in 1..Len(a) PROVE a[i] <= n + 1
  BY <1>3
<1>6. ASSUME NEW i \in 1..Len(a), NEW j \in 1..Len(a), a[i] = a[j] PROVE i = j
  <2>1. CASE i \in 1..Len(s) /\ a[i] = s[i] /\ j \in 1..Len(s) /\ a[j] = s[j]
    BY <1>6, <2>1 DEF Held
  <2>2. CASE a[i] \in Nat /\ a[i] <= n /\ j = Len(s) + 1 /\ a[j] = n + 1
    BY <1>6, <2>2
  <2>3. CASE i = Len(s) + 1 /\ a[i] = n + 1 /\ a[j] \in Nat /\ a[j] <= n
    BY <1>6, <2>3
  <2>4. CASE i = Len(s) + 1 /\ j = Len(s) + 1
    BY <2>4
  <2> QED BY <1>3, <2>1, <2>2, <2>3, <2>4
<1>7. Held(a, n + 1)
  BY <1>5, <1>6 DEF Held
<1>8. ASSUME NEW t \in Seq(Nat), Held(t, n), Dis(s, t) PROVE Dis(a, t) /\ Dis(t, a)
  <2>1. ASSUME NEW i \in 1..Len(a), NEW j \in 1..Len(t) PROVE a[i] # t[j]
    <3>1. t[j] \in Nat /\ t[j] <= n
      BY <1>8 DEF Held
    <3>2. CASE i \in 1..Len(s) /\ a[i] = s[i]
      BY <1>8, <3>2 DEF Dis
    <3>3. CASE a[i] = n + 1
      BY <3>1, <3>3
    <3> QED BY <1>3, <3>2, <3>3
  <2> QED BY <2>1 DEF Dis
<1> QED BY <1>4, <1>7, <1>8 DEF a

\* A claim takes a prefix.
LEMMA HeldSkip ==
    ASSUME NEW s \in Seq(Nat), NEW k \in Nat, NEW n \in Nat, Held(s, n)
    PROVE  /\ Skip(s, k) \in Seq(Nat) /\ Held(Skip(s, k), n)
           /\ \A t \in Seq(Nat) : Dis(s, t) => Dis(Skip(s, k), t)
           /\ \A t \in Seq(Nat) : Dis(t, s) => Dis(t, Skip(s, k))
<1>1. CASE k >= Len(s)
  BY <1>1 DEF Skip, Held, Dis
<1>2. CASE k < Len(s)
  <2> DEFINE a == SubSeq(s, k + 1, Len(s))
  <2>1. Skip(s, k) = a
    BY <1>2 DEF Skip
  <2>2. a \in Seq(Nat) /\ Len(a) = Len(s) - k /\ \A i \in 1..Len(a) : a[i] = s[i + k] /\ i + k \in 1..Len(s)
    BY <1>2
  <2> HIDE DEF a
  <2>3. Held(a, n)
    <3>1. \A i \in 1..Len(a) : s[i + k] <= n
      BY <2>2 DEF Held
    <3>2. \A i, j \in 1..Len(a) : s[i + k] = s[j + k] => i + k = j + k
      BY <2>2 DEF Held
    <3>3. Len(a) \in Nat
      BY <2>2
    <3>4. ASSUME NEW i \in 1..Len(a), NEW j \in 1..Len(a), a[i] = a[j] PROVE i = j
      <4>1. s[i + k] = s[j + k]
        BY <2>2, <3>4
      <4>2. i + k = j + k
        BY <3>2, <4>1
      <4> QED BY <3>3, <4>2
    <3>5. \A i \in 1..Len(a) : a[i] <= n
      BY <2>2, <3>1
    <3> QED BY <3>4, <3>5 DEF Held
  <2>4. ASSUME NEW t \in Seq(Nat), Dis(s, t) PROVE Dis(a, t)
    <3>1. \A i \in 1..Len(a), j \in 1..Len(t) : s[i + k] # t[j]
      BY <2>2, <2>4 DEF Dis
    <3> QED BY <2>2, <3>1 DEF Dis
  <2>5. ASSUME NEW t \in Seq(Nat), Dis(t, s) PROVE Dis(t, a)
    <3>1. \A i \in 1..Len(a), j \in 1..Len(t) : t[j] # s[i + k]
      BY <2>2, <2>5 DEF Dis
    <3> QED BY <2>2, <3>1 DEF Dis
  <2> QED BY <2>1, <2>2, <2>3, <2>4, <2>5
<1> QED BY <1>1, <1>2

Takes == [type : {"takeStep", "takeTurn"}, arg : Nat]

\* Splices only take messages away.
LEMMA TakesRun ==
    ASSUME NEW f, Shaped(f), NEW b \in Seq(Nat), NEW n \in Nat, Apart(f, b, n),
           NEW es \in Seq(Takes)
    PROVE  es \in Seq(Events) /\ Apart(Replay(f, es), b, n)
<1>0. Takes \subseteq Events
  BY DEF Takes, Events, Moving
<1> DEFINE P(s) == s \in Seq(Events) /\ Shaped(Replay(f, s)) /\ Apart(Replay(f, s), b, n)
           W == {s \in Seq(Takes) : P(s)}
<1>1. P(<<>>)
  BY ReplayNone
<1>2. ASSUME NEW s \in Seq(Takes), P(s), NEW e \in Takes PROVE P(Append(s, e))
  <2>1. e \in Events /\ Append(s, e) \in Seq(Events)
    BY <1>0, <1>2
  <2>2. Replay(f, Append(s, e)) = Apply(Replay(f, s), e)
    BY ReplayAppend
  <2> DEFINE g == Replay(f, s)
             h == Apply(g, e)
  <2>3. Shaped(g) /\ Apart(g, b, n)
    BY <1>2
  <2> HIDE DEF g
  <2>4. /\ Shaped(h) /\ h.users = Folded(g, e).users
        /\ h.turnQ = Folded(g, e).turnQ /\ h.stepQ = Folded(g, e).stepQ
    BY <2>1, <2>3, ApplyShaped
  <2> HIDE DEF h
  <2>5. g \in Logs /\ g.users \in Seq(Nat) /\ g.turnQ \in Seq(Nat) /\ g.stepQ \in Seq(Nat)
    BY <2>3 DEF Shaped, Logs
  <2>6. e.arg \in Nat /\ e.type \in {"takeStep", "takeTurn"}
    BY DEF Takes
  <2>7. ASSUME e.type = "takeStep" PROVE Apart(h, b, n)
    <3>1. h.users = g.users /\ h.turnQ = g.turnQ /\ h.stepQ = Skip(g.stepQ, e.arg)
      BY <2>4, <2>5, <2>7 DEF Folded, Logs
    <3>2. Held(g.stepQ, n) /\ Dis(g.users, g.stepQ) /\ Dis(g.turnQ, g.stepQ) /\ Dis(g.stepQ, b)
      BY <2>3 DEF Apart
    <3>3. /\ Held(h.stepQ, n) /\ Dis(g.users, h.stepQ) /\ Dis(g.turnQ, h.stepQ)
          /\ Dis(h.stepQ, b)
      BY <2>5, <2>6, <3>1, <3>2, HeldSkip, ZenonT(40)
    <3> QED BY <2>3, <3>1, <3>3 DEF Apart
  <2>8. ASSUME e.type = "takeTurn" PROVE Apart(h, b, n)
    <3>1. h.users = g.users /\ h.stepQ = g.stepQ /\ h.turnQ = Skip(g.turnQ, e.arg)
      BY <2>4, <2>5, <2>8 DEF Folded, Logs
    <3>2. Held(g.turnQ, n) /\ Dis(g.users, g.turnQ) /\ Dis(g.turnQ, g.stepQ) /\ Dis(g.turnQ, b)
      BY <2>3 DEF Apart
    <3>3. /\ Held(h.turnQ, n) /\ Dis(g.users, h.turnQ) /\ Dis(h.turnQ, g.stepQ)
          /\ Dis(h.turnQ, b)
      BY <2>5, <2>6, <3>1, <3>2, HeldSkip, ZenonT(40)
    <3> QED BY <2>3, <3>1, <3>3 DEF Apart
  <2>9. Apart(h, b, n)
    BY <2>6, <2>7, <2>8
  <2> QED BY <2>1, <2>2, <2>4, <2>9 DEF g, h
<1> HIDE DEF P
<1>3. <<>> \in W /\ \A s \in Seq(Takes), e \in Takes : s \in W => Append(s, e) \in W
  BY <1>1, <1>2
<1> HIDE DEF W
<1>4. es \in W
  BY <1>3, SeqInduct
<1> QED BY <1>4 DEF W, P

\* Two places put together.
LEMMA HeldConcat ==
    ASSUME NEW s \in Seq(Nat), NEW t \in Seq(Nat), NEW n \in Nat
    PROVE  /\ s \o t \in Seq(Nat)
           /\ Held(s, n) /\ Held(t, n) /\ Dis(s, t) => Held(s \o t, n)
           /\ \A u \in Seq(Nat) : Dis(u, s) /\ Dis(u, t) => Dis(u, s \o t)
           /\ \A u \in Seq(Nat) : Dis(s, u) /\ Dis(t, u) => Dis(s \o t, u)
<1> DEFINE c == s \o t
<1>1. /\ c \in Seq(Nat) /\ Len(c) = Len(s) + Len(t) /\ Len(s) \in Nat /\ Len(t) \in Nat
      /\ \A i \in 1..Len(s) : c[i] = s[i]
      /\ \A i \in 1..Len(t) : c[Len(s) + i] = t[i]
  OBVIOUS
<1> HIDE DEF c
<1>2. \A i \in 1..Len(c) : \/ i \in 1..Len(s)
                           \/ \E j \in 1..Len(t) : i = Len(s) + j
  <2> SUFFICES ASSUME NEW i \in 1..Len(c), i \notin 1..Len(s)
               PROVE  \E j \in 1..Len(t) : i = Len(s) + j
    OBVIOUS
  <2>1. i - Len(s) \in 1..Len(t) /\ i = Len(s) + (i - Len(s))
    BY <1>1
  <2> QED BY <2>1
<1>3. \A i \in 1..Len(c) : \/ i \in 1..Len(s) /\ c[i] = s[i]
                           \/ \E j \in 1..Len(t) : i = Len(s) + j /\ c[i] = t[j]
  BY <1>1, <1>2
<1>4. ASSUME Held(s, n), Held(t, n), Dis(s, t) PROVE Held(c, n)
  <2>1. ASSUME NEW i \in 1..Len(c) PROVE c[i] <= n
    BY <1>3, <1>4 DEF Held
  <2>2. ASSUME NEW i \in 1..Len(c), NEW j \in 1..Len(c), c[i] = c[j] PROVE i = j
    <3>1. CASE i \in 1..Len(s) /\ c[i] = s[i]
      <4>1. CASE j \in 1..Len(s) /\ c[j] = s[j]
        BY <1>4, <2>2, <3>1, <4>1 DEF Held
      <4>2. CASE \E l \in 1..Len(t) : j = Len(s) + l /\ c[j] = t[l]
        BY <1>4, <2>2, <3>1, <4>2 DEF Dis
      <4> QED BY <1>3, <4>1, <4>2
    <3>2. CASE \E k \in 1..Len(t) : i = Len(s) + k /\ c[i] = t[k]
      <4>1. CASE j \in 1..Len(s) /\ c[j] = s[j]
        BY <1>4, <2>2, <3>2, <4>1 DEF Dis
      <4>2. CASE \E l \in 1..Len(t) : j = Len(s) + l /\ c[j] = t[l]
        BY <1>4, <2>2, <3>2, <4>2 DEF Held
      <4> QED BY <1>3, <4>1, <4>2
    <3> QED BY <1>3, <3>1, <3>2
  <2> QED BY <2>1, <2>2 DEF Held
<1>5. ASSUME NEW u \in Seq(Nat), Dis(u, s), Dis(u, t) PROVE Dis(u, c)
  <2>1. ASSUME NEW k \in 1..Len(u), NEW i \in 1..Len(c) PROVE u[k] # c[i]
    <3>1. CASE i \in 1..Len(s) /\ c[i] = s[i]
      BY <1>5, <3>1 DEF Dis
    <3>2. CASE \E j \in 1..Len(t) : i = Len(s) + j /\ c[i] = t[j]
      BY <1>5, <3>2 DEF Dis
    <3> QED BY <1>3, <3>1, <3>2
  <2> QED BY <2>1 DEF Dis
<1>6. ASSUME NEW u \in Seq(Nat), Dis(s, u), Dis(t, u) PROVE Dis(c, u)
  <2>1. ASSUME NEW k \in 1..Len(u), NEW i \in 1..Len(c) PROVE c[i] # u[k]
    <3>1. CASE i \in 1..Len(s) /\ c[i] = s[i]
      BY <1>6, <3>1 DEF Dis
    <3>2. CASE \E j \in 1..Len(t) : i = Len(s) + j /\ c[i] = t[j]
      BY <1>6, <3>2 DEF Dis
    <3> QED BY <1>3, <3>1, <3>2
  <2> QED BY <2>1 DEF Dis
<1> QED BY <1>1, <1>4, <1>5, <1>6 DEF c

\* The first k messages of a place, and the others.
LEMMA HeldFirst ==
    ASSUME NEW s \in Seq(Nat), NEW n \in Nat, Held(s, n), NEW k \in 0..Len(s)
    PROVE  /\ SubSeq(s, 1, k) \in Seq(Nat) /\ Held(SubSeq(s, 1, k), n)
           /\ Dis(Skip(s, k), SubSeq(s, 1, k))
           /\ \A u \in Seq(Nat) : Dis(u, s) => Dis(u, SubSeq(s, 1, k))
<1> DEFINE p == SubSeq(s, 1, k)
           r == Skip(s, k)
<1>1. p \in Seq(Nat) /\ Len(p) = k /\ k \in Nat /\ Len(s) \in Nat /\ k <= Len(s)
  OBVIOUS
<1>2. \A i \in 1..k : p[i] = s[i] /\ i \in 1..Len(s)
  OBVIOUS
<1>3. \A i \in 1..Len(r) : r[i] = s[k + i] /\ k + i \in 1..Len(s) /\ i \in Nat /\ i > 0
  <2>1. CASE k >= Len(s)
    BY <2>1 DEF Skip
  <2>2. CASE k < Len(s)
    BY <2>2 DEF Skip
  <2> QED BY <1>1, <2>1, <2>2
<1> HIDE DEF p, r
<1>4. Held(p, n)
  BY <1>1, <1>2 DEF Held
<1>5. ASSUME NEW i \in 1..Len(r), NEW j \in 1..Len(p) PROVE r[i] # p[j]
  <2>1. r[i] = s[k + i] /\ p[j] = s[j] /\ k + i \in 1..Len(s) /\ j \in 1..Len(s)
    BY <1>1, <1>2, <1>3
  <2>2. k + i # j
    BY <1>1, <1>3
  <2> QED BY <2>1, <2>2 DEF Held
<1>6. ASSUME NEW u \in Seq(Nat), Dis(u, s) PROVE Dis(u, p)
  BY <1>1, <1>2, <1>6 DEF Dis
<1> QED BY <1>1, <1>4, <1>5, <1>6 DEF p, r, Dis

\* One splice.
LEMMA TakeRun ==
    ASSUME NEW f, NEW o, NEW C, NEW x, Stands(f, o, C, x)
    PROVE  /\ \A n \in 0..Len(f.stepQ) :
                LET g == Replay(f, Take("takeStep", n)) IN
                /\ Take("takeStep", n) \in Seq(Takes) /\ Stands(g, o, C, x)
                /\ g.stepQ = Skip(f.stepQ, n) /\ g.turnQ = f.turnQ /\ g.users = f.users
           /\ \A n \in 0..Len(f.turnQ) :
                LET g == Replay(f, Take("takeTurn", n)) IN
                /\ Take("takeTurn", n) \in Seq(Takes) /\ Stands(g, o, C, x)
                /\ g.turnQ = Skip(f.turnQ, n) /\ g.stepQ = f.stepQ /\ g.users = f.users
<1>1. Shaped(f) /\ f \in Logs /\ f.stepQ \in Seq(Nat) /\ f.turnQ \in Seq(Nat) /\ ~f.bad
  BY DEF Stands, Shaped, Logs
<1>2. \A s \in Seq(Nat) : Skip(s, 0) = s
  <2> SUFFICES ASSUME NEW s \in Seq(Nat) PROVE Skip(s, 0) = s
    OBVIOUS
  <2>1. CASE Len(s) = 0
    BY <2>1 DEF Skip
  <2>2. CASE Len(s) > 0
    <3>1. Skip(s, 0) = SubSeq(s, 1, Len(s))
      BY <2>2 DEF Skip
    <3> QED BY <3>1, SubSeqFull
  <2> QED BY <2>1, <2>2
<1>3. ASSUME NEW q \in {"takeStep", "takeTurn"} PROVE Replay(f, Take(q, 0)) = f /\ Take(q, 0) \in Seq(Takes)
  BY ReplayNone DEF Take
<1>4. ASSUME NEW q \in {"takeStep", "takeTurn"}, NEW n \in Nat, n # 0
      PROVE  /\ Take(q, n) \in Seq(Takes) /\ Replay(f, Take(q, n)) = Apply(f, Ev(q, n))
             /\ Ev(q, n) \in Events
  <2>1. Take(q, n) = <<Ev(q, n)>> /\ Ev(q, n) \in Takes
    BY <1>4 DEF Take, Takes, Ev
  <2>2. Ev(q, n) \in Events
    BY DEF Ev, Events, Moving
  <2> QED BY <2>1, <2>2, ReplayOne
<1>5. ASSUME NEW n \in 0..Len(f.stepQ)
      PROVE  LET g == Replay(f, Take("takeStep", n)) IN
             /\ Take("takeStep", n) \in Seq(Takes) /\ Stands(g, o, C, x)
             /\ g.stepQ = Skip(f.stepQ, n) /\ g.turnQ = f.turnQ /\ g.users = f.users
  <2>1. CASE n = 0
    BY <1>1, <1>2, <1>3, <2>1
  <2>2. CASE n # 0
    <3> DEFINE e == Ev("takeStep", n)
    <3>1. n \in Nat /\ n <= Len(f.stepQ)
      BY <1>1
    <3>2. /\ Take("takeStep", n) \in Seq(Takes) /\ e \in Events
          /\ Replay(f, Take("takeStep", n)) = Apply(f, e)
      BY <1>4, <2>2, <3>1
    <3>3. Legal(f, e) /\ Folded(f, e) = [f EXCEPT !.stepQ = Skip(@, n)]
      BY <3>1 DEF Legal, Folded, Ev
    <3> HIDE DEF e
    <3>4. /\ Folded(f, e).stepQ = Skip(f.stepQ, n) /\ Folded(f, e).turnQ = f.turnQ
          /\ Folded(f, e).users = f.users /\ Folded(f, e).open = f.open
          /\ Folded(f, e).calls = f.calls /\ Folded(f, e).end = f.end
      BY <1>1, <3>3 DEF Logs
    <3>5. Stands(Apply(f, e), o, C, x)
      BY <1>1, <3>2, <3>3, <3>4, ApplyShaped, ZenonT(40) DEF Stands
    <3>6. /\ Apply(f, e).stepQ = Skip(f.stepQ, n) /\ Apply(f, e).turnQ = f.turnQ
          /\ Apply(f, e).users = f.users
      BY <1>1, <3>2, <3>4, ApplyShaped
    <3> QED BY <3>2, <3>5, <3>6
  <2> QED BY <2>1, <2>2
<1>6. ASSUME NEW n \in 0..Len(f.turnQ)
      PROVE  LET g == Replay(f, Take("takeTurn", n)) IN
             /\ Take("takeTurn", n) \in Seq(Takes) /\ Stands(g, o, C, x)
             /\ g.turnQ = Skip(f.turnQ, n) /\ g.stepQ = f.stepQ /\ g.users = f.users
  <2>1. CASE n = 0
    BY <1>1, <1>2, <1>3, <2>1
  <2>2. CASE n # 0
    <3> DEFINE e == Ev("takeTurn", n)
    <3>1. n \in Nat /\ n <= Len(f.turnQ)
      BY <1>1
    <3>2. /\ Take("takeTurn", n) \in Seq(Takes) /\ e \in Events
          /\ Replay(f, Take("takeTurn", n)) = Apply(f, e)
      BY <1>4, <2>2, <3>1
    <3>3. Legal(f, e) /\ Folded(f, e) = [f EXCEPT !.turnQ = Skip(@, n)]
      BY <3>1 DEF Legal, Folded, Ev
    <3> HIDE DEF e
    <3>4. /\ Folded(f, e).turnQ = Skip(f.turnQ, n) /\ Folded(f, e).stepQ = f.stepQ
          /\ Folded(f, e).users = f.users /\ Folded(f, e).open = f.open
          /\ Folded(f, e).calls = f.calls /\ Folded(f, e).end = f.end
      BY <1>1, <3>3 DEF Logs
    <3>5. Stands(Apply(f, e), o, C, x)
      BY <1>1, <3>2, <3>3, <3>4, ApplyShaped, ZenonT(40) DEF Stands
    <3>6. /\ Apply(f, e).turnQ = Skip(f.turnQ, n) /\ Apply(f, e).stepQ = f.stepQ
          /\ Apply(f, e).users = f.users
      BY <1>1, <3>2, <3>4, ApplyShaped
    <3> QED BY <3>2, <3>5, <3>6
  <2> QED BY <2>1, <2>2
<1> QED BY <1>5, <1>6

\* Both queues: all of next-step, then k prompts.
LEMMA TwoTakes ==
    ASSUME NEW f, NEW o, NEW C, NEW x, Stands(f, o, C, x), NEW k \in 0..Len(f.turnQ)
    PROVE  LET es == Take("takeStep", Len(f.stepQ)) \o Take("takeTurn", k)
               g  == Replay(f, es)
           IN  /\ es \in Seq(Takes) /\ Stands(g, o, C, x)
               /\ g.stepQ = <<>> /\ g.turnQ = Skip(f.turnQ, k) /\ g.users = f.users
<1> DEFINE p == Take("takeStep", Len(f.stepQ))
           q == Take("takeTurn", k)
           g == Replay(f, p)
<1>1. f.stepQ \in Seq(Nat) /\ Len(f.stepQ) \in 0..Len(f.stepQ)
  BY DEF Stands, Shaped, Logs
<1>2. /\ p \in Seq(Takes) /\ Stands(g, o, C, x)
      /\ g.stepQ = Skip(f.stepQ, Len(f.stepQ)) /\ g.turnQ = f.turnQ /\ g.users = f.users
  BY <1>1, TakeRun
<1>3. Skip(f.stepQ, Len(f.stepQ)) = <<>>
  BY <1>1 DEF Skip
<1> HIDE DEF p, g
<1>4. k \in 0..Len(g.turnQ)
  BY <1>2
<1>5. /\ q \in Seq(Takes) /\ Stands(Replay(g, q), o, C, x)
      /\ Replay(g, q).turnQ = Skip(g.turnQ, k) /\ Replay(g, q).stepQ = g.stepQ
      /\ Replay(g, q).users = g.users
  BY <1>2, <1>4, TakeRun
<1> HIDE DEF q
<1>6. p \o q \in Seq(Takes) /\ Replay(f, p \o q) = Replay(g, q)
  BY <1>2, <1>5, ReplayConcat DEF g
<1> QED BY <1>2, <1>3, <1>5, <1>6 DEF p, q

\* Inbox::clear.
LEMMA ClearRun ==
    ASSUME NEW f, NEW o, NEW C, NEW x, Stands(f, o, C, x)
    PROVE  /\ Clear(f) \in Seq(Takes) /\ Stands(Replay(f, Clear(f)), o, C, x)
           /\ ~HasPending(Replay(f, Clear(f)))
<1>1. f.turnQ \in Seq(Nat) /\ Len(f.turnQ) \in 0..Len(f.turnQ)
  BY DEF Stands, Shaped, Logs
<1>2. Skip(f.turnQ, Len(f.turnQ)) = <<>>
  BY <1>1 DEF Skip
<1> QED BY <1>1, <1>2, TwoTakes DEF Clear, HasPending

\* Inbox::claim: the batch leaves the queues.
LEMMA ClaimRun ==
    ASSUME NEW f, NEW o, NEW C, NEW x, Stands(f, o, C, x), NEW target, NEW n \in Nat
    PROVE  LET es == Claim(f, target)
               g  == Replay(f, es)
               b  == Claimed(f, target)
           IN  /\ es \in Seq(Takes) /\ b \in Seq(Nat) /\ Stands(g, o, C, x)
               /\ Apart(f, <<>>, n) => Apart(g, b, n)
<1> DEFINE k == OneTurn(f, target)
           es == Claim(f, target)
           g  == Replay(f, es)
           p  == SubSeq(f.turnQ, 1, k)
<1>1. f.stepQ \in Seq(Nat) /\ f.turnQ \in Seq(Nat) /\ f.users \in Seq(Nat)
  BY DEF Stands, Shaped, Logs
<1>2. k \in 0..Len(f.turnQ)
  <2>1. f.turnQ # <<>> => Len(f.turnQ) > 0
    BY <1>1
  <2> QED BY <1>1, <2>1 DEF OneTurn
<1>3. /\ es \in Seq(Takes) /\ Stands(g, o, C, x)
      /\ g.stepQ = <<>> /\ g.turnQ = Skip(f.turnQ, k) /\ g.users = f.users
  BY <1>2, TwoTakes DEF Claim
<1>4. Claimed(f, target) = f.stepQ \o p
  BY DEF Claimed
<1> HIDE DEF k, g, es
<1>5. p \in Seq(Nat)
  BY <1>1, <1>2
<1>6. f.stepQ \o p \in Seq(Nat)
  BY <1>1, <1>5
<1>7. ASSUME Apart(f, <<>>, n) PROVE Apart(g, f.stepQ \o p, n)
  <2>1. /\ Held(f.users, n) /\ Held(f.turnQ, n) /\ Held(f.stepQ, n)
        /\ Dis(f.users, f.turnQ) /\ Dis(f.users, f.stepQ) /\ Dis(f.turnQ, f.stepQ)
    BY <1>7, ApartNone
  <2>2. k \in Nat
    BY <1>1, <1>2
  <2>3. /\ g.turnQ \in Seq(Nat) /\ Held(g.turnQ, n) /\ Dis(f.users, g.turnQ)
        /\ Dis(g.turnQ, f.stepQ)
    BY <1>1, <1>3, <2>1, <2>2, HeldSkip
  <2>4. Dis(f.stepQ, f.turnQ)
    BY <2>1 DEF Dis
  <2> HIDE DEF p
  <2>5. Held(p, n) /\ Dis(g.turnQ, p) /\ Dis(f.users, p) /\ Dis(f.stepQ, p)
    BY <1>1, <1>2, <1>3, <2>1, <2>4, HeldFirst DEF p
  <2>6. Held(f.stepQ \o p, n) /\ Dis(f.users, f.stepQ \o p) /\ Dis(g.turnQ, f.stepQ \o p)
    BY <1>1, <1>5, <2>1, <2>3, <2>5, HeldConcat
  <2>7. /\ Held(g.stepQ, n) /\ Dis(f.users, g.stepQ) /\ Dis(g.turnQ, g.stepQ)
        /\ Dis(g.stepQ, f.stepQ \o p)
    BY <1>3 DEF Held, Dis
  <2> QED BY <1>3, <2>1, <2>3, <2>6, <2>7 DEF Apart
<1> QED BY <1>3, <1>4, <1>6, <1>7 DEF es, g

Shown(b) == [i \in DOMAIN b |-> Ev("user", b[i])]

\* The claimed messages enter the step.
LEMMA UsersRun ==
    ASSUME NEW f, NEW C, NEW x, Stands(f, "step", C, x)
    PROVE  \A b \in Seq(Nat) :
             LET g == Replay(f, Shown(b)) IN
             /\ Shown(b) \in Seq(Events) /\ Stands(g, "step", C, x)
             /\ g.users = f.users \o b /\ g.turnQ = f.turnQ /\ g.stepQ = f.stepQ
<1> DEFINE P(b) == /\ Shown(b) \in Seq(Events) /\ Stands(Replay(f, Shown(b)), "step", C, x)
                   /\ Replay(f, Shown(b)).users = f.users \o b
                   /\ Replay(f, Shown(b)).turnQ = f.turnQ
                   /\ Replay(f, Shown(b)).stepQ = f.stepQ
           W == {b \in Seq(Nat) : P(b)}
<1>1. f.users \in Seq(Nat)
  BY DEF Stands, Shaped, Logs
<1>2. P(<<>>)
  <2>1. Shown(<<>>) = <<>> /\ f.users \o <<>> = f.users
    BY <1>1 DEF Shown
  <2>2. <<>> \in Seq(Events)
    OBVIOUS
  <2>3. Replay(f, Shown(<<>>)) = f
    BY <2>1, ReplayNone
  <2> QED BY <2>1, <2>2, <2>3
<1>3. ASSUME NEW b \in Seq(Nat), P(b), NEW m \in Nat PROVE P(Append(b, m))
  <2> DEFINE e == Ev("user", m)
             g == Replay(f, Shown(b))
  <2>1. e \in Events
    BY DEF Ev, Events, Moving
  <2>2. Shown(Append(b, m)) = Append(Shown(b), e)
    <3>1. Shown(b) \in Seq(Events) /\ Len(Shown(b)) = Len(b)
      BY <1>3 DEF Shown
    <3>2. \A i \in 1..Len(b) + 1 : Append(b, m)[i] \in Nat /\ Ev("user", Append(b, m)[i]) \in Events
      BY DEF Ev, Events, Moving
    <3>3. Shown(Append(b, m)) \in Seq(Events) /\ Len(Shown(Append(b, m))) = Len(b) + 1
      <4>1. DOMAIN Append(b, m) = 1..Len(b) + 1 /\ Len(b) + 1 \in Nat
        OBVIOUS
      <4> QED BY <3>2, <4>1 DEF Shown
    <3> HIDE DEF e
    <3>4. Append(Shown(b), e) \in Seq(Events) /\ Len(Append(Shown(b), e)) = Len(b) + 1
      BY <2>1, <3>1
    <3>5. \A i \in 1..Len(b) + 1 : Shown(Append(b, m))[i] = Append(Shown(b), e)[i]
      BY <2>1, <3>1 DEF Shown, e
    <3> QED BY <3>3, <3>4, <3>5, SeqEqual
  <2>3. Replay(f, Append(Shown(b), e)) = Apply(g, e)
    BY <1>3, <2>1, ReplayAppend
  <2>4. /\ Shaped(g) /\ ~g.bad /\ g \in Logs /\ g.open = "step" /\ g.calls = C /\ g.end = x
        /\ g.users = f.users \o b /\ g.turnQ = f.turnQ /\ g.stepQ = f.stepQ
    BY <1>3 DEF Stands, Shaped
  <2> HIDE DEF g
  <2>5. Legal(g, e) /\ Folded(g, e) = [g EXCEPT !.users = Append(@, m)]
    BY <2>4 DEF Legal, Folded, Ev
  <2> HIDE DEF e
  <2>6. /\ Folded(g, e).users = Append(g.users, m) /\ Folded(g, e).turnQ = g.turnQ
        /\ Folded(g, e).stepQ = g.stepQ /\ Folded(g, e).open = g.open
        /\ Folded(g, e).calls = g.calls /\ Folded(g, e).end = g.end
    BY <2>4, <2>5 DEF Logs
  <2>7. Stands(Apply(g, e), "step", C, x)
    BY <2>1, <2>4, <2>5, <2>6, ApplyShaped, ZenonT(40) DEF Stands
  <2>8. /\ Apply(g, e).users = Append(f.users \o b, m) /\ Apply(g, e).turnQ = f.turnQ
        /\ Apply(g, e).stepQ = f.stepQ
    BY <2>1, <2>4, <2>6, ApplyShaped
  <2>9. Append(f.users \o b, m) = f.users \o Append(b, m)
    <3>1. b \in Seq(Nat) /\ m \in Nat
      OBVIOUS
    <3>2. \A s, t \in Seq(Nat) : \A e0 \in Nat : s \o Append(t, e0) = Append(s \o t, e0)
      BY ConcatAppend
    <3> QED BY <1>1, <3>1, <3>2
  <2>10. Append(Shown(b), e) \in Seq(Events)
    BY <1>3, <2>1
  <2> QED BY <2>2, <2>3, <2>7, <2>8, <2>9, <2>10
<1> HIDE DEF P
<1>4. <<>> \in W /\ \A b \in Seq(Nat), m \in Nat : b \in W => Append(b, m) \in W
  BY <1>2, <1>3
<1> HIDE DEF W
<1>5. \A b \in Seq(Nat) : b \in W
  BY <1>4, SeqInduct
<1> QED BY <1>5 DEF W, P

\* Events that move no message, and events that only take messages away.
LEMMA CleanPlain ==
    ASSUME NEW f, Shaped(f), NEW n \in Nat, Apart(f, <<>>, n), NEW es \in Seq(Plain)
    PROVE  Clean(f, es, n)
<1> SUFFICES ASSUME NEW k \in 0..Len(es) PROVE Apart(Replay(f, SubSeq(es, 1, k)), <<>>, n)
  BY DEF Clean
<1>1. SubSeq(es, 1, k) \in Seq(Plain)
  OBVIOUS
<1>2. /\ Replay(f, SubSeq(es, 1, k)).users = f.users
      /\ Replay(f, SubSeq(es, 1, k)).turnQ = f.turnQ
      /\ Replay(f, SubSeq(es, 1, k)).stepQ = f.stepQ
  BY <1>1, ReplayPlain
<1> QED BY <1>2, ApartNone

\* Events that take messages away keep every message in one place all along.
LEMMA CleanTakes ==
    ASSUME NEW f, Shaped(f), NEW n \in Nat, Apart(f, <<>>, n), NEW es \in Seq(Takes)
    PROVE  Clean(f, es, n)
<1> SUFFICES ASSUME NEW k \in 0..Len(es) PROVE Apart(Replay(f, SubSeq(es, 1, k)), <<>>, n)
  BY DEF Clean
<1>1. SubSeq(es, 1, k) \in Seq(Takes) /\ <<>> \in Seq(Nat)
  OBVIOUS
<1> QED BY <1>1, TakesRun

\* No events: the log as it stands.
LEMMA CleanNone == \A f, n : Apart(f, <<>>, n) => Clean(f, <<>>, n)
<1>1. \A k \in 0..Len(<<>>) : SubSeq(<<>>, 1, k) = <<>>
  OBVIOUS
<1> QED BY <1>1, ReplayNone DEF Clean

\* The messages of a batch, entered one by one.
LEMMA CleanShown ==
    ASSUME NEW f, NEW C, NEW x, Stands(f, "step", C, x), NEW b \in Seq(Nat), NEW n \in Nat,
           Apart(f, b, n)
    PROVE  Clean(f, Shown(b), n)
<1>1. Len(Shown(b)) = Len(b)
  BY DEF Shown
<1> SUFFICES ASSUME NEW k \in 0..Len(b) PROVE Apart(Replay(f, SubSeq(Shown(b), 1, k)), <<>>, n)
  BY <1>1 DEF Clean
<1> DEFINE p == SubSeq(b, 1, k)
<1>2. p \in Seq(Nat) /\ SubSeq(Shown(b), 1, k) = Shown(p)
  BY DEF Shown
<1>3. f.users \in Seq(Nat) /\ f.turnQ \in Seq(Nat) /\ f.stepQ \in Seq(Nat)
  BY DEF Stands, Shaped, Logs
<1>4. /\ Held(f.users, n) /\ Held(f.turnQ, n) /\ Held(f.stepQ, n) /\ Held(b, n)
      /\ Dis(f.users, f.turnQ) /\ Dis(f.users, f.stepQ) /\ Dis(f.users, b)
      /\ Dis(f.turnQ, f.stepQ) /\ Dis(f.turnQ, b) /\ Dis(f.stepQ, b)
  BY DEF Apart
<1>5. Held(p, n) /\ Dis(f.users, p) /\ Dis(f.turnQ, p) /\ Dis(f.stepQ, p)
  BY <1>3, <1>4, HeldFirst
<1> HIDE DEF p
<1>6. Dis(p, f.turnQ) /\ Dis(p, f.stepQ)
  BY <1>5 DEF Dis
<1>7. /\ Held(f.users \o p, n) /\ Dis(f.users \o p, f.turnQ) /\ Dis(f.users \o p, f.stepQ)
  BY <1>2, <1>3, <1>4, <1>5, <1>6, HeldConcat
<1>8. /\ Replay(f, Shown(p)).users = f.users \o p /\ Replay(f, Shown(p)).turnQ = f.turnQ
      /\ Replay(f, Shown(p)).stepQ = f.stepQ
  BY <1>2, UsersRun
<1>9. Apart(Replay(f, Shown(p)), <<>>, n)
  BY <1>4, <1>7, <1>8, ApartNone
<1> QED BY <1>2, <1>9

\* A run of events stays clean when a further message is sent.
LEMMA CleanMore ==
    ASSUME NEW f, Shaped(f), NEW es \in Seq(Events), NEW n \in Nat, Clean(f, es, n)
    PROVE  Clean(f, es, n + 1)
<1> SUFFICES ASSUME NEW k \in 0..Len(es) PROVE Apart(Replay(f, SubSeq(es, 1, k)), <<>>, n + 1)
  BY DEF Clean
<1>1. Apart(Replay(f, SubSeq(es, 1, k)), <<>>, n)
  BY DEF Clean
<1>2. SubSeq(es, 1, k) \in Seq(Events) /\ <<>> \in Seq(Nat)
  OBVIOUS
<1>3. Shaped(Replay(f, SubSeq(es, 1, k)))
  BY <1>2, ReplayShaped
<1> QED BY <1>1, <1>2, <1>3, ApartMore

\* One run after the other.
LEMMA CleanConcat ==
    ASSUME NEW f, NEW p \in Seq(Events), NEW q \in Seq(Events), NEW n,
           Clean(f, p, n), Clean(Replay(f, p), q, n)
    PROVE  Clean(f, p \o q, n)
<1>1. Len(p \o q) = Len(p) + Len(q) /\ Len(p) \in Nat /\ Len(q) \in Nat
  OBVIOUS
<1> SUFFICES ASSUME NEW k \in 0..(Len(p) + Len(q))
             PROVE  Apart(Replay(f, SubSeq(p \o q, 1, k)), <<>>, n)
  BY <1>1 DEF Clean
<1>2. CASE k <= Len(p)
  <2>1. SubSeq(p \o q, 1, k) = SubSeq(p, 1, k) /\ k \in 0..Len(p)
    BY <1>1, <1>2
  <2> QED BY <2>1 DEF Clean
<1>3. CASE k > Len(p)
  <2> DEFINE j == k - Len(p)
             r == SubSeq(q, 1, j)
  <2>1. j \in 0..Len(q) /\ k = Len(p) + j /\ j \in Nat
    BY <1>1, <1>3
  <2> HIDE DEF j
  <2>2. r \in Seq(Events) /\ Len(r) = j
    BY <2>1
  <2>3. SubSeq(p \o q, 1, k) = p \o r
    <3>1. p \o r \in Seq(Events) /\ Len(p \o r) = k
      BY <2>1, <2>2
    <3>2. SubSeq(p \o q, 1, k) \in Seq(Events) /\ Len(SubSeq(p \o q, 1, k)) = k
      BY <1>1
    <3>3. \A i \in 1..k : SubSeq(p \o q, 1, k)[i] = (p \o q)[i]
      BY <1>1
    <3>4. \A i \in 1..k : (p \o q)[i] = IF i <= Len(p) THEN p[i] ELSE q[i - Len(p)]
      BY <1>1
    <3>5. \A i \in 1..k : (p \o r)[i] = IF i <= Len(p) THEN p[i] ELSE r[i - Len(p)]
      BY <1>1, <2>1, <2>2
    <3>6. \A i \in 1..j : r[i] = q[i]
      BY <2>1
    <3>7. \A i \in 1..k : i > Len(p) => i - Len(p) \in 1..j
      BY <1>1, <2>1
    <3> HIDE DEF r
    <3>8. ASSUME NEW i \in 1..k PROVE SubSeq(p \o q, 1, k)[i] = (p \o r)[i]
      <4>1. CASE i <= Len(p)
        BY <3>3, <3>4, <3>5, <4>1
      <4>2. CASE i > Len(p)
        <5>1. i - Len(p) \in 1..j
          BY <3>7, <4>2
        <5>2. r[i - Len(p)] = q[i - Len(p)]
          BY <3>6, <5>1
        <5>3. ~(i <= Len(p))
          BY <1>1, <4>2
        <5>4. (p \o q)[i] = q[i - Len(p)] /\ (p \o r)[i] = r[i - Len(p)]
          BY <3>4, <3>5, <5>3
        <5>5. SubSeq(p \o q, 1, k)[i] = (p \o q)[i]
          BY <3>3
        <5> QED BY ONLY <5>2, <5>4, <5>5, Zenon
      <4>3. i <= Len(p) \/ i > Len(p)
        BY <1>1
      <4> QED BY ONLY <4>1, <4>2, <4>3
    <3> QED BY <3>1, <3>2, <3>8, SeqEqual
  <2>4. Apart(Replay(Replay(f, p), r), <<>>, n)
    BY <2>1 DEF Clean
  <2> HIDE DEF r
  <2>5. Replay(f, p \o r) = Replay(Replay(f, p), r)
    BY <2>2, ReplayConcat
  <2> QED BY <2>3, <2>4, <2>5
<1> QED BY <1>1, <1>2, <1>3

\* A message that has just arrived.
LEMMA PutRun ==
    ASSUME NEW f, NEW o, NEW C, NEW x, Stands(f, o, C, x), NEW n \in Nat,
           NEW q \in {"putStep", "putTurn"}, NEW b \in Seq(Nat)
    PROVE  LET g == Apply(f, Ev(q, n + 1)) IN
           /\ Ev(q, n + 1) \in Events /\ Stands(g, o, C, x)
           /\ Apart(f, b, n) => Apart(g, b, n + 1)
<1> DEFINE e == Ev(q, n + 1)
           g == Apply(f, e)
<1>1. /\ Shaped(f) /\ f \in Logs /\ f.stepQ \in Seq(Nat) /\ f.turnQ \in Seq(Nat)
      /\ f.users \in Seq(Nat) /\ ~f.bad
  BY DEF Stands, Shaped, Logs
<1>2. e \in Events /\ Legal(f, e)
  BY DEF Ev, Events, Moving, Legal
<1>3. /\ Folded(f, e) = IF q = "putStep" THEN [f EXCEPT !.stepQ = Append(@, n + 1)]
                        ELSE [f EXCEPT !.turnQ = Append(@, n + 1)]
  BY DEF Ev, Folded
<1> HIDE DEF e
<1>4. /\ Folded(f, e).users = f.users /\ Folded(f, e).open = f.open
      /\ Folded(f, e).calls = f.calls /\ Folded(f, e).end = f.end
      /\ q = "putStep" => /\ Folded(f, e).stepQ = Append(f.stepQ, n + 1)
                          /\ Folded(f, e).turnQ = f.turnQ
      /\ q = "putTurn" => /\ Folded(f, e).turnQ = Append(f.turnQ, n + 1)
                          /\ Folded(f, e).stepQ = f.stepQ
  BY <1>1, <1>3 DEF Logs
<1>5. Stands(g, o, C, x)
  BY <1>1, <1>2, <1>4, ApplyShaped DEF Stands
<1>6. /\ g.users = f.users
      /\ q = "putStep" => g.stepQ = Append(f.stepQ, n + 1) /\ g.turnQ = f.turnQ
      /\ q = "putTurn" => g.turnQ = Append(f.turnQ, n + 1) /\ g.stepQ = f.stepQ
  BY <1>1, <1>2, <1>4, ApplyShaped
<1> HIDE DEF g
<1>7. ASSUME Apart(f, b, n) PROVE Apart(g, b, n + 1)
  <2>1. /\ Held(f.users, n) /\ Held(f.turnQ, n) /\ Held(f.stepQ, n) /\ Held(b, n)
        /\ Dis(f.users, f.turnQ) /\ Dis(f.users, f.stepQ) /\ Dis(f.users, b)
        /\ Dis(f.turnQ, f.stepQ) /\ Dis(f.turnQ, b) /\ Dis(f.stepQ, b)
    BY <1>7 DEF Apart
  <2>2. /\ Held(f.users, n + 1) /\ Held(f.turnQ, n + 1) /\ Held(f.stepQ, n + 1)
        /\ Held(b, n + 1)
    BY <1>1, <2>1, HeldNew
  <2>3. Dis(f.stepQ, f.users) /\ Dis(f.stepQ, f.turnQ) /\ Dis(f.turnQ, f.users)
    BY <2>1 DEF Dis
  <2>4. ASSUME q = "putStep" PROVE Apart(g, b, n + 1)
    <3> DEFINE s == Append(f.stepQ, n + 1)
    <3>1. Held(s, n + 1) /\ Dis(f.users, s) /\ Dis(f.turnQ, s) /\ Dis(s, b)
      BY <1>1, <2>1, <2>3, HeldNew
    <3> HIDE DEF s
    <3>2. g.users = f.users /\ g.stepQ = s /\ g.turnQ = f.turnQ
      BY <1>6, <2>4 DEF s
    <3> QED BY <2>1, <2>2, <3>1, <3>2 DEF Apart
  <2>5. ASSUME q = "putTurn" PROVE Apart(g, b, n + 1)
    <3> DEFINE s == Append(f.turnQ, n + 1)
    <3>1. Held(s, n + 1) /\ Dis(f.users, s) /\ Dis(s, f.stepQ) /\ Dis(s, b)
      BY <1>1, <2>1, <2>3, HeldNew
    <3> HIDE DEF s
    <3>2. g.users = f.users /\ g.turnQ = s /\ g.stepQ = f.stepQ
      BY <1>6, <2>5 DEF s
    <3> QED BY <2>1, <2>2, <3>1, <3>2 DEF Apart
  <2> QED BY <2>4, <2>5
<1> QED BY <1>2, <1>5, <1>7 DEF g, e

\* A run of one event.
LEMMA CleanOne ==
    ASSUME NEW f, NEW e, NEW n, Apart(f, <<>>, n), Apart(Apply(f, e), <<>>, n)
    PROVE  Clean(f, <<e>>, n)
<1> SUFFICES ASSUME NEW k \in 0..1 PROVE Apart(Replay(f, SubSeq(<<e>>, 1, k)), <<>>, n)
  BY DEF Clean
<1>1. SubSeq(<<e>>, 1, 0) = <<>> /\ SubSeq(<<e>>, 1, 1) = <<e>>
  <2>1. <<e>> \in Seq({e}) /\ Len(<<e>>) = 1
    OBVIOUS
  <2>2. SubSeq(<<e>>, 1, Len(<<e>>)) = <<e>>
    BY ONLY <2>1, SubSeqFull
  <2>3. SubSeq(<<e>>, 1, 0) = <<>>
    OBVIOUS
  <2> QED BY <2>1, <2>2, <2>3
<1>2. CASE k = 0
  BY <1>1, <1>2, ReplayNone
<1>3. CASE k = 1
  BY <1>1, <1>3, ReplayOne
<1> QED BY <1>2, <1>3

-----------------------------------------------------------------------------
(* The write-behind.                                                       *)

Numbered(l, es) == [i \in DOMAIN es |-> [seq |-> l + i - 1, ev |-> es[i]]]

\* Session::append numbers the new events on from the live log's length.
LEMMA NumberedSeq ==
    ASSUME NEW l \in Nat, NEW es \in Seq(Events)
    PROVE  /\ Numbered(l, es) \in Seq(Entries) /\ Len(Numbered(l, es)) = Len(es)
           /\ \A i \in 1..Len(es) : Numbered(l, es)[i].seq = l + i - 1
           /\ Evs(Numbered(l, es)) = es
<1>1. DOMAIN es = 1..Len(es) /\ Len(es) \in Nat /\ \A i \in 1..Len(es) : es[i] \in Events
  OBVIOUS
<1>2. \A i \in 1..Len(es) : l + i - 1 \in Nat
  OBVIOUS
<1>3. Numbered(l, es) = [i \in 1..Len(es) |-> [seq |-> l + i - 1, ev |-> es[i]]]
  BY <1>1 DEF Numbered
<1>4. \A i \in 1..Len(es) : [seq |-> l + i - 1, ev |-> es[i]] \in Entries
  BY <1>1, <1>2 DEF Entries
<1>5. Numbered(l, es) \in Seq(Entries) /\ Len(Numbered(l, es)) = Len(es)
  BY <1>1, <1>3, <1>4
<1>6. Evs(Numbered(l, es)) = [i \in 1..Len(es) |-> es[i]]
  BY <1>1, <1>3 DEF Evs
<1>7. [i \in 1..Len(es) |-> es[i]] = es
  BY <1>1
<1>8. \A i \in 1..Len(es) : Numbered(l, es)[i].seq = l + i - 1
  BY <1>3
<1> QED BY <1>5, <1>6, <1>7, <1>8

\* The events of queued entries are a sequence of events, entry by entry.
LEMMA EvsSeq ==
    ASSUME NEW q \in Seq(Entries)
    PROVE  /\ Evs(q) \in Seq(Events) /\ Len(Evs(q)) = Len(q)
           /\ \A i \in 1..Len(q) : Evs(q)[i] = q[i].ev /\ q[i].seq \in Nat
<1>1. DOMAIN q = 1..Len(q) /\ Len(q) \in Nat
  OBVIOUS
<1>2. \A i \in 1..Len(q) : q[i] \in Entries
  OBVIOUS
<1>3. \A i \in 1..Len(q) : q[i].ev \in Events /\ q[i].seq \in Nat
  BY <1>2 DEF Entries
<1> QED BY <1>1, <1>3 DEF Evs

\* The events of two queues put together.
LEMMA EvsConcat ==
    ASSUME NEW p \in Seq(Entries), NEW q \in Seq(Entries)
    PROVE  Evs(p \o q) = Evs(p) \o Evs(q)
<1>1. /\ p \o q \in Seq(Entries) /\ Len(p \o q) = Len(p) + Len(q)
      /\ Len(p) \in Nat /\ Len(q) \in Nat
  OBVIOUS
<1>2. /\ Evs(p) \in Seq(Events) /\ Evs(q) \in Seq(Events) /\ Evs(p \o q) \in Seq(Events)
      /\ Len(Evs(p)) = Len(p) /\ Len(Evs(q)) = Len(q)
      /\ Len(Evs(p \o q)) = Len(p) + Len(q)
  <2>1. \A s \in Seq(Entries) : Evs(s) \in Seq(Events) /\ Len(Evs(s)) = Len(s)
    BY EvsSeq
  <2> QED BY <1>1, <2>1
<1>3. Evs(p) \o Evs(q) \in Seq(Events) /\ Len(Evs(p) \o Evs(q)) = Len(p) + Len(q)
  <2>1. \A s, t \in Seq(Events) : s \o t \in Seq(Events) /\ Len(s \o t) = Len(s) + Len(t)
    OBVIOUS
  <2> QED BY ONLY <1>2, <2>1
<1>4. ASSUME NEW i \in 1..(Len(p) + Len(q)) PROVE Evs(p \o q)[i] = (Evs(p) \o Evs(q))[i]
  <2>1. Evs(p \o q)[i] = (p \o q)[i].ev
    BY <1>1, EvsSeq
  <2>2. CASE i \in 1..Len(p)
    <3>1. (p \o q)[i] = p[i] /\ (Evs(p) \o Evs(q))[i] = Evs(p)[i] /\ Evs(p)[i] = p[i].ev
      BY <1>2, <2>2, EvsSeq
    <3> QED BY <2>1, <3>1
  <2>3. CASE i \notin 1..Len(p)
    <3> DEFINE j == i - Len(p)
    <3>1. j \in 1..Len(q) /\ i = Len(p) + j
      BY <1>1, <2>3
    <3> HIDE DEF j
    <3>2. (p \o q)[Len(p) + j] = q[j]
      BY <1>1, <3>1
    <3>3. (Evs(p) \o Evs(q))[Len(p) + j] = Evs(q)[j]
      BY <1>1, <1>2, <3>1
    <3>4. Evs(q)[j] = q[j].ev
      BY <3>1, EvsSeq
    <3> QED BY <2>1, <3>1, <3>2, <3>3, <3>4
  <2> QED BY <2>2, <2>3
<1> QED BY <1>2, <1>3, <1>4, SeqEqual

\* Session::append: the new events join the live log and the queue.
LEMMA LogChained ==
    ASSUME NEW m, NEW a, Shaped(m), Shaped(a), NEW q \in Seq(Entries), NEW w \in Nat, NEW n,
           NEW failed, Chained(TRUE, m, a, q, w, n, failed),
           NEW es \in Seq(Events), Clean(m, es, n)
    PROVE  Chained(TRUE, Replay(m, es), a, q \o Numbered(m.len, es), w, n, failed)
<1> DEFINE r == Numbered(m.len, es)
<1>1. m.len \in Nat
  BY DEF Shaped, Logs
<1>2. /\ r \in Seq(Entries) /\ Len(r) = Len(es) /\ Evs(r) = es
      /\ \A i \in 1..Len(es) : r[i].seq = m.len + i - 1
  BY <1>1, NumberedSeq
<1> HIDE DEF r
<1>3. Replay(m, es).len = m.len + Len(es)
  BY ReplayShaped
<1>4. Len(q \o r) = Len(q) + Len(es) /\ Len(q) \in Nat /\ Len(es) \in Nat
  BY <1>2
<1>5. ASSUME NEW i \in 1..(Len(q) + Len(es))
      PROVE  (q \o r)[i].seq + (Len(q) + Len(es)) + 1 = (m.len + Len(es)) + i
  <2>1. CASE i \in 1..Len(q)
    <3>1. (q \o r)[i] = q[i]
      BY <1>2, <2>1
    <3>2. q[i].seq + Len(q) + 1 = m.len + i /\ q[i].seq \in Nat
      BY <2>1, EvsSeq DEF Chained
    <3> DEFINE z == q[i].seq
    <3>3. z \in Nat /\ z + Len(q) + 1 = m.len + i /\ (q \o r)[i].seq = z /\ i \in Nat
      BY <3>1, <3>2
    <3> HIDE DEF z
    <3>4. z + (Len(q) + Len(es)) + 1 = (m.len + Len(es)) + i
      <4> DEFINE c == Len(q)
                 d == Len(es)
                 l == m.len
      <4>1. z \in Nat /\ c \in Nat /\ d \in Nat /\ l \in Nat /\ i \in Nat /\ z + c + 1 = l + i
        BY <1>1, <1>4, <3>3
      <4> HIDE DEF c, d, l
      <4>2. z + (c + d) + 1 = (l + d) + i
        BY ONLY <4>1
      <4> QED BY <4>2 DEF c, d, l
    <3> QED BY <3>3, <3>4
  <2>2. CASE i \notin 1..Len(q)
    <3> DEFINE j == i - Len(q)
    <3>1. j \in 1..Len(es) /\ i = Len(q) + j
      BY <1>4, <2>2
    <3> HIDE DEF j
    <3>2. (q \o r)[Len(q) + j] = r[j]
      BY <1>2, <1>4, <3>1
    <3>3. r[j].seq = m.len + j - 1
      BY <1>2, <3>1
    <3>4. (q \o r)[i].seq = m.len + j - 1
      BY <3>1, <3>2, <3>3
    <3>5. m.len + j - 1 + (Len(q) + Len(es)) + 1 = (m.len + Len(es)) + (Len(q) + j) /\ j \in Nat
      BY <1>1, <1>4, <3>1
    <3> QED BY <3>1, <3>4, <3>5
  <2> QED BY <2>1, <2>2
<1>6. Evs(q \o r) = Evs(q) \o es /\ Evs(q) \in Seq(Events)
  BY <1>2, EvsConcat, EvsSeq
<1>7. ASSUME a.len = w
      PROVE  Replay(m, es) = Replay(a, Evs(q \o r)) /\ Clean(a, Evs(q \o r), n)
  <2>1. m = Replay(a, Evs(q)) /\ Clean(a, Evs(q), n)
    BY <1>7 DEF Chained
  <2>2. Replay(a, Evs(q) \o es) = Replay(Replay(a, Evs(q)), es)
    BY <1>6, ReplayConcat
  <2>3. Clean(a, Evs(q) \o es, n)
    BY <1>6, <2>1, CleanConcat
  <2> QED BY <1>6, <2>1, <2>2, <2>3
<1>8. /\ a.len <= w /\ ~a.bad /\ Apart(a, <<>>, n) /\ (failed = 0 => w <= a.len)
  BY DEF Chained
<1> QED BY <1>3, <1>4, <1>5, <1>7, <1>8 DEF Chained, r

\* A message more is sent.
LEMMA ChainedMore ==
    ASSUME NEW live, NEW m, NEW a, Shaped(a), NEW q \in Seq(Entries), NEW w, NEW n \in Nat,
           NEW failed, Chained(live, m, a, q, w, n, failed)
    PROVE  Chained(live, m, a, q, w, n + 1, failed)
<1>1. Evs(q) \in Seq(Events) /\ <<>> \in Seq(Nat)
  BY EvsSeq
<1>2. Clean(a, Evs(q), n) => Clean(a, Evs(q), n + 1)
  BY <1>1, CleanMore
<1>3. Apart(a, <<>>, n + 1)
  BY <1>1, ApartMore DEF Chained
<1> QED BY <1>2, <1>3 DEF Chained

\* A finite set of numbers has a largest one.
LEMMA Largest ==
    ASSUME NEW S \in SUBSET Nat, IsFiniteSet(S), S # {}
    PROVE  Max(S) \in S /\ \A j \in S : j <= Max(S)
<1> DEFINE P(c) == \A s \in SUBSET Nat : IsFiniteSet(s) /\ Cardinality(s) = c /\ s # {} =>
                     \E m \in s : \A j \in s : m >= j
           T == {c \in Nat : P(c)}
<1>1. P(0)
  BY FS_EmptySet
<1>2. ASSUME NEW c \in Nat, P(c) PROVE P(c + 1)
  <2> SUFFICES ASSUME NEW s \in SUBSET Nat, IsFiniteSet(s), Cardinality(s) = c + 1, s # {}
               PROVE  \E m \in s : \A j \in s : m >= j
    OBVIOUS
  <2>1. PICK x \in s : TRUE
    OBVIOUS
  <2> DEFINE r == s \ {x}
  <2>2. IsFiniteSet(r) /\ Cardinality(r) = c /\ r \in SUBSET Nat
    <3>1. IsFiniteSet(r) /\ Cardinality(r) = Cardinality(s) - 1
      BY <2>1, FS_RemoveElement
    <3>2. r \in SUBSET Nat
      OBVIOUS
    <3> HIDE DEF r
    <3> QED BY <3>1, <3>2
  <2>3. CASE r = {}
    BY <2>1, <2>3
  <2>4. CASE r # {}
    <3>1. PICK m \in r : \A j \in r : m >= j
      BY <1>2, <2>2, <2>4
    <3>2. CASE x >= m
      <4>1. \A j \in s : x >= j
        BY <2>1, <3>1, <3>2
      <4> QED BY <2>1, <4>1
    <3>3. CASE m > x
      <4>1. \A j \in s : m >= j
        BY <2>1, <3>1, <3>3
      <4> QED BY <3>1, <4>1
    <3> QED BY <2>1, <3>1, <3>2, <3>3
  <2> QED BY <2>3, <2>4
<1> HIDE DEF P
<1>3. 0 \in T /\ \A c \in Nat : c \in T => c + 1 \in T
  BY <1>1, <1>2
<1> HIDE DEF T
<1>4. Cardinality(S) \in T
  BY <1>3, Induct, FS_CardinalityType
<1>5. \E m \in S : \A j \in S : m >= j
  BY <1>4 DEF T, P
<1>6. Max(S) \in S /\ \A j \in S : Max(S) >= j
  BY <1>5 DEF Max
<1> QED BY <1>6

\* Each member of a finite set of numbers has its rank.
LEMMA Ranked ==
    ASSUME NEW S \in SUBSET Nat, IsFiniteSet(S)
    PROVE  \A i \in 1..Cardinality(S) : NthSeq(S, i) \in S
<1> DEFINE P(c) == \A s \in SUBSET Nat : IsFiniteSet(s) /\ Cardinality(s) = c =>
                     \A i \in 1..c : \E k \in s : Cardinality(s \cap 0..k) = i
           T == {c \in Nat : P(c)}
<1>1. P(0)
  OBVIOUS
<1>2. ASSUME NEW c \in Nat, P(c) PROVE P(c + 1)
  <2> SUFFICES ASSUME NEW s \in SUBSET Nat, IsFiniteSet(s), Cardinality(s) = c + 1,
                      NEW i \in 1..(c + 1)
               PROVE  \E k \in s : Cardinality(s \cap 0..k) = i
    OBVIOUS
  <2> DEFINE m == Max(s)
             r == s \ {m}
  <2>1. s # {}
    BY FS_EmptySet
  <2>2. m \in s /\ \A j \in s : j <= m
    BY <2>1, Largest
  <2> HIDE DEF m
  <2>3. IsFiniteSet(r) /\ Cardinality(r) = c /\ r \in SUBSET Nat
    <3>1. IsFiniteSet(r) /\ Cardinality(r) = Cardinality(s) - 1
      BY <2>2, FS_RemoveElement
    <3>2. r \in SUBSET Nat
      OBVIOUS
    <3> HIDE DEF r
    <3> QED BY <3>1, <3>2
  <2>4. CASE i <= c
    <3>1. i \in 1..c
      BY <2>4
    <3>2. PICK k \in r : Cardinality(r \cap 0..k) = i
      BY <1>2, <2>3, <3>1
    <3>3. s \cap 0..k = r \cap 0..k
      BY <2>2
    <3> QED BY <3>2, <3>3
  <2>5. CASE i = c + 1
    <3>1. s \cap 0..m = s
      <4>1. \A j \in s : j \in Nat /\ m \in Nat /\ j <= m
        BY <2>2
      <4>2. \A j \in s : j \in 0..m
        BY <4>1
      <4> QED BY ONLY <4>2
    <3> QED BY <2>2, <2>5, <3>1
  <2> QED BY <2>4, <2>5
<1> HIDE DEF P
<1>3. 0 \in T /\ \A c \in Nat : c \in T => c + 1 \in T
  BY <1>1, <1>2
<1> HIDE DEF T
<1>4. Cardinality(S) \in T
  BY <1>3, Induct, FS_CardinalityType
<1>5. \A i \in 1..Cardinality(S) : \E k \in S : Cardinality(S \cap 0..k) = i
  BY <1>4 DEF T, P
<1> QED BY <1>5 DEF NthSeq

\* The batch of any queue is a run of events, and the watermark never moves back.
LEMMA BatchSeq ==
    ASSUME queue \in Seq(Entries), next \in Nat
    PROVE  Batch \in Seq(Events) /\ Passed \in Nat /\ next <= Passed
<1> DEFINE L == Len(queue)
           all == {queue[i].seq : i \in DOMAIN queue}
           F == [i \in 1..L |-> queue[i].seq]
<1>1. /\ L \in Nat /\ DOMAIN queue = 1..L
      /\ \A i \in 1..L : queue[i].seq \in Nat /\ queue[i].ev \in Events
  <2>1. L \in Nat /\ DOMAIN queue = 1..L /\ \A i \in 1..L : queue[i] \in Entries
    OBVIOUS
  <2> QED BY <2>1 DEF Entries
<1>2. IsFiniteSet(all)
  <2>1. F \in [1..L -> all] /\ \A k \in all : \E i \in 1..L : F[i] = k
    BY <1>1
  <2> HIDE DEF F, all
  <2>2. F \in Surjection(1..L, all)
    BY <2>1 DEF Surjection
  <2>3. IsFiniteSet(1..L)
    BY <1>1, FS_Interval
  <2> QED BY <2>2, <2>3, FS_Surjection
<1>3. Due \in SUBSET all /\ Due \in SUBSET Nat /\ \A k \in Due : k >= next
  BY <1>1 DEF Due
<1>4. IsFiniteSet(Due)
  BY <1>2, <1>3, FS_Subset
<1>5. CASE next \notin Due
  BY <1>5 DEF Batch, Passed
<1>6. CASE next \in Due
  <2> DEFINE N == Cardinality(Due)
  <2>1. N \in Nat
    BY <1>4, FS_CardinalityType
  <2>2. \A n \in 1..N : NthSeq(Due, n) \in Due
    BY <1>3, <1>4, Ranked
  <2>3. ASSUME NEW k \in Due PROVE FirstOf(k) \in 1..L
    <3> DEFINE I == {i \in 1..L : queue[i].seq = k}
    <3>1. I # {}
      BY <1>1, <1>3
    <3>2. \E i \in I : \A j \in I : i <= j
      <4>1. I \subseteq Nat
        BY <1>1
      <4> HIDE DEF I
      <4>2. \E i \in I : \A j \in I : ~(<<j, i>> \in OpToRel(<, Nat))
        BY <3>1, <4>1, NatLessThanWellFounded, WFMin
      <4>3. PICK i \in I : \A j \in I : ~(j < i)
        BY <4>1, <4>2 DEF OpToRel
      <4>4. \A j \in I : i <= j
        BY <4>1, <4>3
      <4> QED BY <4>3, <4>4
    <3>3. \E i \in DOMAIN queue : queue[i].seq = k /\ \A j \in DOMAIN queue : queue[j].seq = k => i <= j
      BY <1>1, <3>2
    <3>4. FirstOf(k) \in DOMAIN queue
      BY <3>3 DEF FirstOf
    <3> QED BY <1>1, <3>4
  <2>4. \A n \in 1..N : queue[FirstOf(NthSeq(Due, n))].ev \in Events
    BY <1>1, <2>2, <2>3
  <2>5. Batch = [n \in 1..N |-> queue[FirstOf(NthSeq(Due, n))].ev]
    BY <1>6 DEF Batch
  <2>6. Batch \in Seq(Events)
    <3> DEFINE E(n) == queue[FirstOf(NthSeq(Due, n))].ev
    <3>1. \A n \in 1..N : E(n) \in Events
      BY <2>4
    <3>2. Batch = [n \in 1..N |-> E(n)]
      BY <2>5
    <3> HIDE DEF E, N
    <3> QED BY <2>1, <3>1, <3>2
  <2>7. Max(Due) \in Due
    BY <1>3, <1>4, <1>6, Largest
  <2>8. Passed = Max(Due) + 1
    BY <1>6 DEF Passed
  <2>9. Max(Due) \in Nat /\ Max(Due) >= next
    BY <1>3, <2>7
  <2> QED BY <2>6, <2>8, <2>9
<1> QED BY <1>5, <1>6

\* A queue that goes on from the watermark is written whole.
LEMMA BatchAll ==
    ASSUME queue \in Seq(Entries), next \in Nat,
           \A i \in 1..Len(queue) : queue[i].seq = next + i - 1
    PROVE  Batch = Evs(queue) /\ Passed = next + Len(queue)
<1> DEFINE L == Len(queue)
<1>1. L \in Nat /\ DOMAIN queue = 1..L
  OBVIOUS
<1>2. Due = next..(next + L - 1)
  <2>1. \A i \in DOMAIN queue : queue[i].seq \in next..(next + L - 1)
    BY <1>1
  <2>2. ASSUME NEW k \in next..(next + L - 1) PROVE \E i \in DOMAIN queue : queue[i].seq = k
    <3>1. k - next + 1 \in 1..L /\ next + (k - next + 1) - 1 = k
      BY <1>1
    <3>2. queue[k - next + 1].seq = k
      BY <3>1
    <3> QED BY <1>1, <3>1, <3>2
  <2>3. \A k \in next..(next + L - 1) : k >= next
    OBVIOUS
  <2> QED BY <2>1, <2>2, <2>3 DEF Due
<1>3. CASE L = 0
  <2>1. queue = <<>> /\ next \notin Due
    BY <1>1, <1>2, <1>3
  <2> QED BY <1>3, <2>1 DEF Batch, Passed, Evs
<1>4. CASE L > 0
  <2> DEFINE S == next..(next + L - 1)
  <2>1. next \in S /\ next + L - 1 \in S /\ S \in SUBSET Nat
    BY <1>1, <1>4
  <2>2. IsFiniteSet(S) /\ Cardinality(S) = L
    <3>1. next \in Int /\ next + L - 1 \in Int /\ ~(next > next + L - 1)
      BY <1>1, <1>4
    <3>2. /\ IsFiniteSet(S)
          /\ Cardinality(S) = IF next > next + L - 1 THEN 0 ELSE (next + L - 1) - next + 1
      BY <3>1, FS_Interval
    <3> HIDE DEF S
    <3> QED BY <1>1, <3>1, <3>2
  <2>3. ASSUME NEW k \in S PROVE Cardinality(S \cap 0..k) = k - next + 1
    <3>1. S \cap 0..k = next..k
      BY <1>1
    <3>2. Cardinality(next..k) = k - next + 1
      <4>1. next \in Int /\ k \in Int /\ k >= next
        OBVIOUS
      <4>2. Cardinality(next..k) = IF next > k THEN 0 ELSE k - next + 1
        BY <4>1, FS_Interval
      <4> QED BY <4>1, <4>2
    <3> QED BY <3>1, <3>2
  <2> HIDE DEF S
  <2>4. ASSUME NEW n \in 1..L PROVE NthSeq(S, n) = next + n - 1
    <3>1. next + n - 1 \in S /\ (next + n - 1) - next + 1 = n
      BY <1>1 DEF S
    <3>2. \A k \in S : k - next + 1 = n => k = next + n - 1
      BY <2>1
    <3>3. \A k \in S : Cardinality(S \cap 0..k) = n <=> k = next + n - 1
      BY <2>3, <3>1, <3>2
    <3> QED BY <3>1, <3>3 DEF NthSeq
  <2>5. ASSUME NEW n \in 1..L PROVE FirstOf(next + n - 1) = n
    <3>1. \A i \in DOMAIN queue : queue[i].seq = next + n - 1 <=> i = n
      BY <1>1
    <3>2. n \in DOMAIN queue /\ n <= n
      BY <1>1
    <3> QED BY <3>1, <3>2 DEF FirstOf
  <2>6. Batch = [n \in 1..L |-> queue[FirstOf(NthSeq(S, n))].ev]
    BY <1>2, <2>1, <2>2 DEF Batch, S
  <2>7. \A n \in 1..L : queue[FirstOf(NthSeq(S, n))].ev = queue[n].ev
    BY <2>4, <2>5
  <2>8. Batch = Evs(queue)
    BY <1>1, <2>6, <2>7 DEF Evs
  <2>9. Max(S) = next + L - 1
    <3>1. Max(S) \in S /\ \A j \in S : j <= Max(S)
      BY <2>1, <2>2, Largest
    <3>2. \A k \in S : k <= next + L - 1 /\ k \in Nat
      BY <1>1 DEF S
    <3> DEFINE z == Max(S)
               y == next + L - 1
    <3>3. z \in Nat /\ y \in Nat /\ z <= y /\ y <= z
      BY <2>1, <3>1, <3>2
    <3> HIDE DEF z, y
    <3>4. z = y
      BY ONLY <3>3
    <3> QED BY <3>4 DEF z, y
  <2>10. Passed = (next + L - 1) + 1
    BY <1>2, <2>1, <2>9 DEF Passed, S
  <2> QED BY <1>1, <2>8, <2>10
<1> QED BY <1>1, <1>3, <1>4

-----------------------------------------------------------------------------
(* The driver.                                                             *)

\* The driver is about to log es, which leaves the log at the boundary o with the
\* calls C open.
Ready(d, es, o, C) ==
    /\ d \in Drivers /\ d.phase = "running" /\ es \in Seq(Plain)
    /\ \E x \in Endings : Stands(Replay(mem, es), o, C, x)
    /\ Shaped(mem) /\ sent \in Nat /\ Spent(d, mem)
    /\ ~stale => Apart(mem, d.batch, sent)

\* The step it took: what is logged, and where the driver is then.
Moved ==
    /\ Fine(drv', mem', sent, stale)
    /\ \E es \in Seq(Events) : Log(es) /\ (~stale => Clean(mem, es, sent))

\* The driver as a session is opened with.
LEMMA IdleShape ==
    Idle \in Drivers /\ Idle.phase = "idle" /\ Idle.at = "no" /\ ~Idle.aborted /\ Idle.batch = <<>>
BY DEF Idle, Drivers

\* The driver as it is when it has been woken.
LEMMA RunningShape ==
    /\ Running \in Drivers /\ Running.phase = "running" /\ Running.at = "turn"
    /\ ~Running.aborted /\ Running.batch = <<>>
<1> DEFINE i == Idle
<1>1. i \in Drivers /\ ~i.aborted /\ i.batch = <<>>
  BY IdleShape
<1>2. Running = [i EXCEPT !.phase = "running", !.at = "turn"]
  BY DEF Running
<1> HIDE DEF i
<1> QED BY <1>1, <1>2 DEF Drivers

\* The two kinds of runs of events are runs of events.
LEMMA EventSeqs == Seq(Plain) \subseteq Seq(Events) /\ Seq(Takes) \subseteq Seq(Events)
<1>1. Plain \subseteq Events /\ Takes \subseteq Events
  BY DEF Events, Takes, Moving
<1> QED BY <1>1

\* Events that move no message leave each where it is.
LEMMA PlainApart ==
    ASSUME NEW f, Shaped(f), NEW es \in Seq(Plain), NEW b, NEW n, Apart(f, b, n)
    PROVE  Apart(Replay(f, es), b, n)
BY ReplayPlain DEF Apart

\* The events of a driver step that move no message.
LEMMA PlainMoves ==
    ASSUME NEW d, NEW es, NEW o, NEW C, Ready(d, es, o, C), Log(es)
    PROVE  /\ Shaped(mem') /\ ~mem'.bad /\ mem'.open = o /\ mem'.calls = C
           /\ HasPending(mem') <=> HasPending(mem)
           /\ ~stale => Apart(mem', d.batch, sent) /\ Apart(mem', <<>>, sent)
           /\ \E e0 \in Seq(Events) : Log(e0) /\ (~stale => Clean(mem, e0, sent))
<1>1. es \in Seq(Plain) /\ Shaped(mem) /\ mem' = Replay(mem, es) /\ sent \in Nat
  BY DEF Ready, Log
<1>2. Shaped(mem') /\ ~mem'.bad /\ mem'.open = o /\ mem'.calls = C
  BY <1>1 DEF Ready, Stands
<1>3. mem'.stepQ = mem.stepQ /\ mem'.turnQ = mem.turnQ
  BY <1>1, ReplayPlain
<1>4. ASSUME ~stale PROVE Apart(mem', d.batch, sent) /\ Apart(mem', <<>>, sent)
  <2>1. Apart(mem, d.batch, sent)
    BY <1>4 DEF Ready
  <2> QED BY <1>1, <2>1, PlainApart, ApartDrop
<1>5. ASSUME ~stale PROVE Clean(mem, es, sent)
  <2>1. Apart(mem, <<>>, sent)
    BY <1>5, ApartDrop DEF Ready
  <2> QED BY <1>1, <2>1, CleanPlain
<1>6. es \in Seq(Events)
  BY <1>1, EventSeqs
<1> QED BY <1>2, <1>3, <1>4, <1>5, <1>6 DEF HasPending

\* pre_step: the claim is logged, and the driver holds what it claimed or has no input.
LEMMA PreStepOK ==
    ASSUME NEW d, NEW es, NEW target, Ready(d, es, "turn", {}), ~d.aborted,
           PreStep(d, Replay(mem, es), es, target)
    PROVE  Moved
<1> DEFINE f == Replay(mem, es)
           c == Claim(f, target)
           b == Claimed(f, target)
<1>1. /\ es \in Seq(Plain) /\ Shaped(mem) /\ sent \in Nat /\ d \in Drivers
      /\ d.phase = "running" /\ Log(es \o c) /\ drv' = [d EXCEPT !.at = "pre", !.batch = b]
  BY DEF Ready, PreStep
<1>2. PICK x \in Endings : Stands(f, "turn", {}, x)
  BY DEF Ready
<1>3. /\ c \in Seq(Takes) /\ b \in Seq(Nat) /\ Stands(Replay(f, c), "turn", {}, x)
      /\ Apart(f, <<>>, sent) => Apart(Replay(f, c), b, sent)
  BY <1>1, <1>2, ClaimRun
<1>4. es \in Seq(Events) /\ c \in Seq(Events)
  BY <1>1, <1>3, EventSeqs
<1> HIDE DEF c, b
<1>5. Replay(mem, es \o c) = Replay(f, c)
  BY <1>4, ReplayConcat
<1>6. mem' = Replay(f, c)
  BY <1>1, <1>5 DEF Log
<1>7. ASSUME ~stale PROVE Apart(mem', b, sent) /\ Clean(mem, es \o c, sent)
  <2>1. Apart(mem, <<>>, sent)
    BY <1>7, ApartDrop DEF Ready
  <2>2. Apart(f, <<>>, sent) /\ Clean(mem, es, sent)
    BY <1>1, <2>1, PlainApart, CleanPlain
  <2>3. Shaped(f)
    BY <1>2 DEF Stands
  <2> HIDE DEF f
  <2>4. Clean(f, c, sent)
    BY <1>1, <1>3, <2>2, <2>3, CleanTakes
  <2>5. Clean(mem, es \o c, sent)
    BY <1>4, <2>2, <2>4, CleanConcat DEF f
  <2> QED BY <1>3, <1>6, <2>2, <2>5
<1> HIDE DEF f
<1>8. /\ drv' \in Drivers /\ drv'.phase = "running" /\ drv'.at = "pre" /\ ~drv'.aborted
      /\ drv'.batch = b
  BY <1>1, <1>3 DEF Drivers
<1>9. Shaped(mem') /\ ~mem'.bad /\ mem'.open = "turn"
  BY <1>3, <1>6 DEF Stands
<1>10. Fine(drv', mem', sent, stale)
  BY <1>7, <1>8, <1>9 DEF Fine, Link, Owes, Spent
<1>11. es \o c \in Seq(Events)
  BY <1>4
<1> QED BY <1>1, <1>7, <1>10, <1>11 DEF Moved

\* run_turn: a turn is opened and its first step claims its input.
LEMMA OpenTurnOK ==
    ASSUME NEW d, NEW es, Ready(d, es, "no", {}), ~d.aborted, OpenTurn(d, es)
    PROVE  Moved
<1> DEFINE o == Append(es, Ev("turn", 0))
           l == [d EXCEPT !.fresh = TRUE, !.ends = "no"]
<1>1. PreStep(l, Replay(mem, o), o, "turn")
  BY DEF OpenTurn
<1>2. es \in Seq(Plain) /\ Ev("turn", 0) \in Plain /\ o \in Seq(Plain)
  BY DEF Ready, Ev, Plain, Still
<1>3. Replay(mem, o) = Apply(Replay(mem, es), Ev("turn", 0))
  BY <1>2, ReplayAppend
<1>4. \E x \in Endings : Stands(Replay(mem, o), "turn", {}, x)
  BY <1>3, Brackets DEF Ready
<1>5. /\ l \in Drivers /\ l.phase = "running" /\ ~l.aborted /\ l.batch = d.batch
  BY DEF Ready, Drivers
<1> HIDE DEF o, l
<1>6. Ready(l, o, "turn", {})
  BY <1>2, <1>4, <1>5 DEF Ready, Spent
<1> QED BY <1>1, <1>5, <1>6, PreStepOK

\* end_turn: the turn is closed, then the next one opens or the driver goes idle.
LEMMA EndTurnOK ==
    ASSUME NEW d, NEW es, NEW reason \in Endings, NEW failed \in BOOLEAN,
           Ready(d, es, "turn", {}), failed => reason = "error" \/ d.aborted,
           EndTurn(d, es, reason, failed)
    PROVE  Moved
<1> DEFINE ended == Append(es, Ev("turnEnd", reason))
           f == Replay(mem, ended)
<1>1. es \in Seq(Plain) /\ Ev("turnEnd", reason) \in Plain /\ ended \in Seq(Plain)
  BY DEF Ready, Ev, Plain
<1>2. f = Apply(Replay(mem, es), Ev("turnEnd", reason))
  BY <1>1, ReplayAppend
<1>3. Stands(f, "no", {}, reason)
  BY <1>2, Brackets DEF Ready
<1>4. ASSUME ~failed, HasPending(f) PROVE Moved
  <2> DEFINE l == [Running EXCEPT !.at = "pre"]
  <2>1. OpenTurn(l, ended)
    BY <1>4 DEF EndTurn
  <2>2. l \in Drivers /\ l.phase = "running" /\ ~l.aborted /\ l.batch = <<>>
    BY RunningShape DEF Drivers
  <2>3. ~stale => Apart(mem, <<>>, sent)
    BY ApartDrop DEF Ready
  <2> HIDE DEF l, ended
  <2>4. Ready(l, ended, "no", {})
    BY <1>1, <1>3, <2>2, <2>3 DEF Ready, Spent
  <2> QED BY <2>1, <2>2, <2>4, OpenTurnOK
<1>5. ASSUME failed \/ ~HasPending(f) PROVE Moved
  <2>1. Log(ended) /\ drv' = Rest(d, f)
    BY <1>5 DEF EndTurn
  <2>2. mem' = f
    BY <2>1 DEF Log
  <2> HIDE DEF ended
  <2>3. Ready(d, ended, "no", {})
    BY <1>1, <1>3 DEF Ready
  <2>4. /\ Shaped(mem') /\ ~mem'.bad /\ mem'.open = "no"
        /\ HasPending(mem') <=> HasPending(mem)
        /\ ~stale => Apart(mem', <<>>, sent)
        /\ \E e0 \in Seq(Events) : Log(e0) /\ (~stale => Clean(mem, e0, sent))
    BY <2>1, <2>3, PlainMoves
  <2> HIDE DEF f
  <2>5. CASE d.wake /\ HasPending(f)
    <3>1. drv' = Running
      BY <2>1, <2>5 DEF Rest
    <3>2. /\ drv' \in Drivers /\ drv'.phase = "running" /\ drv'.at = "turn" /\ ~drv'.aborted
          /\ drv'.batch = <<>>
      BY <3>1, RunningShape
    <3> QED BY <2>4, <3>2 DEF Moved, Fine, Link, Owes, Spent
  <2>6. CASE ~(d.wake /\ HasPending(f))
    <3>1. drv' = Idle
      BY <2>1, <2>6 DEF Rest
    <3>2. /\ drv' \in Drivers /\ drv'.phase = "idle" /\ drv'.at = "no" /\ ~drv'.aborted
          /\ drv'.batch = <<>>
      BY <3>1, IdleShape
    <3>3. HasPending(mem') => mem'.end = "error"
      <4>1. mem'.end = reason
        BY <1>3, <2>2 DEF Stands
      <4>2. HasPending(mem') => reason = "error" \/ d.aborted
        BY <1>5, <2>2
      <4>3. HasPending(mem') /\ d.aborted => d.wake
        BY <2>4 DEF Ready, Spent
      <4> QED BY <2>2, <2>6, <4>1, <4>2, <4>3
    <3> QED BY <2>4, <3>1, <3>2, <3>3 DEF Moved, Fine, Link, Owes, Spent
  <2> QED BY <2>5, <2>6
<1> QED BY <1>4, <1>5

\* A turn that fails ends aborted or in error.
LEMMA FailTurnOK ==
    ASSUME NEW d, NEW es, Ready(d, es, "turn", {}), FailTurn(d, es)
    PROVE  Moved
<1> DEFINE reason == IF d.aborted THEN "aborted" ELSE "error"
<1>1. reason \in Endings /\ (reason = "error" \/ d.aborted)
  BY DEF Endings
<1>2. EndTurn(d, es, reason, TRUE)
  BY DEF FailTurn
<1> HIDE DEF reason
<1> QED BY <1>1, <1>2, EndTurnOK

\* end_step: the step is closed, then the turn goes on with a further step or ends.
LEMMA EndStepOK ==
    ASSUME NEW d, NEW es, NEW reason \in {"no", "completed", "maxTokens"},
           Ready(d, es, "step", {}), EndStep(d, es, reason)
    PROVE  Moved
<1> DEFINE ended == Append(es, Ev("stepEnd", 0))
           f == Replay(mem, ended)
           l == [d EXCEPT !.ends = Sticky(d, reason), !.fresh = FALSE, !.call = 0,
                          !.last = 0, !.concluded = FALSE]
<1>1. es \in Seq(Plain) /\ Ev("stepEnd", 0) \in Plain /\ ended \in Seq(Plain)
  BY DEF Ready, Ev, Plain, Still
<1>2. f = Apply(Replay(mem, es), Ev("stepEnd", 0))
  BY <1>1, ReplayAppend
<1>3. \E x \in Endings : Stands(f, "turn", {}, x)
  BY <1>2, Brackets DEF Ready
<1>4. Sticky(d, reason) \in {"no", "completed", "maxTokens"}
  BY DEF Sticky
<1>5. /\ l \in Drivers /\ l.phase = "running" /\ l.aborted = d.aborted /\ l.wake = d.wake
      /\ l.batch = d.batch /\ l.ends \in {"no", "completed", "maxTokens"}
  BY <1>4 DEF Ready, Drivers
<1>6. \/ d.aborted /\ FailTurn(l, ended)
      \/ ~d.aborted /\ l.ends # "no" /\ EndTurn(l, ended, l.ends, FALSE)
      \/ ~d.aborted /\ PreStep(l, f, ended, "step")
  BY DEF EndStep
<1> HIDE DEF l, ended
<1>7. Ready(l, ended, "turn", {})
  BY <1>1, <1>3, <1>5 DEF Ready, Spent
<1>8. CASE d.aborted /\ FailTurn(l, ended)
  BY <1>7, <1>8, FailTurnOK
<1>9. CASE ~d.aborted /\ l.ends # "no" /\ EndTurn(l, ended, l.ends, FALSE)
  <2>1. l.ends \in Endings
    BY <1>5, <1>9 DEF Endings
  <2> QED BY <1>7, <1>9, <2>1, EndTurnOK
<1>10. CASE ~d.aborted /\ PreStep(l, f, ended, "step")
  BY <1>5, <1>7, <1>10, PreStepOK
<1> QED BY <1>6, <1>8, <1>9, <1>10

\* More events after those the driver already has.
LEMMA ReadyMore ==
    ASSUME NEW d, NEW es, NEW o, NEW C, Ready(d, es, o, C), NEW more \in Seq(Plain),
           NEW p, NEW B,
           \A f : \A x \in Endings : Stands(f, o, C, x) => Stands(Replay(f, more), p, B, x)
    PROVE  Ready(d, es \o more, p, B)
<1>1. es \in Seq(Plain) /\ es \o more \in Seq(Plain)
  BY DEF Ready
<1>2. Replay(mem, es \o more) = Replay(Replay(mem, es), more)
  BY <1>1, ReplayConcat
<1>3. \E x \in Endings : Stands(Replay(mem, es \o more), p, B, x)
  BY <1>2 DEF Ready
<1> QED BY <1>1, <1>3 DEF Ready

\* The loop over an answer's calls: each is skipped or run, in their order.
LEMMA DispatchOK ==
    ASSUME NEW d, NEW es, NEW from \in Nat \ {0}, from <= d.last + 1,
           Ready(d, es, "step", from..d.last), Dispatch(d, es, from)
    PROVE  Moved
<1>1. d \in Drivers /\ d.last \in Nat /\ es \in Seq(Plain) /\ d.phase = "running"
  BY DEF Ready, Drivers
<1>2. ASSUME NEW k \in Nat, from + k <= d.last + 1
      PROVE  Ready(d, es \o Skipped(from, k), "step", (from + k)..d.last)
  <2> DEFINE m == Skipped(from, k)
             l == d.last
  <2>1. ASSUME NEW f, NEW x \in Endings, Stands(f, "step", from..l, x)
        PROVE  Stands(Replay(f, m), "step", (from + k)..l, x)
    BY <1>1, <1>2, <2>1, SkippedRun
  <2>2. PICK x \in Endings : Stands(Replay(mem, es), "step", from..l, x)
    BY DEF Ready
  <2>3. m \in Seq(Plain)
    BY <1>1, <1>2, <2>2, SkippedRun
  <2> HIDE DEF m
  <2> QED BY <2>1, <2>3, ReadyMore DEF m
<1> DEFINE rest == d.last + 1 - from
           over == EndStep(d, es \o Skipped(from, rest),
                           IF d.concluded THEN "completed" ELSE "no")
<1>3. over => Moved
  <2>1. rest \in Nat /\ from + rest = d.last + 1
    BY <1>1
  <2> HIDE DEF rest
  <2>2. Ready(d, es \o Skipped(from, rest), "step", (from + rest)..d.last)
    BY <1>1, <1>2, <2>1
  <2>3. (from + rest)..d.last = {}
    BY <1>1, <2>1
  <2>4. (IF d.concluded THEN "completed" ELSE "no") \in {"no", "completed", "maxTokens"}
    OBVIOUS
  <2> QED BY <2>2, <2>3, <2>4, EndStepOK
<1>4. ASSUME NEW c \in from..d.last,
             Log(es \o Skipped(from, c - from) \o <<Ev("call", c)>>),
             drv' = [d EXCEPT !.at = "tool", !.call = c]
      PROVE  Moved
  <2> DEFINE k == c - from
             s == es \o Skipped(from, k)
             t == s \o <<Ev("call", c)>>
  <2>1. k \in Nat /\ from + k = c /\ c \in Nat /\ from + k <= d.last + 1
    BY <1>1
  <2>2. Ready(d, s, "step", c..d.last)
    BY <1>2, <2>1
  <2>3. <<Ev("call", c)>> \in Seq(Plain)
    BY <2>1 DEF Ev, Plain, Still
  <2>4. c \in c..d.last
    BY <1>1, <2>1
  <2>5. ASSUME NEW f, NEW x \in Endings, Stands(f, "step", c..d.last, x)
        PROVE  Stands(Replay(f, <<Ev("call", c)>>), "step", c..d.last, x)
    <3>1. Stands(Apply(f, Ev("call", c)), "step", c..d.last, x)
      BY <2>1, <2>4, <2>5, Brackets
    <3> QED BY <3>1, ReplayOne
  <2> HIDE DEF s
  <2>6. Ready(d, t, "step", c..d.last)
    BY <2>2, <2>3, <2>5, ReadyMore
  <2>7. Log(t)
    BY <1>4 DEF s
  <2> HIDE DEF t
  <2>8. /\ Shaped(mem') /\ ~mem'.bad /\ mem'.open = "step" /\ mem'.calls = c..d.last
        /\ HasPending(mem') <=> HasPending(mem)
        /\ ~stale => Apart(mem', d.batch, sent)
        /\ \E e0 \in Seq(Events) : Log(e0) /\ (~stale => Clean(mem, e0, sent))
    BY <2>6, <2>7, PlainMoves
  <2>9. /\ drv' \in Drivers /\ drv'.phase = "running" /\ drv'.at = "tool" /\ drv'.call = c
        /\ drv'.last = d.last /\ drv'.batch = d.batch /\ drv'.aborted = d.aborted
        /\ drv'.wake = d.wake
    BY <1>1, <1>4, <2>1 DEF Drivers
  <2>10. c \in 1..d.last
    BY <1>1
  <2>11. Owes(drv', mem')
    BY <2>8, <2>9 DEF Ready, Owes, Spent
  <2>12. Link(drv', mem')
    BY <2>8, <2>9, <2>10 DEF Link
  <2> QED BY <2>8, <2>9, <2>11, <2>12 DEF Moved, Fine
<1> QED BY <1>3, <1>4 DEF Dispatch

-----------------------------------------------------------------------------
(* The actions.                                                            *)

\* Events that are logged in a live session keep the invariant.
LEMMA LogInv ==
    ASSUME DshInv, run, NEW n \in Nat, sent' = n, Fine(drv', mem', n, stale),
           NEW es \in Seq(Events), Log(es),
           ~stale => /\ Chained(TRUE, mem, artifact, queue, next, n, fails)
                     /\ Clean(mem, es, n),
           UNCHANGED <<run, artifact, next, stale, fails>>
    PROVE  DshInv'
<1>1. /\ queue \in Seq(Entries) /\ Shaped(mem) /\ Shaped(artifact) /\ next \in Nat
      /\ mem.len \in Nat
  BY DEF DshInv, DshTypes, Fine, Shaped, Logs
<1>2. queue' = queue \o Numbered(mem.len, es) /\ mem' = Replay(mem, es)
  BY DEF Log, Numbered
<1>3. Numbered(mem.len, es) \in Seq(Entries)
  BY <1>1, NumberedSeq
<1>4. queue' \in Seq(Entries)
  BY <1>1, <1>2, <1>3
<1>5. ASSUME ~stale PROVE Chained(TRUE, mem', artifact, queue', next, n, fails)
  BY <1>1, <1>2, <1>5, LogChained
<1>6. DshTypes'
  BY <1>4 DEF DshInv, DshTypes
<1>7. ~stale' => Chain'
  BY <1>5 DEF Chain, Chained, Live
<1> QED BY <1>6, <1>7 DEF DshInv

\* A step of the driver keeps the invariant.
LEMMA MovedInv ==
    ASSUME DshInv, run, Moved, UNCHANGED <<run, artifact, next, sent, stale, fails>>
    PROVE  DshInv'
<1>1. PICK es \in Seq(Events) : Log(es) /\ (~stale => Clean(mem, es, sent))
  BY DEF Moved
<1>2. sent \in Nat /\ sent' = sent /\ Fine(drv', mem', sent, stale)
  BY DEF Moved, DshInv, DshTypes
<1>3. ~stale => Chained(TRUE, mem, artifact, queue, next, sent, fails)
  BY DEF DshInv, Chain, Live, Chained
<1> QED BY <1>1, <1>2, <1>3, LogInv

\* A running driver is ready to log where the live log stands.
LEMMA DriverReady ==
    ASSUME DshInv, drv.phase = "running"
    PROVE  run /\ Ready(drv, <<>>, mem.open, mem.calls)
<1>1. run
  BY DEF DshInv
<1>2. Shaped(mem) /\ ~mem.bad /\ mem.end \in Endings
  BY DEF DshInv, Fine, Shaped, Logs
<1>3. Stands(Replay(mem, <<>>), mem.open, mem.calls, mem.end) /\ <<>> \in Seq(Plain)
  BY <1>2, ReplayNone DEF Stands
<1>4. Spent(drv, mem) /\ drv \in Drivers /\ sent \in Nat
  BY DEF DshInv, Fine, Owes, DshTypes
<1>5. ~stale => Apart(mem, drv.batch, sent)
  BY DEF DshInv, Fine
<1> QED BY <1>1, <1>2, <1>3, <1>4, <1>5 DEF Ready

\* What the log has open at each place where the driver awaits.
LEMMA Awaits ==
    ASSUME DshInv
    PROVE  /\ Shaped(mem) /\ ~mem.bad
           /\ drv.at # "no" => drv.phase = "running"
           /\ drv.at = "turn" => mem.open = "no"
           /\ drv.at = "pre" => mem.open = "turn"
           /\ drv.at = "model" => mem.open = "step" /\ mem.calls = {}
           /\ drv.at = "tool" => /\ mem.open = "step" /\ drv.call \in 1..drv.last
                                 /\ mem.calls = drv.call..drv.last
<1>1. drv \in Drivers /\ Link(drv, mem) /\ Shaped(mem) /\ ~mem.bad
  BY DEF DshInv, Fine
<1>2. drv.phase \in {"idle", "running"}
  BY <1>1 DEF Drivers
<1> QED BY <1>1, <1>2 DEF Link

\* A driver ready with nothing to log is ready with one legal event.
LEMMA ReadyOne ==
    ASSUME NEW d, NEW o, NEW C, Ready(d, <<>>, o, C), NEW e \in Plain, NEW p, NEW B,
           \A x \in Endings : Stands(mem, o, C, x) => Stands(Apply(mem, e), p, B, x)
    PROVE  Ready(d, <<e>>, p, B)
<1>1. <<e>> \in Seq(Plain)
  OBVIOUS
<1>2. \E x \in Endings : Stands(Replay(mem, <<e>>), p, B, x)
  BY ReplayNone, ReplayOne DEF Ready
<1> QED BY <1>1, <1>2 DEF Ready

\* Bookkeeping fields of the driver do not matter to what it may log.
LEMMA ReadyAs ==
    ASSUME NEW d, NEW es, NEW o, NEW C, Ready(d, es, o, C), NEW l \in Drivers,
           l.phase = d.phase, l.aborted = d.aborted, l.wake = d.wake, l.batch = d.batch
    PROVE  Ready(l, es, o, C)
BY DEF Ready, Spent

\* The driver's turn begins: BeginTurn keeps the invariant.
LEMMA BeginTurnInv == ASSUME DshInv, BeginTurn PROVE DshInv'
<1>1. /\ drv.phase = "running" /\ mem.open = "no" /\ Shaped(mem) /\ ~mem.bad
      /\ drv.at = "turn"
  BY Awaits DEF BeginTurn
<1>2. mem.calls = {}
  BY <1>1 DEF Shaped
<1>3. run /\ Ready(drv, <<>>, "no", {})
  BY <1>1, <1>2, DriverReady
<1>4. UNCHANGED <<run, artifact, next, sent, stale, fails>>
  BY DEF BeginTurn, budget
<1>5. CASE ~drv.aborted
  BY <1>3, <1>4, <1>5, OpenTurnOK, MovedInv DEF BeginTurn
<1>6. CASE drv.aborted
  <2>1. drv' = Rest(drv, mem) /\ UNCHANGED <<mem, queue>>
    BY <1>6 DEF BeginTurn
  <2>2. Spent(drv, mem)
    BY DEF DshInv, Fine, Owes
  <2>3. ~stale => Apart(mem, <<>>, sent)
    BY ApartDrop DEF DshInv, Fine
  <2>4. /\ drv' \in Drivers /\ Link(drv', mem) /\ Owes(drv', mem)
        /\ (~stale => Apart(mem, drv'.batch, sent))
    <3>1. CASE drv.wake /\ HasPending(mem)
      <4>1. drv' = Running
        BY <2>1, <3>1 DEF Rest
      <4> QED BY <1>1, <2>3, <4>1, RunningShape DEF Link, Owes, Spent
    <3>2. CASE ~(drv.wake /\ HasPending(mem))
      <4>1. drv' = Idle
        BY <2>1, <3>2 DEF Rest
      <4>2. ~HasPending(mem)
        BY <1>6, <2>2, <3>2 DEF Spent
      <4> QED BY <1>1, <2>3, <4>1, <4>2, IdleShape DEF Link, Owes, Spent
    <3> QED BY <3>1, <3>2
  <2>5. Fine(drv', mem', sent', stale')
    BY <1>1, <1>4, <2>1, <2>4 DEF Fine
  <2>6. DshTypes' /\ (~stale' => Chain')
    BY <1>4, <2>1 DEF DshInv, DshTypes, Chain, Live
  <2> QED BY <1>3, <1>4, <2>5, <2>6 DEF DshInv
<1> QED BY <1>5, <1>6

\* The claimed batch enters the step.
LEMMA EnterOK ==
    ASSUME NEW d, Ready(d, <<>>, "turn", {}), ~d.aborted,
           Log(<<Ev("step", 0)>> \o Shown(d.batch)),
           drv' = [d EXCEPT !.at = "model", !.batch = <<>>]
    PROVE  Moved
<1> DEFINE s == <<Ev("step", 0)>>
           f == Replay(mem, s)
           u == Shown(d.batch)
<1>1. d \in Drivers /\ d.batch \in Seq(Nat) /\ Shaped(mem) /\ sent \in Nat /\ d.phase = "running"
  BY DEF Ready, Drivers
<1>2. s \in Seq(Plain) /\ s \in Seq(Events)
  <2>1. Ev("step", 0) \in Plain
    BY DEF Ev, Plain, Still
  <2>2. s \in Seq(Plain)
    BY <2>1
  <2> QED BY <2>2, EventSeqs
<1>3. PICK x \in Endings : Stands(mem, "turn", {}, x)
  BY ReplayNone DEF Ready
<1>4. Stands(f, "step", {}, x)
  BY <1>3, ReplayOne, Brackets
<1>5. u \in Seq(Events) /\ Stands(Replay(f, u), "step", {}, x)
  BY <1>1, <1>4, UsersRun
<1>6. s \o u \in Seq(Events) /\ Replay(mem, s \o u) = Replay(f, u)
  <2> HIDE DEF s, u
  <2> QED BY <1>2, <1>5, ReplayConcat
<1>7. mem' = Replay(f, u)
  BY <1>6 DEF Log
<1>8. ASSUME ~stale PROVE Apart(mem', <<>>, sent) /\ Clean(mem, s \o u, sent)
  <2>1. Apart(mem, d.batch, sent) /\ Apart(mem, <<>>, sent)
    BY <1>8, ApartDrop DEF Ready
  <2> HIDE DEF s
  <2>2. Apart(f, d.batch, sent) /\ Clean(mem, s, sent)
    BY <1>1, <1>2, <2>1, PlainApart, CleanPlain
  <2>3. Clean(f, u, sent)
    BY <1>1, <1>4, <2>2, CleanShown
  <2>4. Clean(mem, s \o u, sent)
    BY <1>2, <1>5, <2>2, <2>3, CleanConcat
  <2> HIDE DEF u, f
  <2>5. Len(u) \in 0..Len(u) /\ SubSeq(u, 1, Len(u)) = u
    BY <1>5
  <2> QED BY <1>7, <2>3, <2>4, <2>5 DEF Clean
<1> HIDE DEF f, u, s
<1>9. /\ drv' \in Drivers /\ drv'.phase = "running" /\ drv'.at = "model" /\ ~drv'.aborted
      /\ drv'.batch = <<>>
  <2>1. <<>> \in Seq(Nat)
    OBVIOUS
  <2> QED BY <1>1, <2>1 DEF Drivers
<1>10. Shaped(mem') /\ ~mem'.bad /\ mem'.open = "step" /\ mem'.calls = {}
  BY <1>5, <1>7 DEF Stands
<1>11. Fine(drv', mem', sent, stale)
  BY <1>8, <1>9, <1>10 DEF Fine, Link, Owes, Spent
<1> QED BY <1>6, <1>8, <1>11 DEF Moved, s, u

\* The pre-step hooks return: PreStepReturns keeps the invariant.
LEMMA PreStepReturnsInv == ASSUME DshInv, PreStepReturns PROVE DshInv'
<1>1. drv.phase = "running" /\ mem.open = "turn" /\ Shaped(mem) /\ ~mem.bad
  BY Awaits DEF PreStepReturns
<1>2. mem.calls = {}
  BY <1>1 DEF Shaped
<1>3. run /\ Ready(drv, <<>>, "turn", {})
  BY <1>1, <1>2, DriverReady
<1>4. UNCHANGED <<run, artifact, next, sent, stale, fails>>
  BY DEF PreStepReturns
<1>5. CASE FailTurn(drv, <<>>)
  BY <1>3, <1>4, <1>5, FailTurnOK, MovedInv
<1>6. CASE EndTurn(drv, <<>>, IF drv.ends = "no" THEN "completed" ELSE drv.ends, FALSE)
  <2>1. (IF drv.ends = "no" THEN "completed" ELSE drv.ends) \in Endings
    BY <1>3 DEF Ready, Drivers, Endings
  <2> QED BY <1>3, <1>4, <1>6, <2>1, EndTurnOK, MovedInv
<1>7. CASE /\ ~drv.aborted
           /\ Log(<<Ev("step", 0)>> \o Shown(drv.batch))
           /\ drv' = [drv EXCEPT !.at = "model", !.batch = <<>>]
  BY <1>3, <1>4, <1>7, EnterOK, MovedInv
<1> QED BY <1>5, <1>6, <1>7 DEF PreStepReturns, Shown

\* The model answers, fails or is cut off: ModelReturns keeps the invariant.
LEMMA ModelReturnsInv == ASSUME DshInv, ModelReturns PROVE DshInv'
<1>1. drv.phase = "running" /\ mem.open = "step" /\ mem.calls = {}
  BY Awaits DEF ModelReturns
<1>2. run /\ Ready(drv, <<>>, "step", {})
  BY <1>1, DriverReady
<1>3. UNCHANGED <<run, artifact, next, sent, stale, fails>>
  BY DEF ModelReturns
<1>4. CASE FailStep(drv)
  <2>1. Ev("stepEnd", 0) \in Plain
    BY DEF Ev, Plain, Still
  <2>2. Ready(drv, <<Ev("stepEnd", 0)>>, "turn", {})
    BY <1>2, <2>1, ReadyOne, Brackets
  <2> QED BY <1>2, <1>3, <1>4, <2>2, FailTurnOK, MovedInv DEF FailStep
<1>5. ASSUME NEW n \in Nat PROVE Ready(drv, <<Ev("asst", n)>>, "step", 1..n)
  <2>1. Ev("asst", n) \in Plain
    BY DEF Ev, Plain, Still
  <2> QED BY <1>2, <2>1, ReadyOne, Brackets
<1>6. ASSUME NEW r \in {"maxTokens", "completed"}, EndStep(drv, <<Ev("asst", 0)>>, r)
      PROVE  DshInv'
  <2>1. 1..0 = {}
    OBVIOUS
  <2>2. Ready(drv, <<Ev("asst", 0)>>, "step", {})
    BY <1>5, <2>1
  <2> QED BY <1>2, <1>3, <1>6, <2>2, EndStepOK, MovedInv
<1>7. ASSUME NEW n \in 1..MaxCalls, Dispatch([drv EXCEPT !.last = n], <<Ev("asst", n)>>, 1)
      PROVE  DshInv'
  <2> DEFINE d == [drv EXCEPT !.last = n]
             es == <<Ev("asst", n)>>
  <2>1. n \in Nat
    OBVIOUS
  <2>2. /\ d \in Drivers /\ d.phase = drv.phase /\ d.aborted = drv.aborted
        /\ d.wake = drv.wake /\ d.batch = drv.batch /\ d.last = n
    BY <1>2, <2>1 DEF Ready, Drivers
  <2>3. Dispatch(d, es, 1)
    BY <1>7
  <2>4. Ready(drv, es, "step", 1..n)
    BY <1>5, <2>1
  <2> HIDE DEF d, es
  <2>5. Ready(d, es, "step", 1..d.last)
    BY <2>2, <2>4, ReadyAs
  <2>6. 1 \in Nat \ {0} /\ 1 <= d.last + 1
    BY <2>1, <2>2
  <2> QED BY <1>2, <1>3, <2>3, <2>5, <2>6, DispatchOK, MovedInv
<1> QED BY <1>4, <1>6, <1>7 DEF ModelReturns

\* A tool call returns: ToolReturns keeps the invariant.
LEMMA ToolReturnsInv == ASSUME DshInv, ToolReturns PROVE DshInv'
<1>1. /\ drv.phase = "running" /\ mem.open = "step" /\ drv.call \in 1..drv.last
      /\ mem.calls = drv.call..drv.last
  BY Awaits DEF ToolReturns
<1>2. run /\ Ready(drv, <<>>, "step", drv.call..drv.last)
  BY <1>1, DriverReady
<1>3. UNCHANGED <<run, artifact, next, sent, stale, fails>>
  BY DEF ToolReturns, budget
<1>4. drv \in Drivers /\ drv.last \in Nat /\ drv.call \in Nat \ {0} /\ drv.call <= drv.last
  BY <1>1, <1>2 DEF Ready, Drivers
<1>5. PICK concludes \in BOOLEAN :
        Dispatch([drv EXCEPT !.concluded = @ \/ concludes], <<Ev("result", drv.call)>>,
                 drv.call + 1)
  BY DEF ToolReturns
<1> DEFINE d == [drv EXCEPT !.concluded = @ \/ concludes]
           c == drv.call
           es == <<Ev("result", c)>>
<1>6. /\ d \in Drivers /\ d.phase = drv.phase /\ d.aborted = drv.aborted
      /\ d.wake = drv.wake /\ d.batch = drv.batch /\ d.last = drv.last
  BY <1>4 DEF Drivers
<1>7. Ev("result", c) \in Plain
  BY <1>4 DEF Ev, Plain, Still
<1>8. c \in c..drv.last /\ (c..drv.last) \ {c} = (c + 1)..drv.last
  BY <1>4
<1>9. Ready(drv, es, "step", (c + 1)..drv.last)
  <2>1. ASSUME NEW x \in Endings, Stands(mem, "step", c..drv.last, x)
        PROVE  Stands(Apply(mem, Ev("result", c)), "step", (c + 1)..drv.last, x)
    <3>1. Stands(Apply(mem, Ev("result", c)), "step", (c..drv.last) \ {c}, x)
      BY <1>4, <1>8, <2>1, Brackets
    <3> QED BY <1>8, <3>1
  <2> QED BY <1>2, <1>7, <2>1, ReadyOne
<1>10. Dispatch(d, es, c + 1)
  BY <1>5
<1> HIDE DEF d, es
<1>11. Ready(d, es, "step", (c + 1)..d.last)
  BY <1>6, <1>9, ReadyAs
<1>12. c + 1 \in Nat \ {0} /\ c + 1 <= d.last + 1
  BY <1>4, <1>6
<1> QED BY <1>2, <1>3, <1>10, <1>11, <1>12, DispatchOK, MovedInv

\* send: the message waits in its queue, and the driver is awake or latched.
LEMMA SteerInv == ASSUME DshInv, Steer PROVE DshInv'
<1> DEFINE late == drv.phase = "running" /\ drv.aborted
           q == IF late \/ "step" = "turn" THEN "putTurn" ELSE "putStep"
           e == Ev(q, sent + 1)
<1>1. /\ run /\ sent' = sent + 1 /\ Log(<<e>>) /\ drv' = Woken(drv, late)
      /\ UNCHANGED <<run, artifact, next, stale, fails>>
  BY DEF Steer, Send, budget
<1>2. /\ sent \in Nat /\ drv \in Drivers /\ Shaped(mem) /\ ~mem.bad /\ Shaped(artifact)
      /\ Link(drv, mem) /\ Owes(drv, mem) /\ drv.batch \in Seq(Nat) /\ queue \in Seq(Entries)
  BY DEF DshInv, DshTypes, Fine, Drivers
<1>3. q \in {"putStep", "putTurn"} /\ <<>> \in Seq(Nat)
  OBVIOUS
<1> HIDE DEF q
<1>4. Stands(mem, mem.open, mem.calls, mem.end)
  BY <1>2 DEF Stands
<1>5. /\ e \in Events /\ Stands(Apply(mem, e), mem.open, mem.calls, mem.end)
      /\ Apart(mem, drv.batch, sent) => Apart(Apply(mem, e), drv.batch, sent + 1)
      /\ Apart(mem, <<>>, sent) => Apart(Apply(mem, e), <<>>, sent + 1)
  BY <1>2, <1>3, <1>4, PutRun
<1> HIDE DEF e
<1>6. <<e>> \in Seq(Events) /\ mem' = Apply(mem, e)
  BY <1>1, <1>5, ReplayOne DEF Log
<1>7. /\ Shaped(mem') /\ ~mem'.bad /\ mem'.open = mem.open /\ mem'.calls = mem.calls
  BY <1>5, <1>6 DEF Stands
<1>8. ASSUME ~stale
      PROVE  /\ Apart(mem', drv.batch, sent + 1) /\ Clean(mem, <<e>>, sent + 1)
             /\ Chained(TRUE, mem, artifact, queue, next, sent + 1, fails)
  <2>1. Apart(mem, drv.batch, sent) /\ Apart(mem, <<>>, sent)
    BY <1>8, ApartDrop DEF DshInv, Fine
  <2>2. Apart(mem, <<>>, sent + 1)
    BY <1>2, <1>3, <2>1, ApartMore
  <2>3. Clean(mem, <<e>>, sent + 1)
    BY <1>5, <2>1, <2>2, CleanOne
  <2>4. Chained(TRUE, mem, artifact, queue, next, sent, fails)
    BY <1>1, <1>8 DEF DshInv, Chain, Live, Chained
  <2> QED BY <1>2, <1>5, <1>6, <2>1, <2>3, <2>4, ChainedMore
<1>9. /\ drv' \in Drivers /\ Link(drv', mem') /\ Owes(drv', mem') /\ drv'.batch = drv.batch
  <2>1. drv.phase \in {"idle", "running"}
    BY <1>2 DEF Drivers
  <2>2. CASE drv.phase = "idle"
    <3>1. drv' = Running /\ drv = Idle /\ mem.open = "no"
      BY <1>1, <1>2, <2>2 DEF Woken, Link
    <3> QED BY <1>7, <3>1, RunningShape, IdleShape DEF Link, Owes, Spent
  <2>3. CASE drv.phase = "running" /\ late
    <3>1. drv' = [drv EXCEPT !.wake = TRUE]
      BY <1>1, <2>3 DEF Woken
    <3>2. /\ drv' \in Drivers /\ drv'.phase = drv.phase /\ drv'.at = drv.at
          /\ drv'.batch = drv.batch /\ drv'.call = drv.call /\ drv'.last = drv.last
          /\ drv'.wake
      BY <1>2, <3>1 DEF Drivers
    <3> QED BY <1>2, <1>7, <2>3, <3>2 DEF Link, Owes, Spent
  <2>4. CASE drv.phase = "running" /\ ~late
    <3>1. drv' = drv /\ ~drv.aborted
      BY <1>1, <2>4 DEF Woken
    <3> QED BY <1>2, <1>7, <2>4, <3>1 DEF Link, Owes, Spent
  <2> QED BY <2>1, <2>2, <2>3, <2>4
<1>10. Fine(drv', mem', sent + 1, stale)
  BY <1>7, <1>8, <1>9 DEF Fine
<1>11. sent + 1 \in Nat
  BY <1>2
<1> QED BY <1>1, <1>6, <1>8, <1>10, <1>11, LogInv

\* The interrupt: nothing is pending after it.
LEMMA CancelInv == ASSUME DshInv, Cancel PROVE DshInv'
<1>1. /\ run /\ Log(Clear(mem)) /\ sent' = sent
      /\ drv' = IF drv.phase = "idle" THEN drv ELSE [drv EXCEPT !.aborted = TRUE, !.wake = FALSE]
      /\ UNCHANGED <<run, artifact, next, stale, fails>>
  BY DEF Cancel
<1>2. /\ sent \in Nat /\ drv \in Drivers /\ Shaped(mem) /\ ~mem.bad
      /\ Link(drv, mem) /\ drv.batch \in Seq(Nat)
  BY DEF DshInv, DshTypes, Fine, Drivers
<1>3. Stands(mem, mem.open, mem.calls, mem.end)
  BY <1>2 DEF Stands
<1> DEFINE es == Clear(mem)
<1>4. /\ es \in Seq(Takes) /\ Stands(Replay(mem, es), mem.open, mem.calls, mem.end)
      /\ ~HasPending(Replay(mem, es))
  BY <1>3, ClearRun
<1> HIDE DEF es
<1>5. es \in Seq(Events) /\ mem' = Replay(mem, es) /\ Log(es)
  BY <1>1, <1>4, EventSeqs DEF Log, es
<1>6. /\ Shaped(mem') /\ ~mem'.bad /\ mem'.open = mem.open /\ mem'.calls = mem.calls
      /\ ~HasPending(mem')
  BY <1>4, <1>5 DEF Stands
<1>7. ASSUME ~stale
      PROVE  /\ Apart(mem', drv.batch, sent) /\ Clean(mem, es, sent)
             /\ Chained(TRUE, mem, artifact, queue, next, sent, fails)
  <2>1. Apart(mem, drv.batch, sent) /\ Apart(mem, <<>>, sent)
    BY <1>7, ApartDrop DEF DshInv, Fine
  <2>2. Chained(TRUE, mem, artifact, queue, next, sent, fails)
    BY <1>1, <1>7 DEF DshInv, Chain, Live, Chained
  <2> QED BY <1>2, <1>4, <1>5, <2>1, <2>2, TakesRun, CleanTakes
<1>8. /\ drv' \in Drivers /\ drv'.phase = drv.phase /\ drv'.at = drv.at
      /\ drv'.batch = drv.batch /\ drv'.call = drv.call /\ drv'.last = drv.last
      /\ drv.phase = "idle" => drv' = drv
  BY <1>1, <1>2 DEF Drivers
<1>9. Fine(drv', mem', sent, stale)
  BY <1>2, <1>6, <1>7, <1>8 DEF Fine, Link, Owes, Spent
<1> QED BY <1>1, <1>2, <1>5, <1>7, <1>9, LogInv

\* While the watermark is where the artifact ends, what is due is the whole queue.
LEMMA WholeQueue ==
    ASSUME DshInv, ~stale, artifact.len = next
    PROVE  /\ Live => /\ Batch = Evs(queue) /\ Passed = next + Len(queue)
                      /\ mem = Replay(artifact, Evs(queue)) /\ Clean(artifact, Evs(queue), sent)
                      /\ mem.len = next + Len(queue)
           /\ ~Live => Batch = <<>>
<1>1. queue \in Seq(Entries) /\ next \in Nat /\ Shaped(artifact) /\ mem.len \in Nat
  BY DEF DshInv, DshTypes, Fine, Shaped, Logs
<1>2. Evs(queue) \in Seq(Events) /\ Len(Evs(queue)) = Len(queue)
  BY <1>1, EvsSeq
<1>3. ASSUME Live
      PROVE  /\ Batch = Evs(queue) /\ Passed = next + Len(queue)
             /\ mem = Replay(artifact, Evs(queue)) /\ Clean(artifact, Evs(queue), sent)
             /\ mem.len = next + Len(queue)
  <2>1. /\ mem = Replay(artifact, Evs(queue)) /\ Clean(artifact, Evs(queue), sent)
        /\ \A i \in 1..Len(queue) : queue[i].seq + Len(queue) + 1 = mem.len + i
    BY <1>3 DEF DshInv, Chain, Chained
  <2>2. mem.len = next + Len(queue)
    BY <1>1, <1>2, <2>1, ReplayShaped
  <2>3. \A i \in 1..Len(queue) : queue[i].seq \in Nat
    BY <1>1, EvsSeq
  <2>4. ASSUME NEW i \in 1..Len(queue) PROVE queue[i].seq = next + i - 1
    <3> DEFINE z == queue[i].seq
               l == Len(queue)
    <3>1. z \in Nat /\ l \in Nat /\ i \in Nat /\ z + l + 1 = next + l + i
      BY <1>1, <2>1, <2>2, <2>3
    <3> HIDE DEF z, l
    <3>2. z = next + i - 1
      BY ONLY <1>1, <3>1
    <3> QED BY <3>2 DEF z
  <2> QED BY <1>1, <2>1, <2>2, <2>4, BatchAll
<1>4. ASSUME ~Live PROVE Batch = <<>>
  <2>1. queue = <<>>
    BY <1>4 DEF Live
  <2>2. Batch = Evs(queue)
    BY <1>1, <2>1, BatchAll
  <2> QED BY <2>1, <2>2 DEF Evs
<1> QED BY <1>3, <1>4

\* A flush that the backend takes, or refuses.
LEMMA Flushed ==
    ASSUME DshInv, Live, Written(Batch)
    PROVE  /\ Shaped(artifact')
           /\ ~stale => Chained(TRUE, mem, artifact', <<>>, Passed, sent, fails)
<1>1. /\ Batch \in Seq(Events) /\ Passed \in Nat /\ next <= Passed /\ next \in Nat
      /\ Shaped(artifact) /\ artifact.len \in Nat /\ queue \in Seq(Entries)
  BY BatchSeq DEF DshInv, DshTypes, Shaped, Logs
<1>2. \/ artifact' = artifact /\ (Batch = <<>> \/ artifact.len # next)
      \/ artifact' = Replay(artifact, Batch) /\ artifact.len = next
  BY DEF Written, Continues
<1>3. Shaped(artifact')
  BY <1>1, <1>2, ReplayShaped
<1>4. ASSUME ~stale PROVE Chained(TRUE, mem, artifact', <<>>, Passed, sent, fails)
  <2>0. Len(<<>>) = 0 /\ Evs(<<>>) = <<>>
    BY DEF Evs
  <2>1. CASE artifact.len = next
    <3>1. /\ Batch = Evs(queue) /\ Passed = next + Len(queue) /\ mem.len = next + Len(queue)
          /\ mem = Replay(artifact, Evs(queue))
      BY <1>4, <2>1, WholeQueue
    <3>2. artifact' = mem
      <4>1. CASE Batch = <<>>
        BY <1>2, <3>1, <4>1, ReplayNone
      <4>2. CASE Batch # <<>>
        BY <1>2, <2>1, <3>1, <4>2
      <4> QED BY <4>1, <4>2
    <3>3. ~mem.bad /\ Apart(mem, <<>>, sent)
      BY <1>4, ApartDrop DEF DshInv, Fine
    <3>4. Clean(mem, <<>>, sent)
      BY <3>3, CleanNone
    <3>5. mem.len = Passed /\ mem.len <= Passed /\ Passed <= mem.len
      BY <1>1, <3>1
    <3> QED BY <2>0, <3>2, <3>3, <3>4, <3>5, ReplayNone DEF Chained
  <2>2. CASE artifact.len # next
    <3>1. artifact' = artifact
      BY <1>2, <2>2
    <3>2. /\ artifact.len <= next /\ (fails = 0 => next <= artifact.len)
          /\ ~artifact.bad /\ Apart(artifact, <<>>, sent)
      BY <1>4 DEF DshInv, Chain, Chained
    <3>3. artifact.len <= Passed /\ artifact.len # Passed /\ fails # 0
      BY <1>1, <2>2, <3>2
    <3> QED BY <2>0, <3>1, <3>2, <3>3 DEF Chained
  <2> QED BY <2>1, <2>2
<1> QED BY <1>3, <1>4

\* A flush whose write succeeds or fails: WriteBatch keeps the invariant.
LEMMA WriteBatchInv == ASSUME DshInv, WriteBatch PROVE DshInv'
<1>1. /\ queue # <<>> /\ queue' = <<>> /\ next' = Passed /\ Live
      /\ UNCHANGED <<run, drv, mem, sent, stale>>
      /\ \/ Written(Batch) /\ fails' = fails
         \/ fails' = fails + 1 /\ artifact' = artifact
  BY DEF WriteBatch, Live
<1>2. /\ Passed \in Nat /\ next <= Passed /\ next \in Nat /\ fails \in Nat
      /\ Shaped(artifact) /\ artifact.len \in Nat /\ queue \in Seq(Entries)
  BY BatchSeq DEF DshInv, DshTypes, Shaped, Logs
<1>3. /\ Shaped(artifact') /\ fails' \in Nat
      /\ ~stale => Chained(TRUE, mem, artifact', <<>>, Passed, sent, fails')
  <2>1. CASE Written(Batch) /\ fails' = fails
    BY <1>1, <1>2, <2>1, Flushed
  <2>2. CASE fails' = fails + 1 /\ artifact' = artifact
    <3>1. Shaped(artifact') /\ fails' \in Nat /\ fails' # 0
      BY <1>2, <2>2
    <3>2. ASSUME ~stale PROVE Chained(TRUE, mem, artifact, <<>>, Passed, sent, fails')
      <4>1. artifact.len <= next /\ ~artifact.bad /\ Apart(artifact, <<>>, sent)
        BY <1>1, <3>2 DEF DshInv, Chain, Chained
      <4>2. artifact.len # Passed
        <5>1. CASE artifact.len = next
          <6>1. Passed = next + Len(queue)
            BY <1>1, <3>2, <5>1, WholeQueue
          <6>2. Len(queue) > 0
            BY <1>1, <1>2
          <6> QED BY <1>2, <5>1, <6>1, <6>2
        <5>2. CASE artifact.len # next
          BY <1>2, <4>1, <5>2
        <5> QED BY <5>1, <5>2
      <4>3. artifact.len <= Passed /\ Len(<<>>) = 0
        BY <1>2, <4>1
      <4> QED BY <3>1, <4>1, <4>2, <4>3 DEF Chained
    <3> QED BY <2>2, <3>1, <3>2
  <2> QED BY <1>1, <2>1, <2>2
<1>4. <<>> \in Seq(Entries)
  OBVIOUS
<1>5. DshTypes'
  BY <1>1, <1>2, <1>3, <1>4 DEF DshInv, DshTypes
<1>6. ~stale' => Chain'
  BY <1>1, <1>3 DEF Chain, Chained
<1>7. Fine(drv', mem', sent', stale') /\ (~run' => drv'.phase = "idle")
  BY <1>1 DEF DshInv
<1> QED BY <1>5, <1>6, <1>7 DEF DshInv

\* when_idle: the queue is flushed, and what the disposed session still owed is
\* cleared behind it.
LEMMA FinishRunInv == ASSUME DshInv, FinishRun PROVE DshInv'
<1> DEFINE es == Clear(mem)
<1>1. /\ run /\ drv.phase = "idle" /\ run' = FALSE /\ Written(Batch) /\ Live
      /\ mem' = Replay(mem, es) /\ queue' = Numbered(mem.len, es) /\ next' = Passed
      /\ drv' = drv /\ sent' = sent /\ stale' = stale /\ fails' = fails
  BY DEF FinishRun, Live, Numbered, budget
<1>2. /\ Passed \in Nat /\ Shaped(mem) /\ ~mem.bad /\ mem.len \in Nat /\ sent \in Nat
      /\ drv \in Drivers /\ Link(drv, mem) /\ drv.batch \in Seq(Nat)
  BY BatchSeq DEF DshInv, DshTypes, Fine, Shaped, Logs, Drivers
<1>3. /\ Shaped(artifact')
      /\ ~stale => Chained(TRUE, mem, artifact', <<>>, Passed, sent, fails)
  BY <1>1, Flushed
<1>4. Stands(mem, mem.open, mem.calls, mem.end)
  BY <1>2 DEF Stands
<1>5. /\ es \in Seq(Takes) /\ Stands(Replay(mem, es), mem.open, mem.calls, mem.end)
      /\ ~HasPending(Replay(mem, es))
  BY <1>4, ClearRun
<1> HIDE DEF es
<1>6. es \in Seq(Events)
  BY <1>5, EventSeqs
<1>7. queue' \in Seq(Entries) /\ queue' = <<>> \o Numbered(mem.len, es) /\ <<>> \in Seq(Entries)
  <2>1. Numbered(mem.len, es) \in Seq(Entries)
    BY <1>2, <1>6, NumberedSeq
  <2> DEFINE r == Numbered(mem.len, es)
  <2> HIDE DEF r
  <2>2. r \in Seq(Entries) /\ queue' = r
    BY <1>1, <2>1 DEF r
  <2>3. <<>> \o r = r
    BY <2>2
  <2>4. <<>> \in Seq(Entries)
    OBVIOUS
  <2> QED BY <2>2, <2>3, <2>4 DEF r
<1>8. ASSUME ~stale
      PROVE  /\ Apart(mem', drv.batch, sent)
             /\ Chained(TRUE, mem', artifact', queue', Passed, sent, fails)
  <2>1. Apart(mem, drv.batch, sent) /\ Apart(mem, <<>>, sent)
    BY <1>8, ApartDrop DEF DshInv, Fine
  <2>2. Apart(mem', drv.batch, sent) /\ Clean(mem, es, sent)
    BY <1>1, <1>2, <1>5, <2>1, TakesRun, CleanTakes
  <2>3. Chained(TRUE, mem, artifact', <<>>, Passed, sent, fails)
    BY <1>3, <1>8
  <2>4. Chained(TRUE, Replay(mem, es), artifact', <<>> \o Numbered(mem.len, es), Passed, sent,
                fails)
    BY ONLY <1>2, <1>3, <1>6, <1>7, <2>2, <2>3, LogChained
  <2> QED BY <1>1, <1>7, <2>2, <2>4
<1>9. /\ Shaped(mem') /\ ~mem'.bad /\ mem'.open = mem.open /\ mem'.calls = mem.calls
      /\ ~HasPending(mem')
  BY <1>1, <1>5 DEF Stands
<1>10. Fine(drv', mem', sent', stale')
  <2>1. Link(drv, mem')
    BY <1>2, <1>9 DEF Link
  <2>2. Owes(drv, mem')
    BY <1>9 DEF Owes, Spent
  <2> QED BY <1>1, <1>2, <1>8, <1>9, <2>1, <2>2 DEF Fine
<1>11. DshTypes'
  BY <1>1, <1>2, <1>3, <1>7 DEF DshInv, DshTypes
<1>12. ~stale' => Chain'
  BY <1>1, <1>8 DEF Chain, Chained
<1> QED BY <1>1, <1>10, <1>11, <1>12 DEF DshInv

\* The process dies in the middle of a write: the artifact holds a prefix of the
\* live log.
LEMMA KilledInv == ASSUME DshInv, Killed PROVE DshInv'
<1>1. /\ run' = FALSE /\ drv' = Idle /\ mem' = NewLog /\ queue' = <<>> /\ next' = 0
      /\ sent' = sent /\ stale' = stale /\ fails' = fails
  BY DEF Killed
<1>2. PICK k \in 0..Len(Batch) : \/ artifact' = artifact
                                 \/ /\ artifact.len = next
                                    /\ artifact' = Replay(artifact, SubSeq(Batch, 1, k))
  BY DEF Killed, Written, Continues
<1>3. /\ Batch \in Seq(Events) /\ Shaped(artifact) /\ sent \in Nat /\ fails \in Nat
      /\ artifact.len \in Nat
  BY BatchSeq DEF DshInv, DshTypes, Shaped, Logs
<1>4. SubSeq(Batch, 1, k) \in Seq(Events)
  BY <1>3
<1>5. Shaped(artifact')
  BY <1>2, <1>3, <1>4, ReplayShaped
<1>6. ASSUME ~stale PROVE ~artifact'.bad /\ Apart(artifact', <<>>, sent)
  <2>1. ~artifact.bad /\ Apart(artifact, <<>>, sent)
    BY <1>6 DEF DshInv, Chain, Chained
  <2>2. ASSUME artifact.len = next, artifact' = Replay(artifact, SubSeq(Batch, 1, k))
        PROVE  ~artifact'.bad /\ Apart(artifact', <<>>, sent)
    <3>1. CASE Live
      <4>1. /\ Batch = Evs(queue) /\ mem = Replay(artifact, Batch)
            /\ Clean(artifact, Batch, sent)
        BY <1>6, <2>2, <3>1, WholeQueue
      <4>2. ~Replay(artifact, Batch).bad
        BY <4>1 DEF DshInv, Fine
      <4>3. ~Replay(artifact, SubSeq(Batch, 1, k)).bad
        BY <1>3, <4>2, PrefixGood
      <4>4. Apart(Replay(artifact, SubSeq(Batch, 1, k)), <<>>, sent)
        BY <4>1 DEF Clean
      <4> QED BY <2>2, <4>3, <4>4
    <3>2. CASE ~Live
      <4>1. Batch = <<>>
        BY <1>6, <2>2, <3>2, WholeQueue
      <4>2. SubSeq(Batch, 1, k) = <<>>
        <5>1. k = 0
          BY <4>1
        <5> QED BY <4>1, <5>1
      <4> QED BY <2>1, <2>2, <4>2, ReplayNone
    <3> QED BY <3>1, <3>2
  <2> QED BY <1>2, <2>1, <2>2
<1>7. Shaped(NewLog) /\ ~NewLog.bad /\ NewLog.open = "no" /\ ~HasPending(NewLog)
      /\ Apart(NewLog, <<>>, sent)
  BY NewLogShaped, ApartNone DEF NewLog, HasPending, Held, Dis
<1>8. Fine(drv', mem', sent', stale')
  BY <1>1, <1>7, IdleShape DEF Fine, Link, Owes, Spent
<1>9. <<>> \in Seq(Entries) /\ Len(<<>>) = 0
  OBVIOUS
<1>10. DshTypes'
  BY <1>1, <1>3, <1>5, <1>9 DEF DshInv, DshTypes
<1>11. ~stale' => Chain'
  <2>1. ASSUME ~stale PROVE Chained(FALSE, NewLog, artifact', <<>>, 0, sent, fails)
    <3>1. 0 <= artifact'.len
      BY <1>5 DEF Shaped, Logs
    <3> QED BY <1>6, <1>9, <2>1, <3>1 DEF Chained
  <2>2. Live' = FALSE
    BY <1>1 DEF Live
  <2> QED BY <1>1, <2>1, <2>2 DEF Chain
<1> QED BY <1>1, <1>8, <1>10, <1>11, IdleShape DEF DshInv

\* A run that cannot start changes nothing but the number of prompts: StartFails.
LEMMA StartFailsInv == ASSUME DshInv, StartFails PROVE DshInv'
<1>1. sent' = sent + 1 /\ UNCHANGED <<run, drv, mem, artifact, queue, next, stale, fails>>
  BY DEF StartFails, budget
<1>2. /\ sent \in Nat /\ Shaped(mem) /\ drv \in Drivers /\ drv.batch \in Seq(Nat)
      /\ Shaped(artifact) /\ queue \in Seq(Entries)
  BY DEF DshInv, DshTypes, Fine, Drivers
<1>3. ~stale => Apart(mem, drv.batch, sent + 1)
  BY <1>2, ApartMore DEF DshInv, Fine
<1>4. ~stale => Chained(Live, mem, artifact, queue, next, sent + 1, fails)
  BY <1>2, ChainedMore DEF DshInv, Chain
<1>5. DshTypes' /\ (~run' => drv'.phase = "idle")
  BY <1>1, <1>2 DEF DshInv, DshTypes
<1>6. Fine(drv', mem', sent', stale')
  BY <1>1, <1>3 DEF DshInv, Fine
<1>7. ~stale' => Chain'
  BY <1>1, <1>4 DEF Chain, Live
<1> QED BY <1>5, <1>6, <1>7 DEF DshInv

\* create or resume: the repaired artifact, its seed marker and the prompt.
LEMMA StartRunInv == ASSUME DshInv, StartRun PROVE DshInv'
<1> DEFINE cl == Closers(artifact)
           r == Replay(artifact, cl)
           marker == IF r.len = 0 \/ r.marker THEN <<>> ELSE <<Ev("seed", 0)>>
           e == Ev("putTurn", sent + 1)
           opening == Append(marker, e)
           g == Replay(r, marker)
<1>1. /\ ~artifact.bad /\ artifact' = r /\ next' = Watermark(r.len) /\ sent' = sent + 1
      /\ mem' = Replay(r, opening) /\ queue' = queue \o Numbered(r.len, opening)
      /\ stale' = (stale \/ queue # <<>>) /\ run' = TRUE /\ drv' = Running /\ fails' = fails
  BY DEF StartRun, Loads, Numbered, budget
<1>2. /\ Shaped(artifact) /\ next \in Nat /\ sent \in Nat /\ fails \in Nat
      /\ queue \in Seq(Entries) /\ stale \in BOOLEAN /\ artifact.len \in Nat
  BY DEF DshInv, DshTypes, Shaped, Logs
<1>3. cl \in Seq(Plain) /\ r.open = "no" /\ ~r.bad
  BY <1>1, <1>2, ClosersRun
<1>4. Shaped(r) /\ r.len = artifact.len + Len(cl) /\ r.len \in Nat /\ artifact.len <= r.len
  <2>1. cl \in Seq(Events) /\ Len(cl) \in Nat
    BY <1>3, EventSeqs
  <2>2. Shaped(r) /\ r.len = artifact.len + Len(cl)
    BY <1>2, <2>1, ReplayShaped
  <2> HIDE DEF r, cl
  <2> QED BY <1>2, <2>1, <2>2
<1>5. ASSUME ~stale PROVE Apart(r, <<>>, sent)
  BY <1>2, <1>3, <1>5, PlainApart DEF DshInv, Chain, Chained
<1> HIDE DEF cl, r
<1>6. Ev("seed", 0) \in Plain /\ marker \in Seq(Plain) /\ marker \in Seq(Events)
  <2>1. Ev("seed", 0) \in Plain
    BY DEF Ev, Plain, Still
  <2>2. marker \in Seq(Plain)
    BY <2>1
  <2> QED BY <2>1, <2>2, EventSeqs
<1>7. \E x \in Endings : Stands(g, "no", {}, x)
  <2>1. r.calls = {} /\ r.end \in Endings /\ r \in Logs
    BY <1>3, <1>4 DEF Shaped, Logs
  <2>2. Stands(r, "no", {}, r.end)
    BY <1>3, <1>4, <2>1 DEF Stands
  <2>3. CASE marker = <<>>
    BY <2>1, <2>2, <2>3, ReplayNone
  <2>4. CASE marker = <<Ev("seed", 0)>>
    <3> DEFINE s == Ev("seed", 0)
    <3>1. s \in Events /\ Legal(r, s) /\ Folded(r, s) = r
      BY <1>6 DEF Events, Legal, Folded, Ev
    <3> HIDE DEF s
    <3>2. /\ Shaped(Apply(r, s)) /\ Apply(r, s).bad = (r.bad \/ ~Legal(r, s))
          /\ Apply(r, s).open = r.open /\ Apply(r, s).calls = r.calls
          /\ Apply(r, s).end = r.end
      BY <1>4, <3>1, ApplyShaped
    <3>3. Stands(Apply(r, s), "no", {}, r.end)
      BY <2>2, <3>1, <3>2 DEF Stands
    <3> QED BY <2>1, <2>4, <3>3, ReplayOne DEF s
  <2> QED BY <2>3, <2>4
<1> HIDE DEF marker
<1>8. PICK x \in Endings : Stands(g, "no", {}, x)
  BY <1>7
<1>9. "putTurn" \in {"putStep", "putTurn"} /\ <<>> \in Seq(Nat)
  OBVIOUS
<1>10. /\ e \in Events /\ Stands(Apply(g, e), "no", {}, x)
       /\ Apart(g, <<>>, sent) => Apart(Apply(g, e), <<>>, sent + 1)
  BY <1>2, <1>8, <1>9, PutRun
<1> HIDE DEF e
<1>11. opening \in Seq(Events) /\ Replay(r, opening) = Apply(g, e)
  BY <1>6, <1>10, ReplayAppend
<1>12. ASSUME ~stale
       PROVE  Apart(mem', <<>>, sent + 1) /\ Clean(r, opening, sent + 1)
  <2>1. Apart(r, <<>>, sent)
    BY <1>5, <1>12
  <2>2. Apart(g, <<>>, sent)
    BY <1>4, <1>6, <2>1, PlainApart
  <2>3. Shaped(g)
    BY <1>8 DEF Stands
  <2>4. Apart(Apply(g, e), <<>>, sent + 1) /\ Apart(g, <<>>, sent + 1)
    BY <1>2, <1>9, <1>10, <2>2, <2>3, ApartMore
  <2>5. Clean(r, marker, sent + 1)
    <3>1. Clean(r, marker, sent)
      BY <1>2, <1>4, <1>6, <2>1, CleanPlain
    <3> QED BY <1>2, <1>4, <1>6, <3>1, CleanMore
  <2>6. Clean(g, <<e>>, sent + 1) /\ <<e>> \in Seq(Events)
    BY <1>10, <2>4, CleanOne
  <2>7. Clean(r, marker \o <<e>>, sent + 1)
    BY <1>6, <2>5, <2>6, CleanConcat
  <2>8. opening = marker \o <<e>>
    BY <1>6, <1>10, AppendIsConcat
  <2> QED BY <1>1, <1>11, <2>4, <2>7, <2>8
<1> HIDE DEF opening
<1>13. Shaped(mem') /\ ~mem'.bad /\ mem'.open = "no"
  BY <1>1, <1>10, <1>11 DEF Stands
<1>14. Fine(drv', mem', sent', stale')
  <2>1. ~stale' => Apart(mem', drv'.batch, sent + 1)
    BY <1>1, <1>12, RunningShape
  <2> QED BY <1>1, <1>13, <2>1, RunningShape DEF Fine, Link, Owes, Spent
<1>15. Numbered(r.len, opening) \in Seq(Entries)
  BY <1>4, <1>11, NumberedSeq
<1>16. /\ next' \in Nat /\ r.len <= next' /\ (next <= r.len => next' = r.len)
  BY <1>1, <1>2, <1>4 DEF Watermark
<1>17. DshTypes'
  <2>1. queue' \in Seq(Entries)
    BY <1>1, <1>2, <1>15
  <2> QED BY <1>1, <1>2, <1>4, <1>16, <2>1 DEF DshTypes
<1>18. ASSUME ~stale' PROVE Chain'
  <2>1. ~stale /\ queue = <<>>
    BY <1>1, <1>18
  <2>2. Chained(TRUE, r, r, <<>>, next', sent + 1, fails)
    <3>1. fails = 0 => next <= artifact.len
      BY <2>1 DEF DshInv, Chain, Chained
    <3>2. fails = 0 => next' <= r.len
      BY <1>2, <1>4, <1>16, <3>1
    <3>3. Apart(r, <<>>, sent + 1)
      BY <1>2, <1>4, <1>5, <1>9, <2>1, ApartMore
    <3>4. Clean(r, <<>>, sent + 1) /\ Len(<<>>) = 0 /\ Evs(<<>>) = <<>>
      BY <3>3, CleanNone DEF Evs
    <3> QED BY <1>3, <1>16, <3>2, <3>3, <3>4, ReplayNone DEF Chained
  <2>3. <<>> \in Seq(Entries) /\ sent + 1 \in Nat /\ Clean(r, opening, sent + 1)
    BY <1>2, <1>12, <2>1
  <2>4. Chained(TRUE, Replay(r, opening), r, <<>> \o Numbered(r.len, opening), next', sent + 1,
                fails)
    BY ONLY <1>4, <1>11, <1>16, <2>2, <2>3, LogChained
  <2>5. queue' = <<>> \o Numbered(r.len, opening)
    BY <1>1, <2>1
  <2>6. Live' = TRUE
    BY <1>1 DEF Live
  <2>7. Chained(TRUE, mem', artifact', queue', next', sent', fails')
    BY <1>1, <2>4, <2>5
  <2> QED BY <2>6, <2>7 DEF Chain
<1> QED BY <1>1, <1>14, <1>17, <1>18 DEF DshInv

\* A store without an artifact satisfies the invariant.
LEMMA DshInitInv == ASSUME DshInit PROVE DshInv
<1>1. Shaped(NewLog) /\ ~NewLog.bad /\ NewLog.open = "no" /\ ~HasPending(NewLog)
      /\ Apart(NewLog, <<>>, 0) /\ NewLog.len = 0
  BY NewLogShaped, ApartNone DEF NewLog, HasPending, Held, Dis
<1>2. <<>> \in Seq(Entries) /\ Len(<<>>) = 0
  OBVIOUS
<1>3. DshTypes
  BY <1>1, <1>2 DEF DshInit, DshTypes
<1>4. Fine(drv, mem, sent, stale) /\ (~run => drv.phase = "idle")
  BY <1>1, IdleShape DEF DshInit, Fine, Link, Owes, Spent
<1>5. Chain
  BY <1>1, <1>2 DEF DshInit, Chain, Chained, Live
<1> QED BY <1>3, <1>4, <1>5 DEF DshInv

\* Every action keeps the invariant.
LEMMA DshStepInv == ASSUME DshInv, [DshNext]_dshVars PROVE DshInv'
<1>1. CASE UNCHANGED dshVars
  BY <1>1 DEF dshVars, budget, DshInv, DshTypes, Fine, Chain, Live
<1>2. CASE DshNext
  BY <1>2, BeginTurnInv, PreStepReturnsInv, ModelReturnsInv, ToolReturnsInv, SteerInv,
     CancelInv, StartRunInv, StartFailsInv, WriteBatchInv, FinishRunInv, KilledInv
     DEF DshNext, Driver
<1> QED BY <1>1, <1>2

-----------------------------------------------------------------------------
(* The theorems.                                                           *)

(* The inductive invariant holds in every reachable state, whatever the       *)
(* bounds on messages, calls, flush failures and crashes: the live log is     *)
(* shaped and legal for the place at which the driver of agent-loop awaits,   *)
(* input that is pending has a driver that will claim it, every message is in *)
(* one place, and the live log is the artifact followed by the write-behind's *)
(* queue for as long as no write was lost.                                    *)
THEOREM DshInvHolds == DshSpec => []DshInv
<1>1. DshInit => DshInv
  BY DshInitInv
<1>2. DshInv /\ [DshNext]_dshVars => DshInv'
  BY DshStepInv
<1> QED BY <1>1, <1>2, PTL DEF DshSpec

(* The loop never appends an event that the replay's checks refuse (a step    *)
(* outside a turn, a result without its call, a message without a claim), on  *)
(* any path: answers, refusals, skipped calls, interrupts, failures, a resume *)
(* after a crash. So an artifact that lost no write can be loaded.            *)
THEOREM LogStaysWellFormed == DshSpec => []LogWellFormed
<1>1. DshInv => LogWellFormed
  BY DEF DshInv, Fine, Chain, Chained, LogWellFormed, Loads
<1> QED BY <1>1, DshInvHolds, PTL

(* Until a write fails, replaying the artifact and then the batch that a      *)
(* flush would write rebuilds the live session exactly, at every point        *)
(* between two flushes: prepare_batch drops, repeats and reorders nothing.    *)
THEOREM ArtifactAndQueueAreTheLog == DshSpec => []ReplayRebuildsLog
<1>1. DshInv => ReplayRebuildsLog
  <2> SUFFICES ASSUME DshInv, run, fails = 0, ~stale PROVE Replay(artifact, Batch) = mem
    BY DEF ReplayRebuildsLog
  <2>1. artifact.len <= next /\ next <= artifact.len
    BY DEF DshInv, Chain, Chained, Live
  <2>2. artifact.len \in Nat /\ next \in Nat
    BY DEF DshInv, DshTypes, Shaped, Logs
  <2>3. artifact.len = next
    BY <2>1, <2>2
  <2> QED BY <2>3, WholeQueue DEF Live
<1> QED BY <1>1, DshInvHolds, PTL

(* No message that was sent is in two places at once or twice in one (shown   *)
(* to the model, waiting in an inbox queue, claimed by the step that is being *)
(* prepared), however claims, steering, interrupts, crashes and resumes       *)
(* interleave.                                                                *)
THEOREM NoMessageTwice == DshSpec => []MessageShownOnce
<1>1. DshInv => MessageShownOnce
  <2> SUFFICES ASSUME DshInv, ~stale
               PROVE  IsInjective(mem.users \o mem.turnQ \o mem.stepQ \o drv.batch)
    BY DEF MessageShownOnce
  <2> DEFINE u == mem.users
             t == mem.turnQ
             s == mem.stepQ
             b == drv.batch
  <2>1. /\ u \in Seq(Nat) /\ t \in Seq(Nat) /\ s \in Seq(Nat) /\ b \in Seq(Nat) /\ sent \in Nat
    BY DEF DshInv, DshTypes, Fine, Shaped, Logs, Drivers
  <2>2. /\ Held(u, sent) /\ Held(t, sent) /\ Held(s, sent) /\ Held(b, sent)
        /\ Dis(u, t) /\ Dis(u, s) /\ Dis(u, b) /\ Dis(t, s) /\ Dis(t, b) /\ Dis(s, b)
    BY DEF DshInv, Fine, Apart
  <2> HIDE DEF u, t, s, b
  <2>3. u \o t \in Seq(Nat) /\ Held(u \o t, sent) /\ Dis(u \o t, s) /\ Dis(u \o t, b)
    BY <2>1, <2>2, HeldConcat
  <2> DEFINE c == u \o t
  <2> HIDE DEF c
  <2>4. c \o s \in Seq(Nat) /\ Held(c \o s, sent) /\ Dis(c \o s, b)
    BY <2>1, <2>2, <2>3, HeldConcat DEF c
  <2> DEFINE d == c \o s
  <2> HIDE DEF d
  <2>5. d \o b \in Seq(Nat) /\ Held(d \o b, sent)
    BY <2>1, <2>2, <2>4, HeldConcat DEF d
  <2>6. IsInjective(d \o b)
    <3> DEFINE z == d \o b
    <3>1. z \in Seq(Nat) /\ Held(z, sent)
      BY <2>5
    <3> HIDE DEF z
    <3>2. DOMAIN z = 1..Len(z)
      BY <3>1
    <3>3. IsInjective(z)
      BY <3>1, <3>2 DEF IsInjective, Held
    <3> QED BY <3>3 DEF z
  <2> QED BY <2>6 DEF c, d, u, t, s, b
<1> QED BY <1>1, DshInvHolds, PTL

(* A driver that is idle has nothing pending except what a failed turn left:  *)
(* a prompt or a steer that arrives between the driver's last look at its     *)
(* inbox and its going idle wakes it or is latched.                           *)
THEOREM IdleDriverOwesNothing == DshSpec => []IdleOwesNothing
<1>1. DshInv => IdleOwesNothing
  BY DEF DshInv, Fine, Owes, IdleOwesNothing
<1> QED BY <1>1, DshInvHolds, PTL
=============================================================================
