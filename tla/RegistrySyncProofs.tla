-------------------------- MODULE RegistrySyncProofs --------------------------
(***************************************************************************)
(* Theorems about RegistrySync, for every set of fields, number of devices  *)
(* and budget.                                                              *)
(***************************************************************************)
EXTENDS RegistrySync, FiniteSetTheorems, SequenceTheorems, WellFoundedInduction, TLAPS

-----------------------------------------------------------------------------
(* Sequences and maxima.  Induction is by a least counterexample.           *)

\* A set of numbers has a least one.
LEMMA Least == ASSUME NEW T, T \subseteq Nat, T # {} PROVE \E n \in T : \A m \in T : ~(m < n)
<1>1. \E n \in T : \A m \in T : ~(<<m, n>> \in OpToRel(<, Nat))
  BY NatLessThanWellFounded, WFMin
<1> QED BY <1>1 DEF OpToRel

\* The table f behind Chosen(s, keep): what is chosen among the first n elements of s.
Tabled(f, s, keep) ==
    /\ Chosen(s, keep) = f[Len(s)] /\ f[0] = <<>>
    /\ \A i \in 1..Len(s) : f[i] = IF i \in keep THEN Append(f[i - 1], s[i]) ELSE f[i - 1]
    /\ \A n \in 0..Len(s) : f[n] \in Seq({s[i] : i \in keep \cap (1..Len(s))})

\* It exists.
LEMMA ChosenTable ==
    ASSUME NEW S, NEW s \in Seq(S), NEW keep
    PROVE  \E f : Tabled(f, s, keep)
<1> DEFINE T == {s[i] : i \in keep \cap (1..Len(s))}
           N == Len(s)
           D(g) == [i \in 0..N |-> IF i = 0 THEN <<>>
                              ELSE IF i \in keep THEN Append(g[i - 1], s[i]) ELSE g[i - 1]]
           f == CHOOSE g : g = D(g)
           Step(g, i) == IF i \in keep THEN Append(g[i - 1], s[i]) ELSE g[i - 1]
           Built(n, g) == /\ g \in [0..n -> Seq(T)] /\ g[0] = <<>>
                          /\ \A i \in 1..n : g[i] = Step(g, i)
<1>0. N \in Nat /\ \A i \in 1..N : i \in keep => s[i] \in T
  OBVIOUS
<1>1. Chosen(s, keep) = f[N]
  BY DEF Chosen
<1> HIDE DEF N, T
<1>s. ASSUME NEW n \in 1..N, NEW g, g[n - 1] \in Seq(T) PROVE Step(g, n) \in Seq(T)
  <2>1. CASE n \in keep
    <3>1. s[n] \in T
      BY <1>0, <2>1
    <3> QED BY <1>s, <2>1, <3>1
  <2>2. CASE n \notin keep
    BY <1>s, <2>2
  <2> QED BY <2>1, <2>2
<1>2. \A n \in 0..N : \E g : Built(n, g)
  <2> DEFINE Bad == {n \in 0..N : ~\E g : Built(n, g)}
  <2> SUFFICES ASSUME Bad # {} PROVE FALSE
    OBVIOUS
  <2>0. Bad \subseteq Nat
    BY <1>0
  <2> HIDE DEF Bad
  <2>1. PICK n \in Bad : \A m \in Bad : ~(m < n)
    BY Least, <2>0
  <2>2. n # 0
    <3>1. Built(0, [i \in 0..0 |-> <<>>])
      OBVIOUS
    <3> QED BY <3>1 DEF Bad
  <2>3. n \in 1..N /\ n - 1 \in 0..N /\ n - 1 < n /\ n \in 0..N
    BY <1>0, <2>2 DEF Bad
  <2>4. PICK g : Built(n - 1, g)
    BY <2>1, <2>3 DEF Bad
  <2> DEFINE h == [i \in 0..n |-> IF i = n THEN Step(g, n) ELSE g[i]]
  <2>5. Step(g, n) \in Seq(T)
    BY <1>s, <2>3, <2>4
  <2>6. h \in [0..n -> Seq(T)] /\ h[0] = <<>>
    <3>1. ASSUME NEW i \in 0..n PROVE (IF i = n THEN Step(g, n) ELSE g[i]) \in Seq(T)
      BY <1>0, <2>3, <2>4, <2>5
    <3> HIDE DEF Step
    <3>2. h \in [0..n -> Seq(T)]
      BY <3>1
    <3>3. h[0] = <<>>
      BY <1>0, <2>3, <2>4
    <3> QED BY <3>2, <3>3
  <2>7. ASSUME NEW i \in 1..n PROVE h[i] = Step(h, i)
    <3>1. i \in 0..n /\ i - 1 \in 0..n /\ i - 1 # n /\ n \in Nat
      BY <1>0, <2>3
    <3>2. h[i - 1] = g[i - 1]
      BY <3>1
    <3>3. h[i] = Step(g, i)
      <4>1. CASE i = n
        BY <3>1, <4>1
      <4>2. CASE i # n
        <5>1. i \in 1..(n - 1)
          BY <3>1, <4>2
        <5> QED BY <2>4, <3>1, <4>2, <5>1
      <4> QED BY <4>1, <4>2
    <3> HIDE DEF h
    <3> QED BY <3>2, <3>3
  <2>8. Built(n, h)
    BY <2>6, <2>7
  <2> QED BY <2>1, <2>8 DEF Bad
<1>3. PICK g : Built(N, g)
  <2>1. N \in 0..N
    BY <1>0
  <2> HIDE DEF Built
  <2> QED BY <1>2, <2>1
<1>4. g = D(g)
  <2>1. g = [i \in 0..N |-> g[i]]
    BY <1>3
  <2>2. ASSUME NEW i \in 0..N PROVE g[i] = D(g)[i]
    <3>1. CASE i = 0
      BY <1>3, <3>1
    <3>2. CASE i # 0
      <4>1. i \in 1..N
        BY <1>0, <3>2
      <4> QED BY <1>3, <3>2, <4>1
    <3> QED BY <3>1, <3>2
  <2> QED BY <2>1, <2>2
<1>5. f = D(f)
  <2> HIDE DEF D
  <2> QED BY <1>4
<1> HIDE DEF f
<1>6. ASSUME NEW i \in 0..N PROVE f[i] = IF i = 0 THEN <<>> ELSE Step(f, i)
  BY <1>5
<1>7. \A n \in 0..N : f[n] \in Seq(T)
  <2> DEFINE Bad == {n \in 0..N : f[n] \notin Seq(T)}
  <2> SUFFICES ASSUME Bad # {} PROVE FALSE
    OBVIOUS
  <2>0. Bad \subseteq Nat
    BY <1>0
  <2> HIDE DEF Bad
  <2>1. PICK n \in Bad : \A m \in Bad : ~(m < n)
    BY Least, <2>0
  <2>a. n \in 0..N /\ f[n] \notin Seq(T)
    BY DEF Bad
  <2>2. n # 0
    <3>1. <<>> \in Seq(T)
      OBVIOUS
    <3> QED BY <1>6, <2>a, <3>1
  <2>3. n \in 1..N /\ n - 1 \in 0..N /\ n - 1 < n
    BY <1>0, <2>2, <2>a
  <2>4. f[n - 1] \in Seq(T)
    BY <2>1, <2>3 DEF Bad
  <2>5. f[n] = Step(f, n)
    BY <1>6, <2>2, <2>a
  <2> QED BY <1>s, <2>3, <2>4, <2>5, <2>a
<1>8. f[0] = <<>> /\ \A i \in 1..N : f[i] = Step(f, i)
  <2>1. 0 \in 0..N /\ \A i \in 1..N : i \in 0..N /\ i # 0
    BY <1>0
  <2> HIDE DEF Step
  <2> QED BY <1>6, <2>1
<1>9. Tabled(f, s, keep)
  BY <1>1, <1>7, <1>8 DEF Tabled, T, N
<1> QED BY <1>9

\* What Chosen returns is a sequence of chosen elements; it starts with the first
\* element of s if that one is chosen.
LEMMA ChosenSeq ==
    ASSUME NEW S, NEW s \in Seq(S), NEW keep
    PROVE  /\ Chosen(s, keep) \in Seq({s[i] : i \in keep \cap (1..Len(s))})
           /\ s # <<>> /\ 1 \in keep => Chosen(s, keep) # <<>> /\ Chosen(s, keep)[1] = s[1]
<1> DEFINE T == {s[i] : i \in keep \cap (1..Len(s))}
           N == Len(s)
           Step(g, i) == IF i \in keep THEN Append(g[i - 1], s[i]) ELSE g[i - 1]
<1>0. N \in Nat /\ \A i \in 1..N : i \in keep => s[i] \in T
  OBVIOUS
<1>t. PICK f : Tabled(f, s, keep)
  BY ChosenTable
<1>1. /\ Chosen(s, keep) = f[N] /\ \A i \in 1..N : f[i] = Step(f, i)
      /\ f[0] = <<>> /\ \A n \in 0..N : f[n] \in Seq(T)
  BY <1>t DEF Tabled
<1> HIDE DEF N, T
<1>6. ASSUME NEW i \in 0..N PROVE f[i] = IF i = 0 THEN <<>> ELSE Step(f, i)
  BY <1>0, <1>1
<1>7. \A n \in 0..N : f[n] \in Seq(T)
  BY <1>1
<1>8. ASSUME 1 \in keep PROVE \A n \in 1..N : f[n] # <<>> /\ f[n][1] = s[1]
  <2> DEFINE Bad == {n \in 1..N : ~(f[n] # <<>> /\ f[n][1] = s[1])}
  <2> SUFFICES ASSUME Bad # {} PROVE FALSE
    OBVIOUS
  <2>0. Bad \subseteq Nat
    BY <1>0
  <2> HIDE DEF Bad
  <2>1. PICK n \in Bad : \A m \in Bad : ~(m < n)
    BY Least, <2>0
  <2>2. n \in 1..N /\ ~(f[n] # <<>> /\ f[n][1] = s[1]) /\ n \in 0..N /\ n # 0 /\ n - 1 \in 0..N
    BY <1>0 DEF Bad
  <2>3. f[n] = Step(f, n) /\ f[n - 1] \in Seq(T)
    BY <1>6, <1>7, <2>2
  <2>4. CASE n = 1
    <3>1. f[n - 1] = <<>>
      <4>1. n - 1 = 0
        BY <2>4
      <4>2. f[0] = <<>>
        BY <1>6, <2>2, <4>1
      <4> QED BY <4>1, <4>2
    <3>2. f[n] = Append(<<>>, s[1])
      BY <1>8, <2>3, <2>4, <3>1
    <3> QED BY <2>2, <3>2
  <2>5. CASE n # 1
    <3>1. n - 1 \in 1..N /\ n - 1 < n
      BY <1>0, <2>2, <2>5
    <3>2. f[n - 1] # <<>> /\ f[n - 1][1] = s[1]
      BY <2>1, <3>1 DEF Bad
    <3>3. CASE n \in keep
      <4>1. f[n] = Append(f[n - 1], s[n]) /\ s[n] \in T
        BY <1>0, <2>2, <2>3, <3>3
      <4>2. Len(f[n - 1]) \in Nat /\ Len(f[n - 1]) # 0
        BY <2>3, <3>2
      <4> QED BY <2>2, <2>3, <3>2, <4>1, <4>2
    <3>4. CASE n \notin keep
      BY <2>2, <2>3, <3>2, <3>4
    <3> QED BY <3>3, <3>4
  <2> QED BY <2>4, <2>5
<1>9. Chosen(s, keep) \in Seq(T)
  BY <1>0, <1>1, <1>7
<1>10. ASSUME s # <<>>, 1 \in keep PROVE Chosen(s, keep) # <<>> /\ Chosen(s, keep)[1] = s[1]
  <2>1. N # 0
    BY <1>10 DEF N
  <2>2. N \in 1..N
    BY <1>0, <2>1
  <2> QED BY <1>1, <1>8, <1>10, <2>2
<1> QED BY <1>9, <1>10 DEF T, N

\* A finite set of numbers is bounded.
LEMMA Bounded ==
    ASSUME NEW S, S \subseteq Nat, IsFiniteSet(S)
    PROVE  \E b \in Nat : \A x \in S : x <= b
<1> DEFINE Free(X) == \A b \in Nat : \E x \in X : ~(x <= b)
           K == {k \in Nat : \E X \in SUBSET S : Cardinality(X) = k /\ Free(X)}
<1> SUFFICES ASSUME Free(S) PROVE FALSE
  OBVIOUS
<1>1. Cardinality(S) \in K
  BY FS_CardinalityType
<1> HIDE DEF K
<1>2. PICK k \in K : \A j \in K : ~(j < k)
  <2>1. K \subseteq Nat /\ K # {}
    BY <1>1 DEF K
  <2> QED BY <2>1, Least
<1>3. PICK X \in SUBSET S : Cardinality(X) = k /\ Free(X) /\ k \in Nat
  BY DEF K
<1>4. IsFiniteSet(X)
  BY FS_Subset
<1>5. PICK x \in X : ~(x <= 0)
  BY <1>3
<1>6. IsFiniteSet(X \ {x}) /\ Cardinality(X \ {x}) = k - 1 /\ k - 1 \in Nat /\ k - 1 < k
  <2>1. IsFiniteSet(X \ {x}) /\ Cardinality(X \ {x}) = Cardinality(X) - 1
    BY <1>4, <1>5, FS_RemoveElement
  <2>2. k # 0
    BY <1>3, <1>4, <1>5, FS_EmptySet
  <2> QED BY <1>3, <2>1, <2>2
<1>7. ~Free(X \ {x})
  BY <1>2, <1>6 DEF K
<1>8. PICK b \in Nat : \A y \in X \ {x} : y <= b
  BY <1>7
<1>9. x \in Nat /\ (IF x <= b THEN b ELSE x) \in Nat
  BY <1>5
<1>10. ASSUME NEW y \in X PROVE y <= (IF x <= b THEN b ELSE x)
  <2>1. y \in Nat
    BY <1>3
  <2>2. CASE y = x
    BY <1>9, <2>1, <2>2
  <2>3. CASE y # x
    <3>1. y <= b
      BY <1>8, <2>3
    <3> QED BY <1>9, <2>1, <3>1
  <2> QED BY <2>2, <2>3
<1> QED BY <1>3, <1>9, <1>10

\* A finite non-empty set of numbers has a greatest one.
LEMMA MaxNat ==
    ASSUME NEW S, S \subseteq Nat, IsFiniteSet(S), S # {}
    PROVE  Max(S) \in S /\ \A x \in S : x <= Max(S)
<1> DEFINE U == {b \in Nat : \A x \in S : x <= b}
<1>1. U # {} /\ U \subseteq Nat
  BY Bounded
<1> HIDE DEF U
<1>2. PICK u \in U : \A v \in U : ~(v < u)
  BY <1>1, Least
<1>3. u \in Nat /\ \A x \in S : x <= u
  BY DEF U
<1>4. u \in S
  <2> SUFFICES ASSUME u \notin S PROVE FALSE
    OBVIOUS
  <2>1. \A x \in S : x \in Nat /\ x <= u - 1
    BY <1>3
  <2>2. u - 1 \in Nat
    <3>1. PICK x : x \in S
      OBVIOUS
    <3>2. x \in Nat /\ x <= u - 1
      BY <2>1, <3>1
    <3> QED BY <1>3, <3>2
  <2>3. u - 1 \in U
    BY <2>1, <2>2 DEF U
  <2> QED BY <1>2, <1>3, <2>3
<1>5. \E x \in S : \A y \in S : x >= y
  BY <1>3, <1>4
<1>6. Max(S) \in S /\ \A y \in S : Max(S) >= y
  BY <1>5 DEF Max
<1> QED BY <1>6

LEMMA MaxTwo ==
    ASSUME NEW a \in Nat, NEW b \in Nat
    PROVE  Max({a, b}) = IF a >= b THEN a ELSE b
<1>1. IsFiniteSet({a, b})
  <2>1. IsFiniteSet({a})
    BY FS_Singleton
  <2>2. IsFiniteSet({a} \cup {b})
    BY <2>1, FS_AddElement
  <2>3. {a} \cup {b} = {a, b}
    OBVIOUS
  <2> QED BY <2>2, <2>3
<1>2. Max({a, b}) \in {a, b} /\ \A x \in {a, b} : x <= Max({a, b})
  BY <1>1, MaxNat
<1> QED BY <1>2

-----------------------------------------------------------------------------
(* Rows and ops.                                                            *)

Ops == [op : {"upsert", "update", "delete"}, hlc : Nat, set : [Fields -> {"keep", "value", "null"}],
        clk : [Fields -> Nat]]

LEMMA NoRowShape ==
    /\ NoRow \in Rows /\ ~NoRow.here /\ ~NoRow.deleted /\ NoRow.del = 0 /\ NoRow.seq = 0
    /\ \A f \in Fields : NoRow.clk[f] = 0
BY DEF NoRow, Rows

LEMMA RowFields ==
    ASSUME NEW row \in Rows
    PROVE  /\ row.here \in BOOLEAN /\ row.deleted \in BOOLEAN /\ row.del \in Nat /\ row.seq \in Nat
           /\ row.has \in [Fields -> BOOLEAN] /\ row.clk \in [Fields -> Nat]
           /\ \A f \in Fields : row.clk[f] \in Nat
BY DEF Rows

LEMMA OpFields ==
    ASSUME NEW op \in Ops
    PROVE  /\ op.op \in {"upsert", "update", "delete"} /\ op.hlc \in Nat /\ op.clk \in [Fields -> Nat]
           /\ op.set \in [Fields -> {"keep", "value", "null"}] /\ \A f \in Fields : op.clk[f] \in Nat
BY DEF Ops

\* The merge of a delete.
LEMMA ApplyDelete ==
    ASSUME NEW row \in Rows, NEW op \in Ops, op.op = "delete", NEW res, res = ApplyOp(row, op)
    PROVE  \/ /\ res.changed = TRUE /\ (~row.here \/ Beats(op, row)) /\ res.row \in Rows
              /\ res.row.here /\ res.row.deleted /\ res.row.del = op.hlc
              /\ \A f \in Fields : res.row.clk[f] = 0
           \/ res.changed = FALSE /\ row.here /\ ~Beats(op, row)
<1>0. res = DeleteRow(op, row)
  BY DEF ApplyOp
<1> DEFINE r == [NoRow EXCEPT !.here = TRUE, !.deleted = TRUE, !.del = op.hlc, !.seq = row.seq]
<1>1. /\ r \in Rows /\ r.here /\ r.deleted /\ r.del = op.hlc /\ \A f \in Fields : r.clk[f] = 0
  BY RowFields, OpFields DEF NoRow, Rows
<1>2. CASE ~row.here \/ Beats(op, row)
  <2>1. res = [row |-> r, changed |-> TRUE]
    BY <1>0, <1>2 DEF DeleteRow
  <2>2. res.row = r /\ res.changed = TRUE
    BY <2>1
  <2> HIDE DEF r
  <2> QED BY <1>1, <1>2, <2>2
<1>3. CASE ~(~row.here \/ Beats(op, row))
  <2>1. res = [row |-> row, changed |-> FALSE]
    BY <1>0, <1>3 DEF DeleteRow
  <2>2. res.changed = FALSE
    BY <2>1
  <2> QED BY <1>3, <2>2
<1> QED BY <1>2, <1>3

\* The clock a write starts from: a row that is not live has none.
BaseClock(row, f) == IF LiveRow(row) THEN row.clk[f] ELSE 0

\* How a write ends: refused, nothing won, or a row that has what the write brought.
Refused(row, op, res) == /\ res.changed = FALSE /\ ~LiveRow(row)
                         /\ op.op = "update" \/ (row.here /\ op.hlc <= row.del)
NoneWon(row, op, res) == /\ res.changed = FALSE /\ LiveRow(row)
                         /\ \A f \in Fields : op.set[f] # "keep" => op.clk[f] <= row.clk[f]
Taken(row, op, res) ==
    /\ res.changed = TRUE /\ res.row \in Rows /\ res.row.here /\ ~res.row.deleted
    /\ res.row.del = row.del /\ (LiveRow(row) \/ op.op = "upsert")
    /\ \A f \in Fields :
          /\ res.row.clk[f] >= BaseClock(row, f)
          /\ res.row.clk[f] = BaseClock(row, f) \/ res.row.clk[f] = op.clk[f]
          /\ op.set[f] # "keep" => res.row.clk[f] >= op.clk[f]

\* The merge of an upsert or an update.
LEMMA ApplyWrite ==
    ASSUME NEW row \in Rows, NEW op \in Ops, op.op # "delete", NEW res, res = ApplyOp(row, op)
    PROVE  Refused(row, op, res) \/ NoneWon(row, op, res) \/ Taken(row, op, res)
<1>0. res = WriteRow(op, row)
  BY DEF ApplyOp
<1> DEFINE refused == ~LiveRow(row) /\ (op.op = "update" \/ (row.here /\ op.hlc <= row.del))
           base    == IF LiveRow(row) THEN row
                      ELSE [NoRow EXCEPT !.here = TRUE, !.del = row.del, !.seq = row.seq]
           wins    == {f \in Fields : op.set[f] # "keep" /\ op.clk[f] > base.clk[f]}
           has     == [f \in Fields |-> IF f \in wins THEN op.set[f] = "value" ELSE base.has[f]]
           clk     == [f \in Fields |-> IF f \in wins THEN op.clk[f] ELSE base.clk[f]]
           r       == [base EXCEPT !.has = has, !.clk = clk]
<1>1. CASE refused
  <2>1. res = [row |-> row, changed |-> FALSE]
    BY <1>0, <1>1 DEF WriteRow
  <2>2. res.changed = FALSE
    BY <2>1
  <2> QED BY <1>1, <2>2 DEF Refused
<1>2. CASE ~refused
  <2>1. res = [row |-> r, changed |-> ~LiveRow(row) \/ wins # {}]
    BY <1>0, <1>2 DEF WriteRow
  <2>2. res.row = r /\ res.changed = (~LiveRow(row) \/ wins # {})
    BY <2>1
  <2>3. /\ base \in Rows /\ base.here /\ ~base.deleted /\ base.del = row.del
        /\ \A f \in Fields : base.clk[f] = BaseClock(row, f)
    <3>1. CASE LiveRow(row)
      BY <3>1 DEF LiveRow, BaseClock
    <3>2. CASE ~LiveRow(row)
      <4> DEFINE q == [NoRow EXCEPT !.here = TRUE, !.del = row.del, !.seq = row.seq]
      <4>1. q \in Rows /\ q.here /\ ~q.deleted /\ q.del = row.del /\ \A f \in Fields : q.clk[f] = 0
        BY RowFields DEF NoRow, Rows
      <4>2. base = q
        BY <3>2
      <4> HIDE DEF q, base
      <4> QED BY <3>2, <4>1, <4>2 DEF BaseClock
    <3> QED BY <3>1, <3>2
  <2> HIDE DEF base
  <2>4. has \in [Fields -> BOOLEAN] /\ clk \in [Fields -> Nat]
    BY <2>3, RowFields, OpFields
  <2>5. ASSUME NEW f \in Fields
        PROVE  /\ clk[f] >= BaseClock(row, f)
               /\ clk[f] = BaseClock(row, f) \/ clk[f] = op.clk[f]
               /\ op.set[f] # "keep" => clk[f] >= op.clk[f]
    <3>1. base.clk[f] \in Nat /\ op.clk[f] \in Nat /\ base.clk[f] = BaseClock(row, f)
      BY <2>3, RowFields, OpFields
    <3> QED BY <3>1
  <2>6. wins = {} => \A f \in Fields : op.set[f] # "keep" => op.clk[f] <= base.clk[f]
    <3>1. ASSUME NEW f \in Fields, wins = {}, op.set[f] # "keep" PROVE op.clk[f] <= base.clk[f]
      <4>1. base.clk[f] \in Nat /\ op.clk[f] \in Nat
        BY <2>3, RowFields, OpFields
      <4>2. ~(op.clk[f] > base.clk[f])
        BY <3>1
      <4> QED BY <4>1, <4>2
    <3> QED BY <3>1
  <2> HIDE DEF has, clk, wins
  <2>7. /\ r \in Rows /\ r.here /\ ~r.deleted /\ r.del = row.del /\ r.clk = clk
    BY <2>3, <2>4 DEF Rows
  <2>8. LiveRow(row) \/ op.op = "upsert"
    BY <1>2, OpFields
  <2> HIDE DEF r
  <2>9. CASE LiveRow(row) /\ wins = {}
    BY <2>2, <2>3, <2>6, <2>9 DEF BaseClock, NoneWon
  <2>10. CASE ~(LiveRow(row) /\ wins = {})
    BY <2>2, <2>5, <2>7, <2>8, <2>10 DEF Taken
  <2> QED BY <2>9, <2>10
<1> QED BY <1>1, <1>2

\* The largest clock of a row is a number.
LEMMA MaxClockNat == ASSUME NEW row \in Rows PROVE MaxClock(row) \in Nat
<1> DEFINE C == {row.clk[f] : f \in Fields}
<1>1. row.clk \in Surjection(Fields, C)
  BY RowFields DEF Surjection
<1>2. IsFiniteSet(C)
  BY <1>1, FieldsAssumption, FS_Surjection
<1>3. Clocks(row) = C \cup {row.del} /\ C \cup {row.del} \subseteq Nat
  BY RowFields DEF Clocks
<1> HIDE DEF C
<1>4. IsFiniteSet(Clocks(row)) /\ Clocks(row) # {} /\ Clocks(row) \subseteq Nat
  BY <1>2, <1>3, FS_AddElement
<1>5. Max(Clocks(row)) \in Clocks(row)
  BY <1>4, MaxNat
<1> QED BY <1>4, <1>5 DEF MaxClock

-----------------------------------------------------------------------------
(* Replicas.                                                                *)

Batches == [id : Nat, op : Ops, inFlight : BOOLEAN]
Docs    == [auth : Rows, cursor : Nat, pending : Seq(Batches), fresh : BOOLEAN]

\* The frames on the way to the room, and those on the way back.
Hellos    == [t : {"hello"}, none : BOOLEAN, cursor : Nat]
Pushes    == [t : {"push"}, id : Nat, op : Ops]
States    == [t : {"state"}, seq : Nat, full : BOOLEAN, row : Rows]
RowFrames == [t : {"rows"}, seq : Nat, row : Rows]
Acks      == [t : {"ack"}, id : Nat, seq : Nat]
Ups       == Hellos \cup Pushes
Downs     == States \cup RowFrames \cup Acks

\* The two copies of a replica hold the same writes, in the same order.
SameWrites(rd, re) ==
    /\ Len(re.pending) = Len(rd.pending)
    /\ \A i \in 1..Len(rd.pending) : re.pending[i].op = rd.pending[i].op /\ re.pending[i].id = rd.pending[i].id

LEMMA DocFields ==
    ASSUME NEW rd \in Docs
    PROVE  /\ rd.auth \in Rows /\ rd.cursor \in Nat /\ rd.pending \in Seq(Batches) /\ rd.fresh \in BOOLEAN
           /\ Len(rd.pending) \in Nat /\ DOMAIN rd.pending = 1..Len(rd.pending)
           /\ \A i \in 1..Len(rd.pending) :
                 /\ rd.pending[i] \in Batches /\ rd.pending[i].op \in Ops
                 /\ rd.pending[i].id \in Nat /\ rd.pending[i].inFlight \in BOOLEAN
<1>1. rd.auth \in Rows /\ rd.cursor \in Nat /\ rd.pending \in Seq(Batches) /\ rd.fresh \in BOOLEAN
  BY DEF Docs
<1>2. \A i \in 1..Len(rd.pending) : rd.pending[i] \in Batches
  BY <1>1
<1>3. \A b \in Batches : b.op \in Ops /\ b.id \in Nat /\ b.inFlight \in BOOLEAN
  BY DEF Batches
<1> QED BY <1>1, <1>2, <1>3

LEMMA UpFields ==
    ASSUME NEW fr \in Ups
    PROVE  /\ fr.t = "hello" => fr \in Hellos /\ fr.none \in BOOLEAN /\ fr.cursor \in Nat
           /\ fr.t = "push" => fr \in Pushes /\ fr.id \in Nat /\ fr.op \in Ops
           /\ fr.t \in {"hello", "push"}
BY DEF Ups, Hellos, Pushes

LEMMA DownFields ==
    ASSUME NEW fr \in Downs
    PROVE  /\ fr.t = "state" => fr.full \in BOOLEAN /\ fr.row \in Rows
           /\ fr.t = "rows" => fr.row \in Rows
           /\ fr.t = "ack" => fr.id \in Nat
           /\ fr.seq \in Nat /\ fr.t \in {"state", "rows", "ack"}
BY DEF Downs, States, RowFrames, Acks

LEMMA NewDocShape == NewDoc \in Docs /\ NewDoc.auth = NoRow /\ NewDoc.cursor = 0 /\ NewDoc.pending = <<>>
BY NoRowShape DEF NewDoc, Docs

\* The whole effect of each operation of a replica.
LEMMA EnqueueDoc ==
    ASSUME NEW rd \in Docs, NEW id \in Nat, NEW op \in Ops, NEW re, re = Enqueue(rd, id, op)
    PROVE  /\ re \in Docs /\ re.auth = rd.auth /\ re.cursor = rd.cursor
           /\ re.pending = Append(rd.pending, [id |-> id, op |-> op, inFlight |-> FALSE])
<1> DEFINE b == [id |-> id, op |-> op, inFlight |-> FALSE]
<1>1. b \in Batches
  BY DEF Batches
<1>2. re = [rd EXCEPT !.pending = Append(rd.pending, b), !.fresh = FALSE]
  BY DEF Enqueue, Docs
<1> HIDE DEF b
<1>3. Append(rd.pending, b) \in Seq(Batches)
  BY <1>1, DocFields
<1>4. re \in Docs /\ re.auth = rd.auth /\ re.cursor = rd.cursor /\ re.pending = Append(rd.pending, b)
  BY <1>2, <1>3, DocFields DEF Docs
<1> QED BY <1>4 DEF b

LEMMA Marked ==
    ASSUME NEW rd \in Docs, NEW v \in BOOLEAN, NEW re,
           re = [rd EXCEPT !.pending = [i \in DOMAIN @ |-> [@[i] EXCEPT !.inFlight = v]]]
    PROVE  /\ re \in Docs /\ re.auth = rd.auth /\ re.cursor = rd.cursor /\ SameWrites(rd, re)
           /\ \A i \in 1..Len(re.pending) : re.pending[i].inFlight = v
<1> DEFINE p == [i \in DOMAIN rd.pending |-> [rd.pending[i] EXCEPT !.inFlight = v]]
<1>1. re = [rd EXCEPT !.pending = p]
  BY DEF Docs
<1>2. ASSUME NEW i \in 1..Len(rd.pending)
      PROVE  p[i] \in Batches /\ p[i].op = rd.pending[i].op /\ p[i].id = rd.pending[i].id /\ p[i].inFlight = v
  BY DocFields DEF Batches
<1>3. p \in Seq(Batches) /\ Len(p) = Len(rd.pending)
  <2>1. p \in [1..Len(rd.pending) -> Batches]
    BY <1>2, DocFields
  <2> HIDE DEF p
  <2> QED BY <2>1, DocFields
<1> HIDE DEF p
<1>4. re \in Docs /\ re.auth = rd.auth /\ re.cursor = rd.cursor /\ re.pending = p
  BY <1>1, <1>3, DocFields DEF Docs
<1> QED BY <1>2, <1>3, <1>4 DEF SameWrites

LEMMA MarkDoc ==
    ASSUME NEW rd \in Docs, NEW re, re = MarkDisconnected(rd)
    PROVE  /\ re \in Docs /\ re.auth = rd.auth /\ re.cursor = rd.cursor /\ SameWrites(rd, re)
           /\ \A i \in 1..Len(re.pending) : re.pending[i].inFlight = FALSE
<1>1. re = [rd EXCEPT !.pending = [i \in DOMAIN @ |-> [@[i] EXCEPT !.inFlight = FALSE]]]
  BY DEF MarkDisconnected
<1>2. FALSE \in BOOLEAN
  OBVIOUS
<1> QED BY <1>1, <1>2, Marked, Zenon

LEMMA TakeDoc ==
    ASSUME NEW rd \in Docs, NEW re, re = TakePushable(rd)
    PROVE  /\ re \in Docs /\ re.auth = rd.auth /\ re.cursor = rd.cursor /\ SameWrites(rd, re)
           /\ \A i \in 1..Len(re.pending) : re.pending[i].inFlight = TRUE
<1>1. re = [rd EXCEPT !.pending = [i \in DOMAIN @ |-> [@[i] EXCEPT !.inFlight = TRUE]]]
  BY DEF TakePushable
<1>2. TRUE \in BOOLEAN
  OBVIOUS
<1> QED BY <1>1, <1>2, Marked, Zenon

LEMMA LoadDoc ==
    ASSUME NEW rd \in Docs, NEW re, re = FromBytes(rd)
    PROVE  /\ re \in Docs /\ re.auth = rd.auth /\ re.cursor = rd.cursor /\ SameWrites(rd, re)
           /\ \A i \in 1..Len(re.pending) : re.pending[i].inFlight = FALSE
<1> DEFINE rm == MarkDisconnected(rd)
<1>1. /\ rm \in Docs /\ rm.auth = rd.auth /\ rm.cursor = rd.cursor /\ SameWrites(rd, rm)
      /\ \A i \in 1..Len(rm.pending) : rm.pending[i].inFlight = FALSE
  BY MarkDoc
<1>2. re = [rm EXCEPT !.fresh = TRUE]
  BY DEF FromBytes
<1> HIDE DEF rm
<1>3. re \in Docs /\ re.auth = rm.auth /\ re.cursor = rm.cursor /\ re.pending = rm.pending
  BY <1>1, <1>2 DEF Docs
<1> QED BY <1>1, <1>3 DEF SameWrites

LEMMA SeedShape == ASSUME NEW row \in Rows PROVE SeedOp(row) \in Ops
<1>1. MaxClock(row) \in Nat
  BY MaxClockNat
<1> QED BY <1>1, RowFields DEF SeedOp, Ops

LEMMA PutDoc ==
    ASSUME NEW rd \in Docs, NEW row \in Rows, NEW re, re = PutRow(rd, row)
    PROVE  /\ re \in Docs /\ re.auth = (IF row.here THEN row ELSE rd.auth)
           /\ re.cursor = rd.cursor /\ re.pending = rd.pending
<1>1. CASE row.here
  <2>1. re = [rd EXCEPT !.auth = row]
    BY <1>1 DEF PutRow
  <2>2. re \in Docs /\ re.auth = row /\ re.cursor = rd.cursor /\ re.pending = rd.pending
    BY <2>1 DEF Docs
  <2> QED BY <1>1, <2>2
<1>2. CASE ~row.here
  BY <1>2 DEF PutRow
<1> QED BY <1>1, <1>2

LEMMA StateDoc ==
    ASSUME NEW rd \in Docs, NEW fr \in Downs, fr.t = "state", NEW id \in Nat,
           NEW re, re = ApplyState(rd, fr, id)
    PROVE  /\ re \in Docs /\ re.cursor = fr.seq
           /\ re.auth = IF (fr.full /\ ~(fr.seq < rd.cursor)) \/ fr.row.here THEN fr.row ELSE rd.auth
           /\ \/ re.pending = rd.pending
              \/ /\ rd.auth.here /\ fr.full /\ (fr.seq < rd.cursor \/ ~fr.row.here)
                 /\ re.pending = Append(rd.pending, [id |-> id, op |-> SeedOp(rd.auth), inFlight |-> FALSE])
<1>0. fr.row \in Rows /\ fr.seq \in Nat /\ fr.full \in BOOLEAN
  BY DownFields
<1> DEFINE reset   == fr.full /\ fr.seq < rd.cursor
           kept    == IF fr.full /\ ~reset THEN [rd EXCEPT !.auth = fr.row] ELSE PutRow(rd, fr.row)
           stepped == [kept EXCEPT !.cursor = fr.seq, !.fresh = FALSE]
           seeds   == rd.auth.here /\ (reset \/ (fr.full /\ ~fr.row.here))
           auth    == IF (fr.full /\ ~(fr.seq < rd.cursor)) \/ fr.row.here THEN fr.row ELSE rd.auth
<1>1. kept \in Docs /\ kept.auth = auth /\ kept.pending = rd.pending
  <2>1. CASE fr.full /\ ~reset
    <3>1. kept = [rd EXCEPT !.auth = fr.row]
      BY <2>1
    <3> HIDE DEF kept
    <3>2. kept \in Docs /\ kept.auth = fr.row /\ kept.pending = rd.pending
      BY <1>0, <3>1 DEF Docs
    <3> QED BY <2>1, <3>2
  <2>2. CASE ~(fr.full /\ ~reset)
    <3>1. kept = PutRow(rd, fr.row)
      BY <2>2
    <3> HIDE DEF kept
    <3>2. kept \in Docs /\ kept.auth = (IF fr.row.here THEN fr.row ELSE rd.auth) /\ kept.pending = rd.pending
      BY <1>0, <3>1, PutDoc
    <3> QED BY <2>2, <3>2
  <2> QED BY <2>1, <2>2
<1> HIDE DEF kept
<1>2. stepped \in Docs /\ stepped.auth = auth /\ stepped.pending = rd.pending /\ stepped.cursor = fr.seq
  BY <1>0, <1>1 DEF Docs
<1>3. re = IF seeds THEN Enqueue(stepped, id, SeedOp(rd.auth)) ELSE stepped
  BY DEF ApplyState, kept
<1>4. SeedOp(rd.auth) \in Ops
  BY SeedShape, DocFields
<1> HIDE DEF stepped
<1>5. CASE seeds
  <2> DEFINE rs == Enqueue(stepped, id, SeedOp(rd.auth))
  <2>1. /\ rs \in Docs /\ rs.auth = stepped.auth /\ rs.cursor = stepped.cursor
        /\ rs.pending = Append(stepped.pending, [id |-> id, op |-> SeedOp(rd.auth), inFlight |-> FALSE])
    BY <1>2, <1>4, EnqueueDoc
  <2>2. re = rs
    BY <1>3, <1>5
  <2> HIDE DEF rs
  <2> QED BY <1>2, <1>5, <2>1, <2>2
<1>6. CASE ~seeds
  <2>1. re = stepped
    BY <1>3, <1>6
  <2> QED BY <1>2, <2>1
<1> QED BY <1>5, <1>6

LEMMA RowsDoc ==
    ASSUME NEW rd \in Docs, NEW fr \in Downs, fr.t = "rows", NEW re, re = ApplyRows(rd, fr)
    PROVE  /\ re \in Docs /\ re.auth = (IF fr.row.here THEN fr.row ELSE rd.auth)
           /\ re.cursor = (IF rd.cursor >= fr.seq THEN rd.cursor ELSE fr.seq) /\ re.pending = rd.pending
<1>0. fr.row \in Rows /\ fr.seq \in Nat
  BY DownFields
<1> DEFINE rp == PutRow(rd, fr.row)
<1>1. /\ rp \in Docs /\ rp.auth = (IF fr.row.here THEN fr.row ELSE rd.auth)
      /\ rp.cursor = rd.cursor /\ rp.pending = rd.pending
  BY <1>0, PutDoc
<1>2. re = [rp EXCEPT !.cursor = Max({@, fr.seq}), !.fresh = FALSE]
  BY DEF ApplyRows
<1> HIDE DEF rp
<1>3. Max({rp.cursor, fr.seq}) = IF rd.cursor >= fr.seq THEN rd.cursor ELSE fr.seq
  BY <1>0, <1>1, MaxTwo, DocFields
<1> DEFINE c == Max({rp.cursor, fr.seq})
<1>4. c \in Nat
  BY <1>0, <1>3, DocFields
<1>5. re = [rp EXCEPT !.cursor = c, !.fresh = FALSE]
  BY <1>1, <1>2 DEF Docs
<1> HIDE DEF c
<1>6. re \in Docs /\ re.auth = rp.auth /\ re.cursor = c /\ re.pending = rp.pending
  BY <1>1, <1>4, <1>5 DEF Docs
<1> QED BY <1>1, <1>3, <1>6 DEF c

\* What an ack leaves pending.
Retained(p, id) == Chosen(p, {i \in DOMAIN p : p[i].id # id})

LEMMA AckDoc ==
    ASSUME NEW rd \in Docs, NEW fr \in Downs, fr.t = "ack", NEW re, re = AckBatch(rd, fr)
    PROVE  /\ re \in Docs /\ re.auth = rd.auth
           /\ re.cursor = (IF rd.cursor >= fr.seq THEN rd.cursor ELSE fr.seq)
           /\ \A i \in 1..Len(re.pending) : \E j \in 1..Len(rd.pending) : re.pending[i] = rd.pending[j]
           /\ re.pending = Retained(rd.pending, fr.id)
<1>0. fr.id \in Nat /\ fr.seq \in Nat
  BY DownFields
<1> DEFINE keep == {i \in DOMAIN rd.pending : rd.pending[i].id # fr.id}
           p == Chosen(rd.pending, keep)
           c == Max({rd.cursor, fr.seq})
           T == {rd.pending[i] : i \in keep \cap (1..Len(rd.pending))}
           h == rd.fresh /\ \A i \in DOMAIN rd.pending : rd.pending[i].id # fr.id
<1>1. re = [rd EXCEPT !.pending = p, !.cursor = c, !.fresh = h]
  BY DEF AckBatch, Docs
<1>2. c = (IF rd.cursor >= fr.seq THEN rd.cursor ELSE fr.seq) /\ c \in Nat
  BY <1>0, MaxTwo, DocFields
<1>3. p \in Seq(T)
  <2> HIDE DEF keep
  <2> QED BY ChosenSeq, DocFields
<1>4. T \subseteq Batches /\ \A b \in T : \E j \in 1..Len(rd.pending) : b = rd.pending[j]
  BY DocFields
<1>5. h \in BOOLEAN
  BY DocFields
<1> HIDE DEF p, c, T, h
<1>6. p \in Seq(Batches) /\ \A i \in 1..Len(p) : p[i] \in T
  BY <1>3, <1>4
<1>7. re \in Docs /\ re.auth = rd.auth /\ re.cursor = c /\ re.pending = p
  BY <1>1, <1>2, <1>5, <1>6 DEF Docs
<1>8. p = Retained(rd.pending, fr.id)
  BY DEF p, Retained
<1> QED BY <1>2, <1>4, <1>6, <1>7, <1>8

LEMMA PushDoc ==
    ASSUME NEW rd \in Docs, NEW q, q = PushFrames(rd)
    PROVE  /\ q \in Seq(Pushes)
           /\ \A i \in 1..Len(q) : \E j \in 1..Len(rd.pending) : q[i].id = rd.pending[j].id /\ q[i].op = rd.pending[j].op
           /\ rd.pending # <<>> /\ ~rd.pending[1].inFlight => q # <<>> /\ q[1].op = rd.pending[1].op
<1> DEFINE keep == {i \in DOMAIN rd.pending : ~rd.pending[i].inFlight}
           p == Pushable(rd)
           T == {rd.pending[i] : i \in keep \cap (1..Len(rd.pending))}
<1>1. /\ p \in Seq(T)
      /\ rd.pending # <<>> /\ 1 \in keep => p # <<>> /\ p[1] = rd.pending[1]
  <2>1. p = Chosen(rd.pending, keep)
    BY DEF Pushable
  <2> HIDE DEF keep, p
  <2> QED BY <2>1, ChosenSeq, DocFields
<1>2. T \subseteq Batches /\ \A b \in T : \E j \in 1..Len(rd.pending) : b = rd.pending[j]
  BY DocFields
<1>3. rd.pending # <<>> /\ ~rd.pending[1].inFlight => 1 \in keep
  <2>1. rd.pending # <<>> => 1 \in 1..Len(rd.pending)
    BY DocFields
  <2> QED BY <2>1, DocFields
<1>4. q = [i \in DOMAIN p |-> [t |-> "push", id |-> p[i].id, op |-> p[i].op]]
  BY DEF PushFrames
<1> HIDE DEF p, T, keep
<1>5. Len(p) \in Nat /\ DOMAIN p = 1..Len(p) /\ \A i \in 1..Len(p) : p[i] \in T /\ p[i] \in Batches
  BY <1>1, <1>2
<1>6. ASSUME NEW i \in 1..Len(p) PROVE q[i] \in Pushes /\ q[i].id = p[i].id /\ q[i].op = p[i].op
  <2>1. q[i] = [t |-> "push", id |-> p[i].id, op |-> p[i].op]
    BY <1>4, <1>5
  <2>2. p[i].id \in Nat /\ p[i].op \in Ops
    BY <1>5 DEF Batches
  <2> QED BY <2>1, <2>2 DEF Pushes
<1>7. q \in [1..Len(p) -> Pushes]
  BY <1>4, <1>5, <1>6
<1>8. q \in Seq(Pushes) /\ Len(q) = Len(p)
  BY <1>5, <1>7
<1>9. p # <<>> => 1 \in 1..Len(p)
  BY <1>1, <1>5
<1>10. q = <<>> => Len(p) = 0
  BY <1>8
<1>11. \A i \in 1..Len(q) : \E j \in 1..Len(rd.pending) : q[i].id = rd.pending[j].id /\ q[i].op = rd.pending[j].op
  <2> TAKE i \in 1..Len(q)
  <2>1. i \in 1..Len(p) /\ p[i] \in T
    BY <1>5, <1>8
  <2>2. PICK j \in 1..Len(rd.pending) : p[i] = rd.pending[j]
    BY <1>2, <2>1
  <2>3. q[i].id = p[i].id /\ q[i].op = p[i].op
    BY <1>6, <2>1
  <2> QED BY <2>2, <2>3
<1>12. ASSUME rd.pending # <<>>, ~rd.pending[1].inFlight PROVE q # <<>> /\ q[1].op = rd.pending[1].op
  BY <1>1, <1>3, <1>6, <1>9, <1>10, <1>12
<1> QED BY <1>8, <1>11, <1>12

-----------------------------------------------------------------------------
(* The shape of the state, and what a connection's stage says about what is  *)
(* on its way.  Wipes included.                                              *)

\* A row that does not exist is NoRow; a tombstone has no field clocks.
Tidy(row) == (~row.here => row = NoRow) /\ (row.deleted => \A f \in Fields : row.clk[f] = 0)

\* What is left of a budget.
Purse == [writes : Nat, drops : Nat, crashes : Nat, resets : Nat]

RegShape ==
    /\ doc \in [Devices -> Docs] /\ disk \in [Devices -> Docs] /\ clock \in [Devices -> Nat]
    /\ conn \in [Devices -> {"down", "hello", "open"}] /\ ready \in [Devices -> BOOLEAN]
    /\ up \in [Devices -> Seq(Ups)] /\ down \in [Devices -> Seq(Downs)]
    /\ room \in [row : Rows, seq : Nat, gcFloor : Nat] /\ Tidy(room.row)
    /\ left \in Purse /\ wiped \in BOOLEAN

Link(d) ==
    /\ conn[d] = "down" => up[d] = <<>> /\ down[d] = <<>> /\ ~ready[d]
    /\ conn[d] = "hello" /\ ~ready[d] =>
         /\ Len(up[d]) = 1 /\ up[d][1].t = "hello" /\ up[d][1].cursor = doc[d].cursor
         /\ down[d] = <<>>
    /\ conn[d] = "hello" /\ ready[d] =>
         /\ up[d] = <<>> /\ down[d] # <<>> /\ down[d][1].t = "state"
         /\ \A i \in 2..Len(down[d]) : down[d][i].t # "state"
    /\ conn[d] = "open" =>
         /\ ready[d] /\ \A i \in 1..Len(down[d]) : down[d][i].t # "state"
         /\ \A i \in 1..Len(up[d]) : up[d][i].t = "push"

LinkInv == RegShape /\ \A d \in Devices : Link(d)

\* What a step of d leaves alone.
Others(d) == \A e \in Devices \ {d} :
    /\ doc'[e] = doc[e] /\ disk'[e] = disk[e] /\ clock'[e] = clock[e] /\ conn'[e] = conn[e]
    /\ up'[e] = up[e] /\ down'[e] = down[e] /\ ready'[e] = ready[e]

LEMMA LinkOthers ==
    ASSUME LinkInv, NEW d \in Devices, Others(d), RegShape', Link(d)' PROVE LinkInv'
<1>1. ASSUME NEW e \in Devices \ {d} PROVE Link(e)'
  <2>1. Link(e)
    BY DEF LinkInv
  <2>2. /\ doc'[e] = doc[e] /\ conn'[e] = conn[e]
        /\ up'[e] = up[e] /\ down'[e] = down[e] /\ ready'[e] = ready[e]
    BY DEF Others
  <2> QED BY <2>1, <2>2 DEF Link
<1> QED BY <1>1 DEF LinkInv

LEMMA AtDevice ==
    ASSUME RegShape, NEW d \in Devices
    PROVE  /\ doc[d] \in Docs /\ disk[d] \in Docs /\ clock[d] \in Nat
           /\ conn[d] \in {"down", "hello", "open"} /\ ready[d] \in BOOLEAN
           /\ up[d] \in Seq(Ups) /\ down[d] \in Seq(Downs) /\ d \in Nat /\ d >= 1 /\ d <= NDevices
           /\ NDevices \in Nat
BY DevicesAssumption DEF RegShape, Devices

LEMMA HlcNat == ASSUME NEW tick \in Nat, NEW d \in Devices PROVE Hlc(tick, d) \in Nat /\ Hlc(tick, d) >= 1
<1>1. d \in Nat /\ d >= 1 /\ NDevices \in Nat
  BY DevicesAssumption DEF Devices
<1>2. tick * NDevices \in Nat
  BY <1>1
<1> QED BY <1>1, <1>2 DEF Hlc

\* Spending from the budget.
LEMMA Spent ==
    ASSUME NEW l \in Purse
    PROVE  /\ l.writes > 0 => /\ [l EXCEPT !.writes = @ - 1] \in Purse
                              /\ [l EXCEPT !.writes = @ - 1].resets = l.resets
           /\ l.drops > 0 => /\ [l EXCEPT !.drops = @ - 1] \in Purse
                             /\ [l EXCEPT !.drops = @ - 1].resets = l.resets
           /\ l.crashes > 0 => /\ [l EXCEPT !.crashes = @ - 1] \in Purse
                               /\ [l EXCEPT !.crashes = @ - 1].resets = l.resets
           /\ l.resets > 0 => /\ [l EXCEPT !.resets = @ - 1] \in Purse
                              /\ [l EXCEPT !.resets = @ - 1].resets # l.resets
<1>0. l.writes \in Nat /\ l.drops \in Nat /\ l.crashes \in Nat /\ l.resets \in Nat
  BY DEF Purse
<1>1. ASSUME NEW n \in Nat
      PROVE  /\ [l EXCEPT !.writes = n] \in Purse /\ [l EXCEPT !.writes = n].resets = l.resets
             /\ [l EXCEPT !.drops = n] \in Purse /\ [l EXCEPT !.drops = n].resets = l.resets
             /\ [l EXCEPT !.crashes = n] \in Purse /\ [l EXCEPT !.crashes = n].resets = l.resets
             /\ [l EXCEPT !.resets = n] \in Purse /\ [l EXCEPT !.resets = n].resets = n
  BY DEF Purse
<1>2. ASSUME l.writes > 0
      PROVE  [l EXCEPT !.writes = @ - 1] \in Purse /\ [l EXCEPT !.writes = @ - 1].resets = l.resets
  <2> DEFINE n == l.writes - 1
  <2>1. n \in Nat /\ n # l.writes
    BY <1>0, <1>2
  <2>2. [l EXCEPT !.writes = @ - 1] = [l EXCEPT !.writes = n]
    BY DEF Purse
  <2> HIDE DEF n
  <2> QED BY <1>1, <2>1, <2>2
<1>3. ASSUME l.drops > 0
      PROVE  [l EXCEPT !.drops = @ - 1] \in Purse /\ [l EXCEPT !.drops = @ - 1].resets = l.resets
  <2> DEFINE n == l.drops - 1
  <2>1. n \in Nat /\ n # l.drops
    BY <1>0, <1>3
  <2>2. [l EXCEPT !.drops = @ - 1] = [l EXCEPT !.drops = n]
    BY DEF Purse
  <2> HIDE DEF n
  <2> QED BY <1>1, <2>1, <2>2
<1>4. ASSUME l.crashes > 0
      PROVE  [l EXCEPT !.crashes = @ - 1] \in Purse /\ [l EXCEPT !.crashes = @ - 1].resets = l.resets
  <2> DEFINE n == l.crashes - 1
  <2>1. n \in Nat /\ n # l.crashes
    BY <1>0, <1>4
  <2>2. [l EXCEPT !.crashes = @ - 1] = [l EXCEPT !.crashes = n]
    BY DEF Purse
  <2> HIDE DEF n
  <2> QED BY <1>1, <2>1, <2>2
<1>5. ASSUME l.resets > 0
      PROVE  [l EXCEPT !.resets = @ - 1] \in Purse /\ [l EXCEPT !.resets = @ - 1].resets # l.resets
  <2> DEFINE n == l.resets - 1
  <2>1. n \in Nat /\ n # l.resets
    BY <1>0, <1>5
  <2>2. [l EXCEPT !.resets = @ - 1] = [l EXCEPT !.resets = n]
    BY DEF Purse
  <2> HIDE DEF n
  <2> QED BY <1>1, <2>1, <2>2
<1> QED BY <1>2, <1>3, <1>4, <1>5

\* A local write.
Wrote(d) == \E tick \in Nat, op \in Ops :
    /\ tick > clock[d] /\ clock'[d] = tick /\ op.hlc = Hlc(tick, d) /\ \A f \in Fields : op.clk[f] = op.hlc
    /\ doc'[d].auth = doc[d].auth /\ doc'[d].cursor = doc[d].cursor
    /\ doc'[d].pending = Append(doc[d].pending, [id |-> op.hlc, op |-> op, inFlight |-> FALSE])
    /\ op.op = "update" => LiveRow(Overlay(doc[d]))

LEMMA WriteStep ==
    ASSUME LinkInv, NEW d \in Devices, NEW kind \in {"upsert", "update", "delete"},
           NEW set \in [Fields -> {"keep", "value", "null"}], Write(d, kind, set),
           kind = "update" => LiveRow(Overlay(doc[d]))
    PROVE  /\ LinkInv' /\ Others(d) /\ Wrote(d)
           /\ UNCHANGED <<disk, conn, up, down, ready, room, wiped, acked, merged, rejoined>>
           /\ left'.resets = left.resets
<1>0. RegShape /\ Link(d)
  BY DEF LinkInv
<1>a. doc[d] \in Docs /\ clock[d] \in Nat
  BY <1>0, AtDevice
<1>1. PICK tick \in (clock[d] + 1)..MaxTick :
         /\ clock' = [clock EXCEPT ![d] = tick]
         /\ doc' = [doc EXCEPT ![d] = Enqueue(@, Hlc(tick, d), WriteOp(kind, set, Hlc(tick, d)))]
  BY DEF Write
<1>2. tick \in Nat /\ tick > clock[d]
  BY <1>a, BoundsAssumption
<1> DEFINE h == Hlc(tick, d)
           op == WriteOp(kind, set, h)
           rd == Enqueue(doc[d], h, op)
<1>3. h \in Nat
  BY <1>2, HlcNat
<1> HIDE DEF h
<1>4. op \in Ops /\ op.op = kind /\ op.hlc = h /\ \A f \in Fields : op.clk[f] = h
  BY <1>3 DEF WriteOp, Ops
<1> HIDE DEF op
<1>5. /\ rd \in Docs /\ rd.auth = doc[d].auth /\ rd.cursor = doc[d].cursor
      /\ rd.pending = Append(doc[d].pending, [id |-> h, op |-> op, inFlight |-> FALSE])
  BY <1>3, <1>4, <1>a, EnqueueDoc
<1>6. doc' = [doc EXCEPT ![d] = rd] /\ clock' = [clock EXCEPT ![d] = tick]
  BY <1>1 DEF h, op
<1> HIDE DEF rd
<1>7. /\ doc' \in [Devices -> Docs] /\ clock' \in [Devices -> Nat] /\ doc'[d] = rd /\ clock'[d] = tick
      /\ \A e \in Devices \ {d} : doc'[e] = doc[e] /\ clock'[e] = clock[e]
  BY <1>0, <1>2, <1>5, <1>6 DEF RegShape
<1>8. /\ UNCHANGED <<disk, conn, up, down, ready, room, wiped, acked, merged, rejoined>>
      /\ left' = [left EXCEPT !.writes = @ - 1] /\ left.writes > 0
  BY DEF Write
<1>9. left' \in Purse /\ left'.resets = left.resets
  BY <1>0, <1>8, Spent DEF RegShape
<1>10. RegShape'
  BY <1>0, <1>7, <1>8, <1>9 DEF RegShape, Tidy
<1>11. Others(d)
  BY <1>7, <1>8 DEF Others
<1>12. Link(d)'
  BY <1>0, <1>5, <1>7, <1>8 DEF Link
<1>13. Wrote(d)
  <2>1. op.hlc = Hlc(tick, d) /\ \A f \in Fields : op.clk[f] = op.hlc
    BY <1>4 DEF h
  <2>2. doc'[d].pending = Append(doc[d].pending, [id |-> op.hlc, op |-> op, inFlight |-> FALSE])
    BY <1>4, <1>5, <1>7
  <2>3. op.op = "update" => LiveRow(Overlay(doc[d]))
    BY <1>4
  <2> QED BY <1>2, <1>4, <1>5, <1>7, <2>1, <2>2, <2>3 DEF Wrote
<1> QED BY <1>8, <1>9, <1>10, <1>11, <1>12, <1>13, LinkOthers

LEMMA SaveStep ==
    ASSUME LinkInv, NEW d \in Devices, SaveSnapshot(d)
    PROVE  /\ LinkInv' /\ Others(d) /\ disk'[d] = doc[d]
           /\ UNCHANGED <<doc, clock, conn, up, down, ready, room, left, wiped, acked, merged, rejoined>>
<1>0. RegShape /\ Link(d)
  BY DEF LinkInv
<1>1. /\ UNCHANGED <<doc, clock, conn, up, down, ready, room, left, wiped, acked, merged, rejoined>>
      /\ disk' = [disk EXCEPT ![d] = doc[d]]
  BY DEF SaveSnapshot
<1>2. disk' \in [Devices -> Docs] /\ disk'[d] = doc[d] /\ \A e \in Devices \ {d} : disk'[e] = disk[e]
  BY <1>0, <1>1 DEF RegShape
<1>3. RegShape'
  BY <1>0, <1>1, <1>2 DEF RegShape, Tidy
<1>4. Others(d) /\ Link(d)'
  BY <1>0, <1>1, <1>2 DEF Others, Link
<1> QED BY <1>1, <1>2, <1>3, <1>4, LinkOthers

LEMMA ConnectStep ==
    ASSUME LinkInv, NEW d \in Devices, Connect(d)
    PROVE  /\ LinkInv' /\ Others(d) /\ conn[d] = "down" /\ conn'[d] = "hello"
           /\ Len(up'[d]) = 1 /\ up'[d][1].t = "hello"
           /\ UNCHANGED <<doc, clock, disk, down, ready, room, left, wiped, acked, merged, rejoined>>
<1>0. RegShape /\ Link(d) /\ doc[d] \in Docs
  BY AtDevice DEF LinkInv
<1> DEFINE fr == [t |-> "hello",
                  none |-> doc[d].fresh /\ doc[d].cursor = 0 /\ doc[d].pending = <<>>,
                  cursor |-> doc[d].cursor]
<1>1. /\ UNCHANGED <<doc, clock, disk, down, ready, room, left, wiped, acked, merged, rejoined>>
      /\ conn[d] = "down" /\ conn' = [conn EXCEPT ![d] = "hello"] /\ up' = [up EXCEPT ![d] = <<fr>>]
  BY DEF Connect
<1>2. fr \in Ups /\ fr.t = "hello" /\ fr.cursor = doc[d].cursor
  BY <1>0, DocFields DEF Ups, Hellos
<1> HIDE DEF fr
<1>3. /\ up' \in [Devices -> Seq(Ups)] /\ conn' \in [Devices -> {"down", "hello", "open"}]
      /\ up'[d] = <<fr>> /\ conn'[d] = "hello"
      /\ \A e \in Devices \ {d} : up'[e] = up[e] /\ conn'[e] = conn[e]
  BY <1>0, <1>1, <1>2 DEF RegShape
<1>4. RegShape'
  BY <1>0, <1>1, <1>3 DEF RegShape, Tidy
<1>5. Others(d)
  BY <1>1, <1>3 DEF Others
<1>6. Len(up'[d]) = 1 /\ up'[d][1] = fr
  BY <1>3
<1>7. Link(d)'
  BY <1>0, <1>1, <1>2, <1>3, <1>6 DEF Link
<1> QED BY <1>1, <1>2, <1>3, <1>4, <1>5, <1>6, <1>7, LinkOthers

LEMMA Popped ==
    ASSUME NEW S, NEW s \in Seq(S), s # <<>>
    PROVE  /\ Head(s) = s[1] /\ s[1] \in S /\ Tail(s) \in Seq(S)
           /\ Len(s) \in Nat /\ Len(s) >= 1 /\ Len(Tail(s)) = Len(s) - 1
           /\ \A i \in 1..Len(Tail(s)) : i + 1 \in 2..Len(s) /\ i + 1 \in 1..Len(s) /\ Tail(s)[i] = s[i + 1]
OBVIOUS

\* The state frame is read: the replica takes it over, seeds if it must, and pushes.
StateRead(d) ==
    /\ conn[d] = "hello" /\ ready[d] /\ conn'[d] = "open"
    /\ down[d] # <<>> /\ down[d][1].t = "state" /\ down'[d] = Tail(down[d])
    /\ \E rd \in Docs :
         /\ rd.cursor = down[d][1].seq
         /\ rd.auth = IF \/ down[d][1].full /\ ~(down[d][1].seq < doc[d].cursor)
                         \/ down[d][1].row.here
                        THEN down[d][1].row ELSE doc[d].auth
         /\ \/ rd.pending = doc[d].pending
            \/ /\ doc[d].auth.here /\ down[d][1].full
               /\ down[d][1].seq < doc[d].cursor \/ ~down[d][1].row.here
         /\ doc'[d].auth = rd.auth /\ doc'[d].cursor = rd.cursor /\ SameWrites(rd, doc'[d])
         /\ up'[d] = PushFrames(rd)
    /\ \A i \in 1..Len(doc'[d].pending) : doc'[d].pending[i].inFlight

LEMMA StateStep ==
    ASSUME LinkInv, NEW d \in Devices, RecvState(d)
    PROVE  /\ LinkInv' /\ Others(d) /\ StateRead(d) /\ clock'[d] >= clock[d]
           /\ UNCHANGED <<disk, ready, room, left, wiped, acked, merged, rejoined>>
<1>0. RegShape /\ Link(d) /\ doc[d] \in Docs /\ clock[d] \in Nat /\ down[d] \in Seq(Downs) /\ up[d] \in Seq(Ups)
  BY AtDevice DEF LinkInv
<1> DEFINE fr == down[d][1]
           h  == Hlc(clock[d] + 1, d)
           rd == ApplyState(doc[d], fr, h)
           re == TakePushable(rd)
           q  == PushFrames(rd)
           c  == IF Len(rd.pending) > Len(doc[d].pending) THEN clock[d] + 1 ELSE clock[d]
<1>1. conn[d] = "hello" /\ ready[d] /\ down[d] # <<>> /\ fr.t = "state"
  BY <1>0 DEF RecvState, Link
<1>2. fr = Head(down[d]) /\ fr \in Downs /\ Tail(down[d]) \in Seq(Downs)
  BY <1>0, <1>1, Popped
<1>3. h \in Nat
  BY <1>0, HlcNat
<1>4. /\ doc' = [doc EXCEPT ![d] = re] /\ clock' = [clock EXCEPT ![d] = c] /\ up' = [up EXCEPT ![d] = q]
      /\ down' = [down EXCEPT ![d] = Tail(down[d])] /\ conn' = [conn EXCEPT ![d] = "open"]
      /\ UNCHANGED <<disk, ready, room, left, wiped, acked, merged, rejoined>>
  BY <1>0, <1>2 DEF RecvState, RegShape
<1> HIDE DEF h
<1>5. /\ rd \in Docs /\ rd.cursor = fr.seq
      /\ rd.auth = IF (fr.full /\ ~(fr.seq < doc[d].cursor)) \/ fr.row.here THEN fr.row ELSE doc[d].auth
      /\ \/ rd.pending = doc[d].pending
         \/ /\ doc[d].auth.here /\ fr.full /\ (fr.seq < doc[d].cursor \/ ~fr.row.here)
            /\ rd.pending = Append(doc[d].pending, [id |-> h, op |-> SeedOp(doc[d].auth), inFlight |-> FALSE])
  BY <1>0, <1>1, <1>2, <1>3, StateDoc
<1> HIDE DEF rd
<1>6. /\ re \in Docs /\ re.auth = rd.auth /\ re.cursor = rd.cursor /\ SameWrites(rd, re)
      /\ \A i \in 1..Len(re.pending) : re.pending[i].inFlight
  BY <1>5, TakeDoc
<1>7. q \in Seq(Pushes)
  BY <1>5, PushDoc
<1>8. c \in Nat /\ c >= clock[d]
  BY <1>0
<1>9. q \in Seq(Ups) /\ Len(q) \in Nat /\ \A i \in 1..Len(q) : q[i].t = "push"
  <2>1. \A i \in 1..Len(q) : q[i] \in Pushes
    BY <1>7
  <2>2. \A x \in Pushes : x \in Ups /\ x.t = "push"
    BY DEF Pushes, Ups
  <2> HIDE DEF q
  <2> QED BY <1>7, <2>1, <2>2
<1>q. q = PushFrames(rd)
  OBVIOUS
<1> HIDE DEF re, c, q
<1>10. /\ doc' \in [Devices -> Docs] /\ clock' \in [Devices -> Nat] /\ up' \in [Devices -> Seq(Ups)]
       /\ down' \in [Devices -> Seq(Downs)] /\ conn' \in [Devices -> {"down", "hello", "open"}]
  BY <1>0, <1>2, <1>4, <1>6, <1>8, <1>9 DEF RegShape
<1>11. /\ doc'[d] = re /\ clock'[d] = c /\ up'[d] = q /\ down'[d] = Tail(down[d]) /\ conn'[d] = "open"
       /\ \A e \in Devices \ {d} : /\ doc'[e] = doc[e] /\ clock'[e] = clock[e] /\ up'[e] = up[e]
                                   /\ down'[e] = down[e] /\ conn'[e] = conn[e]
  BY <1>0, <1>4 DEF RegShape
<1>12. RegShape'
  BY <1>0, <1>4, <1>10 DEF RegShape, Tidy
<1>13. Others(d)
  BY <1>4, <1>11 DEF Others
<1>14. Link(d)'
  <2>1. \A i \in 1..Len(down'[d]) : down'[d][i].t # "state"
    BY <1>0, <1>1, <1>11, Popped DEF Link
  <2>2. \A i \in 1..Len(up'[d]) : up'[d][i].t = "push"
    BY <1>9, <1>11
  <2> QED BY <1>1, <1>4, <1>11, <2>1, <2>2 DEF Link
<1>15. StateRead(d)
  <2>1. /\ conn[d] = "hello" /\ ready[d] /\ conn'[d] = "open"
        /\ down[d] # <<>> /\ down[d][1].t = "state" /\ down'[d] = Tail(down[d])
    BY <1>1, <1>11
  <2>2. up'[d] = PushFrames(rd)
    BY <1>11, <1>q
  <2> QED BY <1>5, <1>6, <1>11, <2>1, <2>2 DEF StateRead
<1> QED BY <1>4, <1>8, <1>11, <1>12, <1>13, <1>14, <1>15, LinkOthers

\* A rows or ack frame is read: what it does to the replica, the ack's retired batches apart.
FrameRead(d) ==
    /\ conn[d] = "open" /\ down[d] # <<>> /\ down[d][1].t \in {"rows", "ack"} /\ down'[d] = Tail(down[d])
    /\ doc'[d].auth = (IF down[d][1].t = "rows" /\ down[d][1].row.here THEN down[d][1].row ELSE doc[d].auth)
    /\ doc'[d].cursor = (IF doc[d].cursor >= down[d][1].seq THEN doc[d].cursor ELSE down[d][1].seq)
    /\ \A i \in 1..Len(doc'[d].pending) : \E j \in 1..Len(doc[d].pending) : doc'[d].pending[i] = doc[d].pending[j]
    /\ down[d][1].t = "rows" => doc'[d].pending = doc[d].pending
    /\ down[d][1].t = "ack" => doc'[d].pending = Retained(doc[d].pending, down[d][1].id)

LEMMA FrameStep ==
    ASSUME LinkInv, NEW d \in Devices, RecvRows(d) \/ RecvAck(d)
    PROVE  /\ LinkInv' /\ Others(d) /\ FrameRead(d)
           /\ UNCHANGED <<clock, disk, conn, up, ready, room, left, wiped, merged, rejoined>>
           /\ IF down[d][1].t = "rows" THEN acked' = acked
              ELSE \A op \in acked' \ acked : \E i \in 1..Len(doc[d].pending) :
                      op = doc[d].pending[i].op /\ doc[d].pending[i].id = down[d][1].id
<1>0. RegShape /\ Link(d) /\ doc[d] \in Docs /\ down[d] \in Seq(Downs)
  BY AtDevice DEF LinkInv
<1> DEFINE fr == down[d][1]
<1>1. /\ conn[d] = "open" /\ down[d] # <<>> /\ down' = [down EXCEPT ![d] = Tail(down[d])]
      /\ UNCHANGED <<clock, disk, conn, up, ready, room, left, wiped, merged, rejoined>>
  BY <1>0 DEF RecvRows, RecvAck, RegShape
<1>2. fr = Head(down[d]) /\ fr \in Downs /\ Tail(down[d]) \in Seq(Downs)
  BY <1>0, <1>1, Popped
<1>3. PICK rd \in Docs :
        /\ doc' = [doc EXCEPT ![d] = rd] /\ fr.t \in {"rows", "ack"}
        /\ rd.auth = (IF fr.t = "rows" /\ fr.row.here THEN fr.row ELSE doc[d].auth)
        /\ rd.cursor = (IF doc[d].cursor >= fr.seq THEN doc[d].cursor ELSE fr.seq)
        /\ \A i \in 1..Len(rd.pending) : \E j \in 1..Len(doc[d].pending) : rd.pending[i] = doc[d].pending[j]
        /\ fr.t = "rows" => rd.pending = doc[d].pending
        /\ fr.t = "ack" => rd.pending = Retained(doc[d].pending, fr.id)
  <2>1. CASE RecvRows(d)
    <3> DEFINE rd == ApplyRows(doc[d], fr)
    <3>1. fr.t = "rows" /\ doc' = [doc EXCEPT ![d] = rd]
      BY <1>0, <1>2, <2>1 DEF RecvRows, RegShape
    <3>2. /\ rd \in Docs /\ rd.auth = (IF fr.row.here THEN fr.row ELSE doc[d].auth)
          /\ rd.cursor = (IF doc[d].cursor >= fr.seq THEN doc[d].cursor ELSE fr.seq)
          /\ rd.pending = doc[d].pending
      BY <1>0, <1>2, <3>1, RowsDoc
    <3> HIDE DEF rd
    <3> QED BY <3>1, <3>2
  <2>2. CASE RecvAck(d)
    <3> DEFINE rd == AckBatch(doc[d], fr)
    <3>1. fr.t = "ack" /\ doc' = [doc EXCEPT ![d] = rd]
      BY <1>0, <1>2, <2>2 DEF RecvAck, RegShape
    <3>2. /\ rd \in Docs /\ rd.auth = doc[d].auth
          /\ rd.cursor = (IF doc[d].cursor >= fr.seq THEN doc[d].cursor ELSE fr.seq)
          /\ \A i \in 1..Len(rd.pending) : \E j \in 1..Len(doc[d].pending) : rd.pending[i] = doc[d].pending[j]
          /\ rd.pending = Retained(doc[d].pending, fr.id)
      BY <1>0, <1>2, <3>1, AckDoc
    <3> HIDE DEF rd
    <3> QED BY <3>1, <3>2
  <2> QED BY <2>1, <2>2
<1>4. /\ doc' \in [Devices -> Docs] /\ down' \in [Devices -> Seq(Downs)]
      /\ doc'[d] = rd /\ down'[d] = Tail(down[d])
      /\ \A e \in Devices \ {d} : doc'[e] = doc[e] /\ down'[e] = down[e]
  BY <1>0, <1>1, <1>2, <1>3 DEF RegShape
<1>5. RegShape'
  BY <1>0, <1>1, <1>4 DEF RegShape, Tidy
<1>6. Others(d)
  BY <1>1, <1>4 DEF Others
<1>7. FrameRead(d)
  BY <1>1, <1>3, <1>4 DEF FrameRead
<1>8. Link(d)'
  <2>1. \A i \in 1..Len(down'[d]) : down'[d][i].t # "state"
    BY <1>0, <1>1, <1>4, Popped DEF Link
  <2> QED BY <1>0, <1>1, <2>1 DEF Link
<1>9. IF fr.t = "rows" THEN acked' = acked
      ELSE \A op \in acked' \ acked : \E i \in 1..Len(doc[d].pending) :
              op = doc[d].pending[i].op /\ doc[d].pending[i].id = fr.id
  <2>1. CASE RecvRows(d)
    BY <1>2, <2>1 DEF RecvRows
  <2>2. CASE RecvAck(d)
    <3>1. acked' = acked \cup {b.op : b \in {b \in ToSet(doc[d].pending) : b.id = fr.id}} /\ fr.t = "ack"
      BY <1>2, <2>2 DEF RecvAck
    <3>2. \A b \in ToSet(doc[d].pending) : \E i \in 1..Len(doc[d].pending) : b = doc[d].pending[i]
      BY <1>0, DocFields DEF ToSet
    <3> QED BY <3>1, <3>2
  <2> QED BY <2>1, <2>2
<1> QED BY <1>1, <1>5, <1>6, <1>7, <1>8, <1>9, LinkOthers

LEMMA Joined ==
    ASSUME NEW S, NEW s \in Seq(S), NEW r \in Seq(S)
    PROVE  /\ s \o r \in Seq(S) /\ Len(s \o r) = Len(s) + Len(r)
           /\ \A i \in 1..Len(s \o r) : \/ i \in 1..Len(s) /\ (s \o r)[i] = s[i]
                                        \/ \E j \in 1..Len(r) : (s \o r)[i] = r[j]
           /\ s # <<>> => s \o r # <<>> /\ (s \o r)[1] = s[1]
           /\ s = <<>> => s \o r = r
<1>1. s \o r \in Seq(S) /\ Len(s \o r) = Len(s) + Len(r) /\ Len(s) \in Nat /\ Len(r) \in Nat
  OBVIOUS
<1>2. ASSUME NEW i \in 1..Len(s \o r)
      PROVE  \/ i \in 1..Len(s) /\ (s \o r)[i] = s[i]
             \/ \E j \in 1..Len(r) : (s \o r)[i] = r[j]
  <2>1. CASE i <= Len(s)
    BY <1>1, <2>1
  <2>2. CASE ~(i <= Len(s))
    <3>1. i - Len(s) \in 1..Len(r)
      BY <1>1, <2>2
    <3>2. (s \o r)[i] = r[i - Len(s)]
      BY <1>1, <2>2
    <3> QED BY <3>1, <3>2
  <2> QED BY <2>1, <2>2
<1>3. s # <<>> => s \o r # <<>> /\ (s \o r)[1] = s[1]
  <2>1. s # <<>> => Len(s) >= 1
    BY <1>1
  <2>2. s # <<>> => (s \o r)[1] = s[1]
    BY <1>1, <2>1
  <2>3. s \o r = <<>> => Len(s \o r) = 0
    OBVIOUS
  <2> QED BY <1>1, <2>1, <2>2, <2>3
<1>4. s = <<>> => s \o r = r
  OBVIOUS
<1> QED BY <1>1, <1>2, <1>3, <1>4

\* What is pending and not in flight is pushed.
Pushed(d) ==
    /\ conn[d] = "open" /\ up'[d] = up[d] \o PushFrames(doc[d])
    /\ doc'[d].auth = doc[d].auth /\ doc'[d].cursor = doc[d].cursor /\ SameWrites(doc[d], doc'[d])
    /\ \A i \in 1..Len(doc'[d].pending) : doc'[d].pending[i].inFlight

LEMMA PushStep ==
    ASSUME LinkInv, NEW d \in Devices, PushPending(d)
    PROVE  /\ LinkInv' /\ Others(d) /\ Pushed(d)
           /\ UNCHANGED <<clock, disk, conn, down, ready, room, left, wiped, acked, merged, rejoined>>
<1>0. RegShape /\ Link(d) /\ doc[d] \in Docs /\ up[d] \in Seq(Ups)
  BY AtDevice DEF LinkInv
<1> DEFINE q  == PushFrames(doc[d])
           re == TakePushable(doc[d])
           u  == up[d] \o q
<1>1. /\ conn[d] = "open" /\ up' = [up EXCEPT ![d] = u] /\ doc' = [doc EXCEPT ![d] = re]
      /\ UNCHANGED <<clock, disk, conn, down, ready, room, left, wiped, acked, merged, rejoined>>
  BY <1>0 DEF PushPending, RegShape
<1>2. /\ re \in Docs /\ re.auth = doc[d].auth /\ re.cursor = doc[d].cursor /\ SameWrites(doc[d], re)
      /\ \A i \in 1..Len(re.pending) : re.pending[i].inFlight
  BY <1>0, TakeDoc
<1>3. q \in Seq(Pushes)
  BY <1>0, PushDoc
<1>4. q \in Seq(Ups) /\ \A i \in 1..Len(q) : q[i].t = "push"
  <2>1. \A i \in 1..Len(q) : q[i] \in Pushes
    BY <1>3
  <2>2. \A x \in Pushes : x \in Ups /\ x.t = "push"
    BY DEF Pushes, Ups
  <2> HIDE DEF q
  <2> QED BY <1>3, <2>1, <2>2
<1> HIDE DEF q, re
<1>5. u \in Seq(Ups) /\ \A i \in 1..Len(u) : u[i].t = "push"
  BY <1>0, <1>1, <1>4, Joined DEF Link
<1>6. u = up[d] \o PushFrames(doc[d])
  BY DEF q
<1> HIDE DEF u
<1>7. /\ doc' \in [Devices -> Docs] /\ up' \in [Devices -> Seq(Ups)] /\ doc'[d] = re /\ up'[d] = u
      /\ \A e \in Devices \ {d} : doc'[e] = doc[e] /\ up'[e] = up[e]
  BY <1>0, <1>1, <1>2, <1>5 DEF RegShape
<1>8. RegShape'
  BY <1>0, <1>1, <1>7 DEF RegShape, Tidy
<1>9. Others(d) /\ Pushed(d)
  BY <1>1, <1>2, <1>6, <1>7 DEF Others, Pushed
<1>10. Link(d)'
  BY <1>0, <1>1, <1>5, <1>7 DEF Link
<1> QED BY <1>1, <1>8, <1>9, <1>10, LinkOthers

\* A lost connection, or a crash: the replica is the one at hand or the one on disk.
Lost(d) ==
    /\ conn'[d] = "down" /\ up'[d] = <<>> /\ down'[d] = <<>> /\ ~ready'[d]
    /\ \E rd \in {doc[d], disk[d]} :
         /\ doc'[d].auth = rd.auth /\ doc'[d].cursor = rd.cursor /\ SameWrites(rd, doc'[d])
    /\ \A i \in 1..Len(doc'[d].pending) : ~doc'[d].pending[i].inFlight
    /\ disk'[d].auth = disk[d].auth /\ disk'[d].cursor = disk[d].cursor /\ SameWrites(disk[d], disk'[d])

LEMMA SameSelf == ASSUME NEW rd PROVE SameWrites(rd, rd)
BY DEF SameWrites

LEMMA LossStep ==
    ASSUME LinkInv, NEW d \in Devices, Drop(d) \/ Crash(d)
    PROVE  /\ LinkInv' /\ Others(d) /\ Lost(d) /\ left'.resets = left.resets
           /\ UNCHANGED <<clock, room, wiped, acked, merged, rejoined>>
<1>0. RegShape /\ doc[d] \in Docs /\ disk[d] \in Docs
  BY AtDevice DEF LinkInv
<1>1. PICK rd \in Docs, re \in Docs :
        /\ doc' = [doc EXCEPT ![d] = rd] /\ disk' = [disk EXCEPT ![d] = re]
        /\ \E r \in {doc[d], disk[d]} : rd.auth = r.auth /\ rd.cursor = r.cursor /\ SameWrites(r, rd)
        /\ \A i \in 1..Len(rd.pending) : rd.pending[i].inFlight = FALSE
        /\ re.auth = disk[d].auth /\ re.cursor = disk[d].cursor /\ SameWrites(disk[d], re)
  <2>1. CASE Drop(d)
    <3> DEFINE rd == MarkDisconnected(doc[d])
    <3>1. doc' = [doc EXCEPT ![d] = rd] /\ disk' = disk
      BY <2>1 DEF Drop
    <3>2. disk' = [disk EXCEPT ![d] = disk[d]]
      BY <1>0, <3>1 DEF RegShape
    <3>3. /\ rd \in Docs /\ rd.auth = doc[d].auth /\ rd.cursor = doc[d].cursor /\ SameWrites(doc[d], rd)
          /\ \A i \in 1..Len(rd.pending) : rd.pending[i].inFlight = FALSE
      BY <1>0, MarkDoc
    <3> HIDE DEF rd
    <3> QED BY <1>0, <3>1, <3>2, <3>3, SameSelf
  <2>2. CASE Crash(d)
    <3> DEFINE rd == FromBytes(disk[d])
    <3>1. doc' = [doc EXCEPT ![d] = rd] /\ disk' = [disk EXCEPT ![d] = rd]
      BY <1>0, <2>2 DEF Crash, RegShape
    <3>2. /\ rd \in Docs /\ rd.auth = disk[d].auth /\ rd.cursor = disk[d].cursor /\ SameWrites(disk[d], rd)
          /\ \A i \in 1..Len(rd.pending) : rd.pending[i].inFlight = FALSE
      BY <1>0, LoadDoc
    <3> HIDE DEF rd
    <3> QED BY <3>1, <3>2
  <2> QED BY <2>1, <2>2
<1>2. UNCHANGED <<clock, room, wiped, acked, merged, rejoined>> /\ Closed(d)
  BY DEF Drop, Crash
<1>3. left' \in Purse /\ left'.resets = left.resets
  BY <1>0, Spent DEF Drop, Crash, RegShape
<1>4. /\ conn' \in [Devices -> {"down", "hello", "open"}] /\ ready' \in [Devices -> BOOLEAN]
      /\ up' \in [Devices -> Seq(Ups)] /\ down' \in [Devices -> Seq(Downs)]
      /\ conn'[d] = "down" /\ up'[d] = <<>> /\ down'[d] = <<>> /\ ~ready'[d]
      /\ \A e \in Devices \ {d} : /\ conn'[e] = conn[e] /\ up'[e] = up[e]
                                  /\ down'[e] = down[e] /\ ready'[e] = ready[e]
  BY <1>0, <1>2 DEF Closed, RegShape
<1>5. /\ doc' \in [Devices -> Docs] /\ disk' \in [Devices -> Docs] /\ doc'[d] = rd /\ disk'[d] = re
      /\ \A e \in Devices \ {d} : doc'[e] = doc[e] /\ disk'[e] = disk[e]
  BY <1>0, <1>1 DEF RegShape
<1>6. RegShape'
  BY <1>0, <1>2, <1>3, <1>4, <1>5 DEF RegShape, Tidy
<1>7. Others(d)
  BY <1>2, <1>4, <1>5 DEF Others
<1>8. Lost(d)
  BY <1>1, <1>4, <1>5 DEF Lost
<1>9. Link(d)'
  BY <1>4 DEF Link
<1> QED BY <1>2, <1>3, <1>6, <1>7, <1>8, <1>9, LinkOthers

\* The room answers a hello.
Answered(d) ==
    /\ conn[d] = "hello" /\ ~ready[d] /\ ready'[d] /\ up'[d] = <<>> /\ Len(down'[d]) = 1
    /\ down'[d][1] \in States /\ down'[d][1].seq = room.seq
    /\ \/ down'[d][1].row = room.row
       \/ ~down'[d][1].full /\ down'[d][1].row = NoRow /\ ~(room.row.seq > doc[d].cursor)
    /\ ~down'[d][1].full => (room.row.seq > doc[d].cursor => down'[d][1].row = room.row)

LEMMA HelloStep ==
    ASSUME LinkInv, NEW d \in Devices, ServeHello(d)
    PROVE  /\ LinkInv' /\ Others(d) /\ Answered(d)
           /\ UNCHANGED <<doc, clock, disk, conn, room, left, wiped, acked, merged>>
<1>0. RegShape /\ Link(d) /\ up[d] \in Seq(Ups) /\ doc[d] \in Docs
  BY AtDevice DEF LinkInv
<1> DEFINE fr == up[d][1]
           full  == fr.none \/ fr.cursor < room.gcFloor \/ fr.cursor > room.seq
           sent  == IF full \/ room.row.seq > fr.cursor THEN room.row ELSE NoRow
           st    == [t |-> "state", seq |-> room.seq, full |-> full, row |-> sent]
<1>1. up[d] # <<>> /\ Head(up[d]).t = "hello"
  BY DEF ServeHello
<1>2. fr = Head(up[d]) /\ fr \in Ups /\ fr.t = "hello"
  BY <1>0, <1>1, Popped
<1>3. conn[d] = "hello" /\ ~ready[d] /\ Len(up[d]) = 1 /\ fr.cursor = doc[d].cursor
  <2>1. conn[d] # "down" /\ (conn[d] = "hello" => ~ready[d])
    BY <1>0, <1>1 DEF Link
  <2>2. 1 \in 1..Len(up[d])
    BY <1>0, <1>1, Popped
  <2>3. conn[d] # "open"
    BY <1>0, <1>2, <2>2 DEF Link
  <2>4. conn[d] = "hello"
    BY <1>0, <2>1, <2>3, AtDevice
  <2> QED BY <1>0, <2>1, <2>4 DEF Link
<1>4. Tail(up[d]) = <<>>
  <2>1. Tail(up[d]) \in Seq(Ups) /\ Len(Tail(up[d])) = 0
    BY <1>0, <1>1, <1>3, Popped
  <2> QED BY <2>1, EmptySeq
<1>5. /\ down' = [down EXCEPT ![d] = <<st>>] /\ up' = [up EXCEPT ![d] = Tail(up[d])]
      /\ ready' = [ready EXCEPT ![d] = TRUE]
      /\ UNCHANGED <<doc, clock, disk, conn, room, left, wiped, acked, merged>>
  BY <1>0, <1>2 DEF ServeHello, RegShape
<1>6. room.row \in Rows /\ room.seq \in Nat /\ room.gcFloor \in Nat
  BY <1>0 DEF RegShape
<1>7. fr.none \in BOOLEAN /\ fr.cursor \in Nat
  BY <1>2, UpFields
<1>8. full \in BOOLEAN /\ sent \in Rows
  BY <1>6, <1>7, NoRowShape
<1>9. /\ sent = room.row \/ (~full /\ sent = NoRow /\ ~(room.row.seq > doc[d].cursor))
      /\ ~full => (room.row.seq > doc[d].cursor => sent = room.row)
  BY <1>3
<1> HIDE DEF full, sent
<1>10. st \in States /\ st \in Downs /\ st.t = "state" /\ st.seq = room.seq /\ st.full = full /\ st.row = sent
  BY <1>6, <1>8 DEF States, Downs
<1> HIDE DEF st
<1>11. /\ down' \in [Devices -> Seq(Downs)] /\ up' \in [Devices -> Seq(Ups)] /\ ready' \in [Devices -> BOOLEAN]
       /\ down'[d] = <<st>> /\ up'[d] = <<>> /\ ready'[d] = TRUE
       /\ \A e \in Devices \ {d} : down'[e] = down[e] /\ up'[e] = up[e] /\ ready'[e] = ready[e]
  <2>1. /\ down' \in [Devices -> Seq(Downs)] /\ down'[d] = <<st>>
        /\ \A e \in Devices \ {d} : down'[e] = down[e]
    BY <1>0, <1>5, <1>10 DEF RegShape
  <2>2. up' = [up EXCEPT ![d] = <<>>]
    BY <1>4, <1>5
  <2>3. /\ up' \in [Devices -> Seq(Ups)] /\ up'[d] = <<>>
        /\ \A e \in Devices \ {d} : up'[e] = up[e]
    BY <1>0, <2>2 DEF RegShape
  <2>4. /\ ready' \in [Devices -> BOOLEAN] /\ ready'[d] = TRUE
        /\ \A e \in Devices \ {d} : ready'[e] = ready[e]
    BY <1>0, <1>5 DEF RegShape
  <2> QED BY <2>1, <2>3, <2>4
<1>12. RegShape'
  BY <1>0, <1>5, <1>11 DEF RegShape, Tidy
<1>13. Others(d)
  BY <1>5, <1>11 DEF Others
<1>14. Len(down'[d]) = 1 /\ down'[d][1] = st
  BY <1>11
<1>15. Answered(d)
  BY <1>3, <1>9, <1>10, <1>11, <1>14 DEF Answered
<1>16. Link(d)'
  BY <1>3, <1>5, <1>10, <1>11, <1>14 DEF Link
<1> QED BY <1>5, <1>12, <1>13, <1>15, <1>16, LinkOthers

\* What the room's row takes from the merge: everything but the sequence number.
SameContent(row, next) ==
    row.here = next.here /\ row.deleted = next.deleted /\ row.del = next.del /\ row.clk = next.clk

\* The room merges a push: the row changes and is sent to every ready connection, or
\* nothing changes; the pusher's ack comes last.
Merged(d) ==
    LET fr   == up[d][1]
        next == ApplyOp(room.row, fr.op)
        ack  == [t |-> "ack", id |-> fr.id, seq |-> room'.seq]
        rows == [t |-> "rows", seq |-> room'.seq, row |-> room'.row]
    IN  /\ up[d] # <<>> /\ fr \in Pushes /\ up'[d] = Tail(up[d]) /\ conn[d] = "open" /\ ready[d]
        /\ merged' = merged \cup {fr.op}
        /\ \/ /\ next.changed = FALSE /\ room' = room
              /\ down'[d] = Append(down[d], ack) /\ \A e \in Devices \ {d} : down'[e] = down[e]
           \/ /\ next.changed = TRUE /\ room'.seq = room.seq + 1 /\ room'.row.seq = room.seq + 1
              /\ SameContent(room'.row, next.row) /\ room'.row.here
              /\ down'[d] = Append(Append(down[d], rows), ack)
              /\ \A e \in Devices \ {d} :
                   IF ready[e] THEN down'[e] = Append(down[e], rows) ELSE down'[e] = down[e]

\* The merge keeps rows tidy.
LEMMA MergeShape ==
    ASSUME NEW row \in Rows, NEW op \in Ops, NEW res, res = ApplyOp(row, op)
    PROVE  \/ res.changed = FALSE
           \/ /\ res.changed = TRUE /\ res.row \in Rows /\ res.row.here
              /\ res.row.deleted => \A f \in Fields : res.row.clk[f] = 0
<1>1. CASE op.op = "delete"
  BY <1>1, ApplyDelete
<1>2. CASE op.op # "delete"
  BY <1>2, ApplyWrite DEF Refused, NoneWon, Taken
<1> QED BY <1>1, <1>2

LEMMA Appended ==
    ASSUME NEW S, NEW s \in Seq(S), NEW x \in S
    PROVE  /\ s \o <<x>> = Append(s, x) /\ Append(s, x) \in Seq(S) /\ Append(s, x) # <<>>
           /\ Len(Append(s, x)) = Len(s) + 1 /\ Len(s) \in Nat
           /\ Append(s, x)[Len(s) + 1] = x
           /\ \A i \in 1..Len(s) : Append(s, x)[i] = s[i]
<1>1. s \o <<x>> = Append(s, x)
  OBVIOUS
<1>2. Append(s, x) \in Seq(S) /\ Len(Append(s, x)) = Len(s) + 1 /\ Len(s) \in Nat
  OBVIOUS
<1>3. Append(s, x) # <<>>
  <2>1. Append(s, x) = <<>> => Len(Append(s, x)) = 0
    OBVIOUS
  <2> QED BY <1>2, <2>1
<1>4. Append(s, x)[Len(s) + 1] = x /\ \A i \in 1..Len(s) : Append(s, x)[i] = s[i]
  OBVIOUS
<1> QED BY <1>1, <1>2, <1>3, <1>4

LEMMA MergeStep ==
    ASSUME LinkInv, NEW d \in Devices, ServePush(d)
    PROVE  /\ LinkInv' /\ Merged(d) /\ \A e \in Devices \ {d} : up'[e] = up[e]
           /\ UNCHANGED <<doc, clock, disk, conn, ready, left, wiped, acked, rejoined>>
<1>0. RegShape /\ Link(d) /\ up[d] \in Seq(Ups) /\ doc[d] \in Docs /\ down[d] \in Seq(Downs)
  BY AtDevice DEF LinkInv
<1>a. room.row \in Rows /\ room.seq \in Nat /\ room.gcFloor \in Nat
  BY <1>0 DEF RegShape
<1> DEFINE fr    == up[d][1]
           next  == ApplyOp(room.row, fr.op)
           seq   == IF next.changed THEN room.seq + 1 ELSE room.seq
           nrow  == [next.row EXCEPT !.seq = seq]
           frame == [t |-> "rows", seq |-> seq, row |-> nrow]
           rows  == IF next.changed THEN <<frame>> ELSE <<>>
           ack   == [t |-> "ack", id |-> fr.id, seq |-> seq]
<1>1. up[d] # <<>> /\ Head(up[d]).t = "push"
  BY DEF ServePush
<1>2. fr = Head(up[d]) /\ fr \in Ups /\ fr.t = "push" /\ Tail(up[d]) \in Seq(Ups)
  BY <1>0, <1>1, Popped
<1>3. fr \in Pushes /\ fr.id \in Nat /\ fr.op \in Ops
  BY <1>2, UpFields
<1>4. conn[d] = "open" /\ ready[d]
  <2>1. conn[d] # "down" /\ (conn[d] = "hello" => ~ready[d])
    BY <1>0, <1>1 DEF Link
  <2>2. ~(conn[d] = "hello" /\ ~ready[d])
    BY <1>0, <1>2 DEF Link
  <2> QED BY <1>0, <2>1, <2>2, AtDevice DEF Link
<1>5. /\ room' = IF next.changed THEN [room EXCEPT !.seq = seq, !.row = nrow] ELSE room
      /\ down' = [e \in Devices |-> down[e] \o (IF e = d THEN rows \o <<ack>>
                                                ELSE IF ready[e] THEN rows ELSE <<>>)]
      /\ merged' = merged \cup {fr.op} /\ up' = [up EXCEPT ![d] = Tail(up[d])]
      /\ UNCHANGED <<doc, clock, disk, conn, ready, left, wiped, acked, rejoined>>
  BY <1>0, <1>2 DEF ServePush, RowsThenAck, RegShape
<1>6. /\ up' \in [Devices -> Seq(Ups)] /\ up'[d] = Tail(up[d])
      /\ \A e \in Devices \ {d} : up'[e] = up[e]
  BY <1>0, <1>2, <1>5 DEF RegShape
<1>7. next.changed = FALSE \/ (/\ next.changed = TRUE /\ next.row \in Rows /\ next.row.here
                               /\ next.row.deleted => \A f \in Fields : next.row.clk[f] = 0)
  BY <1>3, <1>a, MergeShape
<1> HIDE DEF next
<1>8. ASSUME NEW e \in Devices PROVE down[e] \in Seq(Downs) /\ Len(down[e]) \in Nat /\ Link(e)
  BY AtDevice DEF LinkInv
<1>9. CASE next.changed = FALSE
  <2>1. seq = room.seq /\ rows = <<>> /\ room' = room
    BY <1>5, <1>9
  <2> HIDE DEF seq, rows
  <2>2. ack \in Downs /\ ack.t = "ack"
    BY <1>3, <1>a, <2>1 DEF Acks, Downs
  <2>3. ack = [t |-> "ack", id |-> fr.id, seq |-> room'.seq]
    BY <2>1
  <2> HIDE DEF ack
  <2>4. down'[d] = Append(down[d], ack)
    <3>1. down'[d] = down[d] \o (<<>> \o <<ack>>)
      BY <1>5, <2>1
    <3>2. <<>> \o <<ack>> = <<ack>>
      OBVIOUS
    <3> QED BY <1>0, <2>2, <3>1, <3>2, Appended
  <2>5. ASSUME NEW e \in Devices \ {d} PROVE down'[e] = down[e]
    <3>1. down'[e] = down[e] \o <<>>
      BY <1>5, <2>1
    <3> QED BY <1>8, <3>1
  <2>6. down' \in [Devices -> Seq(Downs)]
    <3>1. \A e \in Devices : down'[e] \in Seq(Downs)
      <4>1. down'[d] \in Seq(Downs)
        BY <1>0, <2>2, <2>4, Appended
      <4>2. \A e \in Devices \ {d} : down'[e] \in Seq(Downs)
        BY <1>8, <2>5
      <4> QED BY <4>1, <4>2
    <3> QED BY <1>5, <3>1
  <2>7. RegShape'
    BY <1>0, <1>5, <1>6, <2>1, <2>6 DEF RegShape, Tidy
  <2>8. Link(d)'
    <3>1. \A i \in 1..Len(down'[d]) : down'[d][i].t # "state"
      <4> SUFFICES ASSUME NEW i \in 1..Len(down'[d]) PROVE down'[d][i].t # "state"
        OBVIOUS
      <4>1. i \in 1..Len(down[d]) \/ i = Len(down[d]) + 1
        BY <1>0, <2>2, <2>4, Appended
      <4> QED BY <1>0, <1>4, <2>2, <2>4, <4>1, Appended DEF Link
    <3>2. \A i \in 1..Len(up'[d]) : up'[d][i].t = "push"
      BY <1>0, <1>1, <1>4, <1>6, Popped DEF Link
    <3> QED BY <1>4, <1>5, <3>1, <3>2 DEF Link
  <2>9. Others(d)
    BY <1>5, <1>6, <2>5 DEF Others
  <2>10. Merged(d)
    BY <1>1, <1>3, <1>4, <1>5, <1>6, <1>9, <2>1, <2>3, <2>4, <2>5 DEF Merged, next
  <2> QED BY <1>5, <1>6, <2>7, <2>8, <2>9, <2>10, LinkOthers
<1>10. CASE next.changed = TRUE
  <2>1. seq = room.seq + 1 /\ rows = <<frame>> /\ room' = [room EXCEPT !.seq = seq, !.row = nrow] /\ seq \in Nat
    BY <1>5, <1>10, <1>a
  <2> HIDE DEF seq, rows
  <2>2. nrow \in Rows /\ SameContent(nrow, next.row) /\ nrow.here /\ nrow.seq = seq /\ Tidy(nrow)
    <3>1. nrow \in Rows /\ SameContent(nrow, next.row) /\ nrow.seq = seq
      BY <1>7, <1>10, <2>1 DEF Rows, SameContent
    <3> HIDE DEF nrow
    <3> QED BY <1>7, <1>10, <3>1 DEF SameContent, Tidy
  <2> HIDE DEF nrow
  <2>3. /\ room' \in [row : Rows, seq : Nat, gcFloor : Nat] /\ room'.seq = seq /\ room'.row = nrow
    BY <1>0, <2>1, <2>2 DEF RegShape
  <2>4. /\ frame \in Downs /\ frame.t = "rows" /\ frame = [t |-> "rows", seq |-> room'.seq, row |-> room'.row]
        /\ ack \in Downs /\ ack.t = "ack" /\ ack = [t |-> "ack", id |-> fr.id, seq |-> room'.seq]
    BY <1>3, <2>1, <2>2, <2>3 DEF RowFrames, Acks, Downs
  <2> HIDE DEF frame, ack
  <2>5. down'[d] = Append(Append(down[d], frame), ack)
    <3>1. down'[d] = down[d] \o (<<frame>> \o <<ack>>)
      BY <1>5, <2>1
    <3>2. down[d] \o (<<frame>> \o <<ack>>) = (down[d] \o <<frame>>) \o <<ack>>
      <4>1. <<frame>> \in Seq(Downs) /\ <<ack>> \in Seq(Downs)
        BY <2>4
      <4> QED BY <1>0, <4>1, ConcatAssociative
    <3>3. down[d] \o <<frame>> = Append(down[d], frame) /\ Append(down[d], frame) \in Seq(Downs)
      BY <1>0, <2>4, Appended
    <3>4. Append(down[d], frame) \o <<ack>> = Append(Append(down[d], frame), ack)
      BY ONLY <2>4, <3>3, Appended
    <3> QED BY <3>1, <3>2, <3>3, <3>4
  <2>6. ASSUME NEW e \in Devices \ {d}
        PROVE  IF ready[e] THEN down'[e] = Append(down[e], frame) ELSE down'[e] = down[e]
    <3>1. CASE ready[e]
      <4>1. down'[e] = down[e] \o <<frame>>
        BY <1>5, <2>1, <3>1
      <4> QED BY <1>8, <2>4, <3>1, <4>1, Appended
    <3>2. CASE ~ready[e]
      <4>1. down'[e] = down[e] \o <<>>
        BY <1>5, <3>2
      <4> QED BY <1>8, <3>2, <4>1
    <3> QED BY <3>1, <3>2
  <2>7. down' \in [Devices -> Seq(Downs)]
    <3>1. \A e \in Devices : down'[e] \in Seq(Downs)
      <4>1. down'[d] \in Seq(Downs)
        <5>1. Append(down[d], frame) \in Seq(Downs)
          BY <1>0, <2>4, Appended
        <5> QED BY <2>4, <2>5, <5>1, Appended
      <4>2. ASSUME NEW e \in Devices \ {d} PROVE down'[e] \in Seq(Downs)
        <5>1. down[e] \in Seq(Downs)
          BY <1>8
        <5>2. Append(down[e], frame) \in Seq(Downs)
          BY <2>4, <5>1, Appended
        <5> QED BY <2>6, <5>1, <5>2
      <4> QED BY <4>1, <4>2
    <3> QED BY <1>5, <3>1
  <2>8. RegShape'
    BY <1>0, <1>5, <1>6, <2>2, <2>3, <2>7 DEF RegShape, Tidy
  <2>9. Link(d)'
    <3> DEFINE s == Append(down[d], frame)
    <3>0. s \in Seq(Downs) /\ Len(s) = Len(down[d]) + 1 /\ down'[d] = Append(s, ack) /\ Len(down[d]) \in Nat
      BY <1>0, <2>4, <2>5, Appended
    <3>1. \A i \in 1..Len(s) : s[i].t # "state"
      <4> SUFFICES ASSUME NEW i \in 1..Len(s) PROVE s[i].t # "state"
        OBVIOUS
      <4>1. i \in 1..Len(down[d]) \/ i = Len(down[d]) + 1
        BY <3>0
      <4> QED BY <1>0, <1>4, <2>4, <4>1, Appended DEF Link
    <3> HIDE DEF s
    <3>2. \A i \in 1..Len(down'[d]) : down'[d][i].t # "state"
      <4> SUFFICES ASSUME NEW i \in 1..Len(down'[d]) PROVE down'[d][i].t # "state"
        OBVIOUS
      <4>1. i \in 1..Len(s) \/ i = Len(s) + 1
        BY <2>4, <3>0, Appended
      <4> QED BY <2>4, <3>0, <3>1, <4>1, Appended
    <3>3. \A i \in 1..Len(up'[d]) : up'[d][i].t = "push"
      BY <1>0, <1>1, <1>4, <1>6, Popped DEF Link
    <3> QED BY <1>4, <1>5, <3>2, <3>3 DEF Link
  <2>10. ASSUME NEW e \in Devices \ {d} PROVE Link(e)'
    <3>0. /\ Link(e) /\ doc'[e] = doc[e] /\ conn'[e] = conn[e] /\ ready'[e] = ready[e] /\ up'[e] = up[e]
          /\ conn[e] \in {"down", "hello", "open"} /\ down[e] \in Seq(Downs)
      BY <1>0, <1>5, <1>6, <1>8, AtDevice
    <3>1. CASE ~ready[e]
      BY <2>6, <3>0, <3>1 DEF Link
    <3>2. CASE ready[e]
      <4>1. down'[e] = Append(down[e], frame)
        BY <2>6, <3>2
      <4>2. /\ Len(down'[e]) = Len(down[e]) + 1 /\ Len(down[e]) \in Nat /\ down'[e] # <<>>
            /\ down'[e][Len(down[e]) + 1].t # "state"
            /\ \A i \in 1..Len(down[e]) : down'[e][i] = down[e][i]
        BY <2>4, <3>0, <4>1, Appended
      <4>3. CASE conn[e] = "open"
        <5>1. \A i \in 1..Len(down'[e]) : down'[e][i].t # "state"
          <6> SUFFICES ASSUME NEW i \in 1..Len(down'[e]) PROVE down'[e][i].t # "state"
            OBVIOUS
          <6>1. i \in 1..Len(down[e]) \/ i = Len(down[e]) + 1
            BY <4>2
          <6> QED BY <3>0, <4>2, <4>3, <6>1 DEF Link
        <5> QED BY <3>0, <3>2, <4>3, <5>1 DEF Link
      <4>4. CASE conn[e] = "hello"
        <5>0. 1 \in 1..Len(down[e])
          BY <3>0, <3>2, <4>4, Popped DEF Link
        <5>1. \A i \in 2..Len(down'[e]) : down'[e][i].t # "state"
          <6> SUFFICES ASSUME NEW i \in 2..Len(down'[e]) PROVE down'[e][i].t # "state"
            OBVIOUS
          <6>1. (i \in 2..Len(down[e]) /\ i \in 1..Len(down[e])) \/ i = Len(down[e]) + 1
            BY <4>2
          <6> QED BY <3>0, <3>2, <4>2, <4>4, <6>1 DEF Link
        <5>2. down'[e][1].t = "state"
          BY <3>0, <3>2, <4>2, <4>4, <5>0 DEF Link
        <5> QED BY <3>0, <3>2, <4>2, <4>4, <5>1, <5>2 DEF Link
      <4> QED BY <3>0, <3>2, <4>3, <4>4 DEF Link
    <3> QED BY <3>1, <3>2
  <2>11. LinkInv'
    BY ONLY <2>8, <2>9, <2>10 DEF LinkInv
  <2>12. Merged(d)
    <3>1. /\ next = ApplyOp(room.row, up[d][1].op) /\ room'.seq = room.seq + 1 /\ room'.row.seq = room.seq + 1
          /\ SameContent(room'.row, next.row) /\ room'.row.here
      BY <2>1, <2>2, <2>3 DEF next
    <3> QED BY <1>1, <1>3, <1>4, <1>5, <1>6, <1>10, <2>4, <2>5, <2>6, <3>1 DEF Merged
  <2> QED BY <1>5, <1>6, <2>11, <2>12
<1> QED BY <1>7, <1>9, <1>10

\* The tombstone horizon and the wipe.
LEMMA RoomStep ==
    ASSUME LinkInv, RaiseGcFloor \/ Reset
    PROVE  /\ LinkInv' /\ UNCHANGED <<doc, clock, disk, conn, up, down, ready, acked, merged>>
           /\ \/ room'.row = room.row /\ room'.seq = room.seq /\ UNCHANGED <<left, wiped>>
              \/ wiped' = TRUE /\ left'.resets # left.resets
<1>0. RegShape
  BY DEF LinkInv
<1>1. UNCHANGED <<doc, clock, disk, conn, up, down, ready, acked, merged>>
  BY DEF RaiseGcFloor, Reset
<1>2. CASE RaiseGcFloor
  <2>1. /\ room' \in [row : Rows, seq : Nat, gcFloor : Nat] /\ room'.row = room.row /\ room'.seq = room.seq
        /\ UNCHANGED <<left, wiped>>
    BY <1>0, <1>2 DEF RaiseGcFloor, RegShape
  <2>2. RegShape'
    BY <1>0, <1>1, <2>1 DEF RegShape, Tidy
  <2> QED BY <1>1, <2>1, <2>2 DEF LinkInv, Link
<1>3. CASE Reset
  <2>1. /\ room' \in [row : Rows, seq : Nat, gcFloor : Nat] /\ room'.row = NoRow
    BY <1>3, NoRowShape DEF Reset
  <2>2. left' \in Purse /\ left'.resets # left.resets /\ wiped' = TRUE
    BY <1>0, <1>3, Spent DEF Reset, RegShape
  <2>3. RegShape'
    BY <1>0, <1>1, <2>1, <2>2, NoRowShape DEF RegShape, Tidy
  <2> QED BY <1>1, <2>2, <2>3 DEF LinkInv, Link
<1> QED BY <1>2, <1>3

\* The steps of the specification by what they do.
StepWrite(d) == /\ Others(d) /\ Wrote(d) /\ left'.resets = left.resets
                /\ UNCHANGED <<disk, conn, up, down, ready, room, wiped, acked, merged>>
StepSave(d) == /\ Others(d) /\ disk'[d] = doc[d]
               /\ UNCHANGED <<doc, clock, conn, up, down, ready, room, left, wiped, acked, merged>>
StepConnect(d) == /\ Others(d) /\ conn[d] = "down" /\ conn'[d] = "hello"
                  /\ Len(up'[d]) = 1 /\ up'[d][1].t = "hello"
                  /\ UNCHANGED <<doc, clock, disk, down, ready, room, left, wiped, acked, merged>>
StepState(d) == /\ Others(d) /\ StateRead(d) /\ clock'[d] >= clock[d]
                /\ UNCHANGED <<disk, ready, room, left, wiped, acked, merged>>
StepFrame(d) ==
    /\ Others(d) /\ FrameRead(d) /\ UNCHANGED <<clock, disk, conn, up, ready, room, left, wiped, merged>>
    /\ IF down[d][1].t = "rows" THEN acked' = acked
       ELSE \A op \in acked' \ acked : \E i \in 1..Len(doc[d].pending) :
               op = doc[d].pending[i].op /\ doc[d].pending[i].id = down[d][1].id
StepPush(d) == /\ Others(d) /\ Pushed(d)
               /\ UNCHANGED <<clock, disk, conn, down, ready, room, left, wiped, acked, merged>>
StepLoss(d) == /\ Others(d) /\ Lost(d) /\ left'.resets = left.resets
               /\ UNCHANGED <<clock, room, wiped, acked, merged>>
StepHello(d) == /\ Others(d) /\ Answered(d)
                /\ UNCHANGED <<doc, clock, disk, conn, room, left, wiped, acked, merged>>
StepMerge(d) == /\ Merged(d) /\ \A e \in Devices \ {d} : up'[e] = up[e]
                /\ UNCHANGED <<doc, clock, disk, conn, ready, left, wiped, acked>>
StepRoom == /\ UNCHANGED <<doc, clock, disk, conn, up, down, ready, acked, merged>>
            /\ \/ room'.row = room.row /\ room'.seq = room.seq /\ UNCHANGED <<left, wiped>>
               \/ wiped' = TRUE /\ left'.resets # left.resets

LEMMA Steps ==
    ASSUME LinkInv, [Next]_vars
    PROVE  /\ LinkInv'
           /\ \/ \E d \in Devices :
                   \/ StepWrite(d) \/ StepSave(d) \/ StepConnect(d) \/ StepState(d) \/ StepFrame(d)
                   \/ StepPush(d) \/ StepLoss(d) \/ StepHello(d) \/ StepMerge(d)
              \/ StepRoom
<1>1. CASE UNCHANGED vars
  <2>1. UNCHANGED <<doc, clock, disk, conn, up, down, ready, room, left, wiped, acked, merged>>
    BY <1>1 DEF vars
  <2>2. StepRoom
    BY <2>1 DEF StepRoom
  <2>3. LinkInv'
    BY <2>1 DEF LinkInv, Link, RegShape, Tidy
  <2> QED BY <2>2, <2>3
<1>2. CASE RaiseGcFloor \/ Reset
  BY <1>2, RoomStep DEF StepRoom
<1>3. ASSUME NEW d \in Devices, UpsertChat(d) \/ ClaimChat(d) \/ DeleteChat(d) PROVE LinkInv' /\ StepWrite(d)
  <2>1. ASSUME NEW kind \in {"upsert", "delete"}, NEW set \in [Fields -> {"keep", "value", "null"}],
               Write(d, kind, set)
        PROVE  LinkInv' /\ StepWrite(d)
    BY <2>1, WriteStep DEF StepWrite
  <2>2. CASE UpsertChat(d)
    BY <2>1, <2>2 DEF UpsertChat
  <2>3. CASE ClaimChat(d)
    <3>1. Write(d, "upsert", [f \in Fields |-> IF f \in Claimed THEN "value" ELSE "keep"])
      BY <2>3 DEF ClaimChat
    <3>2. [f \in Fields |-> IF f \in Claimed THEN "value" ELSE "keep"] \in [Fields -> {"keep", "value", "null"}]
      OBVIOUS
    <3> QED BY <2>1, <3>1, <3>2
  <2>4. CASE DeleteChat(d)
    BY <2>1, <2>4 DEF DeleteChat, Keep
  <2> QED BY <1>3, <2>2, <2>3, <2>4
<1>4. ASSUME NEW d \in Devices, NEW f \in Fields, NEW v \in {"value", "null"}, UpdateChat(d, f, v)
      PROVE  LinkInv' /\ StepWrite(d)
  <2>1. Write(d, "update", [Keep EXCEPT ![f] = v]) /\ LiveRow(Overlay(doc[d]))
    BY <1>4 DEF UpdateChat
  <2>2. [Keep EXCEPT ![f] = v] \in [Fields -> {"keep", "value", "null"}]
    BY DEF Keep
  <2> QED BY <2>1, <2>2, WriteStep DEF StepWrite
<1>5. ASSUME NEW d \in Devices, SaveSnapshot(d) PROVE LinkInv' /\ StepSave(d)
  BY <1>5, SaveStep DEF StepSave
<1>6. ASSUME NEW d \in Devices, Connect(d) PROVE LinkInv' /\ StepConnect(d)
  BY <1>6, ConnectStep DEF StepConnect
<1>7. ASSUME NEW d \in Devices, RecvState(d) PROVE LinkInv' /\ StepState(d)
  BY <1>7, StateStep DEF StepState
<1>8. ASSUME NEW d \in Devices, RecvRows(d) \/ RecvAck(d) PROVE LinkInv' /\ StepFrame(d)
  BY <1>8, FrameStep DEF StepFrame
<1>9. ASSUME NEW d \in Devices, PushPending(d) PROVE LinkInv' /\ StepPush(d)
  BY <1>9, PushStep DEF StepPush
<1>10. ASSUME NEW d \in Devices, Drop(d) \/ Crash(d) PROVE LinkInv' /\ StepLoss(d)
  BY <1>10, LossStep DEF StepLoss
<1>11. ASSUME NEW d \in Devices, ServeHello(d) PROVE LinkInv' /\ StepHello(d)
  BY <1>11, HelloStep DEF StepHello
<1>12. ASSUME NEW d \in Devices, ServePush(d) PROVE LinkInv' /\ StepMerge(d)
  BY <1>12, MergeStep DEF StepMerge
<1>13. ASSUME NEW d \in Devices, LocalStep(d) \/ SyncStep(d) \/ Drop(d) \/ Crash(d)
       PROVE  /\ LinkInv'
              /\ \/ StepWrite(d) \/ StepSave(d) \/ StepConnect(d) \/ StepState(d) \/ StepFrame(d)
                 \/ StepPush(d) \/ StepLoss(d) \/ StepHello(d) \/ StepMerge(d)
  <2>1. CASE LocalStep(d)
    BY <1>3, <1>4, <1>5, <2>1 DEF LocalStep
  <2>2. CASE SyncStep(d)
    BY <1>6, <1>7, <1>8, <1>9, <1>11, <1>12, <2>2 DEF SyncStep
  <2>3. CASE Drop(d) \/ Crash(d)
    BY <1>10, <2>3
  <2> QED BY <1>13, <2>1, <2>2, <2>3
<1> QED BY <1>1, <1>2, <1>13 DEF Next

LEMMA LinkInit == ASSUME Init PROVE LinkInv
<1>1. room.row = NoRow /\ room \in [row : Rows, seq : Nat, gcFloor : Nat]
  BY NoRowShape DEF Init
<1>2. Tidy(room.row)
  BY <1>1, NoRowShape DEF Tidy
<1>3. left \in Purse
  BY BoundsAssumption DEF Init, Purse
<1>4. RegShape
  <2>1. doc \in [Devices -> Docs] /\ disk \in [Devices -> Docs] /\ clock \in [Devices -> Nat]
    BY NewDocShape DEF Init
  <2>2. up \in [Devices -> Seq(Ups)] /\ down \in [Devices -> Seq(Downs)]
    BY DEF Init
  <2>3. ready \in [Devices -> BOOLEAN] /\ wiped \in BOOLEAN
    BY DEF Init
  <2>4. conn \in [Devices -> {"down", "hello", "open"}]
    BY DEF Init
  <2> QED BY <1>1, <1>2, <1>3, <2>1, <2>2, <2>3, <2>4 DEF RegShape
<1>5. \A d \in Devices : Link(d)
  BY DEF Init, Link
<1> QED BY <1>4, <1>5 DEF LinkInv

-----------------------------------------------------------------------------
(* The room's clock.                                                        *)

\* RoomClockNeverRegresses, for one step.
ClockStep == left'.resets = left.resets =>
    \A c \in Clocks(room.row) : \E e \in Clocks(room.row') : e >= c

LEMMA MergeClock ==
    ASSUME NEW row \in Rows, Tidy(row), NEW op \in Ops, NEW res, res = ApplyOp(row, op), res.changed = TRUE,
           NEW c \in Clocks(row)
    PROVE  res.row.del >= c \/ \E f \in Fields : res.row.clk[f] >= c
<1>0. c \in Nat /\ (c = row.del \/ \E f \in Fields : c = row.clk[f]) /\ row.del \in Nat
  BY RowFields DEF Clocks
<1>1. CASE op.op = "delete"
  <2>1. /\ ~row.here \/ Beats(op, row)
        /\ res.row.del = op.hlc /\ op.hlc \in Nat
    BY <1>1, ApplyDelete, OpFields
  <2>2. CASE ~row.here
    BY <1>0, <2>1, <2>2, NoRowShape DEF Tidy
  <2>3. CASE Beats(op, row)
    BY <1>0, <2>1, <2>3, RowFields DEF Beats
  <2> QED BY <2>1, <2>2, <2>3
<1>2. CASE op.op # "delete"
  <2>1. /\ res.row \in Rows /\ res.row.del = row.del
        /\ \A f \in Fields : res.row.clk[f] >= BaseClock(row, f)
    <3>1. Taken(row, op, res)
      BY <1>2, ApplyWrite DEF Refused, NoneWon
    <3> QED BY <3>1 DEF Taken
  <2>2. CASE c = row.del
    BY <1>0, <2>1, <2>2
  <2>3. CASE \E f \in Fields : c = row.clk[f]
    <3>1. PICK f \in Fields : c = row.clk[f]
      BY <2>3
    <3>2. CASE LiveRow(row)
      BY <2>1, <3>1, <3>2 DEF BaseClock
    <3>3. CASE ~LiveRow(row)
      <4>1. row.clk[f] = 0
        BY <3>3, NoRowShape DEF Tidy, LiveRow
      <4> QED BY <1>0, <2>1, <3>1, <4>1
    <3> QED BY <3>2, <3>3
  <2> QED BY <1>0, <2>2, <2>3
<1> QED BY <1>1, <1>2

LEMMA StepKeepsClock == ASSUME LinkInv, [Next]_vars PROVE ClockStep
<1>0. RegShape /\ room.row \in Rows /\ Tidy(room.row)
  BY DEF LinkInv, RegShape
<1>1. ASSUME room'.row = room.row PROVE ClockStep
  <2>1. room.row' = room.row
    BY <1>1
  <2>2. \A c \in Clocks(room.row) : c \in Nat
    BY <1>0, RowFields DEF Clocks
  <2> QED BY <2>1, <2>2 DEF ClockStep
<1>2. ASSUME NEW d \in Devices, StepMerge(d) PROVE ClockStep
  <2> DEFINE next == ApplyOp(room.row, up[d][1].op)
  <2>0. up[d][1].op \in Ops
    BY <1>2 DEF StepMerge, Merged, Pushes
  <2>1. CASE next.changed = FALSE
    BY <1>1, <1>2, <2>1 DEF StepMerge, Merged
  <2>2. CASE next.changed # FALSE
    <3>1. next.changed = TRUE /\ SameContent(room'.row, next.row)
      BY <1>2, <2>2 DEF StepMerge, Merged
    <3>2. ASSUME NEW c \in Clocks(room.row) PROVE \E e \in Clocks(room.row') : e >= c
      <4>1. next.row.del >= c \/ \E f \in Fields : next.row.clk[f] >= c
        BY <1>0, <2>0, <3>1, MergeClock
      <4> QED BY <3>1, <4>1 DEF SameContent, Clocks
    <3> QED BY <3>2 DEF ClockStep
  <2> QED BY <2>1, <2>2
<1>3. CASE StepRoom
  BY <1>1, <1>3 DEF StepRoom, ClockStep
<1>4. ASSUME NEW d \in Devices,
             \/ StepWrite(d) \/ StepSave(d) \/ StepConnect(d) \/ StepState(d) \/ StepFrame(d)
             \/ StepPush(d) \/ StepLoss(d) \/ StepHello(d)
      PROVE  ClockStep
  <2>1. room' = room
    BY <1>4 DEF StepWrite, StepSave, StepConnect, StepState, StepFrame, StepPush, StepLoss, StepHello
  <2> QED BY <1>1, <2>1
<1> QED BY <1>2, <1>3, <1>4, Steps

LEMMA LinkAlways == Spec => []LinkInv
<1>1. Init => LinkInv
  BY LinkInit
<1>2. LinkInv /\ [Next]_vars => LinkInv'
  BY Steps
<1> QED BY <1>1, <1>2, PTL DEF Spec

\* Whatever is pushed, late, repeated or out of date, the newest clock of the room's
\* row never goes back: the merge of every op (apply_op) leaves a clock at least as
\* new as each one it found, on a delete that drops the field clocks too.
THEOREM RoomClockAdvances == Spec => RoomClockNeverRegresses
<1>1. LinkInv /\ [Next]_vars => [ClockStep]_vars
  BY StepKeepsClock
<1>2. RoomClockNeverRegresses <=> [][ClockStep]_vars
  BY DEF RoomClockNeverRegresses, ClockStep
<1> QED BY <1>1, <1>2, LinkAlways, PTL DEF Spec

-----------------------------------------------------------------------------
(* What is on the way back to a replica leads it to the room's row.          *)

\* The frame replaces the replica's row.
Carries(fr) == fr.t = "rows" \/ (fr.t = "state" /\ (fr.full \/ fr.row.here))

\* A replica at a that reads the first k frames of q is at r.
Leads(a, q, k, r) ==
    \/ a = r /\ \A i \in 1..k : ~Carries(q[i])
    \/ \E i \in 1..k : Carries(q[i]) /\ q[i].row = r /\ \A j \in (i + 1)..k : ~Carries(q[j])

LEMMA LeadsNew ==
    ASSUME NEW q \in Seq(Downs), NEW x \in Downs, NEW a, NEW r, Carries(x), x.row = r
    PROVE  Leads(a, Append(q, x), Len(q) + 1, r)
<1>1. Append(q, x)[Len(q) + 1] = x /\ Len(q) \in Nat
  BY Appended
<1>2. Len(q) + 1 \in 1..(Len(q) + 1) /\ (Len(q) + 1 + 1)..(Len(q) + 1) = {}
  BY <1>1
<1> HIDE DEF Carries
<1> QED BY <1>1, <1>2 DEF Leads

LEMMA LeadsOld ==
    ASSUME NEW q \in Seq(Downs), NEW x \in Downs, NEW a, NEW r, NEW k \in 0..Len(q), Leads(a, q, k, r)
    PROVE  Leads(a, Append(q, x), k, r)
<1>1. \A i \in 1..k : i \in 1..Len(q) /\ Append(q, x)[i] = q[i]
  BY Appended
<1>2. \A i \in 1..k : \A j \in (i + 1)..k : j \in 1..k
  OBVIOUS
<1> DEFINE s == Append(q, x)
<1> HIDE DEF s
<1>3. \A i \in 1..k : s[i] = q[i]
  BY <1>1 DEF s
<1>4. Leads(a, s, k, r)
  BY <1>2, <1>3 DEF Leads
<1> QED BY <1>4 DEF s

LEMMA LeadsPass ==
    ASSUME NEW q \in Seq(Downs), NEW x \in Downs, NEW a, NEW r, ~Carries(x), Leads(a, q, Len(q), r)
    PROVE  Leads(a, Append(q, x), Len(q) + 1, r)
<1> DEFINE s == Append(q, x)
           n == Len(q)
<1>1. n \in Nat /\ s[n + 1] = x /\ \A i \in 1..n : s[i] = q[i]
  BY Appended
<1>2. \A i \in 1..(n + 1) : i \in 1..n \/ i = n + 1
  BY <1>1
<1>3. \A i \in 1..n : i \in 1..(n + 1) /\ \A j \in (i + 1)..(n + 1) : (j \in (i + 1)..n /\ j \in 1..n) \/ j = n + 1
  BY <1>1
<1>4. Leads(a, q, n, r)
  OBVIOUS
<1> HIDE DEF s, n, Carries
<1>5. Leads(a, s, n + 1, r)
  <2>1. CASE a = r /\ \A i \in 1..n : ~Carries(q[i])
    BY <1>1, <1>2, <2>1 DEF Leads
  <2>2. CASE \E i \in 1..n : Carries(q[i]) /\ q[i].row = r /\ \A j \in (i + 1)..n : ~Carries(q[j])
    <3>1. PICK i \in 1..n : Carries(q[i]) /\ q[i].row = r /\ \A j \in (i + 1)..n : ~Carries(q[j])
      BY <2>2
    <3>2. Carries(s[i]) /\ s[i].row = r /\ \A j \in (i + 1)..(n + 1) : ~Carries(s[j])
      BY <1>1, <1>3, <3>1
    <3>3. i \in 1..(n + 1)
      BY <1>3
    <3> QED BY <3>2, <3>3 DEF Leads
  <2> QED BY <1>4, <2>1, <2>2 DEF Leads
<1> QED BY <1>5 DEF s, n

LEMMA LeadsPop ==
    ASSUME NEW q \in Seq(Downs), q # <<>>, NEW a, NEW b, NEW r, NEW k \in 1..Len(q), Leads(a, q, k, r),
           b = IF Carries(q[1]) THEN q[1].row ELSE a
    PROVE  Leads(b, Tail(q), k - 1, r)
<1> DEFINE s == Tail(q)
<1>0. Len(q) \in Nat /\ k \in Nat /\ k - 1 \in Nat /\ 1 \in 1..k
  BY Popped
<1>1. \A i \in 1..(k - 1) : s[i] = q[i + 1] /\ i + 1 \in 1..k
  BY <1>0, Popped
<1>2. \A i \in 2..k : i - 1 \in 1..(k - 1) /\ s[i - 1] = q[i]
  <2> SUFFICES ASSUME NEW i \in 2..k PROVE i - 1 \in 1..(k - 1) /\ s[i - 1] = q[i]
    OBVIOUS
  <2>1. i - 1 \in 1..(k - 1) /\ (i - 1) + 1 = i
    BY <1>0
  <2> QED BY <1>1, <2>1
<1> HIDE DEF s, Carries
<1>3. CASE a = r /\ \A i \in 1..k : ~Carries(q[i])
  BY <1>0, <1>1, <1>3 DEF Leads, s
<1>4. CASE \E i \in 1..k : Carries(q[i]) /\ q[i].row = r /\ \A j \in (i + 1)..k : ~Carries(q[j])
  <2>1. PICK i \in 1..k : Carries(q[i]) /\ q[i].row = r /\ \A j \in (i + 1)..k : ~Carries(q[j])
    BY <1>4
  <2>2. CASE i = 1
    <3>1. b = r
      BY <2>1, <2>2
    <3>2. ASSUME NEW m \in 1..(k - 1) PROVE ~Carries(s[m])
      <4>1. m + 1 \in (i + 1)..k
        BY <1>0, <2>2
      <4> QED BY <1>1, <2>1, <4>1
    <3> QED BY <3>1, <3>2 DEF Leads, s
  <2>3. CASE i # 1
    <3>1. i \in 2..k
      BY <1>0, <2>3
    <3>2. i - 1 \in 1..(k - 1) /\ Carries(s[i - 1]) /\ s[i - 1].row = r
      BY <1>2, <2>1, <3>1
    <3>3. ASSUME NEW m \in ((i - 1) + 1)..(k - 1) PROVE ~Carries(s[m])
      <4>1. m + 1 \in (i + 1)..k /\ m \in 1..(k - 1)
        BY <1>0, <3>1
      <4> QED BY <1>1, <2>1, <4>1
    <3> QED BY <3>2, <3>3 DEF Leads, s
  <2> QED BY <2>2, <2>3
<1> QED BY <1>3, <1>4 DEF Leads

LEMMA LeadsNothing == ASSUME NEW a, NEW q, NEW r PROVE Leads(a, q, 0, r) <=> a = r
<1>1. \A i \in 1..0 : FALSE
  OBVIOUS
<1> QED BY <1>1 DEF Leads

\* The frame at position k of q, on the way to a replica that is at a and read up to c,
\* from a room at row r and sequence number n.
Sent(a, c, q, r, n, k) ==
    /\ q[k].seq <= n /\ q[k].seq >= c /\ \A j \in 1..k : q[j].seq <= q[k].seq
    /\ q[k].seq >= r.seq => Leads(a, q, k, r)
    /\ Carries(q[k]) => (q[k].row.here => r.here)
    /\ q[k].t = "rows" => q[k].row.here

Flows(a, c, q, r, n) ==
    /\ c <= n /\ (a.here => r.here) /\ Leads(a, q, Len(q), r)
    /\ \A k \in 1..Len(q) : Sent(a, c, q, r, n, k)

LEMMA FlowRows ==
    ASSUME NEW q \in Seq(Downs), NEW a, NEW c \in Nat, NEW r \in Rows, NEW n \in Nat, Flows(a, c, q, r, n),
           NEW rr \in Rows, rr.here, rr.seq = n + 1, NEW x, x = [t |-> "rows", seq |-> n + 1, row |-> rr]
    PROVE  Flows(a, c, Append(q, x), rr, n + 1)
<1>0. x \in Downs /\ x.t = "rows" /\ x.seq = n + 1 /\ x.row = rr /\ Carries(x)
  BY DEF Downs, RowFrames, Carries
<1> DEFINE s == Append(q, x)
<1>1. Len(s) = Len(q) + 1 /\ Len(q) \in Nat /\ s[Len(q) + 1] = x /\ \A i \in 1..Len(q) : s[i] = q[i]
  BY <1>0, Appended
<1>2. Leads(a, s, Len(s), rr)
  BY <1>0, <1>1, LeadsNew
<1>3. \A k \in 1..Len(q) : q[k].seq \in Nat
  BY DownFields
<1> HIDE DEF s
<1>4. ASSUME NEW k \in 1..Len(q) PROVE Sent(a, c, s, rr, n + 1, k)
  <2>1. Sent(a, c, q, r, n, k) /\ s[k] = q[k] /\ q[k].seq \in Nat
    BY <1>1, <1>3 DEF Flows
  <2>2. \A j \in 1..k : s[j] = q[j] /\ q[j].seq \in Nat
    BY <1>1, <1>3
  <2>3. ~(s[k].seq >= rr.seq) /\ s[k].seq <= n + 1
    BY <2>1 DEF Sent
  <2> QED BY <2>1, <2>2, <2>3 DEF Sent
<1>5. Sent(a, c, s, rr, n + 1, Len(q) + 1)
  <2>1. \A j \in 1..(Len(q) + 1) : s[j].seq <= n + 1
    <3> SUFFICES ASSUME NEW j \in 1..(Len(q) + 1) PROVE s[j].seq <= n + 1
      OBVIOUS
    <3>1. CASE j \in 1..Len(q)
      BY <1>1, <1>3, <3>1 DEF Flows, Sent
    <3>2. CASE j = Len(q) + 1
      BY <1>0, <1>1, <3>2
    <3> QED BY <1>1, <3>1, <3>2
  <2>2. s[Len(q) + 1] = x /\ c <= n
    BY <1>1 DEF Flows
  <2>3. s[Len(q) + 1].seq >= c
    BY <1>0, <2>2
  <2> QED BY <1>0, <1>1, <1>2, <2>1, <2>2, <2>3 DEF Sent
<1>6. \A k \in 1..Len(s) : Sent(a, c, s, rr, n + 1, k)
  BY <1>1, <1>4, <1>5
<1>7. c <= n + 1
  BY DEF Flows
<1>8. Flows(a, c, s, rr, n + 1)
  BY <1>2, <1>6, <1>7 DEF Flows
<1> QED BY <1>8 DEF s

LEMMA FlowAck ==
    ASSUME NEW q \in Seq(Downs), NEW a, NEW c \in Nat, NEW r \in Rows, NEW n \in Nat, Flows(a, c, q, r, n),
           NEW x \in Downs, x.t = "ack", x.seq = n
    PROVE  Flows(a, c, Append(q, x), r, n)
<1>0. ~Carries(x)
  BY DEF Carries
<1> DEFINE s == Append(q, x)
<1>1. Len(s) = Len(q) + 1 /\ Len(q) \in Nat /\ s[Len(q) + 1] = x /\ \A i \in 1..Len(q) : s[i] = q[i]
  BY Appended
<1>2. Leads(a, s, Len(s), r)
  BY <1>0, <1>1, LeadsPass DEF Flows
<1>3. \A k \in 1..Len(q) : q[k].seq \in Nat
  BY DownFields
<1>a. \A k \in 1..Len(q) : Leads(a, q, k, r) => Leads(a, s, k, r)
  <2> SUFFICES ASSUME NEW k \in 1..Len(q), Leads(a, q, k, r) PROVE Leads(a, s, k, r)
    OBVIOUS
  <2>1. k \in 0..Len(q)
    BY <1>1
  <2> QED BY <2>1, LeadsOld
<1> HIDE DEF s
<1>4. ASSUME NEW k \in 1..Len(q) PROVE Sent(a, c, s, r, n, k)
  <2>1. Sent(a, c, q, r, n, k) /\ s[k] = q[k] /\ q[k].seq \in Nat
    BY <1>1, <1>3 DEF Flows
  <2>2. \A j \in 1..k : s[j] = q[j] /\ q[j].seq \in Nat
    BY <1>1, <1>3
  <2> QED BY <1>a, <2>1, <2>2 DEF Sent
<1>5. Sent(a, c, s, r, n, Len(q) + 1)
  <2>1. \A j \in 1..(Len(q) + 1) : s[j].seq <= n
    <3> SUFFICES ASSUME NEW j \in 1..(Len(q) + 1) PROVE s[j].seq <= n
      OBVIOUS
    <3>1. CASE j \in 1..Len(q)
      BY <1>1, <1>3, <3>1 DEF Flows, Sent
    <3>2. CASE j = Len(q) + 1
      BY <1>1, <3>2
    <3> QED BY <1>1, <3>1, <3>2
  <2>2. s[Len(q) + 1] = x /\ c <= n
    BY <1>1 DEF Flows
  <2> QED BY <1>0, <1>1, <1>2, <2>1, <2>2 DEF Sent
<1>6. \A k \in 1..Len(s) : Sent(a, c, s, r, n, k)
  BY <1>1, <1>4, <1>5
<1>8. Flows(a, c, s, r, n)
  BY <1>2, <1>6 DEF Flows
<1> QED BY <1>8 DEF s

LEMMA FlowPop ==
    ASSUME NEW q \in Seq(Downs), q # <<>>, NEW a, NEW c \in Nat, NEW r \in Rows, NEW n \in Nat,
           Flows(a, c, q, r, n), NEW b, b = IF Carries(q[1]) THEN q[1].row ELSE a
    PROVE  /\ Flows(b, q[1].seq, Tail(q), r, n) /\ q[1].seq >= c /\ q[1].seq <= n
           /\ q[1].seq >= r.seq => b = r
<1> DEFINE s == Tail(q)
<1>0. /\ Len(q) \in Nat /\ Len(q) >= 1 /\ Len(s) = Len(q) - 1 /\ 1 \in 1..Len(q) /\ Len(q) \in 1..Len(q)
      /\ \A i \in 1..Len(s) : i + 1 \in 1..Len(q) /\ s[i] = q[i + 1]
  BY Popped
<1>1. \A k \in 1..Len(q) : q[k].seq \in Nat /\ Sent(a, c, q, r, n, k)
  BY DownFields DEF Flows
<1>2. \A k \in 1..Len(q) : Leads(a, q, k, r) => Leads(b, s, k - 1, r)
  BY LeadsPop
<1> HIDE DEF s
<1>3. q[1].seq >= c /\ q[1].seq <= n /\ (q[1].seq >= r.seq => b = r) /\ (b.here => r.here)
  <2>1. q[1].seq >= c /\ q[1].seq <= n
    BY <1>0, <1>1 DEF Sent
  <2>2. ASSUME q[1].seq >= r.seq PROVE b = r
    <3>1. Leads(a, q, 1, r)
      BY <1>0, <1>1, <2>2 DEF Sent
    <3>2. Leads(b, s, 1 - 1, r)
      BY <1>0, <1>2, <3>1
    <3> QED BY <3>2, LeadsNothing
  <2>3. b.here => r.here
    BY <1>0, <1>1 DEF Sent, Flows
  <2> QED BY <2>1, <2>2, <2>3
<1>4. Leads(b, s, Len(s), r)
  BY <1>0, <1>2 DEF Flows
<1>5. ASSUME NEW k \in 1..Len(s) PROVE Sent(b, q[1].seq, s, r, n, k)
  <2>1. k + 1 \in 1..Len(q) /\ s[k] = q[k + 1] /\ k \in Nat /\ (k + 1) - 1 = k
    BY <1>0
  <2>2. Sent(a, c, q, r, n, k + 1) /\ q[k + 1].seq \in Nat
    BY <1>1, <2>1
  <2>3. q[1].seq <= q[k + 1].seq
    <3>1. 1 \in 1..(k + 1)
      BY <2>1
    <3> QED BY <2>2, <3>1 DEF Sent
  <2>4. ASSUME NEW j \in 1..k PROVE s[j].seq <= s[k].seq
    <3>1. j + 1 \in 1..(k + 1) /\ j \in 1..Len(s)
      BY <1>0, <2>1
    <3>2. s[j] = q[j + 1]
      BY <1>0, <3>1
    <3> QED BY <2>1, <2>2, <3>1, <3>2 DEF Sent
  <2>5. Leads(a, q, k + 1, r) => Leads(b, s, k, r)
    BY <1>2, <2>1
  <2>6. q[1].seq \in Nat
    BY <1>0, <1>1
  <2> QED BY <2>1, <2>2, <2>3, <2>4, <2>5, <2>6 DEF Sent
<1> QED BY <1>3, <1>4, <1>5 DEF Flows, s

\* A replica, in memory or on disk, is not ahead of the room, and one that has read the
\* room's last change holds the room's row.
Held(rd) == /\ rd.cursor <= room.seq /\ (rd.auth.here => room.row.here)
            /\ rd.cursor >= room.row.seq => rd.auth = room.row

\* A connection that said hello is fed everything the replica lacks; the state it
\* waits for has the row if the replica has it.
Fed(d) == ready[d] =>
    /\ Flows(doc[d].auth, doc[d].cursor, down[d], room.row, room.seq)
    /\ conn[d] = "hello" /\ doc[d].auth.here /\ down[d][1].full => down[d][1].row.here

StreamInv == ~wiped => /\ room.row.seq <= room.seq
                       /\ \A d \in Devices : Held(doc[d]) /\ Held(disk[d]) /\ Fed(d)

LEMMA StreamKept ==
    ASSUME StreamInv, ~wiped, room'.row = room.row, room'.seq = room.seq, NEW e \in Devices,
           doc'[e].auth = doc[e].auth, doc'[e].cursor = doc[e].cursor,
           disk'[e].auth = disk[e].auth, disk'[e].cursor = disk[e].cursor,
           ready'[e] = ready[e], conn'[e] = conn[e], down'[e] = down[e]
    PROVE  (Held(doc[e]) /\ Held(disk[e]) /\ Fed(e))'
<1>1. Held(doc[e]) /\ Held(disk[e]) /\ Fed(e)
  BY DEF StreamInv
<1> QED BY <1>1 DEF Held, Fed

LEMMA StreamStep == ASSUME LinkInv, StreamInv, [Next]_vars PROVE StreamInv'
<1> SUFFICES ASSUME ~wiped'
             PROVE  (/\ room.row.seq <= room.seq
                     /\ \A d \in Devices : Held(doc[d]) /\ Held(disk[d]) /\ Fed(d))'
  BY DEF StreamInv
<1>0. RegShape /\ room.row \in Rows /\ room.seq \in Nat /\ room.row.seq \in Nat
  BY RowFields DEF LinkInv, RegShape
<1>1. LinkInv'
  BY Steps
<1>2. ASSUME ~wiped, room'.row = room.row, room'.seq = room.seq, NEW d \in Devices, Others(d),
             (Held(doc[d]) /\ Held(disk[d]) /\ Fed(d))'
      PROVE  (/\ room.row.seq <= room.seq
              /\ \A e \in Devices : Held(doc[e]) /\ Held(disk[e]) /\ Fed(e))'
  <2>1. ASSUME NEW e \in Devices \ {d} PROVE (Held(doc[e]) /\ Held(disk[e]) /\ Fed(e))'
    <3>1. /\ doc'[e] = doc[e] /\ disk'[e] = disk[e] /\ ready'[e] = ready[e] /\ conn'[e] = conn[e]
          /\ down'[e] = down[e]
      BY <1>2 DEF Others
    <3> QED BY <1>2, <3>1, StreamKept
  <2>2. room'.row.seq <= room'.seq
    BY <1>2 DEF StreamInv
  <2> QED BY <1>2, <2>1, <2>2
<1>3. ASSUME NEW d \in Devices PROVE doc[d] \in Docs /\ disk[d] \in Docs /\ down[d] \in Seq(Downs)
                                     /\ doc[d].cursor \in Nat /\ Link(d) /\ conn[d] \in {"down", "hello", "open"}
  BY <1>0, AtDevice, DocFields DEF LinkInv
<1>4. ASSUME NEW d \in Devices, StepWrite(d) \/ StepPush(d)
      PROVE  (/\ room.row.seq <= room.seq
              /\ \A e \in Devices : Held(doc[e]) /\ Held(disk[e]) /\ Fed(e))'
  <2>1. /\ doc'[d].auth = doc[d].auth /\ doc'[d].cursor = doc[d].cursor /\ Others(d)
        /\ UNCHANGED <<disk, ready, conn, down, room, wiped>>
    BY <1>4 DEF StepWrite, Wrote, StepPush, Pushed
  <2>2. ~wiped
    BY <2>1
  <2>3. (Held(doc[d]) /\ Held(disk[d]) /\ Fed(d))'
    BY <2>1, <2>2, StreamKept
  <2> QED BY <1>2, <2>1, <2>2, <2>3
<1>5. ASSUME NEW d \in Devices, StepSave(d)
      PROVE  (/\ room.row.seq <= room.seq
              /\ \A e \in Devices : Held(doc[e]) /\ Held(disk[e]) /\ Fed(e))'
  <2>1. Others(d) /\ disk'[d] = doc[d] /\ UNCHANGED <<doc, conn, down, ready, room, wiped>>
    BY <1>5 DEF StepSave
  <2>2. Held(doc[d]) /\ Fed(d) /\ ~wiped
    BY <2>1 DEF StreamInv
  <2>3. (Held(doc[d]) /\ Held(disk[d]) /\ Fed(d))'
    BY <2>1, <2>2 DEF Held, Fed
  <2> QED BY <1>2, <2>1, <2>2, <2>3
<1>6. ASSUME NEW d \in Devices, StepConnect(d)
      PROVE  (/\ room.row.seq <= room.seq
              /\ \A e \in Devices : Held(doc[e]) /\ Held(disk[e]) /\ Fed(e))'
  <2>1. Others(d) /\ conn[d] = "down" /\ UNCHANGED <<doc, disk, down, ready, room, wiped>>
    BY <1>6 DEF StepConnect
  <2>2. Held(doc[d]) /\ Held(disk[d]) /\ ~wiped /\ ~ready[d]
    BY <1>3, <2>1 DEF StreamInv, Link
  <2>3. (Held(doc[d]) /\ Held(disk[d]) /\ Fed(d))'
    BY <2>1, <2>2 DEF Held, Fed
  <2> QED BY <1>2, <2>1, <2>2, <2>3
<1>7. ASSUME NEW d \in Devices, StepState(d) \/ StepFrame(d)
      PROVE  (/\ room.row.seq <= room.seq
              /\ \A e \in Devices : Held(doc[e]) /\ Held(disk[e]) /\ Fed(e))'
  <2> DEFINE fr == down[d][1]
             b  == IF Carries(fr) THEN fr.row ELSE doc[d].auth
  <2>1. /\ Others(d) /\ ready[d] /\ down[d] # <<>> /\ down'[d] = Tail(down[d]) /\ conn'[d] = "open"
        /\ UNCHANGED <<disk, ready, room, wiped>>
    <3>1. CASE StepState(d)
      BY <3>1 DEF StepState, StateRead
    <3>2. CASE StepFrame(d)
      BY <1>3, <3>2 DEF StepFrame, FrameRead, Link
    <3> QED BY <1>7, <3>1, <3>2
  <2>2. ~wiped /\ Flows(doc[d].auth, doc[d].cursor, down[d], room.row, room.seq) /\ Held(disk[d])
    BY <2>1 DEF StreamInv, Fed
  <2>3. /\ Flows(b, fr.seq, Tail(down[d]), room.row, room.seq) /\ fr.seq >= doc[d].cursor /\ fr.seq <= room.seq
        /\ fr.seq >= room.row.seq => b = room.row
    BY <1>0, <1>3, <2>1, <2>2, FlowPop
  <2>4. 1 \in 1..Len(down[d]) /\ fr \in Downs /\ fr.seq \in Nat
    BY <1>3, <2>1, Popped, DownFields
  <2>5. doc'[d].auth = b /\ doc'[d].cursor = fr.seq
    <3>1. CASE StepState(d)
      <4>1. fr.t = "state" /\ ~(fr.seq < doc[d].cursor)
        BY <1>3, <2>3, <2>4, <3>1 DEF StepState, StateRead
      <4> QED BY <3>1, <4>1 DEF StepState, StateRead, Carries
    <3>2. CASE StepFrame(d)
      <4>1. fr.t \in {"rows", "ack"} /\ (fr.t = "rows" => fr.row.here)
        BY <2>2, <2>4, <3>2 DEF StepFrame, FrameRead, Flows, Sent
      <4>2. doc'[d].auth = b
        BY <3>2, <4>1 DEF StepFrame, FrameRead, Carries
      <4>3. doc'[d].cursor = fr.seq
        <5>1. doc'[d].cursor = IF doc[d].cursor >= fr.seq THEN doc[d].cursor ELSE fr.seq
          BY <3>2 DEF StepFrame, FrameRead
        <5> QED BY <1>3, <2>3, <2>4, <5>1
      <4> QED BY <4>2, <4>3
    <3> QED BY <1>7, <3>1, <3>2
  <2> HIDE DEF b
  <2>6. Flows(doc[d].auth, doc[d].cursor, down[d], room.row, room.seq)'
    BY <2>1, <2>3, <2>5
  <2>7. Fed(d)'
    BY <2>1, <2>6 DEF Fed
  <2>8. Held(doc[d])'
    BY <2>1, <2>3, <2>5, <2>6 DEF Held, Flows
  <2>9. Held(disk[d])'
    BY <2>1, <2>2 DEF Held
  <2> QED BY <1>2, <2>1, <2>2, <2>7, <2>8, <2>9
<1>8. ASSUME NEW d \in Devices, StepLoss(d)
      PROVE  (/\ room.row.seq <= room.seq
              /\ \A e \in Devices : Held(doc[e]) /\ Held(disk[e]) /\ Fed(e))'
  <2>1. Others(d) /\ ~ready'[d] /\ UNCHANGED <<room, wiped>>
    BY <1>8 DEF StepLoss, Lost
  <2>2. Held(doc[d]) /\ Held(disk[d]) /\ ~wiped
    BY <2>1 DEF StreamInv
  <2>3. Held(doc[d])' /\ Held(disk[d])'
    BY <1>8, <2>1, <2>2 DEF StepLoss, Lost, Held
  <2>4. Fed(d)'
    BY <2>1 DEF Fed
  <2> QED BY <1>2, <2>1, <2>2, <2>3, <2>4
<1>9. ASSUME NEW d \in Devices, StepHello(d)
      PROVE  (/\ room.row.seq <= room.seq
              /\ \A e \in Devices : Held(doc[e]) /\ Held(disk[e]) /\ Fed(e))'
  <2>1. Others(d) /\ Answered(d) /\ UNCHANGED <<doc, disk, conn, room, wiped>>
    BY <1>9 DEF StepHello
  <2>2. ~wiped /\ Held(doc[d]) /\ Held(disk[d]) /\ room.row.seq <= room.seq
    BY <2>1 DEF StreamInv
  <2> DEFINE st == down'[d][1]
             a  == doc[d].auth
             c  == doc[d].cursor
             q  == down'[d]
  <2>3. /\ Len(q) = 1 /\ q[1] = st /\ st.t = "state" /\ st.seq = room.seq /\ st.full \in BOOLEAN
        /\ st.row = room.row \/ (~st.full /\ st.row = NoRow /\ ~(room.row.seq > c))
        /\ ~st.full => (room.row.seq > c => st.row = room.row)
    BY <2>1 DEF Answered, States
  <2>4. c \in Nat /\ c <= room.seq /\ (c >= room.row.seq => a = room.row) /\ (a.here => room.row.here)
    BY <1>3, <2>2 DEF Held
  <2>5. Leads(a, q, 1, room.row)
    <3> HIDE DEF q, a, st
    <3>0. \A i \in 1..1 : i = 1
      OBVIOUS
    <3>1. CASE Carries(st)
      <4>1. st.row = room.row
        <5>1. ~NoRow.here
          BY NoRowShape
        <5> QED BY <2>3, <3>1, <5>1 DEF Carries
      <4>2. \A j \in (1 + 1)..1 : FALSE
        OBVIOUS
      <4>3. 1 \in 1..1
        OBVIOUS
      <4> QED BY <2>3, <3>1, <4>1, <4>2, <4>3 DEF Leads
    <3>2. CASE ~Carries(st)
      <4>1. ~st.full /\ ~st.row.here
        BY <2>3, <3>2 DEF Carries
      <4>2. ~(room.row.seq > c)
        <5> SUFFICES ASSUME room.row.seq > c PROVE FALSE
          OBVIOUS
        <5>1. st.row = room.row
          BY <2>3, <4>1
        <5>2. room.row = NoRow
          BY <1>0, <4>1, <5>1 DEF RegShape, Tidy
        <5>3. room.row.seq = 0
          BY <5>2, NoRowShape
        <5> QED BY <2>4, <5>3
      <4>3. a = room.row
        BY <1>0, <2>4, <4>2
      <4> QED BY <2>3, <3>0, <3>2, <4>3 DEF Leads
    <3> QED BY <3>1, <3>2
  <2>6. Sent(a, c, q, room.row, room.seq, 1)
    <3>1. \A j \in 1..1 : j = 1
      OBVIOUS
    <3>2. st.row.here => room.row.here
      BY <2>3, NoRowShape
    <3>3. q[1].seq <= room.seq /\ q[1].seq >= c
      BY <1>0, <2>3, <2>4
    <3> QED BY <2>3, <2>5, <3>1, <3>2, <3>3 DEF Sent
  <2>7. Flows(a, c, q, room.row, room.seq)
    <3>1. \A k \in 1..Len(q) : k = 1
      BY <2>3
    <3> QED BY <2>3, <2>4, <2>5, <2>6, <3>1 DEF Flows
  <2>8. Fed(d)'
    <3>1. a.here /\ st.full => st.row.here
      BY <2>3, <2>4
    <3> QED BY <2>1, <2>7, <3>1 DEF Fed
  <2>9. Held(doc[d])' /\ Held(disk[d])'
    BY <2>1, <2>2 DEF Held
  <2> QED BY <1>2, <2>1, <2>2, <2>8, <2>9
<1>10. ASSUME NEW d \in Devices, StepMerge(d)
       PROVE  (/\ room.row.seq <= room.seq
               /\ \A e \in Devices : Held(doc[e]) /\ Held(disk[e]) /\ Fed(e))'
  <2>1. Merged(d) /\ UNCHANGED <<doc, disk, conn, ready, wiped>> /\ ~wiped
    BY <1>10 DEF StepMerge
  <2> DEFINE ack == [t |-> "ack", id |-> up[d][1].id, seq |-> room'.seq]
             row == [t |-> "rows", seq |-> room'.seq, row |-> room'.row]
  <2>a. room'.seq \in Nat /\ room'.row \in Rows
    BY <1>1 DEF LinkInv, RegShape
  <2>b. ack \in Downs /\ ack.t = "ack" /\ ack.seq = room'.seq
    BY <2>1, <2>a DEF Merged, Pushes, Acks, Downs
  <2>c. row \in Downs /\ row = [t |-> "rows", seq |-> room'.seq, row |-> room'.row]
    BY <2>a DEF RowFrames, Downs
  <2>d. \/ /\ room' = room /\ down'[d] = Append(down[d], ack) /\ \A e \in Devices \ {d} : down'[e] = down[e]
        \/ /\ room'.seq = room.seq + 1 /\ room'.row.seq = room.seq + 1 /\ room'.row.here
           /\ down'[d] = Append(Append(down[d], row), ack)
           /\ \A e \in Devices \ {d} :
                IF ready[e] THEN down'[e] = Append(down[e], row) ELSE down'[e] = down[e]
    BY <2>1 DEF Merged
  <2> HIDE DEF ack, row
  <2>2. ASSUME NEW e \in Devices
        PROVE  /\ Held(doc[e]) /\ Held(disk[e]) /\ Fed(e) /\ down[e] \in Seq(Downs) /\ doc[e].cursor \in Nat
               /\ Link(e) /\ conn[e] \in {"down", "hello", "open"}
               /\ disk[e].cursor \in Nat
    BY <1>3, <2>1, DocFields DEF StreamInv
  <2>3. conn[d] = "open" /\ ready[d]
    BY <2>1 DEF Merged
  <2>4. CASE /\ room' = room /\ down'[d] = Append(down[d], ack) /\ \A e \in Devices \ {d} : down'[e] = down[e]
    <3>1. ASSUME NEW e \in Devices \ {d} PROVE (Held(doc[e]) /\ Held(disk[e]) /\ Fed(e))'
      BY <2>1, <2>4, StreamKept
    <3>2. Flows(doc[d].auth, doc[d].cursor, Append(down[d], ack), room.row, room.seq)
      BY <1>0, <2>2, <2>3, <2>4, <2>b, FlowAck DEF Fed
    <3>3. (Held(doc[d]) /\ Held(disk[d]))'
      BY <2>1, <2>2, <2>4 DEF Held
    <3>4. Fed(d)'
      BY <2>1, <2>3, <2>4, <3>2 DEF Fed
    <3>5. room'.row.seq <= room'.seq
      BY <2>1, <2>4 DEF StreamInv
    <3> QED BY <3>1, <3>3, <3>4, <3>5
  <2>5. CASE /\ room'.seq = room.seq + 1 /\ room'.row.seq = room.seq + 1 /\ room'.row.here
             /\ down'[d] = Append(Append(down[d], row), ack)
             /\ \A e \in Devices \ {d} :
                  IF ready[e] THEN down'[e] = Append(down[e], row) ELSE down'[e] = down[e]
    <3>1. ASSUME NEW e \in Devices PROVE (Held(doc[e]) /\ Held(disk[e]))'
      <4>1. doc[e].cursor <= room.seq /\ disk[e].cursor <= room.seq
        BY <2>2 DEF Held
      <4>2. ~(doc[e].cursor >= room'.row.seq) /\ ~(disk[e].cursor >= room'.row.seq)
            /\ doc[e].cursor <= room'.seq /\ disk[e].cursor <= room'.seq
        BY <1>0, <2>2, <2>5, <4>1
      <4> QED BY <2>1, <2>5, <4>2 DEF Held
    <3>2. ASSUME NEW e \in Devices, ready[e]
          PROVE  /\ Flows(doc[e].auth, doc[e].cursor, Append(down[e], row), room'.row, room'.seq)
                 /\ Append(down[e], row) \in Seq(Downs)
      <4>1. Flows(doc[e].auth, doc[e].cursor, down[e], room.row, room.seq)
        BY <2>2, <3>2 DEF Fed
      <4>2. row = [t |-> "rows", seq |-> room.seq + 1, row |-> room'.row]
        BY <2>5, <2>c
      <4>3. Flows(doc[e].auth, doc[e].cursor, Append(down[e], row), room'.row, room.seq + 1)
        BY <1>0, <2>2, <2>5, <2>a, <4>1, <4>2, FlowRows
      <4>4. Append(down[e], row) \in Seq(Downs)
        BY <2>2, <2>c, Appended
      <4> QED BY <2>5, <4>3, <4>4
    <3>3. ASSUME NEW e \in Devices \ {d} PROVE Fed(e)'
      <4>1. CASE ~ready[e]
        BY <2>1, <4>1 DEF Fed
      <4>2. CASE ready[e]
        <5>1. down'[e] = Append(down[e], row)
          BY <2>5, <4>2
        <5>2. Flows(doc[e].auth, doc[e].cursor, down[e], room.row, room.seq)'
          BY <2>1, <3>2, <4>2, <5>1
        <5>3. conn[e] = "hello" => down'[e][1] = down[e][1]
          <6> SUFFICES ASSUME conn[e] = "hello" PROVE down'[e][1] = down[e][1]
            OBVIOUS
          <6>1. 1 \in 1..Len(down[e])
            BY <2>2, <4>2, Popped DEF Link
          <6> QED BY <2>2, <2>c, <5>1, <6>1, Appended
        <5> QED BY <2>1, <2>2, <4>2, <5>2, <5>3 DEF Fed
      <4> QED BY <4>1, <4>2
    <3>4. Fed(d)'
      <4> DEFINE s == Append(down[d], row)
      <4>1. Flows(doc[d].auth, doc[d].cursor, s, room'.row, room'.seq) /\ s \in Seq(Downs)
        BY <2>3, <3>2
      <4> HIDE DEF s
      <4>2. Flows(doc[d].auth, doc[d].cursor, Append(s, ack), room'.row, room'.seq)
        BY <2>2, <2>a, <2>b, <4>1, FlowAck
      <4>3. down'[d] = Append(s, ack)
        BY <2>5 DEF s
      <4> QED BY <2>1, <2>3, <4>2, <4>3 DEF Fed
    <3>5. room'.row.seq <= room'.seq
      BY <1>0, <2>5
    <3> QED BY <3>1, <3>3, <3>4, <3>5
  <2> QED BY <2>4, <2>5, <2>d
<1>11. CASE StepRoom
  <2>1. UNCHANGED <<doc, disk, conn, down, ready>> /\ room'.row = room.row /\ room'.seq = room.seq /\ wiped' = wiped
    BY <1>11 DEF StepRoom
  <2>2. \A e \in Devices : (Held(doc[e]) /\ Held(disk[e]) /\ Fed(e))'
    BY <2>1, StreamKept
  <2> QED BY <2>1, <2>2 DEF StreamInv
<1> QED BY <1>4, <1>5, <1>6, <1>7, <1>8, <1>9, <1>10, <1>11, Steps

LEMMA StreamInit == ASSUME Init PROVE StreamInv
<1>1. room.row = NoRow /\ room.seq = 0 /\ NoRow.seq = 0 /\ ~NoRow.here
  BY NoRowShape DEF Init
<1>2. \A d \in Devices : doc[d] = NewDoc /\ disk[d] = NewDoc /\ ~ready[d]
  BY DEF Init
<1> QED BY <1>1, <1>2, NewDocShape DEF StreamInv, Held, Fed

LEMMA StreamAlways == Spec => [](LinkInv /\ StreamInv)
<1>1. Init => LinkInv /\ StreamInv
  BY LinkInit, StreamInit
<1>2. LinkInv /\ StreamInv /\ [Next]_vars => (LinkInv /\ StreamInv)'
  BY Steps, StreamStep
<1> QED BY <1>1, <1>2, PTL DEF Spec

\* A replica whose connection is open and that has read all it was sent holds exactly
\* the room's row, after any losses, repeats and restarts (no wipes): the cursor a
\* hello carries (sync registry.rs) and the frames the room sends from there on never
\* leave out a change.
THEOREM CaughtUpIsEqual == Spec => []CaughtUpMeansEqual
<1>1. LinkInv /\ StreamInv => CaughtUpMeansEqual
  <2> SUFFICES ASSUME LinkInv, StreamInv, ~wiped, NEW d \in Devices, conn[d] = "open", down[d] = <<>>
               PROVE  doc[d].auth = room.row
    BY DEF CaughtUpMeansEqual
  <2>1. ready[d] /\ Link(d)
    BY DEF LinkInv, Link
  <2>2. Leads(doc[d].auth, down[d], Len(down[d]), room.row)
    BY <2>1 DEF StreamInv, Fed, Flows
  <2>3. Len(down[d]) = 0
    OBVIOUS
  <2> QED BY <2>2, <2>3, LeadsNothing
<1> QED BY <1>1, StreamAlways, PTL

-----------------------------------------------------------------------------
(* The writes there are: each has its own clock, and the room keeps what it    *)
(* merged of them.                                                            *)

InPending(rd, o) == \E i \in 1..Len(rd.pending) : rd.pending[i].op = o
InUp(d, o) == \E i \in 1..Len(up[d]) : up[d][i].t = "push" /\ up[d][i].op = o

\* The op is queued, saved, on its way or merged.
Known(o) == \/ o \in merged
            \/ \E d \in Devices : InPending(doc[d], o) \/ InPending(disk[d], o) \/ InUp(d, o)

Stamped(o) == /\ o \in Ops /\ \A f \in Fields : o.clk[f] = o.hlc
              /\ \E e \in Devices, t \in Nat : t <= clock[e] /\ o.hlc = Hlc(t, e)

LEMMA PendingSame ==
    ASSUME NEW rd \in Docs, NEW re, SameWrites(rd, re), NEW o, InPending(re, o)
    PROVE  InPending(rd, o)
BY DEF SameWrites, InPending

\* With no wipe the room has every row a replica has, and reading its state seeds nothing.
LEMMA NoSeed ==
    ASSUME LinkInv, StreamInv, ~wiped, NEW d \in Devices, StepState(d)
    PROVE  \E rd \in Docs : /\ rd.pending = doc[d].pending /\ SameWrites(rd, doc'[d])
                            /\ up'[d] = PushFrames(rd)
<1>0. RegShape /\ down[d] \in Seq(Downs) /\ doc[d] \in Docs /\ doc[d].cursor \in Nat
  BY AtDevice, DocFields DEF LinkInv
<1>1. /\ down[d] # <<>> /\ ready[d] /\ conn[d] = "hello" /\ StateRead(d)
  BY DEF StepState, StateRead
<1>2. 1 \in 1..Len(down[d]) /\ down[d][1].seq \in Nat
  BY <1>0, <1>1, Popped, DownFields
<1>3. /\ down[d][1].seq >= doc[d].cursor
      /\ doc[d].auth.here /\ down[d][1].full => down[d][1].row.here
  BY <1>1, <1>2 DEF StreamInv, Fed, Flows, Sent
<1>4. ~(down[d][1].seq < doc[d].cursor)
  BY <1>0, <1>2, <1>3
<1> QED BY <1>1, <1>3, <1>4 DEF StateRead

LEMMA PushKnown ==
    ASSUME NEW rd \in Docs, NEW q, q = PushFrames(rd), NEW i \in 1..Len(q)
    PROVE  InPending(rd, q[i].op)
<1>1. PICK j \in 1..Len(rd.pending) : q[i].op = rd.pending[j].op
  BY PushDoc
<1> QED BY <1>1 DEF InPending

\* Only a local write makes an op.
LEMMA KnownBefore ==
    ASSUME LinkInv, StreamInv, ~wiped, NEW d \in Devices,
           \/ StepSave(d) \/ StepConnect(d) \/ StepState(d) \/ StepFrame(d)
           \/ StepPush(d) \/ StepLoss(d) \/ StepHello(d) \/ StepMerge(d),
           NEW o, Known(o)'
    PROVE  Known(o)
<1>0. /\ RegShape /\ doc[d] \in Docs /\ disk[d] \in Docs /\ up[d] \in Seq(Ups) /\ down[d] \in Seq(Downs)
  BY AtDevice DEF LinkInv
<1>1. CASE StepMerge(d)
  <2>1. /\ UNCHANGED <<doc, disk>> /\ up[d] # <<>> /\ up[d][1] \in Pushes /\ up'[d] = Tail(up[d])
        /\ merged' = merged \cup {up[d][1].op} /\ \A e \in Devices \ {d} : up'[e] = up[e]
    BY <1>1 DEF StepMerge, Merged
  <2>2. InUp(d, up[d][1].op)
    <3>1. 1 \in 1..Len(up[d]) /\ up[d][1].t = "push"
      BY <1>0, <2>1, Popped DEF Pushes
    <3> QED BY <3>1 DEF InUp
  <2>3. InUp(d, o)' => InUp(d, o)
    BY <1>0, <2>1, Popped DEF InUp
  <2>4. \A e \in Devices \ {d} : InUp(e, o)' => InUp(e, o)
    BY <2>1 DEF InUp
  <2>5. \A e \in Devices : (InPending(doc[e], o) \/ InPending(disk[e], o))' => InPending(doc[e], o) \/ InPending(disk[e], o)
    BY <2>1 DEF InPending
  <2> QED BY <2>1, <2>2, <2>3, <2>4, <2>5 DEF Known
<1>2. CASE \/ StepSave(d) \/ StepConnect(d) \/ StepState(d) \/ StepFrame(d)
           \/ StepPush(d) \/ StepLoss(d) \/ StepHello(d)
  <2>1. Others(d) /\ merged' = merged
    BY <1>2 DEF StepSave, StepConnect, StepState, StepFrame, StepPush, StepLoss, StepHello
  <2>2. ASSUME NEW e \in Devices \ {d}
        PROVE  (InPending(doc[e], o) \/ InPending(disk[e], o) \/ InUp(e, o))' =>
               InPending(doc[e], o) \/ InPending(disk[e], o) \/ InUp(e, o)
    BY <2>1 DEF Others, InPending, InUp
  <2>3. (InPending(doc[d], o) \/ InPending(disk[d], o) \/ InUp(d, o))' =>
        InPending(doc[d], o) \/ InPending(disk[d], o) \/ InUp(d, o)
    <3>1. CASE StepSave(d)
      BY <3>1 DEF StepSave, InPending, InUp
    <3>2. CASE StepConnect(d)
      <4>1. UNCHANGED <<doc, disk>> /\ Len(up'[d]) = 1 /\ up'[d][1].t = "hello"
        BY <3>2 DEF StepConnect
      <4>2. \A i \in 1..Len(up'[d]) : up'[d][i].t # "push"
        BY <4>1
      <4> QED BY <4>1, <4>2 DEF InPending, InUp
    <3>3. CASE StepState(d)
      <4>1. PICK rd \in Docs : /\ rd.pending = doc[d].pending /\ SameWrites(rd, doc'[d])
                               /\ up'[d] = PushFrames(rd)
        BY <3>3, NoSeed
      <4>2. InPending(doc[d], o)' => InPending(doc[d], o)
        BY <4>1, PendingSame DEF InPending
      <4>3. InUp(d, o)' => InPending(doc[d], o)
        <5> SUFFICES ASSUME InUp(d, o)' PROVE InPending(doc[d], o)
          OBVIOUS
        <5>1. PICK i \in 1..Len(up'[d]) : up'[d][i].op = o
          BY DEF InUp
        <5>2. InPending(rd, o)
          BY <4>1, <5>1, PushKnown
        <5> QED BY <4>1, <5>2 DEF InPending
      <4>4. disk' = disk
        BY <3>3 DEF StepState
      <4> QED BY <4>2, <4>3, <4>4 DEF InPending
    <3>4. CASE StepFrame(d)
      <4>1. UNCHANGED <<disk, up>> /\ \A i \in 1..Len(doc'[d].pending) :
                \E j \in 1..Len(doc[d].pending) : doc'[d].pending[i] = doc[d].pending[j]
        BY <3>4 DEF StepFrame, FrameRead
      <4> QED BY <4>1 DEF InPending, InUp
    <3>5. CASE StepPush(d)
      <4> DEFINE q == PushFrames(doc[d])
      <4>1. disk' = disk /\ SameWrites(doc[d], doc'[d]) /\ up'[d] = up[d] \o q
        BY <3>5 DEF StepPush, Pushed
      <4>2. InPending(doc[d], o)' => InPending(doc[d], o)
        BY <1>0, <4>1, PendingSame
      <4>3. q \in Seq(Ups)
        <5>1. q \in Seq(Pushes)
          BY <1>0, PushDoc
        <5>2. Pushes \subseteq Ups
          BY DEF Ups
        <5> HIDE DEF q
        <5> QED BY <5>1, <5>2
      <4>4. \A j \in 1..Len(q) : InPending(doc[d], q[j].op)
        <5>1. q = PushFrames(doc[d])
          OBVIOUS
        <5> HIDE DEF q
        <5> QED BY <1>0, <5>1, PushKnown
      <4> HIDE DEF q
      <4>5. InUp(d, o)' => InUp(d, o) \/ InPending(doc[d], o)
        <5> SUFFICES ASSUME InUp(d, o)' PROVE InUp(d, o) \/ InPending(doc[d], o)
          OBVIOUS
        <5>1. PICK i \in 1..Len(up'[d]) : up'[d][i].t = "push" /\ up'[d][i].op = o
          BY DEF InUp
        <5>2. \/ i \in 1..Len(up[d]) /\ up'[d][i] = up[d][i]
              \/ \E j \in 1..Len(q) : up'[d][i] = q[j]
          BY <1>0, <4>1, <4>3, Joined
        <5> QED BY <4>4, <5>1, <5>2 DEF InUp
      <4> QED BY <4>1, <4>2, <4>5 DEF InPending
    <3>6. CASE StepLoss(d)
      <4>1. PICK rd \in {doc[d], disk[d]} : SameWrites(rd, doc'[d])
        BY <3>6 DEF StepLoss, Lost
      <4>2. up'[d] = <<>> /\ SameWrites(disk[d], disk'[d])
        BY <3>6 DEF StepLoss, Lost
      <4>3. InPending(doc[d], o)' => InPending(doc[d], o) \/ InPending(disk[d], o)
        BY <1>0, <4>1, PendingSame
      <4>4. InPending(disk[d], o)' => InPending(disk[d], o)
        BY <1>0, <4>2, PendingSame
      <4>5. ~InUp(d, o)'
        BY <4>2 DEF InUp
      <4> QED BY <4>3, <4>4, <4>5
    <3>7. CASE StepHello(d)
      <4>1. UNCHANGED <<doc, disk>> /\ up'[d] = <<>>
        BY <3>7 DEF StepHello, Answered
      <4> QED BY <4>1 DEF InPending, InUp
    <3> QED BY <1>2, <3>1, <3>2, <3>3, <3>4, <3>5, <3>6, <3>7
  <2> QED BY <2>1, <2>2, <2>3 DEF Known
<1> QED BY <1>1, <1>2

\* The op a local write makes is the only new one.
LEMMA KnownAfterWrite ==
    ASSUME LinkInv, NEW d \in Devices, StepWrite(d)
    PROVE  \E tick \in Nat, op \in Ops :
              /\ tick > clock[d] /\ clock'[d] = tick /\ op.hlc = Hlc(tick, d)
              /\ \A f \in Fields : op.clk[f] = op.hlc
              /\ doc'[d].pending = Append(doc[d].pending, [id |-> op.hlc, op |-> op, inFlight |-> FALSE])
              /\ op.op = "update" => LiveRow(Overlay(doc[d]))
              /\ \A o : Known(o)' => Known(o) \/ o = op
<1>0. doc[d] \in Docs /\ doc[d].pending \in Seq(Batches)
  BY AtDevice, DocFields DEF LinkInv
<1>1. PICK tick \in Nat, op \in Ops :
              /\ tick > clock[d] /\ clock'[d] = tick /\ op.hlc = Hlc(tick, d)
              /\ \A f \in Fields : op.clk[f] = op.hlc
              /\ doc'[d].pending = Append(doc[d].pending, [id |-> op.hlc, op |-> op, inFlight |-> FALSE])
              /\ op.op = "update" => LiveRow(Overlay(doc[d]))
  BY DEF StepWrite, Wrote
<1> DEFINE b == [id |-> op.hlc, op |-> op, inFlight |-> FALSE]
<1>2. b \in Batches /\ b.op = op
  BY OpFields DEF Batches
<1>b. doc'[d].pending = Append(doc[d].pending, b)
  BY <1>1
<1> HIDE DEF b
<1>3. ASSUME NEW o, Known(o)' PROVE Known(o) \/ o = op
  <2>1. Others(d) /\ UNCHANGED <<disk, up, merged>>
    BY DEF StepWrite
  <2>2. InPending(doc[d], o)' => InPending(doc[d], o) \/ o = op
    <3> SUFFICES ASSUME InPending(doc[d], o)' PROVE InPending(doc[d], o) \/ o = op
      OBVIOUS
    <3>1. PICK i \in 1..Len(doc'[d].pending) : doc'[d].pending[i].op = o
      BY DEF InPending
    <3>2. i \in 1..Len(doc[d].pending) \/ i = Len(doc[d].pending) + 1
      BY <1>0, <1>2, <1>b, Appended
    <3> QED BY <1>0, <1>2, <1>b, <3>1, <3>2, Appended DEF InPending
  <2>3. \A e \in Devices \ {d} : InPending(doc[e], o)' => InPending(doc[e], o)
    BY <2>1 DEF Others, InPending
  <2>4. \A e \in Devices : (InPending(disk[e], o) \/ InUp(e, o))' => InPending(disk[e], o) \/ InUp(e, o)
    BY <2>1 DEF InPending, InUp
  <2> QED BY <1>3, <2>1, <2>2, <2>3, <2>4 DEF Known
<1> QED BY <1>1, <1>3

\* With nothing pending a replica shows its row.
LEMMA OverlayNothing == ASSUME NEW rd, rd.pending = <<>> PROVE Overlay(rd) = rd.auth
<1> DEFINE S == DOMAIN rd.pending
           D(g) == [s \in SUBSET S |->
                      IF s = {} THEN rd.auth
                      ELSE ApplyOp(g[s \ {Max(s)}], rd.pending[Max(s)].op).row]
           iter == CHOOSE g : g = D(g)
<1>1. Overlay(rd) = iter[S]
  BY DEF Overlay, FoldLeft, MapThenFoldSet
<1>2. S = {}
  OBVIOUS
<1> HIDE DEF S
<1>3. \A s \in SUBSET S : s = {}
  BY <1>2
<1> DEFINE g0 == [s \in SUBSET S |-> rd.auth]
<1>4. g0 = D(g0)
  BY <1>3
<1>5. iter = D(iter)
  <2> HIDE DEF D, g0
  <2> QED BY <1>4
<1>6. iter[S] = rd.auth
  <2> HIDE DEF iter
  <2> QED BY <1>2, <1>5
<1> QED BY <1>1, <1>6

\* A batch is named after its op's clock, and only merged ops are acknowledged.
Named(rd) == \A i \in 1..Len(rd.pending) : rd.pending[i].id = rd.pending[i].op.hlc
NamedUp(d) == \A i \in 1..Len(up[d]) : up[d][i].t = "push" => up[d][i].id = up[d][i].op.hlc
AcksMerged(d) == \A i \in 1..Len(down[d]) : down[d][i].t = "ack" => \E o \in merged : o.hlc = down[d][i].id

\* Until the room has a row, no device's first queued or pushed op is an update: updates
\* are made of a row the device shows.
NotUpdate(rd) == rd.pending # <<>> => rd.pending[1].op.op # "update"
FirstPush(d) ==
    /\ up[d] # <<>> /\ up[d][1].t = "push" => up[d][1].op.op # "update"
    /\ doc[d].pending # <<>> /\ doc[d].pending[1].inFlight => conn[d] = "open" /\ up[d] # <<>>

UniqueInv == \A o, p : /\ Known(o) => Stamped(o)
                       /\ Known(o) /\ Known(p) /\ o.hlc = p.hlc => o = p
NamesInv == \A d \in Devices : Named(doc[d]) /\ Named(disk[d]) /\ NamedUp(d) /\ AcksMerged(d)
FirstInv == merged = {} => \A d \in Devices : NotUpdate(doc[d]) /\ NotUpdate(disk[d]) /\ FirstPush(d)
RoomInv == /\ acked \subseteq merged /\ \A o \in merged : Reflected(o, room.row)
           /\ \A f \in Fields : room.row.clk[f] # 0 =>
                 \E o \in merged : o.op # "delete" /\ o.hlc = room.row.clk[f]
           /\ room.row.deleted => room.row.del # 0
           /\ room.row.here => merged # {}
OpsInv == ~wiped => UniqueInv /\ NamesInv /\ FirstInv /\ RoomInv

LEMMA HlcUnique ==
    ASSUME NEW s \in Nat, NEW t \in Nat, NEW d \in Devices, NEW e \in Devices, Hlc(s, d) = Hlc(t, e)
    PROVE  s = t /\ d = e
<1>0. NDevices \in Nat /\ NDevices >= 1 /\ d \in 1..NDevices /\ e \in 1..NDevices
  BY DevicesAssumption DEF Devices
<1>1. s * NDevices + d = t * NDevices + e
  BY DEF Hlc
<1> QED BY <1>0, <1>1

LEMMA UniqueStep ==
    ASSUME LinkInv, StreamInv, UniqueInv, [Next]_vars, ~wiped, ~wiped'
    PROVE  UniqueInv'
<1>0. RegShape /\ RegShape'
  BY Steps DEF LinkInv
<1>1. ASSUME \A o : Known(o)' => Known(o), \A e \in Devices : clock'[e] >= clock[e]
      PROVE  UniqueInv'
  <2>1. ASSUME NEW o, Known(o)' PROVE Stamped(o)'
    <3>1. Stamped(o)
      BY <1>1, <2>1 DEF UniqueInv
    <3>2. PICK e \in Devices, t \in Nat : t <= clock[e] /\ o.hlc = Hlc(t, e)
      BY <3>1 DEF Stamped
    <3>3. clock[e] \in Nat /\ clock'[e] \in Nat /\ clock'[e] >= clock[e]
      BY <1>0, <1>1 DEF RegShape
    <3>4. t <= clock'[e]
      BY <3>2, <3>3
    <3> QED BY <3>1, <3>2, <3>4 DEF Stamped
  <2>2. ASSUME NEW o, NEW p, Known(o)', Known(p)', o.hlc = p.hlc PROVE o = p
    BY <1>1, <2>2 DEF UniqueInv
  <2> QED BY <2>1, <2>2 DEF UniqueInv
<1>2. ASSUME NEW d \in Devices, Others(d), clock'[d] >= clock[d] PROVE \A e \in Devices : clock'[e] >= clock[e]
  <2>1. \A e \in Devices : clock[e] \in Nat
    BY <1>0 DEF RegShape
  <2>2. \A e \in Devices \ {d} : clock'[e] = clock[e]
    BY <1>2 DEF Others
  <2> QED BY <1>2, <2>1, <2>2
<1>3. ASSUME NEW d \in Devices, StepWrite(d) PROVE UniqueInv'
  <2>1. PICK tick \in Nat, op \in Ops :
              /\ tick > clock[d] /\ clock'[d] = tick /\ op.hlc = Hlc(tick, d)
              /\ \A f \in Fields : op.clk[f] = op.hlc
              /\ doc'[d].pending = Append(doc[d].pending, [id |-> op.hlc, op |-> op, inFlight |-> FALSE])
              /\ op.op = "update" => LiveRow(Overlay(doc[d]))
              /\ \A o : Known(o)' => Known(o) \/ o = op
    BY <1>3, KnownAfterWrite
  <2>0. clock[d] \in Nat /\ \A e \in Devices : clock[e] \in Nat /\ clock'[e] \in Nat
    BY <1>0 DEF RegShape
  <2>2. \A e \in Devices : clock'[e] >= clock[e]
    <3>1. Others(d) /\ clock'[d] >= clock[d]
      BY <1>3, <2>0, <2>1 DEF StepWrite
    <3> QED BY <1>2, <3>1
  <2>3. Stamped(op)'
    BY <2>0, <2>1 DEF Stamped
  <2>4. ASSUME NEW o, Known(o) PROVE Stamped(o)' /\ o.hlc # op.hlc
    <3>1. Stamped(o)
      BY <2>4 DEF UniqueInv
    <3>2. PICK e \in Devices, t \in Nat : t <= clock[e] /\ o.hlc = Hlc(t, e)
      BY <3>1 DEF Stamped
    <3>3. t <= clock'[e]
      BY <2>0, <2>2, <3>2
    <3>4. Stamped(o)'
      BY <3>1, <3>2, <3>3 DEF Stamped
    <3>5. ASSUME Hlc(t, e) = Hlc(tick, d) PROVE FALSE
      <4>1. t = tick /\ e = d
        BY <3>5, HlcUnique
      <4> QED BY <2>0, <2>1, <3>2, <4>1
    <3> QED BY <2>1, <3>2, <3>4, <3>5
  <2>5. ASSUME NEW o, Known(o)' PROVE Stamped(o)'
    BY <2>1, <2>3, <2>4, <2>5
  <2>6. ASSUME NEW o, NEW p, Known(o)', Known(p)', o.hlc = p.hlc PROVE o = p
    <3>1. (Known(o) \/ o = op) /\ (Known(p) \/ p = op)
      BY <2>1, <2>6
    <3> QED BY <2>4, <2>6, <3>1 DEF UniqueInv
  <2> QED BY <2>5, <2>6 DEF UniqueInv
<1>4. ASSUME NEW d \in Devices,
             \/ StepSave(d) \/ StepConnect(d) \/ StepState(d) \/ StepFrame(d)
             \/ StepPush(d) \/ StepLoss(d) \/ StepHello(d) \/ StepMerge(d)
      PROVE  UniqueInv'
  <2>1. \A o : Known(o)' => Known(o)
    BY <1>4, KnownBefore
  <2>2. \A e \in Devices : clock'[e] >= clock[e]
    <3>1. CASE StepState(d)
      BY <1>2, <3>1 DEF StepState
    <3>2. CASE ~StepState(d)
      <4>1. clock' = clock
        BY <1>4, <3>2 DEF StepSave, StepConnect, StepFrame, StepPush, StepLoss, StepHello, StepMerge
      <4> QED BY <1>0, <4>1 DEF RegShape
    <3> QED BY <3>1, <3>2
  <2> QED BY <1>1, <2>1, <2>2
<1>5. CASE StepRoom
  <2>1. UNCHANGED <<doc, disk, up, merged, clock>>
    BY <1>5 DEF StepRoom
  <2>2. \A o : Known(o)' => Known(o)
    BY <2>1 DEF Known, InPending, InUp
  <2>3. \A e \in Devices : clock'[e] >= clock[e]
    BY <1>0, <2>1 DEF RegShape
  <2> QED BY <1>1, <2>2, <2>3
<1> QED BY <1>3, <1>4, <1>5, Steps

LEMMA NamedSame == ASSUME NEW rd \in Docs, NEW re, SameWrites(rd, re), Named(rd) PROVE Named(re)
BY DEF SameWrites, Named

LEMMA NamedPush ==
    ASSUME NEW rd \in Docs, Named(rd), NEW q, q = PushFrames(rd), NEW i \in 1..Len(q)
    PROVE  q[i].id = q[i].op.hlc
<1>1. PICK j \in 1..Len(rd.pending) : q[i].id = rd.pending[j].id /\ q[i].op = rd.pending[j].op
  BY PushDoc
<1> QED BY <1>1 DEF Named

LEMMA NamesStep ==
    ASSUME LinkInv, StreamInv, NamesInv, [Next]_vars, ~wiped, ~wiped'
    PROVE  NamesInv'
<1>0. ASSUME NEW d \in Devices
      PROVE  /\ doc[d] \in Docs /\ disk[d] \in Docs /\ up[d] \in Seq(Ups) /\ down[d] \in Seq(Downs)
             /\ Named(doc[d]) /\ Named(disk[d]) /\ NamedUp(d) /\ AcksMerged(d)
  BY AtDevice DEF LinkInv, NamesInv
<1>1. ASSUME NEW d \in Devices, Others(d), merged' = merged,
             (Named(doc[d]) /\ Named(disk[d]) /\ NamedUp(d) /\ AcksMerged(d))'
      PROVE  NamesInv'
  <2>1. ASSUME NEW e \in Devices \ {d} PROVE (Named(doc[e]) /\ Named(disk[e]) /\ NamedUp(e) /\ AcksMerged(e))'
    <3>1. doc'[e] = doc[e] /\ disk'[e] = disk[e] /\ up'[e] = up[e] /\ down'[e] = down[e]
      BY <1>1 DEF Others
    <3>2. Named(doc[e]) /\ Named(disk[e]) /\ NamedUp(e) /\ AcksMerged(e)
      BY <1>0
    <3> QED BY <1>1, <3>1, <3>2 DEF Named, NamedUp, AcksMerged
  <2> QED BY <1>1, <2>1 DEF NamesInv
<1>2. ASSUME NEW d \in Devices, StepWrite(d) PROVE NamesInv'
  <2>1. PICK tick \in Nat, op \in Ops :
              /\ tick > clock[d] /\ clock'[d] = tick /\ op.hlc = Hlc(tick, d)
              /\ \A f \in Fields : op.clk[f] = op.hlc
              /\ doc'[d].auth = doc[d].auth /\ doc'[d].cursor = doc[d].cursor
              /\ doc'[d].pending = Append(doc[d].pending, [id |-> op.hlc, op |-> op, inFlight |-> FALSE])
              /\ op.op = "update" => LiveRow(Overlay(doc[d]))
    BY <1>2 DEF StepWrite, Wrote
  <2> DEFINE b == [id |-> op.hlc, op |-> op, inFlight |-> FALSE]
             s == doc[d].pending
  <2>2. b \in Batches /\ b.id = b.op.hlc /\ doc'[d].pending = Append(s, b) /\ s \in Seq(Batches)
    BY <1>0, <2>1, OpFields, DocFields DEF Batches
  <2> HIDE DEF b
  <2>3. Named(doc[d])'
    <3> SUFFICES ASSUME NEW i \in 1..Len(doc'[d].pending)
                 PROVE  doc'[d].pending[i].id = doc'[d].pending[i].op.hlc
      BY DEF Named
    <3>1. i \in 1..Len(s) \/ i = Len(s) + 1
      BY <2>2, Appended
    <3>2. \A j \in 1..Len(s) : s[j].id = s[j].op.hlc
      BY <1>0 DEF Named
    <3> QED BY <2>2, <3>1, <3>2, Appended
  <2>4. Others(d) /\ UNCHANGED <<disk, up, down, merged>>
    BY <1>2 DEF StepWrite
  <2>5. (Named(disk[d]) /\ NamedUp(d) /\ AcksMerged(d))'
    BY <1>0, <2>4 DEF Named, NamedUp, AcksMerged
  <2> QED BY <1>1, <2>3, <2>4, <2>5
<1>3. ASSUME NEW d \in Devices, StepSave(d) PROVE NamesInv'
  <2>1. Others(d) /\ disk'[d] = doc[d] /\ UNCHANGED <<doc, up, down, merged>>
    BY <1>3 DEF StepSave
  <2>2. (Named(doc[d]) /\ Named(disk[d]) /\ NamedUp(d) /\ AcksMerged(d))'
    BY <1>0, <2>1 DEF Named, NamedUp, AcksMerged
  <2> QED BY <1>1, <2>1, <2>2
<1>4. ASSUME NEW d \in Devices, StepConnect(d) PROVE NamesInv'
  <2>1. /\ Others(d) /\ UNCHANGED <<doc, disk, down, merged>> /\ Len(up'[d]) = 1 /\ up'[d][1].t = "hello"
    BY <1>4 DEF StepConnect
  <2>2. \A i \in 1..Len(up'[d]) : up'[d][i].t # "push"
    BY <2>1
  <2>3. (Named(doc[d]) /\ Named(disk[d]) /\ NamedUp(d) /\ AcksMerged(d))'
    BY <1>0, <2>1, <2>2 DEF Named, NamedUp, AcksMerged
  <2> QED BY <1>1, <2>1, <2>3
<1>5. ASSUME NEW d \in Devices, down[d] # <<>>, down'[d] = Tail(down[d]), merged' = merged PROVE AcksMerged(d)'
  BY <1>0, <1>5, Popped DEF AcksMerged
<1>6. ASSUME NEW d \in Devices, StepState(d) PROVE NamesInv'
  <2>1. PICK rd \in Docs : /\ rd.pending = doc[d].pending /\ SameWrites(rd, doc'[d])
                           /\ up'[d] = PushFrames(rd)
    BY <1>6, NoSeed
  <2>2. Others(d) /\ UNCHANGED <<disk, merged>> /\ down[d] # <<>> /\ down'[d] = Tail(down[d])
    BY <1>6 DEF StepState, StateRead
  <2>3. Named(rd)
    BY <1>0, <2>1 DEF Named
  <2>4. Named(doc[d])'
    BY <2>1, <2>3, NamedSame
  <2>5. NamedUp(d)'
    BY <2>1, <2>3, NamedPush DEF NamedUp
  <2>6. Named(disk[d])'
    BY <1>0, <2>2
  <2> QED BY <1>1, <1>5, <2>2, <2>4, <2>5, <2>6
<1>7. ASSUME NEW d \in Devices, StepFrame(d) PROVE NamesInv'
  <2>1. /\ Others(d) /\ UNCHANGED <<disk, up, merged>> /\ down[d] # <<>> /\ down'[d] = Tail(down[d])
        /\ \A i \in 1..Len(doc'[d].pending) : \E j \in 1..Len(doc[d].pending) : doc'[d].pending[i] = doc[d].pending[j]
    BY <1>7 DEF StepFrame, FrameRead
  <2>2. (Named(doc[d]) /\ Named(disk[d]) /\ NamedUp(d))'
    BY <1>0, <2>1 DEF Named, NamedUp
  <2> QED BY <1>1, <1>5, <2>1, <2>2
<1>8. ASSUME NEW d \in Devices, StepPush(d) PROVE NamesInv'
  <2> DEFINE q == PushFrames(doc[d])
  <2>1. Others(d) /\ UNCHANGED <<disk, down, merged>> /\ SameWrites(doc[d], doc'[d]) /\ up'[d] = up[d] \o q
    BY <1>8 DEF StepPush, Pushed
  <2>2. Named(doc[d])'
    BY <1>0, <2>1, NamedSame
  <2>3. q \in Seq(Ups) /\ \A j \in 1..Len(q) : q[j].id = q[j].op.hlc
    <3>1. q \in Seq(Pushes) /\ q = PushFrames(doc[d])
      BY <1>0, PushDoc
    <3>2. Pushes \subseteq Ups
      BY DEF Ups
    <3> HIDE DEF q
    <3> QED BY <1>0, <3>1, <3>2, NamedPush
  <2> HIDE DEF q
  <2>4. NamedUp(d)'
    <3> SUFFICES ASSUME NEW i \in 1..Len(up'[d]), up'[d][i].t = "push" PROVE up'[d][i].id = up'[d][i].op.hlc
      BY DEF NamedUp
    <3>1. \/ i \in 1..Len(up[d]) /\ up'[d][i] = up[d][i]
          \/ \E j \in 1..Len(q) : up'[d][i] = q[j]
      BY <1>0, <2>1, <2>3, Joined
    <3> QED BY <1>0, <2>3, <3>1 DEF NamedUp
  <2>5. (Named(disk[d]) /\ AcksMerged(d))'
    BY <1>0, <2>1 DEF AcksMerged
  <2> QED BY <1>1, <2>1, <2>2, <2>4, <2>5
<1>9. ASSUME NEW d \in Devices, StepLoss(d) PROVE NamesInv'
  <2>1. PICK rd \in {doc[d], disk[d]} : SameWrites(rd, doc'[d])
    BY <1>9 DEF StepLoss, Lost
  <2>2. Others(d) /\ merged' = merged /\ up'[d] = <<>> /\ down'[d] = <<>> /\ SameWrites(disk[d], disk'[d])
    BY <1>9 DEF StepLoss, Lost
  <2>3. Named(doc[d])' /\ Named(disk[d])'
    BY <1>0, <2>1, <2>2, NamedSame
  <2>4. NamedUp(d)' /\ AcksMerged(d)'
    BY <2>2 DEF NamedUp, AcksMerged
  <2> QED BY <1>1, <2>2, <2>3, <2>4
<1>10. ASSUME NEW d \in Devices, StepHello(d) PROVE NamesInv'
  <2>1. /\ Others(d) /\ UNCHANGED <<doc, disk, merged>> /\ up'[d] = <<>> /\ Len(down'[d]) = 1
        /\ down'[d][1] \in States
    BY <1>10 DEF StepHello, Answered
  <2>2. \A i \in 1..Len(down'[d]) : down'[d][i].t # "ack"
    BY <2>1 DEF States
  <2>3. (Named(doc[d]) /\ Named(disk[d]))'
    BY <1>0, <2>1
  <2>4. NamedUp(d)' /\ AcksMerged(d)'
    BY <2>1, <2>2 DEF NamedUp, AcksMerged
  <2> QED BY <1>1, <2>1, <2>3, <2>4
<1>11. ASSUME NEW d \in Devices, StepMerge(d) PROVE NamesInv'
  <2> DEFINE fr == up[d][1]
             ack == [t |-> "ack", id |-> fr.id, seq |-> room'.seq]
             row == [t |-> "rows", seq |-> room'.seq, row |-> room'.row]
  <2>1. /\ UNCHANGED <<doc, disk>> /\ \A e \in Devices \ {d} : up'[e] = up[e]
        /\ up[d] # <<>> /\ fr \in Pushes /\ up'[d] = Tail(up[d]) /\ merged' = merged \cup {fr.op}
    BY <1>11 DEF StepMerge, Merged
  <2>2. \/ down'[d] = Append(down[d], ack) /\ \A e \in Devices \ {d} : down'[e] = down[e]
        \/ /\ down'[d] = Append(Append(down[d], row), ack)
           /\ \A e \in Devices \ {d} :
                IF ready[e] THEN down'[e] = Append(down[e], row) ELSE down'[e] = down[e]
    BY <1>11 DEF StepMerge, Merged
  <2>3. fr.t = "push" /\ fr.id = fr.op.hlc /\ fr.id \in Nat
    <3>1. 1 \in 1..Len(up[d])
      BY <1>0, <2>1, Popped
    <3> QED BY <1>0, <2>1, <3>1 DEF Pushes, NamedUp
  <2>4. room'.seq \in Nat /\ room'.row \in Rows
    BY Steps DEF LinkInv, RegShape
  <2>5. /\ ack \in Downs /\ ack.t = "ack" /\ ack.id = fr.op.hlc
        /\ row \in Downs /\ row.t = "rows"
    BY <2>3, <2>4 DEF Acks, RowFrames, Downs
  <2> HIDE DEF ack, row
  <2>6. ASSUME NEW q \in Seq(Downs), NEW x \in Downs,
               \A i \in 1..Len(q) : q[i].t = "ack" => \E o \in merged' : o.hlc = q[i].id,
               x.t = "ack" => \E o \in merged' : o.hlc = x.id
        PROVE  /\ \A i \in 1..Len(Append(q, x)) :
                     Append(q, x)[i].t = "ack" => \E o \in merged' : o.hlc = Append(q, x)[i].id
               /\ Append(q, x) \in Seq(Downs)
    <3>1. \A i \in 1..Len(Append(q, x)) : (i \in 1..Len(q) /\ Append(q, x)[i] = q[i]) \/ Append(q, x)[i] = x
      BY Appended
    <3>2. Append(q, x) \in Seq(Downs)
      BY Appended
    <3> DEFINE s == Append(q, x)
    <3> HIDE DEF s
    <3>3. \A i \in 1..Len(s) : (i \in 1..Len(q) /\ s[i] = q[i]) \/ s[i] = x
      BY <3>1 DEF s
    <3>4. \A i \in 1..Len(s) : s[i].t = "ack" => \E o \in merged' : o.hlc = s[i].id
      BY <2>6, <3>3
    <3> QED BY <3>2, <3>4 DEF s
  <2>7. fr.op \in merged' /\ merged \subseteq merged'
    BY <2>1
  <2>8. ASSUME NEW e \in Devices
        PROVE  \A i \in 1..Len(down[e]) : down[e][i].t = "ack" => \E o \in merged' : o.hlc = down[e][i].id
    BY <1>0, <2>7 DEF AcksMerged
  <2>9. AcksMerged(d)'
    <3>1. CASE down'[d] = Append(down[d], ack)
      BY <1>0, <2>5, <2>6, <2>7, <2>8, <3>1 DEF AcksMerged
    <3>2. CASE down'[d] = Append(Append(down[d], row), ack)
      <4> DEFINE s == Append(down[d], row)
      <4>1. s \in Seq(Downs) /\ \A i \in 1..Len(s) : s[i].t = "ack" => \E o \in merged' : o.hlc = s[i].id
        BY <1>0, <2>5, <2>6, <2>8
      <4> HIDE DEF s
      <4>2. down'[d] = Append(s, ack)
        BY <3>2 DEF s
      <4> QED BY <2>5, <2>6, <2>7, <4>1, <4>2 DEF AcksMerged
    <3> QED BY <2>2, <3>1, <3>2
  <2>10. ASSUME NEW e \in Devices \ {d} PROVE AcksMerged(e)'
    <3>1. down'[e] = down[e] \/ down'[e] = Append(down[e], row)
      BY <2>2
    <3>2. CASE down'[e] = down[e]
      BY <2>8, <3>2 DEF AcksMerged
    <3>3. CASE down'[e] = Append(down[e], row)
      BY <1>0, <2>5, <2>6, <2>8, <3>3 DEF AcksMerged
    <3> QED BY <3>1, <3>2, <3>3
  <2>11. ASSUME NEW e \in Devices PROVE (Named(doc[e]) /\ Named(disk[e]) /\ NamedUp(e))'
    <3>1. (Named(doc[e]) /\ Named(disk[e]))'
      BY <1>0, <2>1
    <3>2. CASE e = d
      <4>1. \A i \in 1..Len(up'[d]) : i + 1 \in 1..Len(up[d]) /\ up'[d][i] = up[d][i + 1]
        BY <1>0, <2>1, Popped
      <4>2. NamedUp(d)'
        BY <1>0, <4>1 DEF NamedUp
      <4> QED BY <3>1, <3>2, <4>2
    <3>3. CASE e # d
      BY <1>0, <2>1, <3>1, <3>3 DEF NamedUp
    <3> QED BY <3>2, <3>3
  <2> QED BY <2>9, <2>10, <2>11 DEF NamesInv
<1>12. CASE StepRoom
  BY <1>12 DEF StepRoom, NamesInv, Named, NamedUp, AcksMerged
<1> QED BY <1>2, <1>3, <1>4, <1>6, <1>7, <1>8, <1>9, <1>10, <1>11, <1>12, Steps

\* What the room's first merge finds.
LEMMA FirstStep ==
    ASSUME LinkInv, StreamInv, RoomInv, NamesInv, FirstInv, [Next]_vars, ~wiped, ~wiped'
    PROVE  FirstInv'
<1> SUFFICES ASSUME merged' = {}
             PROVE  (\A d \in Devices : NotUpdate(doc[d]) /\ NotUpdate(disk[d]) /\ FirstPush(d))'
  BY DEF FirstInv
<1>0. ASSUME NEW d \in Devices
      PROVE  /\ doc[d] \in Docs /\ disk[d] \in Docs /\ up[d] \in Seq(Ups) /\ down[d] \in Seq(Downs)
             /\ doc[d].pending \in Seq(Batches) /\ Link(d)
  BY AtDevice, DocFields DEF LinkInv
<1>1. merged = {}
  <2>1. merged \subseteq merged'
    <3>1. ASSUME NEW d \in Devices, StepMerge(d) PROVE merged \subseteq merged'
      BY <3>1 DEF StepMerge, Merged
    <3>2. ASSUME NEW d \in Devices,
                 \/ StepWrite(d) \/ StepSave(d) \/ StepConnect(d) \/ StepState(d) \/ StepFrame(d)
                 \/ StepPush(d) \/ StepLoss(d) \/ StepHello(d)
          PROVE  merged' = merged
      BY <3>2 DEF StepWrite, StepSave, StepConnect, StepState, StepFrame, StepPush, StepLoss, StepHello
    <3>3. CASE StepRoom
      BY <3>3 DEF StepRoom
    <3> QED BY <3>1, <3>2, <3>3, Steps
  <2> QED BY <2>1
<1>2. ASSUME NEW d \in Devices PROVE NotUpdate(doc[d]) /\ NotUpdate(disk[d]) /\ FirstPush(d) /\ ~doc[d].auth.here
  BY <1>1 DEF FirstInv, StreamInv, Held, RoomInv
<1>3. ASSUME NEW d \in Devices, Others(d), (NotUpdate(doc[d]) /\ NotUpdate(disk[d]) /\ FirstPush(d))'
      PROVE  (\A e \in Devices : NotUpdate(doc[e]) /\ NotUpdate(disk[e]) /\ FirstPush(e))'
  <2>1. ASSUME NEW e \in Devices \ {d} PROVE (NotUpdate(doc[e]) /\ NotUpdate(disk[e]) /\ FirstPush(e))'
    <3>1. doc'[e] = doc[e] /\ disk'[e] = disk[e] /\ up'[e] = up[e] /\ conn'[e] = conn[e]
      BY <1>3 DEF Others
    <3>2. NotUpdate(doc[e]) /\ NotUpdate(disk[e]) /\ FirstPush(e)
      BY <1>2
    <3> QED BY <3>1, <3>2 DEF NotUpdate, FirstPush
  <2> QED BY <1>3, <2>1
<1>4. ASSUME NEW rd \in Docs, NEW re, SameWrites(rd, re), re \in Docs
      PROVE  /\ NotUpdate(rd) => NotUpdate(re) /\ (rd.pending = <<>> <=> re.pending = <<>>)
             /\ re.pending # <<>> => re.pending[1].op = rd.pending[1].op
  <2>1. Len(re.pending) = Len(rd.pending) /\ re.pending \in Seq(Batches) /\ rd.pending \in Seq(Batches)
    BY <1>4, DocFields DEF SameWrites
  <2>2. rd.pending = <<>> <=> re.pending = <<>>
    BY <2>1, EmptySeq
  <2>3. re.pending # <<>> => 1 \in 1..Len(rd.pending)
    BY <2>1, Popped
  <2>4. re.pending # <<>> => re.pending[1].op = rd.pending[1].op
    BY <1>4, <2>3 DEF SameWrites
  <2> QED BY <2>2, <2>4 DEF NotUpdate
<1>5. ASSUME NEW d \in Devices PROVE doc'[d] \in Docs /\ disk'[d] \in Docs
  BY Steps DEF LinkInv, RegShape
<1>6. ASSUME NEW d \in Devices, StepWrite(d)
      PROVE  (\A e \in Devices : NotUpdate(doc[e]) /\ NotUpdate(disk[e]) /\ FirstPush(e))'
  <2>1. PICK tick \in Nat, op \in Ops :
              /\ tick > clock[d] /\ clock'[d] = tick /\ op.hlc = Hlc(tick, d)
              /\ \A f \in Fields : op.clk[f] = op.hlc
              /\ doc'[d].auth = doc[d].auth /\ doc'[d].cursor = doc[d].cursor
              /\ doc'[d].pending = Append(doc[d].pending, [id |-> op.hlc, op |-> op, inFlight |-> FALSE])
              /\ op.op = "update" => LiveRow(Overlay(doc[d]))
    BY <1>6 DEF StepWrite, Wrote
  <2> DEFINE b == [id |-> op.hlc, op |-> op, inFlight |-> FALSE]
             s == doc[d].pending
  <2>2. b \in Batches /\ b.op = op /\ b.inFlight = FALSE /\ doc'[d].pending = Append(s, b) /\ s \in Seq(Batches)
    BY <1>0, <2>1, OpFields DEF Batches
  <2> HIDE DEF b
  <2>3. Others(d) /\ UNCHANGED <<disk, up, conn>>
    BY <1>6 DEF StepWrite
  <2>4. CASE s = <<>>
    <3>1. ~LiveRow(Overlay(doc[d]))
      BY <1>2, <2>4, OverlayNothing DEF LiveRow
    <3>2. doc'[d].pending[1] = b
      BY <2>2, <2>4
    <3>3. (NotUpdate(doc[d]) /\ NotUpdate(disk[d]) /\ FirstPush(d))'
      BY <1>2, <2>1, <2>2, <2>3, <3>1, <3>2 DEF NotUpdate, FirstPush
    <3> QED BY <1>3, <2>3, <3>3
  <2>5. CASE s # <<>>
    <3>1. 1 \in 1..Len(s)
      BY <2>2, <2>5, Popped
    <3>2. doc'[d].pending[1] = s[1]
      BY <2>2, <3>1, Appended
    <3>3. (NotUpdate(doc[d]) /\ NotUpdate(disk[d]) /\ FirstPush(d))'
      BY <1>2, <2>3, <2>5, <3>2 DEF NotUpdate, FirstPush
    <3> QED BY <1>3, <2>3, <3>3
  <2> QED BY <2>4, <2>5
<1>7. ASSUME NEW d \in Devices, StepSave(d)
      PROVE  (\A e \in Devices : NotUpdate(doc[e]) /\ NotUpdate(disk[e]) /\ FirstPush(e))'
  <2>1. Others(d) /\ disk'[d] = doc[d] /\ UNCHANGED <<doc, up, conn>>
    BY <1>7 DEF StepSave
  <2> QED BY <1>2, <1>3, <2>1 DEF NotUpdate, FirstPush
<1>8. ASSUME NEW d \in Devices, StepConnect(d)
      PROVE  (\A e \in Devices : NotUpdate(doc[e]) /\ NotUpdate(disk[e]) /\ FirstPush(e))'
  <2>1. Others(d) /\ UNCHANGED <<doc, disk>> /\ up'[d][1].t = "hello" /\ conn[d] = "down"
    BY <1>8 DEF StepConnect
  <2>2. (NotUpdate(doc[d]) /\ NotUpdate(disk[d]) /\ FirstPush(d))'
    BY <1>2, <2>1 DEF NotUpdate, FirstPush
  <2> QED BY <1>3, <2>1, <2>2
<1>9. ASSUME NEW d \in Devices, StepState(d)
      PROVE  (\A e \in Devices : NotUpdate(doc[e]) /\ NotUpdate(disk[e]) /\ FirstPush(e))'
  <2>1. PICK rd \in Docs : /\ rd.pending = doc[d].pending /\ SameWrites(rd, doc'[d])
                           /\ up'[d] = PushFrames(rd)
    BY <1>9, NoSeed
  <2>2. Others(d) /\ disk' = disk /\ conn[d] = "hello" /\ conn'[d] = "open"
    BY <1>9 DEF StepState, StateRead
  <2>3. NotUpdate(rd) /\ (rd.pending # <<>> => ~rd.pending[1].inFlight)
    BY <1>2, <2>1, <2>2 DEF NotUpdate, FirstPush
  <2>4. NotUpdate(doc[d])' /\ (rd.pending = <<>> <=> doc'[d].pending = <<>>)
    BY <1>4, <1>5, <2>1, <2>3
  <2>5. rd.pending # <<>> => up'[d] # <<>> /\ up'[d][1].op = rd.pending[1].op
    BY <2>1, <2>3, PushDoc
  <2>6. rd.pending = <<>> => up'[d] = <<>>
    <3> SUFFICES ASSUME rd.pending = <<>>, up'[d] # <<>> PROVE FALSE
      OBVIOUS
    <3>1. up'[d] \in Seq(Pushes)
      BY <2>1, PushDoc
    <3>2. 1 \in 1..Len(up'[d])
      BY <3>1, Popped
    <3>3. InPending(rd, up'[d][1].op)
      BY <2>1, <3>2, PushKnown
    <3> QED BY <3>3 DEF InPending
  <2>7. FirstPush(d)'
    BY <2>2, <2>3, <2>4, <2>5, <2>6 DEF NotUpdate, FirstPush
  <2>8. NotUpdate(disk[d])'
    BY <1>2, <2>2
  <2> QED BY <1>3, <2>2, <2>4, <2>7, <2>8
<1>10. ASSUME NEW d \in Devices, StepFrame(d)
       PROVE  (\A e \in Devices : NotUpdate(doc[e]) /\ NotUpdate(disk[e]) /\ FirstPush(e))'
  <2>1. /\ Others(d) /\ UNCHANGED <<disk, up, conn>> /\ down[d] # <<>> /\ down[d][1].t \in {"rows", "ack"}
        /\ down[d][1].t = "rows" => doc'[d].pending = doc[d].pending
    BY <1>10 DEF StepFrame, FrameRead
  <2>2. down[d][1].t # "ack"
    <3>1. 1 \in 1..Len(down[d])
      BY <1>0, <2>1, Popped
    <3> QED BY <1>1, <3>1 DEF NamesInv, AcksMerged
  <2>3. (NotUpdate(doc[d]) /\ NotUpdate(disk[d]) /\ FirstPush(d))'
    BY <1>2, <2>1, <2>2 DEF NotUpdate, FirstPush
  <2> QED BY <1>3, <2>1, <2>3
<1>11. ASSUME NEW d \in Devices, StepPush(d)
       PROVE  (\A e \in Devices : NotUpdate(doc[e]) /\ NotUpdate(disk[e]) /\ FirstPush(e))'
  <2> DEFINE q == PushFrames(doc[d])
  <2>1. /\ Others(d) /\ UNCHANGED <<disk, conn>> /\ SameWrites(doc[d], doc'[d]) /\ up'[d] = up[d] \o q
        /\ conn[d] = "open"
    BY <1>11 DEF StepPush, Pushed
  <2>2. NotUpdate(doc[d])' /\ (doc[d].pending = <<>> <=> doc'[d].pending = <<>>) /\ NotUpdate(disk[d])'
    BY <1>0, <1>2, <1>4, <1>5, <2>1
  <2>3. q \in Seq(Ups) /\ q \in Seq(Pushes)
    <3>1. q \in Seq(Pushes)
      BY <1>0, PushDoc
    <3>2. Pushes \subseteq Ups
      BY DEF Ups
    <3> HIDE DEF q
    <3> QED BY <3>1, <3>2
  <2>4. doc[d].pending # <<>> /\ ~doc[d].pending[1].inFlight => q # <<>> /\ q[1].op = doc[d].pending[1].op
    BY <1>0, PushDoc
  <2>5. q # <<>> => doc[d].pending # <<>>
    <3> SUFFICES ASSUME q # <<>>, doc[d].pending = <<>> PROVE FALSE
      OBVIOUS
    <3>1. 1 \in 1..Len(q) /\ q = PushFrames(doc[d])
      BY <2>3, Popped
    <3> HIDE DEF q
    <3>2. InPending(doc[d], q[1].op)
      BY <1>0, <3>1, PushKnown
    <3> QED BY <3>2 DEF InPending
  <2> HIDE DEF q
  <2>6. CASE up[d] # <<>>
    <3>1. up'[d] # <<>> /\ up'[d][1] = up[d][1]
      BY <1>0, <2>1, <2>3, <2>6, Joined
    <3>2. FirstPush(d)'
      BY <1>2, <2>1, <2>6, <3>1 DEF FirstPush
    <3> QED BY <1>3, <2>1, <2>2, <3>2
  <2>7. CASE up[d] = <<>>
    <3>1. up'[d] = q
      BY <1>0, <2>1, <2>3, <2>7, Joined
    <3>2. doc[d].pending # <<>> => ~doc[d].pending[1].inFlight
      BY <1>2, <2>7 DEF FirstPush
    <3>3. FirstPush(d)'
      BY <1>2, <2>1, <2>2, <2>4, <2>5, <3>1, <3>2 DEF FirstPush, NotUpdate
    <3> QED BY <1>3, <2>1, <2>2, <3>3
  <2> QED BY <2>6, <2>7
<1>12. ASSUME NEW d \in Devices, StepLoss(d)
       PROVE  (\A e \in Devices : NotUpdate(doc[e]) /\ NotUpdate(disk[e]) /\ FirstPush(e))'
  <2>1. PICK rd \in {doc[d], disk[d]} : SameWrites(rd, doc'[d])
    BY <1>12 DEF StepLoss, Lost
  <2>2. /\ Others(d) /\ up'[d] = <<>> /\ SameWrites(disk[d], disk'[d])
        /\ \A i \in 1..Len(doc'[d].pending) : ~doc'[d].pending[i].inFlight
    BY <1>12 DEF StepLoss, Lost
  <2>3. NotUpdate(doc[d])' /\ NotUpdate(disk[d])'
    BY <1>0, <1>2, <1>4, <1>5, <2>1, <2>2
  <2>4. doc'[d].pending # <<>> => ~doc'[d].pending[1].inFlight
    <3>1. doc'[d].pending \in Seq(Batches)
      BY <1>5, DocFields
    <3>2. doc'[d].pending # <<>> => 1 \in 1..Len(doc'[d].pending)
      BY <3>1, Popped
    <3> QED BY <2>2, <3>2
  <2>5. FirstPush(d)'
    BY <2>2, <2>4 DEF FirstPush
  <2> QED BY <1>3, <2>2, <2>3, <2>5
<1>13. ASSUME NEW d \in Devices, StepHello(d)
       PROVE  (\A e \in Devices : NotUpdate(doc[e]) /\ NotUpdate(disk[e]) /\ FirstPush(e))'
  <2>1. Others(d) /\ UNCHANGED <<doc, disk, conn>> /\ up'[d] = <<>> /\ conn[d] = "hello"
    BY <1>13 DEF StepHello, Answered
  <2>2. (NotUpdate(doc[d]) /\ NotUpdate(disk[d]) /\ FirstPush(d))'
    BY <1>2, <2>1 DEF NotUpdate, FirstPush
  <2> QED BY <1>3, <2>1, <2>2
<1>14. ASSUME NEW d \in Devices, StepMerge(d) PROVE FALSE
  BY <1>14 DEF StepMerge, Merged
<1>15. CASE StepRoom
  <2>1. UNCHANGED <<doc, disk, up, conn>>
    BY <1>15 DEF StepRoom
  <2> QED BY <1>2, <2>1 DEF NotUpdate, FirstPush
<1> QED BY <1>6, <1>7, <1>8, <1>9, <1>10, <1>11, <1>12, <1>13, <1>14, <1>15, Steps

\* A merge leaves what the row reflected reflected.
LEMMA MergeKeeps ==
    ASSUME NEW row \in Rows, Tidy(row), NEW op \in Ops, NEW res, res = ApplyOp(row, op), res.changed = TRUE,
           NEW o \in Ops, \A f \in Fields : o.clk[f] = o.hlc, Reflected(o, row)
    PROVE  Reflected(o, res.row)
<1>0. row.here /\ row.del \in Nat /\ o.hlc \in Nat /\ op.hlc \in Nat /\ \A f \in Fields : row.clk[f] \in Nat
  BY RowFields, OpFields DEF Reflected
<1>1. CASE op.op = "delete"
  <2>1. Beats(op, row) /\ res.row.here /\ res.row.del = op.hlc /\ \A f \in Fields : res.row.clk[f] = 0
    BY <1>0, <1>1, ApplyDelete
  <2>2. op.hlc > row.del /\ \A f \in Fields : op.hlc > row.clk[f]
    BY <2>1 DEF Beats
  <2>3. CASE row.del >= o.hlc
    <3>1. op.hlc >= o.hlc
      BY <1>0, <2>2, <2>3
    <3> QED BY <2>1, <3>1 DEF Reflected
  <2>4. CASE o.op = "update" /\ row.del # 0
    <3>1. op.hlc # 0
      BY <1>0, <2>2
    <3> QED BY <2>1, <2>4, <3>1 DEF Reflected
  <2>5. CASE o.op # "delete" /\ \A f \in Fields : o.set[f] # "keep" => row.clk[f] >= o.clk[f]
    <3>1. CASE \A f \in Fields : o.set[f] = "keep"
      BY <2>1, <2>5, <3>1 DEF Reflected
    <3>2. CASE \E f \in Fields : o.set[f] # "keep"
      <4>1. PICK f \in Fields : o.set[f] # "keep"
        BY <3>2
      <4>2. row.clk[f] >= o.hlc /\ op.hlc > row.clk[f] /\ row.clk[f] \in Nat
        BY <1>0, <2>2, <2>5, <4>1
      <4>3. op.hlc >= o.hlc
        BY <1>0, <4>2
      <4> QED BY <2>1, <4>3 DEF Reflected
    <3> QED BY <3>1, <3>2
  <2>6. CASE o.op = "delete" /\ \E f \in Fields : row.clk[f] > o.hlc
    <3>1. PICK f \in Fields : row.clk[f] > o.hlc
      BY <2>6
    <3>2. op.hlc >= o.hlc
      BY <1>0, <2>2, <3>1
    <3> QED BY <2>1, <3>2 DEF Reflected
  <2> QED BY <2>3, <2>4, <2>5, <2>6 DEF Reflected
<1>2. CASE op.op # "delete"
  <2>1. Taken(row, op, res)
    BY <1>2, ApplyWrite DEF Refused, NoneWon
  <2>2. res.row \in Rows /\ res.row.here /\ res.row.del = row.del
    BY <2>1 DEF Taken
  <2>3. ASSUME NEW f \in Fields PROVE res.row.clk[f] >= row.clk[f] /\ res.row.clk[f] \in Nat
    <3>1. res.row.clk[f] >= BaseClock(row, f) /\ res.row.clk[f] \in Nat
      BY <2>1, <2>2, RowFields DEF Taken
    <3>2. CASE LiveRow(row)
      BY <3>1, <3>2 DEF BaseClock
    <3>3. CASE ~LiveRow(row)
      <4>1. row.clk[f] = 0
        BY <1>0, <3>3 DEF Tidy, LiveRow
      <4> QED BY <3>1, <4>1
    <3> QED BY <3>2, <3>3
  <2>4. CASE row.del >= o.hlc
    BY <2>2, <2>4 DEF Reflected
  <2>5. CASE o.op = "update" /\ row.del # 0
    BY <2>2, <2>5 DEF Reflected
  <2>6. CASE o.op # "delete" /\ \A f \in Fields : o.set[f] # "keep" => row.clk[f] >= o.clk[f]
    <3>1. ASSUME NEW f \in Fields, o.set[f] # "keep" PROVE res.row.clk[f] >= o.clk[f]
      <4>1. row.clk[f] >= o.clk[f] /\ o.clk[f] \in Nat /\ row.clk[f] \in Nat
        BY <1>0, <2>6, <3>1, OpFields
      <4> QED BY <2>3, <4>1
    <3> QED BY <2>2, <2>6, <3>1 DEF Reflected
  <2>7. CASE o.op = "delete" /\ \E f \in Fields : row.clk[f] > o.hlc
    <3>1. PICK f \in Fields : row.clk[f] > o.hlc
      BY <2>7
    <3>2. res.row.clk[f] > o.hlc
      BY <1>0, <2>3, <3>1
    <3> QED BY <2>2, <2>7, <3>2 DEF Reflected
  <2> QED BY <2>4, <2>5, <2>6, <2>7 DEF Reflected
<1> QED BY <1>1, <1>2

\* What a merge brings is reflected, or refused for something newer.
LEMMA MergeTakes ==
    ASSUME NEW row \in Rows, Tidy(row), row.deleted => row.del # 0, NEW op \in Ops,
           op.op = "update" => row.here, op.op = "delete" => \A f \in Fields : row.clk[f] # op.hlc,
           NEW res, res = ApplyOp(row, op)
    PROVE  /\ res.changed = TRUE => Reflected(op, res.row)
           /\ res.changed = FALSE => Reflected(op, row)
<1>0. row.del \in Nat /\ op.hlc \in Nat /\ \A f \in Fields : row.clk[f] \in Nat
  BY RowFields, OpFields
<1>1. CASE op.op = "delete"
  <2>1. CASE res.changed = TRUE
    <3>1. res.row.here /\ res.row.del = op.hlc
      BY <1>1, <2>1, ApplyDelete
    <3>2. res.row.del >= op.hlc
      BY <1>0, <3>1
    <3>3. res.changed # FALSE
      BY <2>1
    <3> QED BY <3>1, <3>2, <3>3 DEF Reflected
  <2>2. CASE res.changed = FALSE
    <3>1. row.here /\ ~Beats(op, row)
      BY <1>1, <2>2, ApplyDelete
    <3>2. row.del >= op.hlc \/ \E f \in Fields : row.clk[f] > op.hlc
      <4> SUFFICES ASSUME ~(row.del >= op.hlc), \A f \in Fields : ~(row.clk[f] > op.hlc) PROVE FALSE
        OBVIOUS
      <4>1. op.hlc > row.del
        BY <1>0
      <4>2. ASSUME NEW f \in Fields PROVE op.hlc > row.clk[f]
        <5>1. row.clk[f] # op.hlc /\ ~(row.clk[f] > op.hlc) /\ row.clk[f] \in Nat
          BY <1>0, <1>1
        <5> QED BY <1>0, <5>1
      <4> QED BY <3>1, <4>1, <4>2 DEF Beats
    <3>3. Reflected(op, row)
      BY <1>1, <3>1, <3>2 DEF Reflected
    <3>4. res.changed # TRUE
      BY <2>2
    <3> QED BY <3>3, <3>4
  <2>3. res.changed = TRUE \/ res.changed = FALSE
    BY <1>1, ApplyDelete
  <2> QED BY <2>1, <2>2, <2>3
<1>2. CASE op.op # "delete"
  <2>1. CASE Refused(row, op, res)
    <3>0. res.changed = FALSE /\ res.changed # TRUE
      BY <2>1 DEF Refused
    <3>1. row.here /\ row.deleted /\ row.del # 0
      BY <2>1 DEF Refused, LiveRow
    <3>2. op.op = "update" \/ row.del >= op.hlc
      BY <1>0, <2>1 DEF Refused
    <3>3. Reflected(op, row)
      BY <3>1, <3>2 DEF Reflected
    <3> QED BY <3>0, <3>3
  <2>2. CASE NoneWon(row, op, res)
    <3>0. res.changed = FALSE /\ res.changed # TRUE /\ row.here
      BY <2>2 DEF NoneWon, LiveRow
    <3>1. ASSUME NEW f \in Fields, op.set[f] # "keep" PROVE row.clk[f] >= op.clk[f]
      <4>1. op.clk[f] <= row.clk[f] /\ op.clk[f] \in Nat
        BY <2>2, <3>1, OpFields DEF NoneWon
      <4> QED BY <1>0, <4>1
    <3> QED BY <1>2, <3>0, <3>1 DEF Reflected
  <2>3. CASE Taken(row, op, res)
    <3>1. res.changed = TRUE /\ res.changed # FALSE
      BY <2>3 DEF Taken
    <3>2. Reflected(op, res.row)
      BY <1>2, <2>3 DEF Taken, Reflected
    <3> QED BY <3>1, <3>2
  <2> QED BY <1>2, <2>1, <2>2, <2>3, ApplyWrite
<1> QED BY <1>1, <1>2

LEMMA RoomKeeps ==
    ASSUME LinkInv, StreamInv, UniqueInv, NamesInv, FirstInv, RoomInv, [Next]_vars, ~wiped, ~wiped'
    PROVE  RoomInv'
<1>0. RegShape /\ room.row \in Rows /\ Tidy(room.row)
  BY DEF LinkInv, RegShape
<1>1. ASSUME room'.row = room.row, merged' = merged, acked' \subseteq merged PROVE RoomInv'
  BY <1>1 DEF RoomInv
<1>2. ASSUME NEW d \in Devices,
             \/ StepWrite(d) \/ StepSave(d) \/ StepConnect(d) \/ StepState(d)
             \/ StepPush(d) \/ StepLoss(d) \/ StepHello(d)
      PROVE  RoomInv'
  <2>1. room' = room /\ merged' = merged /\ acked' = acked
    BY <1>2 DEF StepWrite, StepSave, StepConnect, StepState, StepPush, StepLoss, StepHello
  <2> QED BY <1>1, <2>1 DEF RoomInv
<1>3. ASSUME NEW d \in Devices, StepFrame(d) PROVE RoomInv'
  <2>0. down[d] \in Seq(Downs) /\ doc[d] \in Docs
    BY <1>0, AtDevice
  <2>1. room' = room /\ merged' = merged /\ down[d] # <<>> /\ down[d][1].t \in {"rows", "ack"}
    BY <1>3 DEF StepFrame, FrameRead
  <2>2. acked' \subseteq merged
    <3>1. CASE down[d][1].t = "rows"
      BY <1>3, <3>1 DEF StepFrame, RoomInv
    <3>2. CASE down[d][1].t = "ack"
      <4>1. 1 \in 1..Len(down[d])
        BY <2>0, <2>1, Popped
      <4>2. PICK o \in merged : o.hlc = down[d][1].id
        BY <3>2, <4>1 DEF NamesInv, AcksMerged
      <4>3. ASSUME NEW op \in acked' \ acked PROVE op \in merged
        <5>1. PICK i \in 1..Len(doc[d].pending) : op = doc[d].pending[i].op /\ doc[d].pending[i].id = down[d][1].id
          BY <1>3, <3>2 DEF StepFrame
        <5>2. op.hlc = o.hlc
          BY <4>2, <5>1 DEF NamesInv, Named
        <5>3. Known(op) /\ Known(o)
          BY <4>2, <5>1 DEF Known, InPending
        <5>4. op = o
          BY <5>2, <5>3 DEF UniqueInv
        <5> QED BY <4>2, <5>4
      <4> QED BY <4>3 DEF RoomInv
    <3> QED BY <2>1, <3>1, <3>2
  <2> QED BY <1>1, <2>1, <2>2
<1>4. ASSUME NEW d \in Devices, StepMerge(d) PROVE RoomInv'
  <2> DEFINE op == up[d][1].op
             res == ApplyOp(room.row, op)
  <2>1. /\ up[d] # <<>> /\ up[d][1] \in Pushes /\ merged' = merged \cup {op} /\ acked' = acked
        /\ \/ res.changed = FALSE /\ room' = room
           \/ res.changed = TRUE /\ SameContent(room'.row, res.row) /\ room'.row.here
    BY <1>4 DEF StepMerge, Merged
  <2>2. op \in Ops /\ up[d][1].t = "push" /\ 1 \in 1..Len(up[d]) /\ up[d] \in Seq(Ups)
    <3>1. up[d] \in Seq(Ups)
      BY <1>0, AtDevice
    <3> QED BY <2>1, <3>1, Popped DEF Pushes
  <2>3. Known(op)
    BY <2>2 DEF Known, InUp
  <2>4. ASSUME NEW o, Known(o) PROVE o \in Ops /\ (\A f \in Fields : o.clk[f] = o.hlc) /\ o.hlc >= 1 /\ o.hlc \in Nat
    <3>1. Stamped(o)
      BY <2>4 DEF UniqueInv
    <3> QED BY <3>1, HlcNat DEF Stamped
  <2>5. \A o \in merged : Known(o)
    BY DEF Known
  <2>6. ~room.row.here => merged = {}
    BY DEF RoomInv, Reflected
  <2>7. op.op = "update" => room.row.here
    <3> SUFFICES ASSUME op.op = "update", ~room.row.here PROVE FALSE
      OBVIOUS
    <3>1. merged = {}
      BY <2>6
    <3> QED BY <2>1, <2>2, <3>1 DEF FirstInv, FirstPush
  <2>8. op.op = "delete" => \A f \in Fields : room.row.clk[f] # op.hlc
    <3> SUFFICES ASSUME op.op = "delete", NEW f \in Fields, room.row.clk[f] = op.hlc PROVE FALSE
      OBVIOUS
    <3>1. room.row.clk[f] # 0
      BY <2>3, <2>4
    <3>2. PICK o \in merged : o.op # "delete" /\ o.hlc = room.row.clk[f]
      BY <3>1 DEF RoomInv
    <3>3. o = op
      BY <2>3, <2>5, <3>2 DEF UniqueInv
    <3> QED BY <3>2, <3>3
  <2>9. /\ res.changed = TRUE => Reflected(op, res.row)
        /\ res.changed = FALSE => Reflected(op, room.row)
    BY <1>0, <2>2, <2>7, <2>8, MergeTakes DEF RoomInv
  <2>10. CASE res.changed = FALSE /\ room' = room
    <3>1. Reflected(op, room.row)
      BY <2>9, <2>10
    <3>2. \A o \in merged' : Reflected(o, room.row)
      BY <2>1, <3>1 DEF RoomInv
    <3>3. merged \subseteq merged'
      BY <2>1
    <3> HIDE DEF res, op
    <3> QED BY <2>1, <2>10, <3>2, <3>3 DEF RoomInv
  <2>11. CASE res.changed = TRUE /\ SameContent(room'.row, res.row) /\ room'.row.here
    <3>1. ASSUME NEW o, Reflected(o, res.row) PROVE Reflected(o, room'.row)
      <4>1. room'.row.here = res.row.here /\ room'.row.del = res.row.del /\ room'.row.clk = res.row.clk
        BY <2>11 DEF SameContent
      <4> HIDE DEF res, op
      <4> QED BY <3>1, <4>1 DEF Reflected
    <3>2. ASSUME NEW o \in merged PROVE Reflected(o, room'.row)
      <4>1. Reflected(o, room.row) /\ o \in Ops /\ \A f \in Fields : o.clk[f] = o.hlc
        BY <2>4, <2>5 DEF RoomInv
      <4>2. res = ApplyOp(room.row, op) /\ res.changed = TRUE /\ room.row \in Rows /\ Tidy(room.row)
        BY <1>0, <2>11 DEF RoomInv
      <4> HIDE DEF res, op
      <4>3. Reflected(o, res.row)
        BY <2>2, <4>1, <4>2, MergeKeeps
      <4> QED BY <3>1, <4>3
    <3>3. Reflected(op, room'.row)
      BY <2>9, <2>11, <3>1
    <3>4. acked' \subseteq merged' /\ merged' # {} /\ merged \subseteq merged' /\ op \in merged'
      BY <2>1 DEF RoomInv
    <3>5. CASE op.op = "delete"
      <4>1. res.row.del = op.hlc /\ \A f \in Fields : res.row.clk[f] = 0
        BY <1>0, <2>2, <2>11, <3>5, ApplyDelete
      <4>2. room'.row.del # 0 /\ \A f \in Fields : room'.row.clk[f] = 0
        BY <2>3, <2>4, <2>11, <4>1 DEF SameContent
      <4> HIDE DEF res
      <4> QED BY <2>1, <3>2, <3>3, <3>4, <4>2 DEF RoomInv
    <3>6. CASE op.op # "delete"
      <4>1. Taken(room.row, op, res)
        BY <1>0, <2>2, <2>11, <3>6, ApplyWrite DEF Refused, NoneWon
      <4>2. ~room'.row.deleted
        BY <2>11, <4>1 DEF Taken, SameContent
      <4>3. ASSUME NEW f \in Fields, room'.row.clk[f] # 0
            PROVE  \E o \in merged' : o.op # "delete" /\ o.hlc = room'.row.clk[f]
        <5>1. room'.row.clk[f] = BaseClock(room.row, f) \/ room'.row.clk[f] = op.clk[f]
          BY <2>11, <4>1 DEF Taken, SameContent
        <5>2. CASE room'.row.clk[f] = op.clk[f]
          <6>1. op.clk[f] = op.hlc
            BY <2>3, <2>4
          <6> QED BY <3>4, <3>6, <5>2, <6>1
        <5>3. CASE room'.row.clk[f] = BaseClock(room.row, f)
          <6>1. room'.row.clk[f] = room.row.clk[f]
            BY <4>3, <5>3 DEF BaseClock
          <6> QED BY <3>4, <4>3, <6>1 DEF RoomInv
        <5> QED BY <5>1, <5>2, <5>3
      <4> HIDE DEF res
      <4> QED BY <2>1, <3>2, <3>3, <3>4, <4>2, <4>3 DEF RoomInv
    <3> QED BY <3>5, <3>6
  <2> QED BY <2>1, <2>10, <2>11
<1>5. CASE StepRoom
  <2>1. room'.row = room.row /\ merged' = merged /\ acked' = acked
    BY <1>5 DEF StepRoom
  <2> QED BY <1>1, <2>1 DEF RoomInv
<1> QED BY <1>2, <1>3, <1>4, <1>5, Steps

LEMMA OpsStep == ASSUME LinkInv, StreamInv, OpsInv, [Next]_vars PROVE OpsInv'
<1> SUFFICES ASSUME ~wiped' PROVE (UniqueInv /\ NamesInv /\ FirstInv /\ RoomInv)'
  BY DEF OpsInv
<1>1. ~wiped
  <2>1. ASSUME NEW d \in Devices,
               \/ StepWrite(d) \/ StepSave(d) \/ StepConnect(d) \/ StepState(d) \/ StepFrame(d)
               \/ StepPush(d) \/ StepLoss(d) \/ StepHello(d) \/ StepMerge(d)
        PROVE  wiped' = wiped
    BY <2>1 DEF StepWrite, StepSave, StepConnect, StepState, StepFrame, StepPush, StepLoss, StepHello, StepMerge
  <2>2. CASE StepRoom
    BY <2>2 DEF StepRoom
  <2> QED BY <2>1, <2>2, Steps
<1>2. UniqueInv /\ NamesInv /\ FirstInv /\ RoomInv
  BY <1>1 DEF OpsInv
<1> QED BY <1>1, <1>2, UniqueStep, NamesStep, FirstStep, RoomKeeps

LEMMA OpsInit == ASSUME Init PROVE OpsInv
<1>1. /\ \A d \in Devices : /\ doc[d].pending = <<>> /\ disk[d].pending = <<>> /\ up[d] = <<>> /\ down[d] = <<>>
      /\ merged = {} /\ acked = {} /\ room.row = NoRow
  BY NewDocShape DEF Init
<1>2. \A o : ~Known(o)
  BY <1>1 DEF Known, InPending, InUp
<1>3. UniqueInv
  BY <1>2 DEF UniqueInv
<1>4. NamesInv
  BY <1>1 DEF NamesInv, Named, NamedUp, AcksMerged
<1>5. FirstInv
  BY <1>1 DEF FirstInv, NotUpdate, FirstPush
<1>6. RoomInv
  BY <1>1, NoRowShape DEF RoomInv
<1> QED BY <1>3, <1>4, <1>5, <1>6 DEF OpsInv

\* A write that was acknowledged is in the room's row for good, its fields or newer
\* ones, or beaten by a newer tombstone, through repeats after lost acks, restarts from
\* old snapshots and every order of arrival (no wipes).
THEOREM AckedWritesSurvive == Spec => []AckedWriteSurvives
<1>1. Init => LinkInv /\ StreamInv /\ OpsInv
  BY LinkInit, StreamInit, OpsInit
<1>2. LinkInv /\ StreamInv /\ OpsInv /\ [Next]_vars => (LinkInv /\ StreamInv /\ OpsInv)'
  BY Steps, StreamStep, OpsStep
<1>3. OpsInv => AckedWriteSurvives
  BY DEF OpsInv, RoomInv, AckedWriteSurvives
<1> QED BY <1>1, <1>2, <1>3, PTL DEF Spec

-----------------------------------------------------------------------------
(* The order of batches, pushes and acks.                                    *)

\* A set of numbers that has 0 and the successor of each member has them all.
LEMMA Induct ==
    ASSUME NEW S, 0 \in S, \A n \in Nat : n \in S => n + 1 \in S
    PROVE  \A n \in Nat : n \in S
<1> DEFINE T == Nat \ S
<1> SUFFICES ASSUME T # {} PROVE FALSE
  OBVIOUS
<1>1. PICK n \in T : \A m \in T : ~(m < n)
  BY Least
<1>2. n # 0 /\ n - 1 \in Nat /\ n - 1 < n
  BY <1>1
<1>3. n - 1 \in S
  BY <1>1, <1>2
<1> QED BY <1>1, <1>2, <1>3

\* Ids grow along the sequence.
Rising(s) == \A i, j \in 1..Len(s) : i < j => s[i].id < s[j].id

\* Appending a larger id.
LEMMA RisingAppend ==
    ASSUME NEW S, \A x \in S : x.id \in Nat, NEW s \in Seq(S), Rising(s), NEW x \in S,
           \A i \in 1..Len(s) : s[i].id < x.id
    PROVE  Rising(Append(s, x))
<1> DEFINE r == Append(s, x)
<1>1. /\ Len(s) \in Nat /\ Len(r) = Len(s) + 1 /\ r[Len(s) + 1] = x /\ \A i \in 1..Len(s) : r[i] = s[i]
  BY Appended
<1> HIDE DEF r
<1>2. ASSUME NEW i \in 1..Len(r), NEW j \in 1..Len(r), i < j PROVE r[i].id < r[j].id
  <2>1. i \in 1..Len(s) /\ r[i] = s[i]
    BY <1>1, <1>2
  <2>2. CASE j \in 1..Len(s)
    BY <1>1, <1>2, <2>1, <2>2 DEF Rising
  <2>3. CASE j = Len(s) + 1
    BY <1>1, <2>1, <2>3
  <2> QED BY <1>1, <2>2, <2>3
<1>3. Rising(r)
  BY <1>2 DEF Rising
<1> QED BY <1>3 DEF r

\* The sequence c is what s has at the positions keep, its ids rising.
Sifted(c, s, keep) ==
    /\ Rising(c)
    /\ \A i \in 1..Len(s) : i \in keep => \E k \in 1..Len(c) : c[k] = s[i]
    /\ \A k \in 1..Len(c) : \E i \in 1..Len(s) : i \in keep /\ c[k] = s[i]

\* What is chosen keeps its order, and nothing that is to be kept is left out.
LEMMA ChosenOrder ==
    ASSUME NEW s \in Seq(Batches), Rising(s), NEW keep
    PROVE  Sifted(Chosen(s, keep), s, keep)
<1> DEFINE c == Chosen(s, keep)
           N == Len(s)
           T == {s[i] : i \in keep \cap (1..N)}
<1>1. PICK f : Tabled(f, s, keep)
  BY ChosenTable
<1>2. /\ c = f[N] /\ f[0] = <<>> /\ N \in Nat
      /\ \A i \in 1..N : f[i] = IF i \in keep THEN Append(f[i - 1], s[i]) ELSE f[i - 1]
      /\ \A n \in 0..N : f[n] \in Seq(T)
  BY <1>1 DEF Tabled
<1> HIDE DEF c
<1>3. /\ \A i \in 1..N : i \in keep => s[i] \in T
      /\ \A x \in T : x.id \in Nat
  <2>1. \A i \in 1..N : s[i] \in Batches
    OBVIOUS
  <2> QED BY <2>1 DEF Batches
<1> DEFINE Good(n) ==
             /\ Rising(f[n])
             /\ \A i \in 1..n : i \in keep => \E k \in 1..Len(f[n]) : f[n][k] = s[i]
             /\ \A k \in 1..Len(f[n]) : \E i \in 1..n : i \in keep /\ f[n][k] = s[i]
           G == {n \in Nat : n <= N => Good(n)}
<1>4. \A i, j \in 1..N : i < j => s[i].id < s[j].id
  BY DEF Rising
<1> HIDE DEF N, T
<1>5. 0 \in G
  <2>1. Len(f[0]) = 0
    BY <1>2
  <2>2. Good(0)
    BY <2>1 DEF Rising
  <2> HIDE DEF Good
  <2> QED BY <2>2
<1>6. ASSUME NEW n \in Nat, n \in G PROVE n + 1 \in G
  <2> SUFFICES ASSUME n + 1 <= N PROVE Good(n + 1)
    OBVIOUS
  <2>1. Good(n) /\ n + 1 \in 1..N /\ (n + 1) - 1 = n /\ n \in 0..N /\ f[n] \in Seq(T)
    BY <1>2, <1>6
  <2>2. f[n + 1] = IF n + 1 \in keep THEN Append(f[n], s[n + 1]) ELSE f[n]
    BY <1>2, <2>1
  <2>0. \A i \in 1..(n + 1) : i \in 1..n \/ i = n + 1
    OBVIOUS
  <2>00. \A i \in 1..n : i \in 1..(n + 1) /\ i \in 1..N /\ i < n + 1
    BY <1>2
  <2>3. CASE n + 1 \notin keep
    <3>1. f[n + 1] = f[n]
      BY <2>2, <2>3
    <3> QED BY <2>0, <2>00, <2>1, <2>3, <3>1
  <2>4. CASE n + 1 \in keep
    <3> DEFINE r == f[n]
               x == s[n + 1]
               t == Append(r, x)
    <3>1. f[n + 1] = t /\ x \in T /\ r \in Seq(T)
      BY <1>3, <2>1, <2>2, <2>4
    <3>2. /\ Len(r) \in Nat /\ Len(t) = Len(r) + 1 /\ t[Len(r) + 1] = x /\ \A i \in 1..Len(r) : t[i] = r[i]
      BY <3>1, Appended
    <3>3. /\ Rising(r)
          /\ \A i \in 1..n : i \in keep => \E k \in 1..Len(r) : r[k] = s[i]
          /\ \A k \in 1..Len(r) : \E i \in 1..n : i \in keep /\ r[k] = s[i]
      BY <2>1
    <3>4. \A k \in 1..Len(r) : r[k].id < x.id
      BY <1>4, <2>00, <2>1, <3>3
    <3> HIDE DEF r, x, Good
    <3>5. Rising(t)
      BY <1>3, <3>1, <3>3, <3>4, RisingAppend
    <3> HIDE DEF t
    <3>6. \A k \in 1..Len(t) : k \in 1..Len(r) \/ k = Len(r) + 1
      BY <3>2
    <3>7. Len(r) + 1 \in 1..Len(t) /\ \A k \in 1..Len(r) : k \in 1..Len(t)
      BY <3>2
    <3>8. ASSUME NEW i \in 1..(n + 1), i \in keep PROVE \E k \in 1..Len(t) : t[k] = s[i]
      BY <2>0, <3>2, <3>3, <3>7, <3>8 DEF x
    <3>9. ASSUME NEW k \in 1..Len(t) PROVE \E i \in 1..(n + 1) : i \in keep /\ t[k] = s[i]
      <4>1. CASE k \in 1..Len(r)
        <5>1. PICK i \in 1..n : i \in keep /\ r[k] = s[i]
          BY <3>3, <4>1
        <5>2. i \in 1..(n + 1) /\ t[k] = r[k]
          BY <2>00, <3>2, <4>1
        <5> QED BY <5>1, <5>2
      <4>2. CASE k = Len(r) + 1
        <5>1. n + 1 \in 1..(n + 1) /\ t[k] = s[n + 1]
          BY <3>2, <4>2 DEF x
        <5> QED BY <2>4, <5>1
      <4> QED BY <3>6, <4>1, <4>2
    <3> QED BY <3>1, <3>5, <3>8, <3>9 DEF Good
  <2> QED BY <2>3, <2>4
<1>7. N \in G
  <2> HIDE DEF G
  <2> QED BY <1>2, <1>5, <1>6, Induct
<1>8. Good(N)
  BY <1>2, <1>7
<1>9. Sifted(c, s, keep)
  BY <1>2, <1>8 DEF Sifted, N
<1> QED BY <1>9 DEF c

\* All but the first: the tail.
LEMMA ChosenRest ==
    ASSUME NEW S, NEW s \in Seq(S), s # <<>>, NEW keep, 1 \notin keep, \A i \in 2..Len(s) : i \in keep,
           NEW c, c = Chosen(s, keep)
    PROVE  Len(c) = Len(s) - 1 /\ \A k \in 1..Len(c) : c[k] = s[k + 1]
<1> DEFINE N == Len(s)
           T == {s[i] : i \in keep \cap (1..N)}
<1>1. PICK f : Tabled(f, s, keep)
  BY ChosenTable
<1>2. /\ c = f[N] /\ f[0] = <<>> /\ N \in Nat /\ N >= 1
      /\ \A i \in 1..N : f[i] = IF i \in keep THEN Append(f[i - 1], s[i]) ELSE f[i - 1]
      /\ \A n \in 0..N : f[n] \in Seq(T)
  BY <1>1 DEF Tabled
<1>3. \A i \in 1..N : i \in keep => s[i] \in T
  OBVIOUS
<1>k. \A i \in 2..N : i \in keep
  OBVIOUS
<1> DEFINE Good(n) == Len(f[n + 1]) = n /\ \A k \in 1..n : f[n + 1][k] = s[k + 1]
           G == {n \in Nat : n + 1 <= N => Good(n)}
<1> HIDE DEF N, T
<1>5. 0 \in G
  <2>1. f[1] = f[1 - 1] /\ 1 - 1 = 0
    BY <1>2
  <2>2. Good(0)
    BY <1>2, <2>1
  <2> HIDE DEF Good
  <2> QED BY <2>2
<1>6. ASSUME NEW n \in Nat, n \in G PROVE n + 1 \in G
  <2> SUFFICES ASSUME n + 1 + 1 <= N PROVE Good(n + 1)
    OBVIOUS
  <2>1. /\ Good(n) /\ n + 1 + 1 \in 2..N /\ n + 1 + 1 \in 1..N /\ (n + 1 + 1) - 1 = n + 1
        /\ n + 1 \in 0..N
    BY <1>2, <1>6
  <2> DEFINE r == f[n + 1]
             x == s[n + 1 + 1]
             t == Append(r, x)
  <2>2. f[n + 1 + 1] = t /\ x \in T /\ r \in Seq(T)
    BY <1>2, <1>3, <1>k, <2>1
  <2>3. /\ Len(r) \in Nat /\ Len(t) = Len(r) + 1 /\ t[Len(r) + 1] = x /\ \A i \in 1..Len(r) : t[i] = r[i]
    BY <2>2, Appended
  <2>4. Len(r) = n /\ \A k \in 1..n : r[k] = s[k + 1]
    BY <2>1
  <2> HIDE DEF r, t
  <2>5. \A k \in 1..(n + 1) : k \in 1..n \/ k = n + 1
    OBVIOUS
  <2> QED BY <2>2, <2>3, <2>4, <2>5
<1>7. \A n \in Nat : n \in G
  <2> HIDE DEF G
  <2> QED BY <1>5, <1>6, Induct
<1>8. N - 1 \in Nat /\ (N - 1) + 1 = N
  BY <1>2
<1>9. Good(N - 1)
  BY <1>7, <1>8
<1> QED BY <1>2, <1>8, <1>9 DEF N

-----------------------------------------------------------------------------
(* What a replica shows.                                                     *)

\* The recursive function behind Overlay's fold, over the batches p from the row a.
Layer(a, p, g, s) == IF s = {} THEN a ELSE ApplyOp(g[s \ {Max(s)}], p[Max(s)].op).row
Table(a, p) == CHOOSE g : g = [s \in SUBSET (DOMAIN p) |-> Layer(a, p, g, s)]

\* FoldLeft reads its result off that table.
LEMMA OverlayTable == \A rd : Overlay(rd) = Table(rd.auth, rd.pending)[DOMAIN rd.pending]
BY DEF Overlay, FoldLeft, MapThenFoldSet, Table, Layer

\* A set of numbers up to n + 1 that has n + 1: its largest member, and the others.
LEMMA MaxOf ==
    ASSUME NEW n \in Nat, NEW s \in SUBSET (1..(n + 1)), n + 1 \in s
    PROVE  Max(s) = n + 1 /\ s \ {Max(s)} \in SUBSET (1..n)
<1>1. \A y \in s : n + 1 >= y
  OBVIOUS
<1>2. \A x \in s : (\A y \in s : x >= y) => x = n + 1
  OBVIOUS
<1>3. Max(s) = n + 1
  BY <1>1, <1>2 DEF Max
<1> QED BY <1>3

\* The table exists.
LEMMA TableExists ==
    ASSUME NEW a, NEW p, NEW N \in Nat, DOMAIN p = 1..N
    PROVE  Table(a, p) = [s \in SUBSET (1..N) |-> Layer(a, p, Table(a, p), s)]
<1> DEFINE Ok(n) == \E g : g = [s \in SUBSET (1..n) |-> Layer(a, p, g, s)]
           S == {n \in Nat : Ok(n)}
<1>1. 0 \in S
  <2> DEFINE g == [s \in SUBSET (1..0) |-> a]
  <2>1. \A s \in SUBSET (1..0) : Layer(a, p, g, s) = a
    BY DEF Layer
  <2>2. g = [s \in SUBSET (1..0) |-> Layer(a, p, g, s)]
    BY <2>1
  <2> QED BY <2>2
<1>2. ASSUME NEW n \in Nat, n \in S PROVE n + 1 \in S
  <2>1. PICK g : g = [s \in SUBSET (1..n) |-> Layer(a, p, g, s)]
    BY <1>2
  <2> DEFINE h == [s \in SUBSET (1..(n + 1)) |->
                    IF n + 1 \in s THEN ApplyOp(g[s \ {n + 1}], p[n + 1].op).row ELSE g[s]]
  <2>2. ASSUME NEW s \in SUBSET (1..(n + 1)) PROVE h[s] = Layer(a, p, h, s)
    <3>1. CASE n + 1 \in s
      <4>1. Max(s) = n + 1 /\ s \ {n + 1} \in SUBSET (1..n) /\ s # {}
        BY <3>1, MaxOf
      <4>2. h[s \ {n + 1}] = g[s \ {n + 1}]
        BY <4>1
      <4>3. h[s] = ApplyOp(g[s \ {n + 1}], p[n + 1].op).row
        BY <3>1
      <4> HIDE DEF h
      <4> QED BY <4>1, <4>2, <4>3 DEF Layer
    <3>2. CASE n + 1 \notin s
      <4>1. s \in SUBSET (1..n)
        BY <3>2
      <4>2. h[s] = Layer(a, p, g, s)
        BY <2>1, <3>2, <4>1
      <4>3. s \ {Max(s)} \in SUBSET (1..n) /\ n + 1 \notin s \ {Max(s)}
        <5> DEFINE m == Max(s)
        <5> HIDE DEF m
        <5>1. s \ {m} \in SUBSET (1..n) /\ n + 1 \notin s \ {m}
          BY <3>2, <4>1
        <5> QED BY <5>1 DEF m
      <4>4. h[s \ {Max(s)}] = g[s \ {Max(s)}]
        BY <4>3
      <4> QED BY <4>2, <4>4 DEF Layer
    <3> QED BY <3>1, <3>2
  <2>3. h = [s \in SUBSET (1..(n + 1)) |-> Layer(a, p, h, s)]
    BY <2>2
  <2>4. Ok(n + 1)
    BY <2>3
  <2> HIDE DEF Ok
  <2> QED BY <2>4
<1>3. Ok(N)
  <2>1. \A n \in Nat : n \in S => n + 1 \in S
    BY <1>2
  <2> HIDE DEF S
  <2>2. N \in S
    BY <1>1, <2>1, Induct
  <2> QED BY <2>2 DEF S
<1> QED BY <1>3 DEF Table

\* The table of a sequence, read along its prefixes.
LEMMA TableSteps ==
    ASSUME NEW a, NEW p, NEW N \in Nat, DOMAIN p = 1..N
    PROVE  /\ Table(a, p)[1..0] = a
           /\ \A n \in 0..(N - 1) : Table(a, p)[1..(n + 1)] = ApplyOp(Table(a, p)[1..n], p[n + 1].op).row
<1> DEFINE g == Table(a, p)
<1>1. g = [s \in SUBSET (1..N) |-> Layer(a, p, g, s)]
  BY ONLY N \in Nat, DOMAIN p = 1..N, TableExists, ZenonT(40)
<1> HIDE DEF g
<1>2. g[1..0] = a
  <2>1. 1..0 = {} /\ 1..0 \in SUBSET (1..N)
    OBVIOUS
  <2>2. g[1..0] = Layer(a, p, g, 1..0)
    BY <1>1, <2>1
  <2> QED BY <2>1, <2>2 DEF Layer
<1>3. ASSUME NEW n \in 0..(N - 1) PROVE g[1..(n + 1)] = ApplyOp(g[1..n], p[n + 1].op).row
  <2>0. n \in Nat /\ n + 1 <= N
    OBVIOUS
  <2>1. 1..(n + 1) \in SUBSET (1..N) /\ n + 1 \in 1..(n + 1) /\ 1..(n + 1) # {}
    BY <2>0
  <2>2. (1..(n + 1)) \ {n + 1} = 1..n
    BY <2>0
  <2>3. Max(1..(n + 1)) = n + 1
    BY <2>0, <2>1, MaxOf
  <2>4. g[1..(n + 1)] = Layer(a, p, g, 1..(n + 1))
    BY <1>1, <2>1
  <2> QED BY <2>1, <2>2, <2>3, <2>4 DEF Layer
<1> QED BY <1>2, <1>3 DEF g

\* The sequence q is p without its first element.
Dropped(p, q, N) == DOMAIN p = 1..(N + 1) /\ DOMAIN q = 1..N /\ \A k \in 1..N : q[k] = p[k + 1]

\* The two show the same.
ShowSame(a, p, q, N) == Table(a, q)[1..N] = Table(a, p)[1..(N + 1)]

\* A first batch that changes nothing can be dropped.
LEMMA OverlayDrop ==
    ASSUME NEW a, NEW p, NEW q, NEW N \in Nat, Dropped(p, q, N), ApplyOp(a, p[1].op).row = a
    PROVE  ShowSame(a, p, q, N)
<1>0. DOMAIN p = 1..(N + 1) /\ DOMAIN q = 1..N /\ \A k \in 1..N : q[k] = p[k + 1]
  BY DEF Dropped
<1> DEFINE g == Table(a, p)
           h == Table(a, q)
           G == {n \in Nat : n <= N => h[1..n] = g[1..(n + 1)]}
<1>1. /\ g[1..0] = a
      /\ \A n \in 0..N : g[1..(n + 1)] = ApplyOp(g[1..n], p[n + 1].op).row
  <2>1. N + 1 \in Nat /\ (N + 1) - 1 = N
    OBVIOUS
  <2> QED BY <1>0, <2>1, TableSteps
<1>2. /\ h[1..0] = a
      /\ \A n \in 0..(N - 1) : h[1..(n + 1)] = ApplyOp(h[1..n], q[n + 1].op).row
  BY <1>0, TableSteps
<1> HIDE DEF g, h
<1>3. 0 \in G
  <2>1. 0 \in 0..N /\ 0 + 1 = 1
    OBVIOUS
  <2>2. g[1..(0 + 1)] = ApplyOp(g[1..0], p[0 + 1].op).row
    BY <1>1, <2>1
  <2>3. g[1..(0 + 1)] = a
    BY <1>1, <2>1, <2>2
  <2> QED BY <1>2, <2>3
<1>4. ASSUME NEW n \in Nat, n \in G PROVE n + 1 \in G
  <2> SUFFICES ASSUME n + 1 <= N PROVE h[1..(n + 1)] = g[1..(n + 1 + 1)]
    OBVIOUS
  <2>1. n \in 0..(N - 1) /\ n + 1 \in 0..N /\ n + 1 \in 1..N /\ h[1..n] = g[1..(n + 1)]
    BY <1>4
  <2>2. q[n + 1] = p[n + 1 + 1]
    BY <1>0, <2>1
  <2> QED BY <1>1, <1>2, <2>1, <2>2
<1>5. N \in G
  <2> HIDE DEF G
  <2> QED BY <1>3, <1>4, Induct
<1> QED BY <1>5 DEF g, h, ShowSame

\* A write that wins nothing on a live row leaves the row as it is.
LEMMA WriteIdle ==
    ASSUME NEW row \in Rows, NEW op \in Ops, op.op # "delete", LiveRow(row),
           \A f \in Fields : op.set[f] # "keep" => op.clk[f] <= row.clk[f]
    PROVE  ApplyOp(row, op).row = row
<1> DEFINE wins == {f \in Fields : op.set[f] # "keep" /\ op.clk[f] > row.clk[f]}
           has  == [f \in Fields |-> IF f \in wins THEN op.set[f] = "value" ELSE row.has[f]]
           clk  == [f \in Fields |-> IF f \in wins THEN op.clk[f] ELSE row.clk[f]]
<1>1. ApplyOp(row, op) = [row |-> [row EXCEPT !.has = has, !.clk = clk], changed |-> ~LiveRow(row) \/ wins # {}]
  BY DEF ApplyOp, WriteRow
<1>2. wins = {}
  <2>1. ASSUME NEW f \in Fields, op.set[f] # "keep", op.clk[f] > row.clk[f] PROVE FALSE
    <3>1. op.clk[f] \in Nat /\ row.clk[f] \in Nat
      BY RowFields, OpFields
    <3> QED BY <2>1, <3>1
  <2> QED BY <2>1
<1> HIDE DEF wins
<1>3. has = [f \in Fields |-> row.has[f]] /\ clk = [f \in Fields |-> row.clk[f]]
  BY <1>2
<1>4. has = row.has /\ clk = row.clk
  BY <1>3, RowFields
<1> HIDE DEF has, clk
<1>5. [row EXCEPT !.has = has, !.clk = clk] = row
  BY <1>4 DEF Rows
<1> QED BY <1>1, <1>5

\* A merge that reports no change made none.
LEMMA ApplyIdle ==
    ASSUME NEW row \in Rows, NEW op \in Ops, ApplyOp(row, op).changed = FALSE
    PROVE  ApplyOp(row, op).row = row
<1>1. CASE op.op = "delete"
  <2>1. ApplyOp(row, op) = DeleteRow(op, row)
    BY <1>1 DEF ApplyOp
  <2>2. ~(~row.here \/ Beats(op, row))
    BY <2>1 DEF DeleteRow
  <2>3. DeleteRow(op, row) = [row |-> row, changed |-> FALSE]
    BY <2>2 DEF DeleteRow
  <2> QED BY <2>1, <2>3
<1>2. CASE op.op # "delete"
  <2> DEFINE res == ApplyOp(row, op)
  <2>1. Refused(row, op, res) \/ NoneWon(row, op, res)
    BY <1>2, ApplyWrite DEF Taken
  <2>2. CASE NoneWon(row, op, res)
    BY <1>2, <2>2, WriteIdle DEF NoneWon
  <2>3. CASE Refused(row, op, res)
    <3>1. ~LiveRow(row) /\ (op.op = "update" \/ (row.here /\ op.hlc <= row.del))
      BY <2>3 DEF Refused
    <3>2. WriteRow(op, row) = [row |-> row, changed |-> FALSE]
      BY <3>1 DEF WriteRow
    <3> QED BY <1>2, <3>2 DEF ApplyOp
  <2> QED BY <2>1, <2>2, <2>3
<1> QED BY <1>1, <1>2

\* A merge that changed the row changes it no more.
LEMMA ApplyTwice ==
    ASSUME NEW row \in Rows, NEW op \in Ops, ApplyOp(row, op).changed = TRUE,
           NEW next \in Rows, SameContent(next, ApplyOp(row, op).row)
    PROVE  ApplyOp(next, op).row = next
<1> DEFINE res == ApplyOp(row, op)
<1>1. CASE op.op = "delete"
  <2>1. res.row.here /\ res.row.del = op.hlc
    BY <1>1, ApplyDelete
  <2>2. next.here /\ next.del = op.hlc
    BY <2>1 DEF SameContent
  <2>3. op.hlc \in Nat
    BY OpFields
  <2>4. ~Beats(op, next)
    BY <2>2, <2>3 DEF Beats
  <2>5. ApplyOp(next, op) = [row |-> next, changed |-> FALSE]
    BY <1>1, <2>2, <2>4 DEF ApplyOp, DeleteRow
  <2> QED BY <2>5
<1>2. CASE op.op # "delete"
  <2>1. Taken(row, op, res)
    BY <1>2, ApplyWrite DEF Refused, NoneWon
  <2>2. next.here /\ ~next.deleted /\ next.clk = res.row.clk
    BY <2>1 DEF Taken, SameContent
  <2>3. ASSUME NEW f \in Fields, op.set[f] # "keep" PROVE op.clk[f] <= next.clk[f]
    <3>1. res.row.clk[f] >= op.clk[f]
      BY <2>1, <2>3 DEF Taken
    <3>2. op.clk[f] \in Nat /\ next.clk[f] \in Nat
      BY RowFields, OpFields
    <3> QED BY <2>2, <3>1, <3>2
  <2> QED BY <1>2, <2>2, <2>3, WriteIdle DEF LiveRow
<1> QED BY <1>1, <1>2

-----------------------------------------------------------------------------
(* A replica's pending batches are the acknowledged ones, the pushed ones    *)
(* and the waiting ones, in this order, and an ack finds the row its batch    *)
(* left.                                                                      *)

Below(p, n) == \A i \in 1..Len(p) : p[i].id <= n

\* A batch of p has this id, and every waiting one comes after it.
Precedes(p, n) == /\ \E i \in 1..Len(p) : p[i].id = n
                  /\ \A i \in 1..Len(p) : ~p[i].inFlight => n < p[i].id

\* The batches p, the pushes u and the frames q on their way back.
InLine(p, u, q) ==
    /\ Rising(u)
    /\ \A j, k \in 1..Len(q) : j < k /\ q[j].t = "ack" /\ q[k].t = "ack" => q[j].id < q[k].id
    /\ \A k \in 1..Len(q) : q[k].t = "ack" =>
         Precedes(p, q[k].id) /\ \A j \in 1..Len(u) : q[k].id < u[j].id
    /\ \A j \in 1..Len(u) : Precedes(p, u[j].id)
    /\ \A i \in 1..Len(p) : p[i].inFlight =>
         \/ \E k \in 1..Len(q) : q[k].t = "ack" /\ q[k].id = p[i].id
         \/ \E j \in 1..Len(u) : u[j].id = p[i].id

\* Nothing is on its way for a replica that is not connected.
Idle(p, q) == /\ \A i \in 1..Len(p) : ~p[i].inFlight
              /\ \A k \in 1..Len(q) : q[k].t # "ack"

\* A replica at a that has read up to an ack holds a row that the ack's batch does not change.
Fits(a, p, q) ==
    \A k \in 1..Len(q), i \in 1..Len(p) : q[k].t = "ack" /\ p[i].id = q[k].id =>
        \E r : Leads(a, q, k, r) /\ ApplyOp(r, p[i].op).row = r

Queued(d) == /\ Rising(doc[d].pending) /\ Below(doc[d].pending, Hlc(clock[d], d))
             /\ Rising(disk[d].pending) /\ Below(disk[d].pending, Hlc(clock[d], d))
Ordered(d) == /\ Queued(d)
              /\ IF conn[d] = "open" THEN InLine(doc[d].pending, up[d], down[d])
                 ELSE Idle(doc[d].pending, down[d])
              /\ Fits(doc[d].auth, doc[d].pending, down[d])
AckInv == ~wiped => \A d \in Devices : Ordered(d)

\* The ids there are are numbers.
LEMMA BatchIds == ASSUME NEW p \in Seq(Batches)
                  PROVE  Len(p) \in Nat /\ \A i \in 1..Len(p) : p[i] \in Batches /\ p[i].id \in Nat /\ p[i].inFlight \in BOOLEAN
<1>1. \A i \in 1..Len(p) : p[i] \in Batches
  OBVIOUS
<1> QED BY <1>1 DEF Batches

\* So are those of the pushes.
LEMMA PushIds == ASSUME NEW u \in Seq(Pushes)
                 PROVE  Len(u) \in Nat /\ \A i \in 1..Len(u) : u[i] \in Pushes /\ u[i].id \in Nat
<1>1. \A i \in 1..Len(u) : u[i] \in Pushes
  OBVIOUS
<1> QED BY <1>1 DEF Pushes

\* And those of the acks.
LEMMA FrameIds == ASSUME NEW q \in Seq(Downs)
                  PROVE  Len(q) \in Nat /\ \A k \in 1..Len(q) : q[k] \in Downs /\ (q[k].t = "ack" => q[k].id \in Nat)
<1>1. \A k \in 1..Len(q) : q[k] \in Downs
  OBVIOUS
<1> QED BY <1>1, DownFields

\* The first ack retires the first batch.
LEMMA FirstAck ==
    ASSUME NEW p \in Seq(Batches), NEW u \in Seq(Pushes), NEW q \in Seq(Downs), Rising(p), InLine(p, u, q),
           q # <<>>, q[1].t = "ack"
    PROVE  p # <<>> /\ p[1].id = q[1].id
<1>0. 1 \in 1..Len(q) /\ q[1].id \in Nat /\ Len(p) \in Nat
  BY Popped, FrameIds, BatchIds
<1>1. PICK i \in 1..Len(p) : p[i].id = q[1].id
  BY <1>0 DEF InLine, Precedes
<1>2. 1 \in 1..Len(p) /\ p # <<>>
  BY <1>0, <1>1
<1>3. SUFFICES ASSUME i # 1 PROVE FALSE
  BY <1>1, <1>2
<1>4. p[1].id < q[1].id /\ p[1].id \in Nat
  BY <1>0, <1>1, <1>2, <1>3, BatchIds DEF Rising
<1>5. p[1].inFlight
  <2> SUFFICES ASSUME ~p[1].inFlight PROVE FALSE
    OBVIOUS
  <2>1. q[1].id < p[1].id
    BY <1>0, <1>2 DEF InLine, Precedes
  <2> QED BY <1>0, <1>4, <2>1
<1>6. CASE \E k \in 1..Len(q) : q[k].t = "ack" /\ q[k].id = p[1].id
  <2>1. PICK k \in 1..Len(q) : q[k].t = "ack" /\ q[k].id = p[1].id
    BY <1>6
  <2>2. k # 1
    BY <1>0, <1>4, <2>1
  <2>3. q[1].id < q[k].id
    BY <1>0, <2>1, <2>2 DEF InLine
  <2> QED BY <1>0, <1>4, <2>1, <2>3
<1>7. CASE \E j \in 1..Len(u) : u[j].id = p[1].id
  <2>1. PICK j \in 1..Len(u) : u[j].id = p[1].id
    BY <1>7
  <2>2. q[1].id < u[j].id
    BY <1>0 DEF InLine
  <2> QED BY <1>0, <1>4, <2>1, <2>2
<1> QED BY <1>2, <1>5, <1>6, <1>7 DEF InLine

\* A local write waits behind all others.
LEMMA InLineWrite ==
    ASSUME NEW p \in Seq(Batches), NEW u \in Seq(Pushes), NEW q \in Seq(Downs), InLine(p, u, q),
           NEW b \in Batches, ~b.inFlight, \A i \in 1..Len(p) : p[i].id < b.id
    PROVE  InLine(Append(p, b), u, q)
<1> DEFINE r == Append(p, b)
<1>1. /\ Len(p) \in Nat /\ Len(r) = Len(p) + 1 /\ r[Len(p) + 1] = b /\ \A i \in 1..Len(p) : r[i] = p[i]
  BY Appended
<1> HIDE DEF r
<1>2. /\ \A i \in 1..Len(r) : i \in 1..Len(p) \/ i = Len(p) + 1
      /\ \A i \in 1..Len(p) : i \in 1..Len(r)
  BY <1>1
<1>3. ASSUME NEW n, Precedes(p, n) PROVE Precedes(r, n)
  <2>1. PICK i \in 1..Len(p) : p[i].id = n
    BY <1>3 DEF Precedes
  <2>2. n < b.id
    BY <2>1
  <2>3. i \in 1..Len(r) /\ r[i].id = n
    BY <1>1, <1>2, <2>1
  <2>4. ASSUME NEW m \in 1..Len(r), ~r[m].inFlight PROVE n < r[m].id
    <3>1. CASE m \in 1..Len(p)
      BY <1>1, <1>3, <2>4, <3>1 DEF Precedes
    <3>2. CASE m = Len(p) + 1
      BY <1>1, <2>2, <3>2
    <3> QED BY <1>2, <3>1, <3>2
  <2> QED BY <2>3, <2>4 DEF Precedes
<1>4. ASSUME NEW i \in 1..Len(r), r[i].inFlight
      PROVE  \/ \E k \in 1..Len(q) : q[k].t = "ack" /\ q[k].id = r[i].id
             \/ \E j \in 1..Len(u) : u[j].id = r[i].id
  <2>1. i \in 1..Len(p) /\ r[i] = p[i]
    BY <1>1, <1>2, <1>4
  <2> QED BY <1>4, <2>1 DEF InLine
<1>5. InLine(r, u, q)
  BY <1>3, <1>4 DEF InLine
<1> QED BY <1>5 DEF r

\* A frame that is no ack is read.
LEMMA InLineRead ==
    ASSUME NEW p \in Seq(Batches), NEW u \in Seq(Pushes), NEW q \in Seq(Downs), InLine(p, u, q),
           q # <<>>, q[1].t # "ack"
    PROVE  InLine(p, u, Tail(q))
<1> DEFINE s == Tail(q)
<1>1. /\ Len(q) \in Nat /\ Len(q) >= 1 /\ Len(s) = Len(q) - 1
      /\ \A k \in 1..Len(s) : k + 1 \in 1..Len(q) /\ s[k] = q[k + 1]
  BY Popped
<1> HIDE DEF s
<1>2. \A j, k \in 1..Len(s) : j < k => j + 1 < k + 1
  BY <1>1
<1>3. \A j, k \in 1..Len(s) : j < k /\ s[j].t = "ack" /\ s[k].t = "ack" => s[j].id < s[k].id
  BY <1>1, <1>2 DEF InLine
<1>4. ASSUME NEW i \in 1..Len(p), NEW k \in 1..Len(q), q[k].t = "ack", q[k].id = p[i].id
      PROVE  \E m \in 1..Len(s) : s[m].t = "ack" /\ s[m].id = p[i].id
  <2>1. k # 1
    BY <1>4
  <2>2. k - 1 \in 1..Len(s) /\ (k - 1) + 1 = k
    BY <1>1, <2>1
  <2>3. s[k - 1] = q[k]
    BY <1>1, <2>2
  <2> QED BY <1>4, <2>2, <2>3
<1>5. InLine(p, u, s)
  <2>1. ASSUME NEW k \in 1..Len(s), s[k].t = "ack"
        PROVE  Precedes(p, s[k].id) /\ \A j \in 1..Len(u) : s[k].id < u[j].id
    <3>1. k + 1 \in 1..Len(q) /\ s[k] = q[k + 1]
      BY <1>1
    <3> QED BY <2>1, <3>1 DEF InLine
  <2>2. ASSUME NEW i \in 1..Len(p), p[i].inFlight
        PROVE  \/ \E k \in 1..Len(s) : s[k].t = "ack" /\ s[k].id = p[i].id
               \/ \E j \in 1..Len(u) : u[j].id = p[i].id
    <3>1. \/ \E k \in 1..Len(q) : q[k].t = "ack" /\ q[k].id = p[i].id
          \/ \E j \in 1..Len(u) : u[j].id = p[i].id
      BY <2>2 DEF InLine
    <3> QED BY <1>4, <3>1
  <2>3. Rising(u) /\ \A j \in 1..Len(u) : Precedes(p, u[j].id)
    BY DEF InLine
  <2> QED BY <1>3, <2>1, <2>2, <2>3 DEF InLine
<1> QED BY <1>5 DEF s

\* The first ack is read, and its batch retired.
LEMMA InLineAck ==
    ASSUME NEW p \in Seq(Batches), NEW u \in Seq(Pushes), NEW q \in Seq(Downs), Rising(p), InLine(p, u, q),
           q # <<>>, q[1].t = "ack", NEW r \in Seq(Batches), Len(r) = Len(p) - 1,
           \A k \in 1..Len(r) : r[k] = p[k + 1]
    PROVE  InLine(r, u, Tail(q))
<1> DEFINE s == Tail(q)
<1>0. p # <<>> /\ p[1].id = q[1].id
  BY FirstAck
<1>1. /\ Len(q) \in Nat /\ Len(q) >= 1 /\ Len(s) = Len(q) - 1 /\ 1 \in 1..Len(q)
      /\ \A k \in 1..Len(s) : k + 1 \in 1..Len(q) /\ s[k] = q[k + 1]
  BY Popped
<1> HIDE DEF s
<1>2. Len(p) \in Nat /\ Len(p) >= 1 /\ 1 \in 1..Len(p) /\ \A k \in 1..Len(r) : k + 1 \in 1..Len(p)
  BY <1>0
<1>3. \A j, k \in 1..Len(s) : j < k => j + 1 < k + 1
  BY <1>1
<1>4. \A j, k \in 1..Len(s) : j < k /\ s[j].t = "ack" /\ s[k].t = "ack" => s[j].id < s[k].id
  <2>1. \A j, k \in 1..Len(q) : j < k /\ q[j].t = "ack" /\ q[k].t = "ack" => q[j].id < q[k].id
    BY DEF InLine
  <2> QED BY ONLY <1>1, <1>3, <2>1
<1>5. ASSUME NEW n \in Nat, Precedes(p, n), q[1].id < n PROVE Precedes(r, n)
  <2>1. PICK i \in 1..Len(p) : p[i].id = n
    BY <1>5 DEF Precedes
  <2>2. q[1].id \in Nat
    BY <1>1, FrameIds
  <2>3. i # 1
    BY <1>0, <1>5, <2>1, <2>2
  <2>4. i - 1 \in 1..Len(r) /\ (i - 1) + 1 = i
    BY <1>2, <2>3
  <2>5. r[i - 1].id = n
    BY <2>1, <2>4
  <2>6. \A k \in 1..Len(r) : ~r[k].inFlight => n < r[k].id
    BY <1>2, <1>5 DEF Precedes
  <2> QED BY <2>4, <2>5, <2>6 DEF Precedes
<1>6. ASSUME NEW k \in 1..Len(s), s[k].t = "ack"
      PROVE  Precedes(r, s[k].id) /\ \A j \in 1..Len(u) : s[k].id < u[j].id
  <2>1. k + 1 \in 1..Len(q) /\ s[k] = q[k + 1] /\ 1 < k + 1
    BY <1>1
  <2>2. q[1].id < s[k].id
    BY <1>1, <1>6, <2>1 DEF InLine
  <2>3. s[k].id \in Nat
    BY <1>6, <2>1, FrameIds
  <2> QED BY <1>5, <1>6, <2>1, <2>2, <2>3 DEF InLine
<1>7. ASSUME NEW j \in 1..Len(u) PROVE Precedes(r, u[j].id)
  <2>1. q[1].id < u[j].id /\ u[j].id \in Nat
    BY <1>1, PushIds DEF InLine
  <2> QED BY <1>5, <2>1 DEF InLine
<1>8. ASSUME NEW i \in 1..Len(r), r[i].inFlight
      PROVE  \/ \E k \in 1..Len(s) : s[k].t = "ack" /\ s[k].id = r[i].id
             \/ \E j \in 1..Len(u) : u[j].id = r[i].id
  <2>1. i + 1 \in 1..Len(p) /\ r[i] = p[i + 1] /\ 1 < i + 1
    BY <1>2
  <2>2. CASE \E k \in 1..Len(q) : q[k].t = "ack" /\ q[k].id = r[i].id
    <3>1. PICK k \in 1..Len(q) : q[k].t = "ack" /\ q[k].id = r[i].id
      BY <2>2
    <3>2. p[1].id < p[i + 1].id /\ p[1].id \in Nat /\ p[i + 1].id \in Nat
      BY <1>2, <2>1, BatchIds DEF Rising
    <3>3. k # 1
      BY <1>0, <2>1, <3>1, <3>2
    <3>4. k - 1 \in 1..Len(s) /\ (k - 1) + 1 = k
      BY <1>1, <3>3
    <3>5. s[k - 1] = q[k]
      BY <1>1, <3>4
    <3> QED BY <3>1, <3>4, <3>5
  <2>3. CASE \E j \in 1..Len(u) : u[j].id = r[i].id
    BY <2>3
  <2> QED BY <1>8, <2>1, <2>2, <2>3 DEF InLine
<1>9. InLine(r, u, s)
  <2>1. Rising(u)
    BY DEF InLine
  <2> QED BY <1>4, <1>6, <1>7, <1>8, <2>1 DEF InLine
<1> QED BY <1>9 DEF s

\* The pushes v are the waiting batches of p.
Pushing(p, v) ==
    /\ Rising(v)
    /\ \A j \in 1..Len(v) : \E i \in 1..Len(p) : ~p[i].inFlight /\ v[j].id = p[i].id
    /\ \A i \in 1..Len(p) : ~p[i].inFlight => \E j \in 1..Len(v) : v[j].id = p[i].id

\* What a push of the replica's waiting batches brings.
LEMMA PushOrder ==
    ASSUME NEW rd \in Docs, Rising(rd.pending), NEW v, v = PushFrames(rd)
    PROVE  v \in Seq(Pushes) /\ Pushing(rd.pending, v)
<1> DEFINE keep == {i \in DOMAIN rd.pending : ~rd.pending[i].inFlight}
           p == rd.pending
           c == Pushable(rd)
<1>1. p \in Seq(Batches) /\ DOMAIN p = 1..Len(p) /\ \A x \in Batches : x.id \in Nat
  BY DocFields DEF Batches
<1>2. c = Chosen(p, keep)
  BY DEF Pushable
<1>3. \A i \in 1..Len(p) : i \in keep <=> ~p[i].inFlight
  BY <1>1
<1>4. v = [i \in DOMAIN c |-> [t |-> "push", id |-> c[i].id, op |-> c[i].op]]
  BY DEF PushFrames
<1>5. v \in Seq(Pushes)
  BY PushDoc
<1> HIDE DEF c, keep
<1>6. /\ Rising(c)
      /\ \A i \in 1..Len(p) : i \in keep => \E k \in 1..Len(c) : c[k] = p[i]
      /\ \A k \in 1..Len(c) : \E i \in 1..Len(p) : i \in keep /\ c[k] = p[i]
  <2>1. Rising(p)
    OBVIOUS
  <2> HIDE DEF p
  <2>2. p \in Seq(Batches)
    BY <1>1
  <2>3. Sifted(Chosen(p, keep), p, keep)
    BY ONLY <2>1, <2>2, ChosenOrder
  <2> QED BY ONLY <1>2, <2>3 DEF Sifted
<1>7. c \in Seq({p[i] : i \in keep \cap (1..Len(p))})
  BY <1>1, <1>2, ChosenSeq
<1>8. DOMAIN c = 1..Len(c) /\ Len(c) \in Nat
  BY <1>7
<1>9. Len(v) = Len(c) /\ \A k \in 1..Len(c) : v[k].id = c[k].id
  BY <1>4, <1>8
<1> HIDE DEF p
<1>10. Rising(v)
  BY <1>6, <1>9 DEF Rising
<1>11. ASSUME NEW j \in 1..Len(v) PROVE \E i \in 1..Len(p) : ~p[i].inFlight /\ v[j].id = p[i].id
  <2>1. PICK i \in 1..Len(p) : i \in keep /\ c[j] = p[i]
    BY <1>6, <1>9
  <2>2. v[j].id = p[i].id
    BY <1>9, <2>1
  <2> QED BY <1>3, <2>1, <2>2
<1>12. ASSUME NEW i \in 1..Len(p), ~p[i].inFlight PROVE \E j \in 1..Len(v) : v[j].id = p[i].id
  <2>1. PICK k \in 1..Len(c) : c[k] = p[i]
    BY <1>3, <1>6, <1>12
  <2> QED BY <1>9, <2>1
<1>13. Pushing(p, v)
  BY <1>10, <1>11, <1>12 DEF Pushing
<1> QED BY <1>5, <1>13 DEF p

\* The waiting batches join the pushes.
LEMMA InLinePush ==
    ASSUME NEW p \in Seq(Batches), NEW u \in Seq(Pushes), NEW q \in Seq(Downs), InLine(p, u, q),
           NEW v \in Seq(Pushes), Pushing(p, v),
           NEW r \in Seq(Batches), Len(r) = Len(p), \A i \in 1..Len(p) : r[i].id = p[i].id /\ r[i].inFlight
    PROVE  InLine(r, u \o v, q)
<1> DEFINE w == u \o v
<1>0. /\ Rising(v)
      /\ \A j \in 1..Len(v) : \E i \in 1..Len(p) : ~p[i].inFlight /\ v[j].id = p[i].id
      /\ \A i \in 1..Len(p) : ~p[i].inFlight => \E j \in 1..Len(v) : v[j].id = p[i].id
  BY DEF Pushing
<1>1. /\ Len(u) \in Nat /\ Len(v) \in Nat /\ Len(w) = Len(u) + Len(v)
      /\ \A j \in 1..Len(u) : j \in 1..Len(w) /\ w[j] = u[j]
      /\ \A j \in 1..Len(v) : Len(u) + j \in 1..Len(w) /\ w[Len(u) + j] = v[j]
  OBVIOUS
<1> HIDE DEF w
<1>2. ASSUME NEW j \in 1..Len(w) PROVE j \in 1..Len(u) \/ (j > Len(u) /\ j - Len(u) \in 1..Len(v) /\ w[j] = v[j - Len(u)])
  <2>1. CASE j <= Len(u)
    BY <1>1, <2>1
  <2>2. CASE ~(j <= Len(u))
    <3>1. j - Len(u) \in 1..Len(v) /\ Len(u) + (j - Len(u)) = j /\ j > Len(u)
      BY <1>1, <2>2
    <3> QED BY <1>1, <3>1
  <2> QED BY <2>1, <2>2
<1>3. ASSUME NEW n, Precedes(p, n) PROVE Precedes(r, n)
  BY <1>3 DEF Precedes
<1>4. ASSUME NEW n, Precedes(p, n), NEW j \in 1..Len(v) PROVE n < v[j].id
  <2>1. PICK i \in 1..Len(p) : ~p[i].inFlight /\ v[j].id = p[i].id
    BY <1>0
  <2> QED BY <1>4, <2>1 DEF Precedes
<1>5. Rising(w)
  <2> SUFFICES ASSUME NEW i \in 1..Len(w), NEW j \in 1..Len(w), i < j PROVE w[i].id < w[j].id
    BY DEF Rising
  <2>1. CASE j \in 1..Len(u)
    <3>1. i \in 1..Len(u)
      BY <2>1
    <3> QED BY <1>1, <2>1, <3>1 DEF InLine, Rising
  <2>2. CASE i \in 1..Len(u) /\ j \notin 1..Len(u)
    <3>1. j - Len(u) \in 1..Len(v) /\ w[j] = v[j - Len(u)]
      BY <1>2, <2>2
    <3>2. Precedes(p, u[i].id) /\ w[i] = u[i]
      BY <1>1, <2>2 DEF InLine
    <3> QED BY <1>4, <3>1, <3>2
  <2>3. CASE i \notin 1..Len(u) /\ j \notin 1..Len(u)
    <3>1. /\ i - Len(u) \in 1..Len(v) /\ w[i] = v[i - Len(u)]
          /\ j - Len(u) \in 1..Len(v) /\ w[j] = v[j - Len(u)]
      BY <1>2, <2>3
    <3>2. i - Len(u) < j - Len(u)
      BY <1>1
    <3>3. \A x, y \in 1..Len(v) : x < y => v[x].id < v[y].id
      BY <1>0 DEF Rising
    <3>4. v[i - Len(u)].id < v[j - Len(u)].id
      BY ONLY <3>1, <3>2, <3>3
    <3> QED BY <3>1, <3>4
  <2> QED BY <1>1, <2>1, <2>2, <2>3
<1>6. ASSUME NEW k \in 1..Len(q), q[k].t = "ack"
      PROVE  Precedes(r, q[k].id) /\ \A j \in 1..Len(w) : q[k].id < w[j].id
  <2>1. Precedes(p, q[k].id) /\ \A j \in 1..Len(u) : q[k].id < u[j].id
    BY <1>6 DEF InLine
  <2>2. ASSUME NEW j \in 1..Len(w) PROVE q[k].id < w[j].id
    BY <1>1, <1>2, <1>4, <2>1
  <2> QED BY <1>3, <2>1, <2>2
<1>7. ASSUME NEW j \in 1..Len(w) PROVE Precedes(r, w[j].id)
  <2>1. CASE j \in 1..Len(u)
    BY <1>1, <1>3, <2>1 DEF InLine
  <2>2. CASE j \notin 1..Len(u)
    <3>1. j - Len(u) \in 1..Len(v) /\ w[j] = v[j - Len(u)]
      BY <1>2, <2>2
    <3>2. PICK i \in 1..Len(p) : v[j - Len(u)].id = p[i].id
      BY <1>0, <3>1
    <3> QED BY <3>1, <3>2 DEF Precedes
  <2> QED BY <2>1, <2>2
<1>8. ASSUME NEW i \in 1..Len(r)
      PROVE  \/ \E k \in 1..Len(q) : q[k].t = "ack" /\ q[k].id = r[i].id
             \/ \E j \in 1..Len(w) : w[j].id = r[i].id
  <2>0. i \in 1..Len(p) /\ r[i].id = p[i].id /\ p[i].inFlight \in BOOLEAN
    BY BatchIds
  <2>1. CASE p[i].inFlight
    <3>1. \/ \E k \in 1..Len(q) : q[k].t = "ack" /\ q[k].id = p[i].id
          \/ \E j \in 1..Len(u) : u[j].id = p[i].id
      BY <2>0, <2>1 DEF InLine
    <3> QED BY <1>1, <2>0, <3>1
  <2>2. CASE ~p[i].inFlight
    <3>1. PICK j \in 1..Len(v) : v[j].id = p[i].id
      BY <1>0, <2>0, <2>2
    <3>2. Len(u) + j \in 1..Len(w) /\ w[Len(u) + j].id = r[i].id
      BY <1>1, <2>0, <3>1
    <3> QED BY <3>2
  <2> QED BY <2>0, <2>1, <2>2
<1>9. \A j, k \in 1..Len(q) : j < k /\ q[j].t = "ack" /\ q[k].t = "ack" => q[j].id < q[k].id
  BY DEF InLine
<1>10. InLine(r, w, q)
  BY <1>5, <1>6, <1>7, <1>8, <1>9 DEF InLine
<1> QED BY <1>10 DEF w

\* A row is on its way.
LEMMA InLineRows ==
    ASSUME NEW p \in Seq(Batches), NEW u \in Seq(Pushes), NEW q \in Seq(Downs), InLine(p, u, q),
           NEW x \in Downs, x.t # "ack"
    PROVE  InLine(p, u, Append(q, x))
<1> DEFINE s == Append(q, x)
<1>1. /\ Len(q) \in Nat /\ Len(s) = Len(q) + 1 /\ s[Len(q) + 1] = x
      /\ \A i \in 1..Len(q) : s[i] = q[i] /\ i \in 1..Len(s)
  BY Appended
<1> HIDE DEF s
<1>2. \A k \in 1..Len(s) : s[k].t = "ack" => k \in 1..Len(q) /\ s[k] = q[k]
  BY <1>1
<1>3. \A j, k \in 1..Len(s) : j < k /\ s[j].t = "ack" /\ s[k].t = "ack" => s[j].id < s[k].id
  BY <1>2 DEF InLine
<1>4. \A k \in 1..Len(s) : s[k].t = "ack" =>
        Precedes(p, s[k].id) /\ \A j \in 1..Len(u) : s[k].id < u[j].id
  BY <1>2 DEF InLine
<1>5. ASSUME NEW i \in 1..Len(p), p[i].inFlight
      PROVE  \/ \E k \in 1..Len(s) : s[k].t = "ack" /\ s[k].id = p[i].id
             \/ \E j \in 1..Len(u) : u[j].id = p[i].id
  <2>1. \/ \E k \in 1..Len(q) : q[k].t = "ack" /\ q[k].id = p[i].id
        \/ \E j \in 1..Len(u) : u[j].id = p[i].id
    BY <1>5 DEF InLine
  <2> QED BY <1>1, <2>1
<1>6. Rising(u) /\ \A j \in 1..Len(u) : Precedes(p, u[j].id)
  BY DEF InLine
<1>7. InLine(p, u, s)
  BY <1>3, <1>4, <1>5, <1>6 DEF InLine
<1> QED BY <1>7 DEF s

\* The first push is merged and acknowledged.
LEMMA InLineMerge ==
    ASSUME NEW p \in Seq(Batches), NEW u \in Seq(Pushes), NEW q \in Seq(Downs), InLine(p, u, q), u # <<>>,
           NEW x \in Downs, x.t = "ack", x.id = u[1].id
    PROVE  InLine(p, Tail(u), Append(q, x))
<1> DEFINE s == Append(q, x)
           w == Tail(u)
<1>1. /\ Len(q) \in Nat /\ Len(s) = Len(q) + 1 /\ s[Len(q) + 1] = x
      /\ \A i \in 1..Len(q) : s[i] = q[i] /\ i \in 1..Len(s)
  BY Appended
<1>2. /\ Len(u) \in Nat /\ Len(u) >= 1 /\ Len(w) = Len(u) - 1 /\ 1 \in 1..Len(u)
      /\ \A j \in 1..Len(w) : j + 1 \in 1..Len(u) /\ w[j] = u[j + 1] /\ 1 < j + 1
  BY Popped
<1> HIDE DEF s, w
<1>3. \A k \in 1..Len(s) : (k \in 1..Len(q) /\ s[k] = q[k]) \/ (k = Len(q) + 1 /\ s[k] = x)
  BY <1>1
<1>4. Rising(w)
  <2>1. \A i, j \in 1..Len(w) : i < j => i + 1 < j + 1
    BY <1>2
  <2> QED BY <1>2, <2>1 DEF InLine, Rising
<1>5. ASSUME NEW j \in 1..Len(s), NEW k \in 1..Len(s), j < k, s[j].t = "ack", s[k].t = "ack"
      PROVE  s[j].id < s[k].id
  <2>1. j \in 1..Len(q) /\ s[j] = q[j]
    BY <1>1, <1>3, <1>5
  <2>2. CASE k \in 1..Len(q) /\ s[k] = q[k]
    BY <1>5, <2>1, <2>2 DEF InLine
  <2>3. CASE s[k] = x
    BY <1>2, <1>5, <2>1, <2>3 DEF InLine
  <2> QED BY <1>3, <2>2, <2>3
<1>6. ASSUME NEW k \in 1..Len(s), s[k].t = "ack"
      PROVE  Precedes(p, s[k].id) /\ \A j \in 1..Len(w) : s[k].id < w[j].id
  <2>1. CASE k \in 1..Len(q) /\ s[k] = q[k]
    BY <1>2, <1>6, <2>1 DEF InLine
  <2>2. CASE s[k] = x
    <3>1. Precedes(p, u[1].id)
      BY <1>2 DEF InLine
    <3>2. \A j \in 1..Len(w) : u[1].id < w[j].id
      BY <1>2 DEF InLine, Rising
    <3> QED BY <2>2, <3>1, <3>2
  <2> QED BY <1>3, <2>1, <2>2
<1>7. \A j \in 1..Len(w) : Precedes(p, w[j].id)
  BY <1>2 DEF InLine
<1>8. ASSUME NEW i \in 1..Len(p), p[i].inFlight
      PROVE  \/ \E k \in 1..Len(s) : s[k].t = "ack" /\ s[k].id = p[i].id
             \/ \E j \in 1..Len(w) : w[j].id = p[i].id
  <2>1. CASE \E k \in 1..Len(q) : q[k].t = "ack" /\ q[k].id = p[i].id
    BY <1>1, <2>1
  <2>2. CASE \E j \in 1..Len(u) : u[j].id = p[i].id
    <3>1. PICK j \in 1..Len(u) : u[j].id = p[i].id
      BY <2>2
    <3>2. CASE j = 1
      <4>1. Len(q) + 1 \in 1..Len(s)
        BY <1>1
      <4> QED BY <1>1, <3>1, <3>2, <4>1
    <3>3. CASE j # 1
      <4>1. j - 1 \in 1..Len(w) /\ (j - 1) + 1 = j
        BY <1>2, <3>3
      <4>2. w[j - 1] = u[j]
        BY <1>2, <4>1
      <4> QED BY <3>1, <4>1, <4>2
    <3> QED BY <3>2, <3>3
  <2> QED BY <1>8, <2>1, <2>2 DEF InLine
<1>9. InLine(p, w, s)
  BY <1>4, <1>5, <1>6, <1>7, <1>8 DEF InLine
<1> QED BY <1>9 DEF s, w

\* A later tick is a larger clock.
LEMMA HlcRises ==
    ASSUME NEW s \in Nat, NEW t \in Nat, NEW d \in Devices
    PROVE  (s <= t => Hlc(s, d) <= Hlc(t, d)) /\ (s < t => Hlc(s, d) < Hlc(t, d))
<1>0. NDevices \in Nat /\ NDevices >= 1 /\ d \in Nat
  BY DevicesAssumption DEF Devices
<1>1. s <= t => s * NDevices <= t * NDevices
  BY <1>0
<1>2. s < t => s * NDevices < t * NDevices
  BY <1>0
<1>3. s * NDevices \in Nat /\ t * NDevices \in Nat
  BY <1>0
<1> QED BY <1>0, <1>1, <1>2, <1>3 DEF Hlc

\* The order of a replica's batches does not depend on which of them are in flight.
LEMMA OrderSame ==
    ASSUME NEW rd \in Docs, NEW re, SameWrites(rd, re), NEW n, Rising(rd.pending), Below(rd.pending, n)
    PROVE  Rising(re.pending) /\ Below(re.pending, n)
BY DEF SameWrites, Rising, Below

\* A clock that moved on is still above them.
LEMMA BelowLater ==
    ASSUME NEW p \in Seq(Batches), NEW m \in Nat, NEW n \in Nat, m <= n, Below(p, m)
    PROVE  Below(p, n)
<1>1. \A i \in 1..Len(p) : p[i].id \in Nat
  BY BatchIds
<1> QED BY <1>1 DEF Below

\* A local write is no acked batch.
LEMMA FitsWrite ==
    ASSUME NEW p \in Seq(Batches), NEW q \in Seq(Downs), NEW a, Fits(a, p, q), NEW b \in Batches,
           \A k \in 1..Len(q) : q[k].t = "ack" => q[k].id # b.id
    PROVE  Fits(a, Append(p, b), q)
<1> DEFINE r == Append(p, b)
<1>1. \A i \in 1..Len(r) : (i \in 1..Len(p) /\ r[i] = p[i]) \/ r[i] = b
  BY Appended
<1> HIDE DEF r
<1>2. Fits(a, r, q)
  <2> SUFFICES ASSUME NEW k \in 1..Len(q), NEW i \in 1..Len(r), q[k].t = "ack", r[i].id = q[k].id
               PROVE  \E x : Leads(a, q, k, x) /\ ApplyOp(x, r[i].op).row = x
    BY DEF Fits
  <2>1. i \in 1..Len(p) /\ r[i] = p[i]
    BY <1>1
  <2> QED BY <2>1 DEF Fits
<1> QED BY <1>2 DEF r

\* A frame is read; batches may be retired.
LEMMA FitsPop ==
    ASSUME NEW p, NEW q \in Seq(Downs), q # <<>>, NEW a, Fits(a, p, q), NEW b,
           b = IF Carries(q[1]) THEN q[1].row ELSE a,
           NEW r, \A i \in 1..Len(r) : \E j \in 1..Len(p) : r[i] = p[j]
    PROVE  Fits(b, r, Tail(q))
<1> DEFINE s == Tail(q)
<1>1. \A k \in 1..Len(s) : k + 1 \in 1..Len(q) /\ s[k] = q[k + 1] /\ (k + 1) - 1 = k
  BY Popped
<1>2. ASSUME NEW k \in 1..Len(s), NEW i \in 1..Len(r), s[k].t = "ack", r[i].id = s[k].id
      PROVE  \E x : Leads(b, s, k, x) /\ ApplyOp(x, r[i].op).row = x
  <2>1. PICK j \in 1..Len(p) : r[i] = p[j]
    OBVIOUS
  <2>2. k + 1 \in 1..Len(q) /\ s[k] = q[k + 1] /\ (k + 1) - 1 = k
    BY <1>1
  <2>3. q[k + 1].t = "ack" /\ p[j].id = q[k + 1].id
    BY <1>2, <2>1, <2>2
  <2>4. PICK x : Leads(a, q, k + 1, x) /\ ApplyOp(x, p[j].op).row = x
    BY <2>2, <2>3 DEF Fits
  <2>5. Leads(b, s, (k + 1) - 1, x)
    BY <2>2, <2>4, LeadsPop
  <2> QED BY <2>1, <2>2, <2>4, <2>5
<1> HIDE DEF s
<1>3. Fits(b, r, s)
  BY <1>2 DEF Fits
<1> QED BY <1>3 DEF s

\* Whether a batch is in flight does not matter.
LEMMA FitsSame ==
    ASSUME NEW rd \in Docs, NEW re, SameWrites(rd, re), NEW a, NEW q, Fits(a, rd.pending, q)
    PROVE  Fits(a, re.pending, q)
BY DEF SameWrites, Fits

\* A frame is sent; if it is an ack, a replica that has read all before it holds a row that the
\* ack's batch does not change.
LEMMA FitsAppend ==
    ASSUME NEW p, NEW q \in Seq(Downs), NEW a, Fits(a, p, q), NEW x \in Downs,
           \A i \in 1..Len(p) : x.t = "ack" /\ p[i].id = x.id =>
              \E r : Leads(a, q, Len(q), r) /\ ApplyOp(r, p[i].op).row = r
    PROVE  Fits(a, p, Append(q, x))
<1> DEFINE s == Append(q, x)
<1>1. /\ Len(q) \in Nat /\ Len(s) = Len(q) + 1 /\ s[Len(q) + 1] = x /\ \A i \in 1..Len(q) : s[i] = q[i]
  BY Appended
<1>2. ASSUME NEW k \in 1..Len(s), NEW i \in 1..Len(p), s[k].t = "ack", p[i].id = s[k].id
      PROVE  \E r : Leads(a, s, k, r) /\ ApplyOp(r, p[i].op).row = r
  <2>1. CASE k \in 1..Len(q)
    <3>1. PICK r : Leads(a, q, k, r) /\ ApplyOp(r, p[i].op).row = r
      BY <1>1, <1>2, <2>1 DEF Fits
    <3>2. k \in 0..Len(q)
      BY <2>1
    <3>3. Leads(a, s, k, r)
      BY <3>1, <3>2, LeadsOld
    <3> QED BY <3>1, <3>3
  <2>2. CASE k = Len(q) + 1
    <3>1. x.t = "ack" /\ p[i].id = x.id
      BY <1>1, <1>2, <2>2
    <3>2. PICK r : Leads(a, q, Len(q), r) /\ ApplyOp(r, p[i].op).row = r
      BY <3>1
    <3>3. ~Carries(x)
      BY <3>1 DEF Carries
    <3>4. Leads(a, s, Len(q) + 1, r)
      BY <3>2, <3>3, LeadsPass
    <3> QED BY <2>2, <3>2, <3>4
  <2> QED BY <1>1, <2>1, <2>2
<1> HIDE DEF s
<1>3. Fits(a, p, s)
  BY <1>2 DEF Fits
<1> QED BY <1>3 DEF s

\* Nothing but the room's row on its way to a replica that waits for its state.
LEMMA IdleAppend ==
    ASSUME NEW p, NEW q \in Seq(Downs), Idle(p, q), NEW x \in Downs, x.t # "ack"
    PROVE  Idle(p, Append(q, x))
<1> DEFINE s == Append(q, x)
<1>1. \A i \in 1..Len(s) : (i \in 1..Len(q) /\ s[i] = q[i]) \/ s[i] = x
  BY Appended
<1> HIDE DEF s
<1>2. Idle(p, s)
  BY <1>1 DEF Idle
<1> QED BY <1>2 DEF s

\* No ack on the way: nothing to fit.
LEMMA FitsIdle == ASSUME NEW a, NEW p, NEW q, \A k \in 1..Len(q) : q[k].t # "ack" PROVE Fits(a, p, q)
BY DEF Fits

\* A replica that read its state and pushed nothing yet.
LEMMA InLineIdle == ASSUME NEW p, NEW q, Idle(p, q) PROVE InLine(p, <<>>, q)
<1>1. \A j \in 1..Len(<<>>) : FALSE
  OBVIOUS
<1> QED BY <1>1 DEF InLine, Idle, Rising

\* What an untouched device keeps.
LEMMA OrderedKept ==
    ASSUME NEW e \in Devices, Ordered(e), doc'[e] = doc[e], disk'[e] = disk[e], clock'[e] = clock[e],
           conn'[e] = conn[e], up'[e] = up[e], down'[e] = down[e]
    PROVE  Ordered(e)'
BY DEF Ordered, Queued

\* Read in the next state.
LEMMA Readies ==
    ASSUME LinkInv, NEW d \in Devices
    PROVE  /\ doc[d] \in Docs /\ disk[d] \in Docs /\ clock[d] \in Nat /\ Hlc(clock[d], d) \in Nat
           /\ doc[d].pending \in Seq(Batches) /\ disk[d].pending \in Seq(Batches)
           /\ up[d] \in Seq(Ups) /\ down[d] \in Seq(Downs) /\ conn[d] \in {"down", "hello", "open"}
           /\ conn[d] = "open" => up[d] \in Seq(Pushes) /\ ready[d]
           /\ Link(d)
<1>1. /\ doc[d] \in Docs /\ disk[d] \in Docs /\ clock[d] \in Nat /\ up[d] \in Seq(Ups) /\ down[d] \in Seq(Downs)
      /\ Link(d) /\ conn[d] \in {"down", "hello", "open"}
  BY AtDevice DEF LinkInv
<1>2. doc[d].pending \in Seq(Batches) /\ disk[d].pending \in Seq(Batches) /\ Hlc(clock[d], d) \in Nat
  BY <1>1, DocFields, HlcNat
<1>3. ASSUME conn[d] = "open" PROVE up[d] \in Seq(Pushes) /\ ready[d]
  <2>1. \A i \in 1..Len(up[d]) : up[d][i] \in Ups /\ up[d][i].t = "push"
    BY <1>1, <1>3 DEF Link
  <2>2. \A i \in 1..Len(up[d]) : up[d][i] \in Pushes
    BY <2>1, UpFields
  <2>3. up[d] \in Seq(Pushes)
    <3> DEFINE u == up[d]
    <3>1. u \in Seq(Ups) /\ \A i \in 1..Len(u) : u[i] \in Pushes
      BY <1>1, <2>2
    <3> HIDE DEF u
    <3>2. u = [i \in 1..Len(u) |-> u[i]] /\ Len(u) \in Nat
      BY <3>1
    <3>3. u \in [1..Len(u) -> Pushes]
      BY <3>1, <3>2
    <3>4. u \in Seq(Pushes)
      BY <3>2, <3>3
    <3> QED BY <3>4 DEF u
  <2> QED BY <1>1, <1>3, <2>3 DEF Link
<1> QED BY <1>1, <1>2, <1>3

\* A step that touches one device.
LEMMA AckOthers ==
    ASSUME \A e \in Devices : Ordered(e), NEW d \in Devices, Others(d), Ordered(d)'
    PROVE  \A e \in Devices : Ordered(e)'
<1>1. ASSUME NEW e \in Devices \ {d} PROVE Ordered(e)'
  <2>1. /\ doc'[e] = doc[e] /\ disk'[e] = disk[e] /\ clock'[e] = clock[e] /\ conn'[e] = conn[e]
        /\ up'[e] = up[e] /\ down'[e] = down[e]
    BY DEF Others
  <2> QED BY <2>1, OrderedKept
<1> QED BY <1>1

\* A local write.
LEMMA AckWrite ==
    ASSUME LinkInv, NEW d \in Devices, Ordered(d), StepWrite(d) PROVE Ordered(d)'
<1>0. /\ doc[d] \in Docs /\ clock[d] \in Nat /\ Hlc(clock[d], d) \in Nat /\ doc[d].pending \in Seq(Batches)
      /\ disk[d].pending \in Seq(Batches) /\ down[d] \in Seq(Downs)
      /\ conn[d] = "open" => up[d] \in Seq(Pushes)
  BY Readies
<1>1. PICK tick \in Nat, op \in Ops :
        /\ tick > clock[d] /\ clock'[d] = tick /\ op.hlc = Hlc(tick, d)
        /\ doc'[d].auth = doc[d].auth
        /\ doc'[d].pending = Append(doc[d].pending, [id |-> op.hlc, op |-> op, inFlight |-> FALSE])
  BY DEF StepWrite, Wrote
<1>2. UNCHANGED <<disk, conn, up, down>>
  BY DEF StepWrite
<1> DEFINE b == [id |-> op.hlc, op |-> op, inFlight |-> FALSE]
           p == doc[d].pending
           q == down[d]
           n == Hlc(clock[d], d)
           m == Hlc(tick, d)
<1>3. b \in Batches /\ b.id = m /\ ~b.inFlight /\ m \in Nat
  BY <1>1, HlcNat, OpFields DEF Batches
<1>4. n < m /\ n <= m
  BY <1>0, <1>1, <1>3, HlcRises
<1>5. /\ p \in Seq(Batches) /\ q \in Seq(Downs) /\ n \in Nat /\ doc'[d].pending = Append(p, b)
      /\ disk[d].pending \in Seq(Batches)
  BY <1>0, <1>1
<1>6. Rising(p) /\ Below(p, n) /\ Rising(disk[d].pending) /\ Below(disk[d].pending, n) /\ Fits(doc[d].auth, p, q)
  BY DEF Ordered, Queued
<1>o. conn[d] = "open" => up[d] \in Seq(Pushes) /\ InLine(p, up[d], q)
  BY <1>0 DEF Ordered
<1>i. conn[d] # "open" => Idle(p, q)
  BY DEF Ordered
<1>c. Hlc(clock[d], d)' = m
  BY <1>1
<1> HIDE DEF b, p, q, n, m
<1>7. \A i \in 1..Len(p) : p[i].id < b.id /\ p[i].id \in Nat
  BY <1>3, <1>4, <1>5, <1>6, BatchIds DEF Below
<1>8. Rising(Append(p, b))
  <2>1. \A x \in Batches : x.id \in Nat
    BY DEF Batches
  <2> QED BY <1>3, <1>5, <1>6, <1>7, <2>1, RisingAppend
<1>9. Below(Append(p, b), m)
  <2> DEFINE r == Append(p, b)
  <2>1. \A i \in 1..Len(r) : (i \in 1..Len(p) /\ r[i] = p[i]) \/ r[i] = b
    BY <1>3, <1>5, Appended
  <2> HIDE DEF r
  <2>2. Below(r, m)
    BY <1>3, <1>7, <2>1 DEF Below
  <2> QED BY <2>2 DEF r
<1>10. Below(disk[d].pending, m)
  BY <1>3, <1>4, <1>5, <1>6, BelowLater
<1>11. \A k \in 1..Len(q) : q[k].t = "ack" => q[k].id # b.id
  <2> SUFFICES ASSUME NEW k \in 1..Len(q), q[k].t = "ack" PROVE q[k].id # b.id
    OBVIOUS
  <2>1. PICK i \in 1..Len(p) : p[i].id = q[k].id
    BY <1>i, <1>o DEF Idle, InLine, Precedes
  <2> QED BY <1>3, <1>7, <2>1
<1>12. Fits(doc[d].auth, Append(p, b), q)
  BY <1>3, <1>5, <1>6, <1>11, FitsWrite
<1>13. CASE conn[d] = "open"
  <2>1. InLine(Append(p, b), up[d], q)
    BY <1>3, <1>5, <1>7, <1>13, <1>o, InLineWrite
  <2> QED BY <1>1, <1>2, <1>5, <1>6, <1>8, <1>9, <1>10, <1>12, <1>13, <1>c, <2>1 DEF Ordered, Queued, q
<1>14. CASE conn[d] # "open"
  <2> DEFINE r == Append(p, b)
  <2>1. \A i \in 1..Len(r) : (i \in 1..Len(p) /\ r[i] = p[i]) \/ r[i] = b
    BY <1>3, <1>5, Appended
  <2>3. doc'[d].pending = r /\ Rising(r) /\ Below(r, m) /\ Fits(doc[d].auth, r, q)
    BY <1>5, <1>8, <1>9, <1>12
  <2> HIDE DEF r
  <2>2. Idle(r, q)
    BY <1>3, <1>14, <1>i, <2>1 DEF Idle
  <2> QED BY <1>1, <1>2, <1>6, <1>10, <1>14, <1>c, <2>2, <2>3 DEF Ordered, Queued, q
<1> QED BY <1>13, <1>14

\* The snapshot; the dial.
LEMMA AckQuiet ==
    ASSUME LinkInv, NEW d \in Devices, Ordered(d), StepSave(d) \/ StepConnect(d) PROVE Ordered(d)'
<1>1. CASE StepSave(d)
  <2>1. disk'[d] = doc[d] /\ UNCHANGED <<doc, clock, conn, up, down>>
    BY <1>1 DEF StepSave
  <2> QED BY <2>1 DEF Ordered, Queued
<1>2. CASE StepConnect(d)
  <2>1. UNCHANGED <<doc, clock, disk, down>> /\ conn[d] # "open" /\ conn'[d] # "open"
    BY <1>2 DEF StepConnect
  <2> QED BY <2>1 DEF Ordered, Queued
<1> QED BY <1>1, <1>2

\* A lost connection or a crash.
LEMMA AckLoss ==
    ASSUME LinkInv, NEW d \in Devices, Ordered(d), StepLoss(d) PROVE Ordered(d)'
<1>0. doc[d] \in Docs /\ disk[d] \in Docs
  BY Readies
<1>1. PICK rd \in {doc[d], disk[d]} : SameWrites(rd, doc'[d])
  BY DEF StepLoss, Lost
<1>2. /\ conn'[d] = "down" /\ down'[d] = <<>> /\ SameWrites(disk[d], disk'[d]) /\ clock' = clock
      /\ \A i \in 1..Len(doc'[d].pending) : ~doc'[d].pending[i].inFlight
  BY DEF StepLoss, Lost
<1> DEFINE n == Hlc(clock[d], d)
<1>3. Rising(doc[d].pending) /\ Below(doc[d].pending, n) /\ Rising(disk[d].pending) /\ Below(disk[d].pending, n)
  BY DEF Ordered, Queued
<1>c. Hlc(clock[d], d)' = n
  BY <1>2
<1> HIDE DEF n
<1>4. Rising(doc'[d].pending) /\ Below(doc'[d].pending, n)
  BY <1>0, <1>1, <1>3, OrderSame
<1>5. Rising(disk'[d].pending) /\ Below(disk'[d].pending, n)
  BY <1>0, <1>2, <1>3, OrderSame
<1>6. \A k \in 1..Len(down'[d]) : FALSE
  BY <1>2
<1>7. Idle(doc'[d].pending, down'[d]) /\ Fits(doc'[d].auth, doc'[d].pending, down'[d])
  BY <1>2, <1>6 DEF Idle, Fits
<1> QED BY <1>2, <1>4, <1>5, <1>7, <1>c DEF Ordered, Queued

\* The room answers a hello.
LEMMA AckHello ==
    ASSUME LinkInv, NEW d \in Devices, Ordered(d), StepHello(d) PROVE Ordered(d)'
<1>1. /\ conn[d] = "hello" /\ UNCHANGED <<doc, clock, disk, conn>> /\ Len(down'[d]) = 1 /\ down'[d][1] \in States
  BY DEF StepHello, Answered
<1>2. \A k \in 1..Len(down'[d]) : down'[d][k].t # "ack"
  BY <1>1 DEF States
<1>3. Fits(doc'[d].auth, doc'[d].pending, down'[d])
  BY <1>2, FitsIdle
<1>4. Idle(doc[d].pending, down'[d])
  BY <1>1, <1>2 DEF Ordered, Idle
<1> QED BY <1>1, <1>3, <1>4 DEF Ordered, Queued

\* The waiting batches are pushed.
LEMMA AckPush ==
    ASSUME LinkInv, LinkInv', NEW d \in Devices, Ordered(d), StepPush(d) PROVE Ordered(d)'
<1> DEFINE p == doc[d].pending
           r == doc'[d].pending
           q == down[d]
           u == up[d]
           v == PushFrames(doc[d])
           n == Hlc(clock[d], d)
<1>1. /\ conn[d] = "open" /\ up'[d] = u \o v /\ doc'[d].auth = doc[d].auth /\ SameWrites(doc[d], doc'[d])
      /\ \A i \in 1..Len(r) : r[i].inFlight
      /\ UNCHANGED <<clock, disk, conn, down>>
  BY DEF StepPush, Pushed
<1>0. doc[d] \in Docs /\ p \in Seq(Batches) /\ q \in Seq(Downs) /\ u \in Seq(Pushes)
  BY <1>1, Readies
<1>r. r \in Seq(Batches)
  <2>1. doc'[d] \in Docs
    BY DEF LinkInv, RegShape
  <2> QED BY <2>1, DocFields
<1>2. /\ Rising(p) /\ Below(p, n) /\ Rising(disk[d].pending) /\ Below(disk[d].pending, n)
      /\ InLine(p, u, q) /\ Fits(doc[d].auth, p, q)
  BY <1>1 DEF Ordered, Queued
<1>3. v \in Seq(Pushes) /\ Pushing(p, v)
  BY <1>0, <1>2, PushOrder
<1>4. Len(r) = Len(p) /\ \A i \in 1..Len(p) : r[i].id = p[i].id
  BY <1>1 DEF SameWrites
<1>5. Rising(r) /\ Below(r, n) /\ Fits(doc[d].auth, r, q)
  BY <1>0, <1>1, <1>2, OrderSame, FitsSame
<1>c. Hlc(clock[d], d)' = n
  BY <1>1
<1> HIDE DEF p, r, q, u, v, n
<1>6. InLine(r, u \o v, q)
  BY <1>0, <1>1, <1>2, <1>3, <1>4, <1>r, InLinePush
<1> QED BY <1>1, <1>2, <1>5, <1>6, <1>c DEF Ordered, Queued, p, r, q

\* The state frame is read and everything is pushed.
LEMMA AckState ==
    ASSUME LinkInv, LinkInv', StreamInv, ~wiped, NEW d \in Devices, Ordered(d), StepState(d) PROVE Ordered(d)'
<1> DEFINE p == doc[d].pending
           r == doc'[d].pending
           q == down[d]
           n == Hlc(clock[d], d)
           m == Hlc(clock'[d], d)
<1>1. /\ conn[d] # "open" /\ conn'[d] = "open" /\ q # <<>> /\ down'[d] = Tail(q) /\ clock'[d] >= clock[d]
      /\ \A i \in 1..Len(r) : r[i].inFlight
      /\ disk' = disk
  BY DEF StepState, StateRead
<1>2. PICK rd \in Docs : rd.pending = p /\ SameWrites(rd, doc'[d]) /\ up'[d] = PushFrames(rd)
  BY NoSeed
<1>0. /\ p \in Seq(Batches) /\ disk[d].pending \in Seq(Batches) /\ q \in Seq(Downs) /\ n \in Nat /\ clock[d] \in Nat
  BY Readies
<1>r. r \in Seq(Batches) /\ clock'[d] \in Nat /\ m \in Nat
  <2>1. doc'[d] \in Docs /\ clock'[d] \in Nat
    BY DEF LinkInv, RegShape
  <2> QED BY <2>1, DocFields, HlcNat
<1>3. n <= m
  BY <1>0, <1>1, <1>r, HlcRises
<1>4. /\ Rising(p) /\ Below(p, n) /\ Rising(disk[d].pending) /\ Below(disk[d].pending, n) /\ Idle(p, q)
  BY <1>1 DEF Ordered, Queued
<1>5. Below(p, m) /\ Below(disk[d].pending, m)
  BY <1>0, <1>3, <1>4, <1>r, BelowLater
<1>6. Rising(r) /\ Below(r, m)
  BY <1>2, <1>4, <1>5, OrderSame
<1>7. Len(r) = Len(p) /\ \A i \in 1..Len(p) : r[i].id = p[i].id
  BY <1>2 DEF SameWrites
<1> DEFINE v == PushFrames(rd)
           s == Tail(q)
<1>8. v \in Seq(Pushes) /\ Pushing(p, v)
  <2>1. Rising(rd.pending) /\ v = PushFrames(rd)
    BY <1>2, <1>4
  <2>2. v \in Seq(Pushes) /\ Pushing(rd.pending, v)
    BY <2>1, PushOrder
  <2> QED BY <1>2, <2>2
<1>9. s \in Seq(Downs) /\ \A k \in 1..Len(s) : \E j \in 1..Len(q) : s[k] = q[j]
  BY <1>0, <1>1, Popped
<1>c. Hlc(clock[d], d)' = m
  OBVIOUS
<1>d. doc'[d].pending = r /\ down'[d] = s /\ up'[d] = v
  BY <1>1, <1>2
<1> HIDE DEF p, r, q, n, m, v, s
<1>10. \A k \in 1..Len(s) : s[k].t # "ack"
  BY <1>4, <1>9 DEF Idle
<1>11. Idle(p, s)
  BY <1>4, <1>10 DEF Idle
<1>12. InLine(p, <<>>, s)
  BY <1>11, InLineIdle
<1>13. InLine(r, <<>> \o v, s)
  <2>1. <<>> \in Seq(Pushes)
    OBVIOUS
  <2> QED BY <1>0, <1>1, <1>7, <1>8, <1>9, <1>12, <1>r, <2>1, InLinePush
<1>14. <<>> \o v = v
  BY <1>8
<1>15. Fits(doc'[d].auth, r, s)
  BY <1>10, FitsIdle
<1> QED BY <1>1, <1>4, <1>5, <1>6, <1>13, <1>14, <1>15, <1>c, <1>d DEF Ordered, Queued

\* The first batch is the one the ack retires; the rest stays.
LEMMA RetiresFirst ==
    ASSUME NEW p \in Seq(Batches), Rising(p), p # <<>>, NEW n, n = p[1].id, NEW r, r = Retained(p, n)
    PROVE  Len(r) = Len(p) - 1 /\ \A k \in 1..Len(r) : r[k] = p[k + 1]
<1> DEFINE keep == {i \in DOMAIN p : p[i].id # n}
<1>0. Len(p) \in Nat /\ 1 \in 1..Len(p) /\ DOMAIN p = 1..Len(p)
  OBVIOUS
<1>1. 1 \notin keep
  OBVIOUS
<1>2. \A i \in 2..Len(p) : i \in keep
  <2> SUFFICES ASSUME NEW i \in 2..Len(p) PROVE i \in keep
    OBVIOUS
  <2>1. i \in 1..Len(p) /\ 1 < i
    BY <1>0
  <2>2. p[1].id < p[i].id /\ p[1].id \in Nat /\ p[i].id \in Nat
    BY <1>0, <2>1, BatchIds DEF Rising
  <2> QED BY <1>0, <2>1, <2>2
<1>3. r = Chosen(p, keep)
  BY DEF Retained
<1> HIDE DEF keep
<1> QED BY <1>1, <1>2, <1>3, ChosenRest

\* A rows or ack frame is read.
LEMMA AckFrame ==
    ASSUME LinkInv, LinkInv', StreamInv, ~wiped, NEW d \in Devices, Ordered(d), StepFrame(d) PROVE Ordered(d)'
<1> DEFINE p == doc[d].pending
           r == doc'[d].pending
           q == down[d]
           u == up[d]
           n == Hlc(clock[d], d)
           a == doc[d].auth
           b == doc'[d].auth
           fr == q[1]
<1>1. /\ conn[d] = "open" /\ q # <<>> /\ fr.t \in {"rows", "ack"} /\ down'[d] = Tail(q)
      /\ b = (IF fr.t = "rows" /\ fr.row.here THEN fr.row ELSE a)
      /\ \A i \in 1..Len(r) : \E j \in 1..Len(p) : r[i] = p[j]
      /\ fr.t = "rows" => r = p
      /\ fr.t = "ack" => r = Retained(p, fr.id)
      /\ UNCHANGED <<clock, disk, conn, up>>
  BY DEF StepFrame, FrameRead
<1>0. p \in Seq(Batches) /\ disk[d].pending \in Seq(Batches) /\ q \in Seq(Downs) /\ u \in Seq(Pushes) /\ ready[d]
  BY <1>1, Readies
<1>r. r \in Seq(Batches)
  <2>1. doc'[d] \in Docs
    BY DEF LinkInv, RegShape
  <2> QED BY <2>1, DocFields
<1>2. /\ Rising(p) /\ Below(p, n) /\ Rising(disk[d].pending) /\ Below(disk[d].pending, n) /\ InLine(p, u, q)
      /\ Fits(a, p, q)
  BY <1>1 DEF Ordered, Queued
<1>3. b = IF Carries(fr) THEN fr.row ELSE a
  <2>1. Flows(a, doc[d].cursor, q, room.row, room.seq)
    BY <1>0 DEF StreamInv, Fed
  <2>2. 1 \in 1..Len(q)
    BY <1>0, <1>1, Popped
  <2>3. fr.t = "rows" => fr.row.here
    BY <2>1, <2>2 DEF Flows, Sent
  <2> QED BY <1>1, <2>3 DEF Carries
<1>c. Hlc(clock[d], d)' = n
  BY <1>1
<1>d. doc'[d].pending = r /\ doc'[d].auth = b /\ up'[d] = u
  BY <1>1
<1>e. \A i \in 1..Len(r) : \E j \in 1..Len(p) : r[i] = p[j]
  BY <1>1
<1> HIDE DEF p, r, u, n, a, b, q
<1>4. Fits(b, r, Tail(q))
  BY ONLY <1>0, <1>1, <1>2, <1>3, <1>e, FitsPop
<1>5. CASE fr.t = "rows"
  <2>1. r = p /\ fr.t # "ack"
    BY <1>1, <1>5
  <2>2. InLine(p, u, Tail(q))
    BY <1>0, <1>1, <1>2, <2>1, InLineRead
  <2> QED BY <1>1, <1>2, <1>4, <1>c, <1>d, <2>1, <2>2 DEF Ordered, Queued
<1>6. CASE fr.t = "ack"
  <2>1. p # <<>> /\ p[1].id = fr.id
    BY <1>0, <1>1, <1>2, <1>6, FirstAck
  <2>2. Len(r) = Len(p) - 1 /\ \A k \in 1..Len(r) : r[k] = p[k + 1]
    BY <1>0, <1>1, <1>2, <1>6, <2>1, RetiresFirst
  <2>3. InLine(r, u, Tail(q))
    BY <1>0, <1>1, <1>2, <1>6, <1>r, <2>2, InLineAck
  <2>4. Len(p) \in Nat /\ Len(r) \in Nat /\ \A k \in 1..Len(r) : k + 1 \in 1..Len(p) /\ k \in Nat
    BY <1>0, <1>r, <2>2
  <2>5. Rising(r)
    <3>1. \A i, j \in 1..Len(r) : i < j => i + 1 < j + 1
      BY <2>4
    <3> QED BY <1>2, <2>2, <2>4, <3>1 DEF Rising
  <2>6. Below(r, n)
    BY <1>2, <2>2, <2>4 DEF Below
  <2> QED BY <1>1, <1>2, <1>4, <1>c, <1>d, <2>3, <2>5, <2>6 DEF Ordered, Queued
<1> QED BY <1>1, <1>5, <1>6

\* A device that is sent the room's row.
LEMMA OrderedRow ==
    ASSUME LinkInv, NEW e \in Devices, Ordered(e), NEW x \in Downs, x.t # "ack",
           UNCHANGED <<doc, disk, clock, conn>>, up'[e] = up[e], down'[e] = Append(down[e], x)
    PROVE  Ordered(e)'
<1> DEFINE p == doc[e].pending
           q == down[e]
<1>0. /\ p \in Seq(Batches) /\ q \in Seq(Downs)
      /\ conn[e] = "open" => up[e] \in Seq(Pushes)
  BY Readies
<1>1. Fits(doc[e].auth, p, Append(q, x))
  BY <1>0, FitsAppend DEF Ordered
<1>2. CASE conn[e] = "open"
  <2>1. InLine(p, up[e], Append(q, x))
    BY <1>0, <1>2, InLineRows DEF Ordered
  <2> QED BY <1>1, <1>2, <2>1 DEF Ordered, Queued
<1>3. CASE conn[e] # "open"
  <2>1. Idle(p, Append(q, x))
    BY <1>0, <1>3, IdleAppend DEF Ordered
  <2> QED BY <1>1, <1>3, <2>1 DEF Ordered, Queued
<1> QED BY <1>2, <1>3

\* The room merges a push and acknowledges it.
LEMMA AckMerge ==
    ASSUME LinkInv, LinkInv', StreamInv, OpsInv, ~wiped, \A e \in Devices : Ordered(e), NEW d \in Devices, StepMerge(d)
    PROVE  \A e \in Devices : Ordered(e)'
<1> DEFINE fr  == up[d][1]
           ack == [t |-> "ack", id |-> fr.id, seq |-> room'.seq]
           row == [t |-> "rows", seq |-> room'.seq, row |-> room'.row]
           p == doc[d].pending
           q == down[d]
           u == up[d]
           a == doc[d].auth
           next == ApplyOp(room.row, fr.op)
<1>1. /\ UNCHANGED <<doc, clock, disk, conn, ready>> /\ \A e \in Devices \ {d} : up'[e] = up[e]
      /\ u # <<>> /\ fr \in Pushes /\ up'[d] = Tail(u) /\ conn[d] = "open" /\ ready[d]
  BY DEF StepMerge, Merged
<1>2. \/ /\ next.changed = FALSE
         /\ down'[d] = Append(q, ack) /\ \A e \in Devices \ {d} : down'[e] = down[e]
      \/ /\ next.changed = TRUE /\ SameContent(room'.row, next.row)
         /\ down'[d] = Append(Append(q, row), ack)
         /\ \A e \in Devices \ {d} :
              IF ready[e] THEN down'[e] = Append(down[e], row) ELSE down'[e] = down[e]
  BY DEF StepMerge, Merged
<1>0. /\ doc[d] \in Docs /\ p \in Seq(Batches) /\ q \in Seq(Downs) /\ u \in Seq(Pushes) /\ 1 \in 1..Len(u)
  BY <1>1, Readies, Popped
<1>3. /\ room'.seq \in Nat /\ room'.row \in Rows /\ room.row \in Rows /\ fr.op \in Ops /\ fr.id \in Nat /\ fr.t = "push"
  BY <1>1 DEF LinkInv, RegShape, Pushes
<1>4. /\ ack \in Downs /\ ack.t = "ack" /\ ack.id = fr.id
      /\ row \in Downs /\ row.t = "rows" /\ row.row = room'.row
  BY <1>3 DEF Acks, RowFrames, Downs
<1> HIDE DEF ack, row
<1>5. InLine(p, u, q) /\ Queued(d) /\ Fits(a, p, q)
  BY <1>1 DEF Ordered
<1>6. ASSUME NEW i \in 1..Len(p), p[i].id = fr.id PROVE p[i].op = fr.op
  <2>1. fr.id = fr.op.hlc /\ p[i].id = p[i].op.hlc
    BY <1>0, <1>3 DEF OpsInv, NamesInv, Named, NamedUp
  <2>2. Known(fr.op) /\ Known(p[i].op)
    BY <1>0, <1>3 DEF Known, InUp, InPending
  <2> QED BY <1>6, <2>1, <2>2 DEF OpsInv, UniqueInv
<1>7. ASSUME NEW e \in Devices \ {d} PROVE Ordered(e)'
  <2>1. down'[e] = down[e] \/ down'[e] = Append(down[e], row)
    BY <1>2
  <2>2. CASE down'[e] = down[e]
    BY <1>1, <2>2, OrderedKept
  <2>3. CASE down'[e] = Append(down[e], row)
    <3>1. row.t # "ack"
      BY <1>4
    <3> QED BY <1>1, <1>4, <2>3, <3>1, OrderedRow
  <2> QED BY <2>1, <2>2, <2>3
<1>8. ASSUME NEW s \in Seq(Downs), down'[d] = Append(s, ack), InLine(p, u, s), Fits(a, p, s),
             NEW r, Leads(a, s, Len(s), r), ApplyOp(r, fr.op).row = r
      PROVE  Ordered(d)'
  <2>1. InLine(p, Tail(u), Append(s, ack))
    BY <1>0, <1>1, <1>4, <1>8, InLineMerge
  <2>2. ASSUME NEW i \in 1..Len(p), p[i].id = ack.id
        PROVE  \E x : Leads(a, s, Len(s), x) /\ ApplyOp(x, p[i].op).row = x
    <3>1. p[i].op = fr.op
      BY <1>4, <1>6, <2>2
    <3> QED BY <1>8, <3>1
  <2>3. Fits(a, p, Append(s, ack))
    BY <1>4, <1>8, <2>2, FitsAppend
  <2> QED BY <1>1, <1>5, <1>8, <2>1, <2>3 DEF Ordered, Queued
<1>9. Ordered(d)'
  <2>1. CASE next.changed = FALSE /\ down'[d] = Append(q, ack)
    <3>1. ApplyOp(room.row, fr.op).row = room.row
      BY <1>3, <2>1, ApplyIdle
    <3>2. Leads(a, q, Len(q), room.row)
      BY <1>1 DEF StreamInv, Fed, Flows
    <3> QED BY <1>0, <1>5, <1>8, <2>1, <3>1, <3>2
  <2>2. CASE /\ next.changed = TRUE /\ SameContent(room'.row, next.row)
             /\ down'[d] = Append(Append(q, row), ack)
    <3> DEFINE s == Append(q, row)
    <3>1. ApplyOp(room'.row, fr.op).row = room'.row
      BY <1>3, <2>2, ApplyTwice
    <3>2. s \in Seq(Downs) /\ Len(s) = Len(q) + 1
      BY <1>0, <1>4, Appended
    <3>3. Leads(a, s, Len(s), room'.row)
      BY <1>0, <1>4, <3>2, LeadsNew DEF Carries
    <3>4. InLine(p, u, s)
      BY <1>0, <1>4, <1>5, InLineRows
    <3>5. Fits(a, p, s)
      BY <1>0, <1>4, <1>5, FitsAppend
    <3>6. down'[d] = Append(s, ack)
      BY <2>2
    <3> HIDE DEF s
    <3> QED BY <1>8, <3>1, <3>2, <3>3, <3>4, <3>5, <3>6
  <2> QED BY <1>2, <2>1, <2>2
<1> QED BY <1>7, <1>9

\* The order is kept by every step.
LEMMA AckStep == ASSUME LinkInv, StreamInv, OpsInv, AckInv, [Next]_vars PROVE AckInv'
<1> SUFFICES ASSUME ~wiped' PROVE \A e \in Devices : Ordered(e)'
  BY DEF AckInv
<1>0. LinkInv'
  BY Steps
<1>1. ~wiped
  <2>1. ASSUME NEW d \in Devices,
               \/ StepWrite(d) \/ StepSave(d) \/ StepConnect(d) \/ StepState(d) \/ StepFrame(d)
               \/ StepPush(d) \/ StepLoss(d) \/ StepHello(d) \/ StepMerge(d)
        PROVE  wiped' = wiped
    BY <2>1 DEF StepWrite, StepSave, StepConnect, StepState, StepFrame, StepPush, StepLoss, StepHello, StepMerge
  <2>2. CASE StepRoom
    BY <2>2 DEF StepRoom
  <2> QED BY <2>1, <2>2, Steps
<1>2. \A e \in Devices : Ordered(e)
  BY <1>1 DEF AckInv
<1>3. ASSUME NEW d \in Devices,
             \/ StepWrite(d) \/ StepSave(d) \/ StepConnect(d) \/ StepState(d) \/ StepFrame(d)
             \/ StepPush(d) \/ StepLoss(d) \/ StepHello(d)
      PROVE  \A e \in Devices : Ordered(e)'
  <2>1. Others(d)
    BY <1>3 DEF StepWrite, StepSave, StepConnect, StepState, StepFrame, StepPush, StepLoss, StepHello
  <2>2. Ordered(d)'
    BY <1>0, <1>1, <1>2, <1>3, AckWrite, AckQuiet, AckState, AckFrame, AckPush, AckLoss, AckHello
  <2> QED BY <1>2, <2>1, <2>2, AckOthers
<1>4. ASSUME NEW d \in Devices, StepMerge(d) PROVE \A e \in Devices : Ordered(e)'
  BY <1>0, <1>1, <1>2, <1>4, AckMerge
<1>5. CASE StepRoom
  <2>1. UNCHANGED <<doc, clock, disk, conn, up, down>>
    BY <1>5 DEF StepRoom
  <2> QED BY <1>2, <2>1, OrderedKept
<1> QED BY <1>3, <1>4, <1>5, Steps

\* Nothing is queued at the start.
LEMMA AckInit == ASSUME Init PROVE AckInv
<1>1. \A d \in Devices : doc[d].pending = <<>> /\ disk[d].pending = <<>> /\ down[d] = <<>> /\ conn[d] = "down"
  BY NewDocShape DEF Init
<1>2. Len(<<>>) = 0 /\ \A i \in 1..0 : FALSE
  OBVIOUS
<1>3. ASSUME NEW d \in Devices PROVE Ordered(d)
  <2>1. Queued(d)
    BY <1>1, <1>2 DEF Queued, Rising, Below
  <2>2. Idle(doc[d].pending, down[d]) /\ Fits(doc[d].auth, doc[d].pending, down[d])
    BY <1>1, <1>2 DEF Idle, Fits
  <2> QED BY <1>1, <2>1, <2>2 DEF Ordered
<1> QED BY <1>3 DEF AckInv

\* What a replica shows does not change when it reads an ack.
LEMMA AckQuietly ==
    ASSUME LinkInv, LinkInv', StreamInv, AckInv, ~wiped, NEW d \in Devices, RecvAck(d)
    PROVE  Overlay(doc'[d]) = Overlay(doc[d])
<1> DEFINE p == doc[d].pending
           r == doc'[d].pending
           q == down[d]
           a == doc[d].auth
<1>1. FrameRead(d)
  BY FrameStep
<1>2. q # <<>> /\ q \in Seq(Downs)
  BY <1>1, Readies DEF FrameRead
<1>3. q[1].t = "ack"
  BY <1>2, Popped DEF RecvAck
<1>4. conn[d] = "open" /\ doc'[d].auth = a /\ r = Retained(p, q[1].id)
  BY <1>1, <1>3 DEF FrameRead
<1>5. p \in Seq(Batches) /\ up[d] \in Seq(Pushes)
  BY <1>4, Readies
<1>r. r \in Seq(Batches)
  <2>1. doc'[d] \in Docs
    BY DEF LinkInv, RegShape
  <2> QED BY <2>1, DocFields
<1>6. Rising(p) /\ InLine(p, up[d], q) /\ Fits(a, p, q)
  BY <1>4 DEF AckInv, Ordered, Queued
<1>7. Overlay(doc'[d]) = Table(a, r)[DOMAIN r] /\ Overlay(doc[d]) = Table(a, p)[DOMAIN p]
  BY <1>4, OverlayTable
<1> HIDE DEF p, r, q, a
<1>8. p # <<>> /\ p[1].id = q[1].id
  BY <1>2, <1>3, <1>5, <1>6, FirstAck
<1>9. Len(r) = Len(p) - 1 /\ \A k \in 1..Len(r) : r[k] = p[k + 1]
  BY <1>4, <1>5, <1>6, <1>8, RetiresFirst
<1>10. ApplyOp(a, p[1].op).row = a
  <2>1. 1 \in 1..Len(p) /\ 1 \in 1..Len(q)
    BY <1>2, <1>5, <1>8, Popped
  <2>2. PICK x : Leads(a, q, 1, x) /\ ApplyOp(x, p[1].op).row = x
    BY <1>3, <1>6, <1>8, <2>1 DEF Fits
  <2>3. ~Carries(q[1]) /\ \A i \in 1..1 : i = 1
    BY <1>3 DEF Carries
  <2>4. x = a
    BY <2>2, <2>3 DEF Leads
  <2> QED BY <2>2, <2>4
<1> DEFINE N == Len(r)
<1>11. N \in Nat /\ DOMAIN r = 1..N /\ DOMAIN p = 1..(N + 1)
  BY <1>5, <1>9, <1>r
<1>12. Table(a, r)[1..N] = Table(a, p)[1..(N + 1)]
  <2>1. Dropped(p, r, N)
    BY <1>9, <1>11 DEF Dropped
  <2>2. ShowSame(a, p, r, N)
    BY <1>10, <1>11, <2>1, OverlayDrop
  <2> QED BY <2>2 DEF ShowSame
<1> QED BY <1>7, <1>11, <1>12

\* When a device retires the batch an ack names, what it shows stays as it was (no wipes): an
\* ack retires the first batch, and the row the room had after merging it was read before.
THEOREM AcksNeverFlicker == Spec => AckNeverFlickers
<1>1. Init => LinkInv /\ StreamInv /\ OpsInv /\ AckInv
  BY LinkInit, StreamInit, OpsInit, AckInit
<1>2. LinkInv /\ StreamInv /\ OpsInv /\ AckInv /\ [Next]_vars => (LinkInv /\ StreamInv /\ OpsInv /\ AckInv)'
  BY Steps, StreamStep, OpsStep, AckStep
<1> DEFINE Quiet == \A d \in Devices : RecvAck(d) /\ ~wiped =>
              [Overlay(doc[d]) EXCEPT !.seq = 0]' = [Overlay(doc[d]) EXCEPT !.seq = 0]
<1>3. LinkInv /\ LinkInv' /\ StreamInv /\ AckInv /\ [Next]_vars => Quiet
  BY AckQuietly
<1>4. Spec => [](LinkInv /\ StreamInv /\ AckInv)
  BY <1>1, <1>2, PTL DEF Spec
<1>5. AckNeverFlickers <=> [][Quiet]_vars
  BY DEF AckNeverFlickers
<1> HIDE DEF Quiet
<1> QED BY <1>3, <1>4, <1>5, PTL DEF Spec
=============================================================================
