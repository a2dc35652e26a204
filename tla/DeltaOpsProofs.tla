---------------------------- MODULE DeltaOpsProofs ----------------------------
(***************************************************************************)
(* What the operations of a delta, the optimizer and the application of a  *)
(* patch do to one another, for any files and any bytes.  Recursive        *)
(* functions are reasoned about with the least number that has no solution *)
(* or no property.                                                         *)
(***************************************************************************)
EXTENDS DeltaOps, SequenceTheorems, WellFoundedInduction, TLAPS

-----------------------------------------------------------------------------
(* Induction and recursion.                                                *)

\* A set that holds 0 and, with each number below n, the next one, holds all
\* the numbers up to n.
LEMMA UpTo ==
    ASSUME NEW n \in Nat, NEW S, 0 \in S, \A i \in 0..(n - 1) : i \in S => i + 1 \in S
    PROVE  0..n \subseteq S
<1> DEFINE Others == {i \in Nat : i <= n /\ i \notin S}
<1> SUFFICES ASSUME Others # {} PROVE FALSE
  OBVIOUS
<1>1. PICK m \in Others : \A k \in Others : <<k, m>> \notin OpToRel(<, Nat)
  <2>1. Others \subseteq Nat
    OBVIOUS
  <2> HIDE DEF Others
  <2> QED
    BY <2>1, NatLessThanWellFounded, WFMin
<1>2. \A k \in Others : ~(k < m)
  BY <1>1 DEF OpToRel
<1>3. m \in Nat /\ m <= n /\ m \notin S
  OBVIOUS
<1>4. m # 0
  BY <1>3
<1>5. m - 1 \in 0..(n - 1) /\ m - 1 < m /\ (m - 1) + 1 = m
  BY <1>3, <1>4
<1>6. m - 1 \in S
  BY <1>2, <1>5
<1>7. (m - 1) + 1 \in S
  BY <1>5, <1>6, Zenon
<1> QED
  BY <1>3, <1>5, <1>7, Zenon

\* A set of numbers with an element has a least one.
LEMMA LeastNumber ==
    ASSUME NEW S, S \subseteq Nat, S # {}
    PROVE  \E m \in S : \A n \in S : m <= n
<1>1. PICK m \in S : \A n \in S : <<n, m>> \notin OpToRel(<, Nat)
  BY NatLessThanWellFounded, WFMin
<1>2. \A n \in S : ~(n < m)
  BY <1>1 DEF OpToRel
<1> QED
  BY <1>2

\* t starts with v and goes on as step says, up to m.
Solves(t, m, v, step) ==
    \A i \in 0..m : t[i] = IF i = 0 THEN v ELSE step[i][t[i - 1]]

\* Steps inside a set, from each of the numbers up to n to the next, have a
\* solution.
LEMMA SolutionExists ==
    ASSUME NEW V, NEW v \in V, NEW n \in Nat, NEW step \in [1..n -> [V -> V]]
    PROVE  \E t \in [0..n -> V] : Solves(t, n, v, step)
<1> DEFINE S == {m \in 0..n : \E t \in [0..m -> V] : Solves(t, m, v, step)}
<1>1. 0 \in S
  <2> DEFINE u == [i \in 0..0 |-> v]
  <2>1. u \in [0..0 -> V] /\ Solves(u, 0, v, step)
    BY DEF Solves
  <2>2. 0 \in 0..n
    OBVIOUS
  <2> HIDE DEF u
  <2> QED
    BY <2>1, <2>2
<1>2. ASSUME NEW m \in 0..(n - 1), m \in S PROVE m + 1 \in S
  <2>1. PICK t \in [0..m -> V] : Solves(t, m, v, step)
    BY <1>2
  <2> DEFINE u == [i \in 0..(m + 1) |-> IF i = m + 1 THEN step[m + 1][t[m]] ELSE t[i]]
  <2>2. u \in [0..(m + 1) -> V]
    OBVIOUS
  <2>3. ASSUME NEW i \in 0..(m + 1) PROVE u[i] = IF i = 0 THEN v ELSE step[i][u[i - 1]]
    <3>1. CASE i = m + 1
      BY <3>1
    <3>2. CASE i # m + 1
      <4>1. i \in 0..m /\ u[i] = t[i] /\ (i # 0 => i - 1 \in 0..m /\ u[i - 1] = t[i - 1])
        BY <3>2
      <4>2. t[i] = IF i = 0 THEN v ELSE step[i][t[i - 1]]
        BY <2>1, <4>1 DEF Solves
      <4> QED
        BY <4>1, <4>2
    <3> QED
      BY <3>1, <3>2
  <2>4. Solves(u, m + 1, v, step)
    BY <2>3 DEF Solves
  <2>5. m + 1 \in 0..n
    OBVIOUS
  <2> HIDE DEF u
  <2> QED
    BY <2>2, <2>4, <2>5
<1> HIDE DEF S
<1>3. 0..n \subseteq S
  BY <1>1, <1>2, UpTo
<1>4. n \in S
  BY <1>3
<1> QED
  BY <1>4 DEF S

\* A solution stays in V if its first value and every step do.
LEMMA SolutionType ==
    ASSUME NEW V, NEW n \in Nat, NEW t, t[0] \in V,
           \A i \in 1..n : t[i - 1] \in V => t[i] \in V
    PROVE  \A i \in 0..n : t[i] \in V
<1> DEFINE S == {i \in 0..n : t[i] \in V}
<1>1. 0 \in S
  OBVIOUS
<1>2. ASSUME NEW i \in 0..(n - 1), i \in S PROVE i + 1 \in S
  <2>1. i + 1 \in 1..n /\ (i + 1) - 1 = i
    OBVIOUS
  <2>2. t[i + 1] \in V
    BY <1>2, <2>1
  <2> QED
    BY <2>1, <2>2
<1> HIDE DEF S
<1>3. 0..n \subseteq S
  BY <1>1, <1>2, UpTo
<1> QED
  BY <1>3 DEF S

-----------------------------------------------------------------------------
(* Stretches of a file.                                                    *)

\* The bytes of f from offset to end.
Stretch(f, offset, end) == SubSeq(f, offset + 1, end)

LEMMA StretchProperties ==
    ASSUME NEW B, NEW f \in Seq(B), NEW a \in Nat, NEW b \in Nat, a <= b, b <= Len(f)
    PROVE  /\ Stretch(f, a, b) \in Seq(B) /\ Len(Stretch(f, a, b)) = b - a
           /\ \A i \in 1..(b - a) : Stretch(f, a, b)[i] = f[a + i]
<1>1. \A i \in (a + 1)..b : f[i] \in B
  OBVIOUS
<1>2. /\ SubSeq(f, a + 1, b) \in Seq(B)
      /\ Len(SubSeq(f, a + 1, b)) = IF a + 1 <= b THEN b - (a + 1) + 1 ELSE 0
      /\ \A i \in 1..(b - (a + 1) + 1) : SubSeq(f, a + 1, b)[i] = f[(a + 1) + i - 1]
  BY <1>1, SubSeqProperties
<1>3. b - (a + 1) + 1 = b - a /\ (IF a + 1 <= b THEN b - (a + 1) + 1 ELSE 0) = b - a
  OBVIOUS
<1>4. \A i \in 1..(b - a) : SubSeq(f, a + 1, b)[i] = f[a + i]
  <2> TAKE i \in 1..(b - a)
  <2>1. i \in 1..(b - (a + 1) + 1) /\ (a + 1) + i - 1 = a + i
    OBVIOUS
  <2>2. SubSeq(f, a + 1, b)[i] = f[(a + 1) + i - 1]
    BY <1>2, <2>1
  <2> QED
    BY <2>1, <2>2
<1>5. SubSeq(f, a + 1, b) \in Seq(B) /\ Len(SubSeq(f, a + 1, b)) = b - a
  BY <1>2, <1>3
<1> QED
  BY <1>4, <1>5, Zenon DEF Stretch

\* A read that stays inside the file is not cut short.
LEMMA SliceIsStretch ==
    ASSUME NEW B, NEW f \in Seq(B), NEW a \in Nat, NEW n \in Nat, a + n <= Len(f)
    PROVE  Slice(f, a, n) = Stretch(f, a, a + n)
<1>1. (IF a + n < Len(f) THEN a + n ELSE Len(f)) = a + n
  OBVIOUS
<1> QED
  BY <1>1 DEF Slice, Stretch

\* Any other read gives what is left.
LEMMA SliceProperties ==
    ASSUME NEW B, NEW f \in Seq(B), NEW a \in Nat, NEW n \in Nat
    PROVE  /\ Slice(f, a, n) \in Seq(B) /\ Len(Slice(f, a, n)) \in 0..n
           /\ a <= Len(f) => a + Len(Slice(f, a, n)) <= Len(f)
           /\ n > 0 /\ Len(Slice(f, a, n)) = n => a + n <= Len(f)
           /\ a <= Len(f) /\ Len(Slice(f, a, n)) < n => a + Len(Slice(f, a, n)) = Len(f)
           /\ a <= Len(f) => Slice(f, a, n) = Stretch(f, a, a + Len(Slice(f, a, n)))
<1> DEFINE b == IF a + n < Len(f) THEN a + n ELSE Len(f)
<1>1. b \in Nat /\ b <= Len(f) /\ b <= a + n
  OBVIOUS
<1>2. CASE a <= b
  <2>1. Slice(f, a, n) = Stretch(f, a, b)
    BY DEF Slice, Stretch
  <2>2. Slice(f, a, n) \in Seq(B) /\ Len(Slice(f, a, n)) = b - a
    BY <1>1, <1>2, <2>1, StretchProperties
  <2>3. b = a + Len(Slice(f, a, n))
    BY <1>1, <1>2, <2>2
  <2> QED
    BY <1>1, <1>2, <2>1, <2>2, <2>3
<1>3. CASE b < a
  <2>1. Slice(f, a, n) = <<>>
    BY <1>1, <1>3, SubSeqEmpty DEF Slice
  <2> QED
    BY <1>1, <1>3, <2>1
<1> QED
  BY <1>1, <1>2, <1>3

\* Two stretches that meet are one.
LEMMA StretchesMeet ==
    ASSUME NEW B, NEW f \in Seq(B), NEW a \in Nat, NEW b \in Nat, NEW c \in Nat,
           a <= b, b <= c, c <= Len(f)
    PROVE  Stretch(f, a, b) \o Stretch(f, b, c) = Stretch(f, a, c)
<1>1. a + 1 \in 1..(Len(f) + 1) /\ b \in ((a + 1) - 1)..Len(f) /\ c \in b..Len(f)
  OBVIOUS
<1> QED
  BY <1>1, ConcatAdjacentSubSeq DEF Stretch

LEMMA StretchGrows ==
    ASSUME NEW B, NEW f \in Seq(B), NEW a \in Nat, NEW b \in Nat, a <= b, b < Len(f)
    PROVE  Append(Stretch(f, a, b), f[b + 1]) = Stretch(f, a, b + 1)
<1>1. Stretch(f, a, b) \o Stretch(f, b, b + 1) = Stretch(f, a, b + 1)
  <2>1. PICK c \in Nat : c = b + 1
    OBVIOUS
  <2>2. b <= c /\ c <= Len(f)
    BY <2>1
  <2>3. Stretch(f, a, b) \o Stretch(f, b, c) = Stretch(f, a, c)
    BY <2>2, StretchesMeet
  <2> QED
    BY <2>1, <2>3
<1>2. b <= Len(f) /\ f[b + 1] \in B
  OBVIOUS
<1>3. Stretch(f, b, b + 1) = <<f[b + 1]>>
  <2>1. PICK c \in Nat : c = b + 1
    OBVIOUS
  <2>2. b <= c /\ c <= Len(f)
    BY <2>1
  <2>3. /\ Stretch(f, b, c) \in Seq(B) /\ Len(Stretch(f, b, c)) = c - b
        /\ \A i \in 1..(c - b) : Stretch(f, b, c)[i] = f[b + i]
    BY <2>2, StretchProperties
  <2>4. <<f[c]>> \in Seq(B) /\ Len(<<f[c]>>) = 1 /\ <<f[c]>>[1] = f[c]
    BY <1>2, <2>1
  <2>5. Len(Stretch(f, b, c)) = 1 /\ Stretch(f, b, c)[1] = f[c]
    BY <2>1, <2>3
  <2>6. Stretch(f, b, c) = <<f[c]>>
    BY <2>3, <2>4, <2>5, SeqEqual
  <2> QED
    BY <2>1, <2>6
<1>4. Stretch(f, a, b) \in Seq(B)
  BY <1>2, StretchProperties
<1> QED
  BY <1>1, <1>2, <1>3, <1>4, AppendIsConcat

LEMMA StretchAll ==
    ASSUME NEW B, NEW f \in Seq(B)
    PROVE  Stretch(f, 0, Len(f)) = f
BY SubSeqFull DEF Stretch

LEMMA StretchEmpty ==
    ASSUME NEW B, NEW f \in Seq(B), NEW a \in Nat, a <= Len(f)
    PROVE  Stretch(f, a, a) = <<>>
BY SubSeqEmpty DEF Stretch
-----------------------------------------------------------------------------
(* Operations.                                                             *)

LEMMA JoinType ==
    ASSUME NEW B, NEW p \in OpsOf(B), NEW q \in OpsOf(B)
    PROVE  /\ Join(p, q) \in OpsOf(B)
           /\ Join(p, q).type = p.type /\ Join(p, q).offset = p.offset /\ Join(p, q).src = p.src
           /\ Join(p, q).size = p.size + q.size /\ Join(p, q).data = p.data \o q.data
<1>1. p.data \o q.data \in Seq(B) /\ p.size + q.size \in Nat
  BY ConcatProperties DEF OpsOf
<1> QED
  BY <1>1 DEF OpsOf, Join

\* Merge replaces the last operation or appends one.
LEMMA MergeType ==
    ASSUME NEW B, NEW done \in Seq(OpsOf(B)), NEW op \in OpsOf(B)
    PROVE  Merge(done, op) \in Seq(OpsOf(B))
<1>1. CASE done # <<>> /\ Continues(Last(done), op)
  <2>1. Last(done) \in OpsOf(B) /\ Front(done) \in Seq(OpsOf(B))
    BY <1>1 DEF Last, Front
  <2>2. Join(Last(done), op) \in OpsOf(B)
    BY <2>1, JoinType
  <2>3. Append(Front(done), Join(Last(done), op)) \in Seq(OpsOf(B))
    BY <2>1, <2>2, AppendProperties
  <2> QED
    BY <1>1, <2>3 DEF Merge
<1>2. CASE ~(done # <<>> /\ Continues(Last(done), op))
  BY <1>2, AppendProperties DEF Merge
<1> QED
  BY <1>1, <1>2

\* The recursion of MergeRuns, spelt out.
LEMMA MergeSteps ==
    ASSUME NEW B, NEW ops \in Seq(OpsOf(B))
    PROVE  \E t \in [0..Len(ops) -> Seq(OpsOf(B))] :
              /\ t[0] = <<>>
              /\ \A i \in 1..Len(ops) : t[i] = Merge(t[i - 1], ops[i])
              /\ MergeRuns(ops) = t[Len(ops)]
<1> DEFINE V == Seq(OpsOf(B))
           n == Len(ops)
           Rec(t) == t = [i \in 0..n |-> IF i = 0 THEN <<>> ELSE Merge(t[i - 1], ops[i])]
           T == CHOOSE t : Rec(t)
<1>0. n \in Nat /\ <<>> \in V /\ \A i \in 1..n, d \in V : Merge(d, ops[i]) \in V
  <2>1. \A i \in 1..n : ops[i] \in OpsOf(B)
    OBVIOUS
  <2>2. \A i \in 1..n, d \in V : Merge(d, ops[i]) \in V
    BY <2>1, MergeType
  <2> QED
    BY <2>2
<1>1. \E t : Rec(t)
  <2> DEFINE step == [i \in 1..n |-> [d \in V |-> Merge(d, ops[i])]]
  <2>1. step \in [1..n -> [V -> V]]
    BY <1>0
  <2>2. PICK t \in [0..n -> V] : Solves(t, n, <<>>, step)
    <3> HIDE DEF step, n, V
    <3> QED
      BY <1>0, <2>1, SolutionExists
  <2>3. ASSUME NEW i \in 0..n PROVE t[i] = IF i = 0 THEN <<>> ELSE Merge(t[i - 1], ops[i])
    <3>1. t[i] = IF i = 0 THEN <<>> ELSE step[i][t[i - 1]]
      BY <2>2 DEF Solves
    <3>2. i # 0 => t[i] = Merge(t[i - 1], ops[i])
      <4> HAVE i # 0
      <4> HIDE DEF n, V
      <4>1. i \in 1..n /\ i - 1 \in 0..n
        BY <1>0
      <4>2. t[i - 1] \in V
        BY <2>2, <4>1
      <4>3. step[i][t[i - 1]] = Merge(t[i - 1], ops[i])
        BY <4>1, <4>2
      <4> QED
        BY <3>1, <4>3
    <3> QED
      BY <3>1, <3>2
  <2> QED
    BY <2>2, <2>3
<1>2. Rec(T)
  BY <1>1
<1>3. MergeRuns(ops) = T[n]
  BY DEF MergeRuns
<1> HIDE DEF T
<1>4. T[0] = <<>> /\ \A i \in 1..n : T[i] = Merge(T[i - 1], ops[i])
  <2>1. \A i \in 0..n : T[i] = IF i = 0 THEN <<>> ELSE Merge(T[i - 1], ops[i])
    BY <1>2
  <2> HIDE DEF n
  <2> QED
    BY <1>0, <2>1
<1>5. \A i \in 0..n : T[i] \in V
  <2> HIDE DEF n, V
  <2>1. \A i \in 1..n : T[i - 1] \in V => T[i] \in V
    BY <1>0, <1>4
  <2> QED
    BY <1>0, <1>4, <2>1, SolutionType
<1>6. T \in [0..n -> V]
  BY <1>2, <1>5
<1> QED
  BY <1>3, <1>4, <1>6

-----------------------------------------------------------------------------
(* Applying operations.                                                    *)

LEMMA WriteType ==
    ASSUME NEW B, 0 \in B, NEW f \in Seq(B), NEW data \in Seq(B), NEW a \in Nat
    PROVE  WriteAt(f, a, data) \in Seq(B)
<1> DEFINE n == IF a + Len(data) > Len(f) THEN a + Len(data) ELSE Len(f)
           val(i) == IF a < i /\ i <= a + Len(data) THEN data[i - a]
                     ELSE IF i <= Len(f) THEN f[i] ELSE 0
<1>1. n \in Nat
  OBVIOUS
<1>2. ASSUME NEW i \in 1..n PROVE val(i) \in B
  <2>1. CASE a < i /\ i <= a + Len(data)
    <3>1. i - a \in 1..Len(data)
      BY <2>1
    <3>2. data[i - a] \in B
      BY <3>1
    <3> QED
      BY <2>1, <3>2
  <2>2. CASE ~(a < i /\ i <= a + Len(data)) /\ i <= Len(f)
    <3>1. f[i] \in B
      BY <2>2
    <3> QED
      BY <2>2, <3>1
  <2>3. CASE ~(a < i /\ i <= a + Len(data)) /\ ~(i <= Len(f))
    BY <2>3
  <2> QED
    BY <2>1, <2>2, <2>3
<1>3. [i \in 1..n |-> val(i)] \in Seq(B)
  <2> HIDE DEF n, val
  <2> QED
    BY <1>1, <1>2
<1> QED
  BY <1>3 DEF WriteAt

LEMMA ApplyType ==
    ASSUME NEW B, 0 \in B, NEW f \in Seq(B), NEW source \in Seq(B), NEW op \in OpsOf(B)
    PROVE  ApplyOperation(f, source, op) \in Seq(B)
<1>1. /\ op.type \in {"copy", "insert", "delete"} /\ op.offset \in Nat /\ op.size \in Nat
      /\ op.src \in Nat /\ op.data \in Seq(B)
  BY DEF OpsOf
<1>2. Slice(source, op.src, op.size) \in Seq(B)
  BY <1>1, SliceProperties
<1>3. /\ WriteAt(f, op.offset, Slice(source, op.src, op.size)) \in Seq(B)
      /\ WriteAt(f, op.offset, op.data) \in Seq(B)
  BY <1>1, <1>2, WriteType
<1> QED
  BY <1>1, <1>3 DEF ApplyOperation

\* Writing at the end of a file appends to it.
LEMMA WriteAtEnd ==
    ASSUME NEW B, 0 \in B, NEW f \in Seq(B), NEW data \in Seq(B)
    PROVE  WriteAt(f, Len(f), data) = f \o data
<1>1. CASE data = <<>>
  BY <1>1 DEF WriteAt
<1>2. CASE data # <<>>
  <2>1. Len(data) \in Nat \ {0} /\ Len(f) \in Nat
    BY <1>2
  <2>2. WriteAt(f, Len(f), data) =
          [i \in 1..(Len(f) + Len(data)) |->
             IF Len(f) < i /\ i <= Len(f) + Len(data) THEN data[i - Len(f)]
             ELSE IF i <= Len(f) THEN f[i] ELSE 0]
    BY <1>2, <2>1 DEF WriteAt
  <2>3. WriteAt(f, Len(f), data) \in Seq(B)
    BY <2>1, WriteType
  <2>4. Len(WriteAt(f, Len(f), data)) = Len(f) + Len(data)
    BY <2>1, <2>2, <2>3
  <2>5. /\ f \o data \in Seq(B) /\ Len(f \o data) = Len(f) + Len(data)
        /\ \A i \in 1..(Len(f) + Len(data)) :
              (f \o data)[i] = IF i <= Len(f) THEN f[i] ELSE data[i - Len(f)]
    BY ConcatProperties
  <2>6. \A i \in 1..(Len(f) + Len(data)) : WriteAt(f, Len(f), data)[i] = (f \o data)[i]
    BY <2>1, <2>2, <2>5
  <2> QED
    BY <2>3, <2>4, <2>5, <2>6, SeqEqual
<1> QED
  BY <1>1, <1>2

\* The recursion of RemoveEmpty, spelt out.
LEMMA KeptSteps ==
    ASSUME NEW S, NEW ops \in Seq(S)
    PROVE  \E t \in [0..Len(ops) -> Seq(S)] :
              /\ t[0] = <<>>
              /\ \A i \in 1..Len(ops) : t[i] = (IF NonEmpty(ops[i]) THEN Append(t[i - 1], ops[i]) ELSE t[i - 1])
              /\ RemoveEmpty(ops) = t[Len(ops)]
<1> DEFINE V == Seq(S)
           n == Len(ops)
           Rec(t) == t = [i \in 0..n |-> IF i = 0 THEN <<>> ELSE (IF NonEmpty(ops[i]) THEN Append(t[i - 1], ops[i]) ELSE t[i - 1])]
           T == CHOOSE t : Rec(t)
<1>0. n \in Nat /\ <<>> \in V /\ \A i \in 1..n, d \in V : (IF NonEmpty(ops[i]) THEN Append(d, ops[i]) ELSE d) \in V
  <2>1. \A i \in 1..n : ops[i] \in S
    OBVIOUS
  <2>2. \A i \in 1..n, d \in V : Append(d, ops[i]) \in V
    BY <2>1, AppendProperties
  <2> QED
    BY <2>2
<1>1. \E t : Rec(t)
  <2> DEFINE step == [i \in 1..n |-> [d \in V |-> (IF NonEmpty(ops[i]) THEN Append(d, ops[i]) ELSE d)]]
  <2>1. step \in [1..n -> [V -> V]]
    BY <1>0
  <2>2. PICK t \in [0..n -> V] : Solves(t, n, <<>>, step)
    <3> HIDE DEF step, n, V
    <3> QED
      BY <1>0, <2>1, SolutionExists
  <2>3. ASSUME NEW i \in 0..n
        PROVE  t[i] = IF i = 0 THEN <<>> ELSE (IF NonEmpty(ops[i]) THEN Append(t[i - 1], ops[i]) ELSE t[i - 1])
    <3>1. t[i] = IF i = 0 THEN <<>> ELSE step[i][t[i - 1]]
      BY <2>2 DEF Solves
    <3>2. i # 0 => t[i] = (IF NonEmpty(ops[i]) THEN Append(t[i - 1], ops[i]) ELSE t[i - 1])
      <4> HAVE i # 0
      <4> HIDE DEF n, V
      <4>1. i \in 1..n /\ i - 1 \in 0..n
        <5>1. n \in Nat
          BY <1>0
        <5> QED
          BY <5>1
      <4>2. t[i - 1] \in V
        BY <2>2, <4>1
      <4>3. step[i][t[i - 1]] = (IF NonEmpty(ops[i]) THEN Append(t[i - 1], ops[i]) ELSE t[i - 1])
        BY <4>1, <4>2
      <4> QED
        BY <3>1, <4>3
    <3> QED
      BY <3>1, <3>2
  <2> QED
    BY <2>2, <2>3
<1>2. Rec(T)
  BY <1>1
<1>3. RemoveEmpty(ops) = T[n]
  BY DEF RemoveEmpty
<1> HIDE DEF T
<1>4. T[0] = <<>> /\ \A i \in 1..n : T[i] = (IF NonEmpty(ops[i]) THEN Append(T[i - 1], ops[i]) ELSE T[i - 1])
  <2>1. \A i \in 0..n : T[i] = IF i = 0 THEN <<>> ELSE (IF NonEmpty(ops[i]) THEN Append(T[i - 1], ops[i]) ELSE T[i - 1])
    BY <1>2
  <2> HIDE DEF n
  <2> QED
    BY <1>0, <2>1
<1>5. \A i \in 0..n : T[i] \in V
  <2> HIDE DEF n, V
  <2>1. \A i \in 1..n : T[i - 1] \in V => T[i] \in V
    BY <1>0, <1>4
  <2> QED
    BY <1>0, <1>4, <2>1, SolutionType
<1>6. T \in [0..n -> V]
  BY <1>2, <1>5
<1> QED
  BY <1>3, <1>4, <1>6

\* The recursion of DropRedundantDeletes, spelt out.
LEMMA DropSteps ==
    ASSUME NEW S, NEW ops \in Seq(S)
    PROVE  \E t \in [0..Len(ops) -> Seq(S)] :
              /\ t[0] = <<>>
              /\ \A i \in 1..Len(ops) : t[i] = (IF RedundantDelete(ops, i) THEN t[i - 1] ELSE Append(t[i - 1], ops[i]))
              /\ DropRedundantDeletes(ops) = t[Len(ops)]
<1> DEFINE V == Seq(S)
           n == Len(ops)
           Rec(t) == t = [i \in 0..n |-> IF i = 0 THEN <<>> ELSE (IF RedundantDelete(ops, i) THEN t[i - 1] ELSE Append(t[i - 1], ops[i]))]
           T == CHOOSE t : Rec(t)
<1>0. n \in Nat /\ <<>> \in V /\ \A i \in 1..n, d \in V : (IF RedundantDelete(ops, i) THEN d ELSE Append(d, ops[i])) \in V
  <2>1. \A i \in 1..n : ops[i] \in S
    OBVIOUS
  <2>2. \A i \in 1..n, d \in V : Append(d, ops[i]) \in V
    BY <2>1, AppendProperties
  <2> QED
    BY <2>2
<1>1. \E t : Rec(t)
  <2> DEFINE step == [i \in 1..n |-> [d \in V |-> (IF RedundantDelete(ops, i) THEN d ELSE Append(d, ops[i]))]]
  <2>1. step \in [1..n -> [V -> V]]
    BY <1>0
  <2>2. PICK t \in [0..n -> V] : Solves(t, n, <<>>, step)
    <3> HIDE DEF step, n, V
    <3> QED
      BY <1>0, <2>1, SolutionExists
  <2>3. ASSUME NEW i \in 0..n
        PROVE  t[i] = IF i = 0 THEN <<>> ELSE (IF RedundantDelete(ops, i) THEN t[i - 1] ELSE Append(t[i - 1], ops[i]))
    <3>1. t[i] = IF i = 0 THEN <<>> ELSE step[i][t[i - 1]]
      BY <2>2 DEF Solves
    <3>2. i # 0 => t[i] = (IF RedundantDelete(ops, i) THEN t[i - 1] ELSE Append(t[i - 1], ops[i]))
      <4> HAVE i # 0
      <4> HIDE DEF n, V
      <4>1. i \in 1..n /\ i - 1 \in 0..n
        <5>1. n \in Nat
          BY <1>0
        <5> QED
          BY <5>1
      <4>2. t[i - 1] \in V
        BY <2>2, <4>1
      <4>3. step[i][t[i - 1]] = (IF RedundantDelete(ops, i) THEN t[i - 1] ELSE Append(t[i - 1], ops[i]))
        BY <4>1, <4>2
      <4> QED
        BY <3>1, <4>3
    <3> QED
      BY <3>1, <3>2
  <2> QED
    BY <2>2, <2>3
<1>2. Rec(T)
  BY <1>1
<1>3. DropRedundantDeletes(ops) = T[n]
  BY DEF DropRedundantDeletes
<1> HIDE DEF T
<1>4. T[0] = <<>> /\ \A i \in 1..n : T[i] = (IF RedundantDelete(ops, i) THEN T[i - 1] ELSE Append(T[i - 1], ops[i]))
  <2>1. \A i \in 0..n : T[i] = IF i = 0 THEN <<>> ELSE (IF RedundantDelete(ops, i) THEN T[i - 1] ELSE Append(T[i - 1], ops[i]))
    BY <1>2
  <2> HIDE DEF n
  <2> QED
    BY <1>0, <2>1
<1>5. \A i \in 0..n : T[i] \in V
  <2> HIDE DEF n, V
  <2>1. \A i \in 1..n : T[i - 1] \in V => T[i] \in V
    BY <1>0, <1>4
  <2> QED
    BY <1>0, <1>4, <2>1, SolutionType
<1>6. T \in [0..n -> V]
  BY <1>2, <1>5
<1> QED
  BY <1>3, <1>4, <1>6

\* The recursion of Rebuild, spelt out.
LEMMA RebuildSteps ==
    ASSUME NEW B, 0 \in B, NEW source \in Seq(B), NEW ops \in Seq(OpsOf(B))
    PROVE  \E t \in [0..Len(ops) -> Seq(B)] :
              /\ t[0] = <<>>
              /\ \A i \in 1..Len(ops) : t[i] = ApplyOperation(t[i - 1], source, ops[i])
              /\ Rebuild(source, ops) = t[Len(ops)]
<1> DEFINE V == Seq(B)
           n == Len(ops)
           Rec(t) == t = [i \in 0..n |-> IF i = 0 THEN <<>> ELSE ApplyOperation(t[i - 1], source, ops[i])]
           T == CHOOSE t : Rec(t)
<1>0. n \in Nat /\ <<>> \in V /\ \A i \in 1..n, d \in V : ApplyOperation(d, source, ops[i]) \in V
  <2>1. \A i \in 1..n : ops[i] \in OpsOf(B)
    OBVIOUS
  <2>2. \A i \in 1..n, d \in V : ApplyOperation(d, source, ops[i]) \in V
    BY <2>1, ApplyType
  <2> QED
    BY <2>2
<1>1. \E t : Rec(t)
  <2> DEFINE step == [i \in 1..n |-> [d \in V |-> ApplyOperation(d, source, ops[i])]]
  <2>1. step \in [1..n -> [V -> V]]
    BY <1>0
  <2>2. PICK t \in [0..n -> V] : Solves(t, n, <<>>, step)
    <3> HIDE DEF step, n, V
    <3> QED
      BY <1>0, <2>1, SolutionExists
  <2>3. ASSUME NEW i \in 0..n
        PROVE  t[i] = IF i = 0 THEN <<>> ELSE ApplyOperation(t[i - 1], source, ops[i])
    <3>1. t[i] = IF i = 0 THEN <<>> ELSE step[i][t[i - 1]]
      BY <2>2 DEF Solves
    <3>2. i # 0 => t[i] = ApplyOperation(t[i - 1], source, ops[i])
      <4> HAVE i # 0
      <4> HIDE DEF n, V
      <4>1. i \in 1..n /\ i - 1 \in 0..n
        <5>1. n \in Nat
          BY <1>0
        <5> QED
          BY <5>1
      <4>2. t[i - 1] \in V
        BY <2>2, <4>1
      <4>3. step[i][t[i - 1]] = ApplyOperation(t[i - 1], source, ops[i])
        BY <4>1, <4>2
      <4> QED
        BY <3>1, <4>3
    <3> QED
      BY <3>1, <3>2
  <2> QED
    BY <2>2, <2>3
<1>2. Rec(T)
  BY <1>1
<1>3. Rebuild(source, ops) = T[n]
  BY DEF Rebuild
<1> HIDE DEF T
<1>4. T[0] = <<>> /\ \A i \in 1..n : T[i] = ApplyOperation(T[i - 1], source, ops[i])
  <2>1. \A i \in 0..n : T[i] = IF i = 0 THEN <<>> ELSE ApplyOperation(T[i - 1], source, ops[i])
    BY <1>2
  <2> HIDE DEF n
  <2> QED
    BY <1>0, <2>1
<1>5. \A i \in 0..n : T[i] \in V
  <2> HIDE DEF n, V
  <2>1. \A i \in 1..n : T[i - 1] \in V => T[i] \in V
    BY <1>0, <1>4
  <2> QED
    BY <1>0, <1>4, <2>1, SolutionType
<1>6. T \in [0..n -> V]
  BY <1>2, <1>5
<1> QED
  BY <1>3, <1>4, <1>6

-----------------------------------------------------------------------------
(* Deltas that tile a file.                                                *)

EndAt(ops, i) == IF i = 0 THEN 0 ELSE ops[i].offset + ops[i].size

\* How far the operations reach in the target.
Reach(ops) == EndAt(ops, Len(ops))

\* Each operation starts where the one before it ends.
Tiles(ops) == \A i \in 1..Len(ops) : ops[i].offset = EndAt(ops, i - 1) /\ ops[i].size > 0

NoDeletes(ops) == \A i \in 1..Len(ops) : ops[i].type # "delete"

\* op writes what f has at its place.
WritesPart(op, source, f) ==
    /\ op.type \in {"copy", "insert"}
    /\ op.offset + op.size <= Len(f)
    /\ (IF op.type = "copy" THEN Slice(source, op.src, op.size) ELSE op.data)
         = Stretch(f, op.offset, op.offset + op.size)

AllWrite(ops, source, f) == \A i \in 1..Len(ops) : WritesPart(ops[i], source, f)

NoAdjacentInserts(ops) ==
    \A i \in 1..(Len(ops) - 1) : ops[i].type = "insert" => ops[i + 1].type # "insert"

LEMMA AppendTiles ==
    ASSUME NEW B, NEW done \in Seq(OpsOf(B)), NEW op \in OpsOf(B),
           Tiles(done), op.offset = Reach(done), op.size > 0
    PROVE  /\ Append(done, op) \in Seq(OpsOf(B))
           /\ Tiles(Append(done, op)) /\ Reach(Append(done, op)) = op.offset + op.size
<1> DEFINE all == Append(done, op)
           n == Len(done)
<1>1. /\ all \in Seq(OpsOf(B)) /\ Len(all) = n + 1 /\ n \in Nat
      /\ \A i \in 1..n : all[i] = done[i]
      /\ all[n + 1] = op
  BY AppendProperties
<1> HIDE DEF all
<1>2. ASSUME NEW i \in 1..Len(all)
      PROVE  all[i].offset = EndAt(all, i - 1) /\ all[i].size > 0
  <2>1. CASE i = n + 1
    <3>1. EndAt(all, i - 1) = EndAt(done, n)
      BY <1>1, <2>1 DEF EndAt
    <3> QED
      BY <1>1, <2>1, <3>1 DEF Reach
  <2>2. CASE i # n + 1
    <3>1. i \in 1..n /\ (i - 1 # 0 => i - 1 \in 1..n)
      BY <1>1, <2>2
    <3>2. EndAt(all, i - 1) = EndAt(done, i - 1)
      BY <1>1, <3>1 DEF EndAt
    <3> QED
      BY <1>1, <3>1, <3>2 DEF Tiles
  <2> QED
    BY <2>1, <2>2
<1>3. Reach(all) = op.offset + op.size
  BY <1>1 DEF Reach, EndAt
<1> QED
  BY <1>1, <1>2, <1>3 DEF Tiles, all

\* What Merge makes of the operations before: it appends op, or lengthens the
\* last of them by it.
LEMMA MergeElements ==
    ASSUME NEW B, NEW done \in Seq(OpsOf(B)), NEW op \in OpsOf(B)
    PROVE  \/ Merge(done, op) = Append(done, op)
           \/ /\ Len(done) > 0 /\ Continues(done[Len(done)], op)
              /\ Len(Merge(done, op)) = Len(done)
              /\ \A i \in 1..(Len(done) - 1) : Merge(done, op)[i] = done[i]
              /\ Merge(done, op)[Len(done)] = Join(done[Len(done)], op)
<1>1. CASE done # <<>> /\ Continues(Last(done), op)
  <2>1. Len(done) \in Nat \ {0} /\ Last(done) = done[Len(done)]
    BY <1>1 DEF Last
  <2>2. /\ Front(done) \in Seq(OpsOf(B)) /\ Len(Front(done)) = Len(done) - 1
        /\ \A i \in 1..(Len(done) - 1) : Front(done)[i] = done[i]
    <3>1. PICK m \in Nat : m = Len(done) - 1
      BY <2>1
    <3>2. 0 \in Nat /\ 0 <= m /\ m <= Len(done) /\ m - 0 = m
      BY <2>1, <3>1
    <3>3. /\ Stretch(done, 0, m) \in Seq(OpsOf(B)) /\ Len(Stretch(done, 0, m)) = m - 0
          /\ \A i \in 1..(m - 0) : Stretch(done, 0, m)[i] = done[0 + i]
      BY <3>2, StretchProperties
    <3>4. Stretch(done, 0, m) = Front(done)
      BY <3>1 DEF Stretch, Front
    <3>5. \A i \in 1..(m - 0) : 0 + i = i
      OBVIOUS
    <3> QED
      BY <3>1, <3>2, <3>3, <3>4, <3>5
  <2>3. Join(Last(done), op) \in OpsOf(B)
    <3>1. Last(done) \in OpsOf(B)
      BY <2>1
    <3> QED
      BY <3>1, JoinType
  <2>4. PICK front : front = Front(done)
    OBVIOUS
  <2>5. PICK last : last = Join(Last(done), op)
    OBVIOUS
  <2>6. /\ Len(Append(front, last)) = Len(done)
        /\ \A i \in 1..(Len(done) - 1) : Append(front, last)[i] = front[i]
        /\ Append(front, last)[Len(done)] = last
    BY <2>1, <2>2, <2>3, <2>4, <2>5, AppendProperties
  <2>7. Merge(done, op) = Append(front, last)
    BY <1>1, <2>4, <2>5 DEF Merge
  <2> QED
    BY <1>1, <2>1, <2>2, <2>4, <2>5, <2>6, <2>7
<1>2. CASE ~(done # <<>> /\ Continues(Last(done), op))
  BY <1>2 DEF Merge
<1> QED
  BY <1>1, <1>2

LEMMA MergeTiles ==
    ASSUME NEW B, NEW done \in Seq(OpsOf(B)), NEW op \in OpsOf(B),
           Tiles(done), op.offset = Reach(done), op.size > 0
    PROVE  Tiles(Merge(done, op)) /\ Reach(Merge(done, op)) = op.offset + op.size
<1>1. CASE Merge(done, op) = Append(done, op)
  BY <1>1, AppendTiles
<1>2. CASE /\ Len(done) > 0 /\ Continues(done[Len(done)], op)
           /\ Len(Merge(done, op)) = Len(done)
           /\ \A i \in 1..(Len(done) - 1) : Merge(done, op)[i] = done[i]
           /\ Merge(done, op)[Len(done)] = Join(done[Len(done)], op)
  <2> DEFINE n == Len(done)
             m == Merge(done, op)
             joined == Join(done[n], op)
  <2>1. n \in Nat \ {0} /\ done[n] \in OpsOf(B)
    BY <1>2
  <2>2. /\ joined.offset = done[n].offset /\ joined.size = done[n].size + op.size
        /\ done[n].offset \in Nat /\ done[n].size \in Nat /\ op.size \in Nat
    <3>1. PICK p \in OpsOf(B) : p = done[n]
      BY <2>1
    <3>2. Join(p, op).offset = p.offset /\ Join(p, op).size = p.size + op.size
      BY JoinType
    <3>3. p.offset \in Nat /\ p.size \in Nat /\ op.size \in Nat
      BY DEF OpsOf
    <3> QED
      BY <3>1, <3>2, <3>3, Zenon
  <2>3. done[n].offset + done[n].size = op.offset
    BY <1>2 DEF Continues
  <2>4. /\ Len(m) = n /\ m[n] = joined
        /\ \A i \in 1..(n - 1) : m[i] = done[i]
    BY <1>2
  <2> HIDE DEF m, joined, n
  <2>5. ASSUME NEW i \in 1..n PROVE m[i].offset = EndAt(m, i - 1) /\ m[i].size > 0
    <3>1. EndAt(m, i - 1) = EndAt(done, i - 1)
      BY <2>1, <2>4 DEF EndAt
    <3>2. done[i].offset = EndAt(done, i - 1) /\ done[i].size > 0
      BY DEF Tiles, n
    <3>3. CASE i = n
      BY <2>2, <2>4, <3>1, <3>2, <3>3
    <3>4. CASE i # n
      BY <2>1, <2>4, <3>1, <3>2, <3>4
    <3> QED
      BY <3>3, <3>4
  <2>6. Reach(m) = op.offset + op.size
    <3>1. Reach(m) = joined.offset + joined.size
      BY <2>1, <2>4 DEF Reach, EndAt
    <3> QED
      BY <2>2, <2>3, <3>1
  <2> QED
    BY <2>4, <2>5, <2>6 DEF Tiles, m
<1> QED
  BY <1>1, <1>2, MergeElements

\* An operation and the one it continues write the two parts of one stretch.
LEMMA JoinWrites ==
    ASSUME NEW B, NEW p \in OpsOf(B), NEW q \in OpsOf(B),
           NEW source \in Seq(B), NEW f \in Seq(B),
           p.size > 0, q.size > 0, Continues(p, q),
           WritesPart(p, source, f), WritesPart(q, source, f)
    PROVE  WritesPart(Join(p, q), source, f)
<1>0. p.offset \in Nat /\ q.offset \in Nat /\ q.offset + q.size \in Nat
  BY DEF OpsOf
<1>a. PICK a \in Nat : a = p.offset
  BY <1>0
<1>b. PICK b \in Nat : b = q.offset
  BY <1>0
<1>c. PICK c \in Nat : c = q.offset + q.size
  BY <1>0
<1>1. /\ p.type = q.type /\ p.type \in {"copy", "insert"}
      /\ p.size \in Nat /\ q.size \in Nat /\ c = b + q.size
      /\ p.src \in Nat /\ q.src \in Nat
      /\ b = a + p.size /\ a <= b /\ b <= c /\ c <= Len(f)
      /\ p.type = "copy" => p.src + p.size = q.src
  <2>1. p.size \in Nat /\ p.src \in Nat
    BY DEF OpsOf
  <2>2. q.size \in Nat /\ q.src \in Nat
    BY DEF OpsOf
  <2>3. /\ p.type = q.type /\ p.offset + p.size = q.offset
        /\ p.type = "copy" => p.src + p.size = q.src
    BY DEF Continues
  <2>4. p.type \in {"copy", "insert"} /\ q.offset + q.size <= Len(f)
    BY DEF WritesPart
  <2> QED
    <3>1. b = a + p.size /\ c = b + q.size /\ c <= Len(f)
      BY <1>a, <1>b, <1>c, <2>3, <2>4, Zenon
    <3>2. a <= b
      BY <2>1, <3>1
    <3>3. b <= c
      BY <2>2, <3>1
    <3> QED
      BY <2>1, <2>2, <2>3, <2>4, <3>1, <3>2, <3>3, Zenon
<1>2. /\ Join(p, q).type = p.type /\ Join(p, q).offset = a /\ Join(p, q).src = p.src
      /\ Join(p, q).size = p.size + q.size /\ Join(p, q).data = p.data \o q.data
  BY <1>a, JoinType
<1>r. a <= b /\ b <= c /\ b <= Len(f) /\ c <= Len(f) /\ b - a = p.size /\ c - b = q.size
  <2>1. p.size \in Nat /\ q.size \in Nat /\ c = b + q.size /\ b = a + p.size /\ c <= Len(f)
    BY <1>1
  <2>2. PICK u \in Nat : u = p.size
    BY <2>1
  <2>3. PICK v \in Nat : v = q.size
    BY <2>1
  <2>4. PICK n \in Nat : n = Len(f)
    OBVIOUS
  <2>5. c = b + v /\ b = a + u /\ c <= n
    BY <2>1, <2>2, <2>3, <2>4
  <2>6. a <= b /\ b <= c /\ b <= n /\ c <= n /\ b - a = u /\ c - b = v
    BY <2>5
  <2> QED
    BY <2>2, <2>3, <2>4, <2>6, Zenon
<1>3. Stretch(f, a, b) \o Stretch(f, b, c) = Stretch(f, a, c)
  BY <1>r, StretchesMeet
<1>4. a + (p.size + q.size) = c
  BY <1>1
<1>5. CASE p.type = "copy"
  <2>1. /\ Slice(source, p.src, p.size) = Stretch(f, a, b)
        /\ Slice(source, q.src, q.size) = Stretch(f, b, c)
    BY <1>1, <1>5, <1>a, <1>b, <1>c DEF WritesPart
  <2>2. Len(Stretch(f, a, b)) = p.size /\ Len(Stretch(f, b, c)) = q.size
    <3>1. Len(Stretch(f, a, b)) = b - a
      BY <1>r, StretchProperties
    <3>2. Len(Stretch(f, b, c)) = c - b
      BY <1>r, StretchProperties
    <3> QED
      BY <1>r, <3>1, <3>2
  <2>3. p.src + p.size <= Len(source)
    BY <1>1, <2>1, <2>2, SliceProperties
  <2>4. q.src + q.size <= Len(source)
    BY <1>1, <2>1, <2>2, SliceProperties
  <2>5. PICK d \in Nat : d = p.src + p.size
    BY <1>1
  <2>6. PICK e \in Nat : e = q.src + q.size
    BY <1>1
  <2>a. /\ p.src \in Nat /\ p.size \in Nat /\ q.src \in Nat /\ q.size \in Nat
        /\ q.src = d /\ p.src <= d /\ d <= e /\ e <= Len(source)
    <3>1. p.src \in Nat /\ p.size \in Nat /\ q.src \in Nat /\ q.size \in Nat
      BY <1>1
    <3>2. q.src = d
      BY <1>1, <1>5, <2>5
    <3> QED
      BY <2>4, <2>5, <2>6, <3>1, <3>2
  <2>7. /\ Slice(source, p.src, p.size) = Stretch(source, p.src, d)
        /\ Slice(source, q.src, q.size) = Stretch(source, d, e)
    <3>1. Slice(source, p.src, p.size) = Stretch(source, p.src, p.src + p.size)
      BY <2>3, <2>a, SliceIsStretch
    <3>2. Slice(source, q.src, q.size) = Stretch(source, q.src, q.src + q.size)
      BY <2>4, <2>a, SliceIsStretch
    <3> QED
      BY <2>5, <2>6, <2>a, <3>1, <3>2
  <2>8. Stretch(source, p.src, d) \o Stretch(source, d, e) = Stretch(source, p.src, e)
    <3>1. PICK g \in Nat : g = p.src
      BY <2>a
    <3>2. g <= d /\ d <= e /\ e <= Len(source)
      BY <2>a, <3>1
    <3>3. Stretch(source, g, d) \o Stretch(source, d, e) = Stretch(source, g, e)
      BY <3>2, StretchesMeet
    <3> QED
      BY <3>1, <3>3
  <2>9. Slice(source, p.src, p.size + q.size) = Stretch(source, p.src, e)
    <3>1. PICK s \in Nat : s = p.size + q.size
      BY <1>1
    <3>2. p.src + s = e
      <4>1. p.src + (p.size + q.size) = (p.src + p.size) + q.size
        BY <1>1
      <4> QED
        BY <1>1, <1>5, <2>6, <3>1, <4>1
    <3>3. p.src + s <= Len(source)
      BY <2>4, <2>6, <3>2
    <3>4. Slice(source, p.src, s) = Stretch(source, p.src, p.src + s)
      BY <1>1, <3>1, <3>3, SliceIsStretch
    <3> QED
      BY <3>1, <3>2, <3>4
  <2>10. Slice(source, p.src, p.size + q.size) = Stretch(f, a, c)
    BY <1>3, <2>1, <2>7, <2>8, <2>9
  <2> QED
    BY <1>1, <1>2, <1>4, <1>5, <2>10, <1>a DEF WritesPart
<1>6. CASE p.type = "insert"
  <2>1. p.data = Stretch(f, a, b) /\ q.data = Stretch(f, b, c)
    BY <1>1, <1>6, <1>a, <1>b, <1>c DEF WritesPart
  <2>2. p.data \o q.data = Stretch(f, a, c)
    BY <1>3, <2>1
  <2> QED
    BY <1>1, <1>2, <1>4, <1>6, <2>2, <1>a DEF WritesPart
<1> QED
  BY <1>1, <1>5, <1>6

LEMMA MergeWrites ==
    ASSUME NEW B, NEW done \in Seq(OpsOf(B)), NEW op \in OpsOf(B),
           NEW source \in Seq(B), NEW f \in Seq(B),
           Tiles(done), AllWrite(done, source, f), WritesPart(op, source, f), op.size > 0
    PROVE  AllWrite(Merge(done, op), source, f)
<1> DEFINE m == Merge(done, op)
           n == Len(done)
<1>0. n \in Nat /\ \A i \in 1..n : done[i] \in OpsOf(B) /\ WritesPart(done[i], source, f)
  BY DEF AllWrite
<1>1. CASE m = Append(done, op)
  <2>1. Len(m) = n + 1 /\ m[n + 1] = op /\ \A i \in 1..n : m[i] = done[i]
    BY <1>1, AppendProperties
  <2> HIDE DEF m, n
  <2>2. \A i \in 1..(n + 1) : WritesPart(m[i], source, f)
    <3> TAKE i \in 1..(n + 1)
    <3>1. CASE i = n + 1
      BY <2>1, <3>1
    <3>2. CASE i # n + 1
      <4>1. i \in 1..n
        BY <1>0, <3>2
      <4> QED
        BY <1>0, <2>1, <4>1
    <3> QED
      BY <3>1, <3>2
  <2>3. AllWrite(m, source, f)
    BY <2>1, <2>2 DEF AllWrite
  <2> QED
    BY <2>3 DEF m
<1>2. CASE /\ n > 0 /\ Continues(done[n], op)
           /\ Len(m) = n
           /\ \A i \in 1..(n - 1) : m[i] = done[i]
           /\ m[n] = Join(done[n], op)
  <2> HIDE DEF m
  <2>1. done[n] \in OpsOf(B) /\ done[n].size > 0 /\ WritesPart(done[n], source, f)
    BY <1>0, <1>2 DEF Tiles
  <2>2. WritesPart(m[n], source, f)
    <3> HIDE DEF n
    <3>1. WritesPart(Join(done[n], op), source, f)
      BY <1>2, <2>1, JoinWrites
    <3> QED
      BY <1>2, <3>1
  <2> HIDE DEF n
  <2>3. \A i \in 1..n : WritesPart(m[i], source, f)
    <3> TAKE i \in 1..n
    <3>1. CASE i = n
      BY <2>2, <3>1
    <3>2. CASE i # n
      <4>1. i \in 1..(n - 1)
        BY <1>0, <3>2
      <4>2. m[i] = done[i]
        BY <1>2, <4>1
      <4> QED
        BY <1>0, <4>2
    <3> QED
      BY <3>1, <3>2
  <2>4. AllWrite(m, source, f)
    BY <1>2, <2>3 DEF AllWrite
  <2> QED
    BY <2>4 DEF m
<1> QED
  BY <1>1, <1>2, MergeElements

\* Merging operations gives no delete, when there is none.
LEMMA MergeNoDeletes ==
    ASSUME NEW B, NEW done \in Seq(OpsOf(B)), NEW op \in OpsOf(B),
           NoDeletes(done), op.type # "delete"
    PROVE  NoDeletes(Merge(done, op))
<1> DEFINE m == Merge(done, op)
           n == Len(done)
<1>0. n \in Nat /\ \A i \in 1..n : done[i] \in OpsOf(B) /\ done[i].type # "delete"
  BY DEF NoDeletes
<1>1. CASE m = Append(done, op)
  <2>1. Len(m) = n + 1 /\ m[n + 1] = op /\ \A i \in 1..n : m[i] = done[i]
    BY <1>1, AppendProperties
  <2> HIDE DEF m, n
  <2>2. ASSUME NEW i \in 1..(n + 1) PROVE m[i].type # "delete"
    <3>1. CASE i = n + 1
      BY <2>1, <3>1
    <3>2. CASE i # n + 1
      <4>1. i \in 1..n
        BY <1>0, <3>2
      <4> QED
        BY <1>0, <2>1, <4>1
    <3> QED
      BY <3>1, <3>2
  <2>3. NoDeletes(m)
    BY <2>1, <2>2 DEF NoDeletes
  <2> QED
    BY <2>3 DEF m
<1>2. CASE /\ n > 0 /\ Continues(done[n], op)
           /\ Len(m) = n
           /\ \A i \in 1..(n - 1) : m[i] = done[i]
           /\ m[n] = Join(done[n], op)
  <2> HIDE DEF m
  <2>1. done[n] \in OpsOf(B) /\ done[n].type # "delete"
    BY <1>0, <1>2
  <2>2. m[n].type # "delete"
    <3> HIDE DEF n
    <3>1. Join(done[n], op).type = done[n].type
      BY <2>1, JoinType
    <3> QED
      BY <1>2, <2>1, <3>1
  <2> HIDE DEF n
  <2>3. ASSUME NEW i \in 1..n PROVE m[i].type # "delete"
    <3>1. CASE i = n
      BY <2>2, <3>1
    <3>2. CASE i # n
      <4>1. i \in 1..(n - 1)
        BY <1>0, <3>2
      <4>2. m[i] = done[i]
        BY <1>2, <4>1
      <4> QED
        BY <1>0, <4>2
    <3> QED
      BY <3>1, <3>2
  <2>4. NoDeletes(m)
    BY <1>2, <2>3 DEF NoDeletes
  <2> QED
    BY <2>4 DEF m
<1> QED
  BY <1>1, <1>2, MergeElements

\* Merging keeps the stretch of the file that the operations tile, and gives
\* no delete where there was none.
LEMMA MergedTiles ==
    ASSUME NEW B, NEW ops \in Seq(OpsOf(B)), Tiles(ops), NoDeletes(ops)
    PROVE  /\ MergeRuns(ops) \in Seq(OpsOf(B)) /\ NoDeletes(MergeRuns(ops))
           /\ Tiles(MergeRuns(ops)) /\ Reach(MergeRuns(ops)) = Reach(ops)
<1> DEFINE n == Len(ops)
           V == Seq(OpsOf(B))
<1>0. n \in Nat /\ \A i \in 1..n : ops[i] \in OpsOf(B)
  OBVIOUS
<1>1. PICK t \in [0..n -> V] :
         t[0] = <<>> /\ (\A i \in 1..n : t[i] = Merge(t[i - 1], ops[i])) /\ MergeRuns(ops) = t[n]
  BY MergeSteps
<1> DEFINE S == {i \in 0..n : Tiles(t[i]) /\ Reach(t[i]) = EndAt(ops, i) /\ NoDeletes(t[i])}
<1>2. 0 \in S
  <2>1. Tiles(<<>>) /\ NoDeletes(<<>>) /\ Reach(<<>>) = EndAt(ops, 0)
    BY DEF Tiles, NoDeletes, Reach, EndAt
  <2> QED
    BY <1>0, <1>1, <2>1
<1>3. ASSUME NEW i \in 0..(n - 1), i \in S PROVE i + 1 \in S
  <2>1. i \in 0..n /\ i + 1 \in 1..n /\ (i + 1) - 1 = i /\ i + 1 # 0 /\ i + 1 \in 0..n
    BY <1>0
  <2> HIDE DEF n
  <2>2. t[i] \in V /\ Tiles(t[i]) /\ Reach(t[i]) = EndAt(ops, i) /\ NoDeletes(t[i])
    BY <1>1, <1>3, <2>1
  <2>3. PICK op \in OpsOf(B) : op = ops[i + 1]
    BY <1>0, <2>1
  <2>4. op.offset = EndAt(ops, i) /\ op.size > 0 /\ op.type # "delete"
    <3>1. \A j \in 1..n : ops[j].offset = EndAt(ops, j - 1) /\ ops[j].size > 0
      BY DEF Tiles, n
    <3>2. ops[i + 1].offset = EndAt(ops, (i + 1) - 1) /\ ops[i + 1].size > 0
      BY <2>1, <3>1
    <3>3. ops[i + 1].type # "delete"
      BY <2>1 DEF NoDeletes, n
    <3> QED
      BY <2>1, <2>3, <3>2, <3>3
  <2>5. t[i + 1] = Merge(t[i], op)
    BY <1>1, <2>1, <2>3
  <2>6. Tiles(Merge(t[i], op)) /\ Reach(Merge(t[i], op)) = op.offset + op.size
    BY <2>2, <2>4, MergeTiles
  <2>7. NoDeletes(Merge(t[i], op))
    BY <2>2, <2>4, MergeNoDeletes
  <2>8. EndAt(ops, i + 1) = op.offset + op.size
    BY <2>1, <2>3 DEF EndAt
  <2> QED
    BY <2>1, <2>5, <2>6, <2>7, <2>8
<1> HIDE DEF S, n, V
<1>4. n \in S
  <2>1. 0..n \subseteq S
    BY <1>0, <1>2, <1>3, UpTo
  <2> QED
    BY <1>0, <2>1
<1>5. Tiles(t[n]) /\ Reach(t[n]) = EndAt(ops, n) /\ NoDeletes(t[n])
  BY <1>4 DEF S
<1>6. t[n] \in V
  BY <1>0, <1>1
<1> QED
  BY <1>1, <1>5, <1>6 DEF Reach, n, V

\* Merging keeps what the operations write.
LEMMA MergedWrites ==
    ASSUME NEW B, NEW ops \in Seq(OpsOf(B)), NEW source \in Seq(B), NEW f \in Seq(B),
           Tiles(ops), AllWrite(ops, source, f)
    PROVE  AllWrite(MergeRuns(ops), source, f)
<1> DEFINE n == Len(ops)
           V == Seq(OpsOf(B))
<1>0. n \in Nat /\ \A i \in 1..n : ops[i] \in OpsOf(B)
  OBVIOUS
<1>1. PICK t \in [0..n -> V] :
         t[0] = <<>> /\ (\A i \in 1..n : t[i] = Merge(t[i - 1], ops[i])) /\ MergeRuns(ops) = t[n]
  BY MergeSteps
<1> DEFINE S == {i \in 0..n : /\ Tiles(t[i]) /\ Reach(t[i]) = EndAt(ops, i)
                              /\ AllWrite(t[i], source, f)}
<1>2. 0 \in S
  <2>1. Tiles(<<>>) /\ AllWrite(<<>>, source, f) /\ Reach(<<>>) = EndAt(ops, 0)
    BY DEF Tiles, AllWrite, Reach, EndAt
  <2> QED
    BY <1>0, <1>1, <2>1
<1>3. ASSUME NEW i \in 0..(n - 1), i \in S PROVE i + 1 \in S
  <2>1. i \in 0..n /\ i + 1 \in 1..n /\ (i + 1) - 1 = i /\ i + 1 # 0 /\ i + 1 \in 0..n
    BY <1>0
  <2> HIDE DEF n
  <2>2. t[i] \in V /\ Tiles(t[i]) /\ Reach(t[i]) = EndAt(ops, i) /\ AllWrite(t[i], source, f)
    BY <1>1, <1>3, <2>1
  <2>3. PICK op \in OpsOf(B) : op = ops[i + 1]
    BY <1>0, <2>1
  <2>4. op.offset = EndAt(ops, i) /\ op.size > 0 /\ WritesPart(op, source, f)
    <3>1. \A j \in 1..n : ops[j].offset = EndAt(ops, j - 1) /\ ops[j].size > 0
      BY DEF Tiles, n
    <3>2. ops[i + 1].offset = EndAt(ops, (i + 1) - 1) /\ ops[i + 1].size > 0
      BY <2>1, <3>1
    <3>3. WritesPart(ops[i + 1], source, f)
      BY <2>1 DEF AllWrite, n
    <3> QED
      BY <2>1, <2>3, <3>2, <3>3
  <2>5. t[i + 1] = Merge(t[i], op)
    BY <1>1, <2>1, <2>3
  <2>6. Tiles(Merge(t[i], op)) /\ Reach(Merge(t[i], op)) = op.offset + op.size
    BY <2>2, <2>4, MergeTiles
  <2>7. AllWrite(Merge(t[i], op), source, f)
    BY <2>2, <2>4, MergeWrites
  <2>8. EndAt(ops, i + 1) = op.offset + op.size
    BY <2>1, <2>3 DEF EndAt
  <2> QED
    BY <2>1, <2>5, <2>6, <2>7, <2>8
<1> HIDE DEF S, n, V
<1>4. n \in S
  <2>1. 0..n \subseteq S
    BY <1>0, <1>2, <1>3, UpTo
  <2> QED
    BY <1>0, <2>1
<1> QED
  BY <1>1, <1>4 DEF S

\* The inserts of Merge, when op is not an insert after an insert.
LEMMA MergeInserts ==
    ASSUME NEW B, NEW done \in Seq(OpsOf(B)), NEW op \in OpsOf(B),
           Len(done) > 0 /\ op.type = "insert" => done[Len(done)].type # "insert"
    PROVE  /\ Merge(done, op) \in Seq(OpsOf(B))
           /\ Len(Merge(done, op)) > 0 /\ Merge(done, op)[Len(Merge(done, op))].type = op.type
           /\ \A j \in 1..Len(Merge(done, op)) :
                 Merge(done, op)[j].type = "insert" =>
                    Merge(done, op)[j] = op \/ \E k \in 1..Len(done) : Merge(done, op)[j] = done[k]
<1> DEFINE m == Merge(done, op)
           n == Len(done)
<1>0. n \in Nat /\ m \in Seq(OpsOf(B)) /\ \A i \in 1..n : done[i] \in OpsOf(B)
  BY MergeType
<1>1. CASE m = Append(done, op)
  <2>1. Len(m) = n + 1 /\ m[n + 1] = op /\ \A i \in 1..n : m[i] = done[i]
    BY <1>1, AppendProperties
  <2> HIDE DEF m, n
  <2>2. ASSUME NEW j \in 1..(n + 1) PROVE m[j] = op \/ \E k \in 1..n : m[j] = done[k]
    <3>1. j = n + 1 \/ j \in 1..n
      BY <1>0
    <3> QED
      BY <2>1, <3>1
  <2>3. Len(m) > 0 /\ m[Len(m)].type = op.type
    BY <1>0, <2>1
  <2> QED
    BY <1>0, <2>1, <2>2, <2>3 DEF m, n
<1>2. CASE /\ n > 0 /\ Continues(done[n], op)
           /\ Len(m) = n
           /\ \A i \in 1..(n - 1) : m[i] = done[i]
           /\ m[n] = Join(done[n], op)
  <2> HIDE DEF m
  <2>1. done[n] \in OpsOf(B) /\ done[n].type = op.type
    BY <1>0, <1>2 DEF Continues
  <2>2. m[n].type = op.type /\ op.type # "insert"
    <3>1. op.type # "insert"
      BY <1>2, <2>1
    <3> HIDE DEF n
    <3>2. Join(done[n], op).type = done[n].type
      BY <2>1, JoinType
    <3> QED
      BY <1>2, <2>1, <3>1, <3>2
  <2> HIDE DEF n
  <2>3. ASSUME NEW j \in 1..n, m[j].type = "insert" PROVE \E k \in 1..n : m[j] = done[k]
    <3>1. j # n
      BY <2>2, <2>3
    <3>2. j \in 1..(n - 1)
      BY <1>0, <3>1
    <3> QED
      BY <1>2, <3>2
  <2> QED
    BY <1>0, <1>2, <2>2, <2>3 DEF m, n
<1> QED
  BY <1>1, <1>2, MergeElements

\* Where no two inserts are neighbours, merging gives no insert that was not
\* there before.
LEMMA MergedInserts ==
    ASSUME NEW B, NEW ops \in Seq(OpsOf(B)), NoAdjacentInserts(ops)
    PROVE  \A j \in 1..Len(MergeRuns(ops)) :
              MergeRuns(ops)[j].type = "insert" =>
                 \E k \in 1..Len(ops) : MergeRuns(ops)[j] = ops[k]
<1> DEFINE n == Len(ops)
           V == Seq(OpsOf(B))
<1>0. n \in Nat /\ \A i \in 1..n : ops[i] \in OpsOf(B)
  OBVIOUS
<1>1. PICK t \in [0..n -> V] :
         t[0] = <<>> /\ (\A i \in 1..n : t[i] = Merge(t[i - 1], ops[i])) /\ MergeRuns(ops) = t[n]
  BY MergeSteps
<1> DEFINE Ends(i) == Len(t[i]) > 0 => i > 0 /\ t[i][Len(t[i])].type = ops[i].type
           Old(i) == \A j \in 1..Len(t[i]) :
                        t[i][j].type = "insert" => \E k \in 1..n : t[i][j] = ops[k]
           S == {i \in 0..n : Ends(i) /\ Old(i)}
<1>2. 0 \in S
  BY <1>0, <1>1
<1>3. ASSUME NEW i \in 0..(n - 1), i \in S PROVE i + 1 \in S
  <2>1. i \in 0..n /\ i + 1 \in 1..n /\ (i + 1) - 1 = i /\ i + 1 > 0 /\ i + 1 \in 0..n
    BY <1>0
  <2>2. Ends(i) /\ Old(i)
    BY <1>3
  <2>a. i > 0 => (ops[i].type = "insert" => ops[i + 1].type # "insert")
    <3> HAVE i > 0
    <3>1. i \in 1..(Len(ops) - 1)
      BY <1>0
    <3> QED
      BY <3>1 DEF NoAdjacentInserts
  <2> HIDE DEF n
  <2>3. PICK op \in OpsOf(B) : op = ops[i + 1]
    BY <1>0, <2>1
  <2>4. PICK done \in V : done = t[i]
    BY <1>1, <2>1
  <2>5. Len(done) > 0 /\ op.type = "insert" => done[Len(done)].type # "insert"
    BY <2>2, <2>3, <2>4, <2>a
  <2>6. PICK m : m = Merge(done, op)
    OBVIOUS
  <2>7. /\ Len(m) > 0 /\ m[Len(m)].type = op.type
        /\ \A j \in 1..Len(m) :
              m[j].type = "insert" => m[j] = op \/ \E k \in 1..Len(done) : m[j] = done[k]
    <3>1. done \in Seq(OpsOf(B))
      OBVIOUS
    <3>2. /\ Len(Merge(done, op)) > 0
          /\ Merge(done, op)[Len(Merge(done, op))].type = op.type
          /\ \A j \in 1..Len(Merge(done, op)) :
                Merge(done, op)[j].type = "insert" =>
                   \/ Merge(done, op)[j] = op
                   \/ \E k \in 1..Len(done) : Merge(done, op)[j] = done[k]
      BY <2>5, <3>1, MergeInserts
    <3> QED
      BY <2>6, <3>2, Zenon
  <2>8. t[i + 1] = m
    BY <1>1, <2>1, <2>3, <2>4, <2>6
  <2>9. Ends(i + 1)
    BY <2>1, <2>3, <2>7, <2>8
  <2>10. Old(i + 1)
    <3>1. ASSUME NEW j \in 1..Len(m), m[j].type = "insert" PROVE \E k \in 1..n : m[j] = ops[k]
      <4>1. CASE m[j] = op
        BY <2>1, <2>3, <4>1
      <4>2. CASE \E k \in 1..Len(done) : m[j] = done[k]
        <5>1. PICK k \in 1..Len(done) : m[j] = done[k]
          BY <4>2
        <5> QED
          BY <2>2, <2>4, <3>1, <5>1
      <4> QED
        BY <2>7, <3>1, <4>1, <4>2
    <3> QED
      BY <2>8, <3>1
  <2> QED
    BY <2>1, <2>9, <2>10
<1> HIDE DEF S
<1>4. n \in S
  <2> HIDE DEF n
  <2>1. 0..n \subseteq S
    BY <1>0, <1>2, <1>3, UpTo
  <2> QED
    BY <1>0, <2>1
<1> QED
  BY <1>1, <1>4 DEF S

LEMMA NothingEmpty ==
    ASSUME NEW B, NEW ops \in Seq(OpsOf(B)), \A i \in 1..Len(ops) : ops[i].size > 0
    PROVE  RemoveEmpty(ops) = ops
<1> DEFINE n == Len(ops)
           O == OpsOf(B)
<1>0. n \in Nat
  OBVIOUS
<1>1. PICK t \in [0..n -> Seq(O)] :
         /\ t[0] = <<>>
         /\ \A i \in 1..n : t[i] = (IF NonEmpty(ops[i]) THEN Append(t[i - 1], ops[i]) ELSE t[i - 1])
         /\ RemoveEmpty(ops) = t[n]
  BY KeptSteps
<1> DEFINE S == {i \in 0..n : t[i] = Stretch(ops, 0, i)}
<1>2. 0 \in S
  <2>1. Stretch(ops, 0, 0) = <<>>
    <3> HIDE DEF O
    <3>1. 0 \in Nat /\ 0 <= Len(ops) /\ ops \in Seq(O)
      BY DEF O
    <3> QED
      BY <3>1, StretchEmpty
  <2> QED
    BY <1>0, <1>1, <2>1
<1>3. ASSUME NEW i \in 0..(n - 1), i \in S PROVE i + 1 \in S
  <2>1. i + 1 \in 1..n /\ (i + 1) - 1 = i /\ i + 1 \in 0..n /\ i \in Nat /\ i < Len(ops) /\ 0 <= i
    BY <1>0
  <2>2. t[i + 1] = Append(Stretch(ops, 0, i), ops[i + 1])
    BY <1>1, <1>3, <2>1 DEF NonEmpty
  <2>3. Append(Stretch(ops, 0, i), ops[i + 1]) = Stretch(ops, 0, i + 1)
    <3> HIDE DEF n
    <3>1. 0 \in Nat /\ ops \in Seq(O)
      OBVIOUS
    <3> HIDE DEF O
    <3> QED
      BY <2>1, <3>1, StretchGrows
  <2> QED
    BY <2>1, <2>2, <2>3
<1> HIDE DEF S
<1>4. n \in S
  <2> HIDE DEF n
  <2>1. 0..n \subseteq S
    BY <1>0, <1>2, <1>3, UpTo
  <2> QED
    BY <1>0, <2>1
<1>5. Stretch(ops, 0, n) = ops
  BY StretchAll
<1> QED
  BY <1>1, <1>4, <1>5 DEF S

LEMMA NothingRedundant ==
    ASSUME NEW B, NEW ops \in Seq(OpsOf(B)), NoDeletes(ops)
    PROVE  DropRedundantDeletes(ops) = ops
<1> DEFINE n == Len(ops)
           O == OpsOf(B)
<1>0. n \in Nat
  OBVIOUS
<1>1. PICK t \in [0..n -> Seq(O)] :
         /\ t[0] = <<>>
         /\ \A i \in 1..n :
               t[i] = (IF RedundantDelete(ops, i) THEN t[i - 1] ELSE Append(t[i - 1], ops[i]))
         /\ DropRedundantDeletes(ops) = t[n]
  BY DropSteps
<1> DEFINE S == {i \in 0..n : t[i] = Stretch(ops, 0, i)}
<1>2. 0 \in S
  <2>1. Stretch(ops, 0, 0) = <<>>
    <3> HIDE DEF O
    <3>1. 0 \in Nat /\ 0 <= Len(ops) /\ ops \in Seq(O)
      BY DEF O
    <3> QED
      BY <3>1, StretchEmpty
  <2> QED
    BY <1>0, <1>1, <2>1
<1>3. ASSUME NEW i \in 0..(n - 1), i \in S PROVE i + 1 \in S
  <2>1. i + 1 \in 1..n /\ (i + 1) - 1 = i /\ i + 1 \in 0..n /\ i \in Nat /\ i < Len(ops) /\ 0 <= i
    BY <1>0
  <2>a. ~RedundantDelete(ops, i + 1)
    BY <2>1 DEF RedundantDelete, NoDeletes
  <2>2. t[i + 1] = Append(Stretch(ops, 0, i), ops[i + 1])
    BY <1>1, <1>3, <2>1, <2>a
  <2>3. Append(Stretch(ops, 0, i), ops[i + 1]) = Stretch(ops, 0, i + 1)
    <3> HIDE DEF n
    <3>1. 0 \in Nat /\ ops \in Seq(O)
      OBVIOUS
    <3> HIDE DEF O
    <3> QED
      BY <2>1, <3>1, StretchGrows
  <2> QED
    BY <2>1, <2>2, <2>3
<1> HIDE DEF S
<1>4. n \in S
  <2> HIDE DEF n
  <2>1. 0..n \subseteq S
    BY <1>0, <1>2, <1>3, UpTo
  <2> QED
    BY <1>0, <2>1
<1>5. Stretch(ops, 0, n) = ops
  BY StretchAll
<1> QED
  BY <1>1, <1>4, <1>5 DEF S

\* The optimizer keeps a delta that tiles a file a delta that tiles it.
LEMMA OptimizedTiles ==
    ASSUME NEW B, NEW ops \in Seq(OpsOf(B)), Tiles(ops), NoDeletes(ops)
    PROVE  /\ OptimizeDelta(ops) = MergeRuns(ops)
           /\ OptimizeDelta(ops) \in Seq(OpsOf(B)) /\ NoDeletes(OptimizeDelta(ops))
           /\ Tiles(OptimizeDelta(ops)) /\ Reach(OptimizeDelta(ops)) = Reach(ops)
<1>1. \A i \in 1..Len(ops) : ops[i].size > 0
  BY DEF Tiles
<1>2. RemoveEmpty(ops) = ops
  BY <1>1, NothingEmpty
<1>3. /\ MergeRuns(ops) \in Seq(OpsOf(B)) /\ NoDeletes(MergeRuns(ops))
      /\ Tiles(MergeRuns(ops)) /\ Reach(MergeRuns(ops)) = Reach(ops)
  BY MergedTiles
<1>4. DropRedundantDeletes(MergeRuns(ops)) = MergeRuns(ops)
  BY <1>3, NothingRedundant
<1> QED
  BY <1>2, <1>3, <1>4 DEF OptimizeDelta

-----------------------------------------------------------------------------
(* Rebuilding a file.                                                      *)

\* Operations that tile f and write what it has, applied in order, give f.
LEMMA RebuildGivesFile ==
    ASSUME NEW B, 0 \in B, NEW ops \in Seq(OpsOf(B)), NEW source \in Seq(B), NEW f \in Seq(B),
           Tiles(ops), AllWrite(ops, source, f), Reach(ops) = Len(f)
    PROVE  Rebuild(source, ops) = f
<1> DEFINE n == Len(ops)
<1>0. n \in Nat /\ \A i \in 1..n : ops[i] \in OpsOf(B)
  OBVIOUS
<1>1. PICK t \in [0..n -> Seq(B)] :
         /\ t[0] = <<>>
         /\ \A i \in 1..n : t[i] = ApplyOperation(t[i - 1], source, ops[i])
         /\ Rebuild(source, ops) = t[n]
  BY RebuildSteps
<1> DEFINE S == {i \in 0..n : /\ EndAt(ops, i) \in 0..Len(f)
                              /\ t[i] = Stretch(f, 0, EndAt(ops, i))}
<1>2. 0 \in S
  <2>1. Stretch(f, 0, 0) = <<>>
    <3>1. 0 \in Nat /\ 0 <= Len(f)
      OBVIOUS
    <3> QED
      BY <3>1, StretchEmpty
  <2>2. EndAt(ops, 0) = 0 /\ 0 \in 0..Len(f)
    BY DEF EndAt
  <2> QED
    BY <1>0, <1>1, <2>1, <2>2
<1>3. ASSUME NEW i \in 0..(n - 1), i \in S PROVE i + 1 \in S
  <2>1. i + 1 \in 1..n /\ (i + 1) - 1 = i /\ i + 1 \in 0..n /\ i + 1 # 0 /\ i \in 0..n
    BY <1>0
  <2>2. PICK op \in OpsOf(B) : op = ops[i + 1]
    BY <1>0, <2>1
  <2>3. op.offset = EndAt(ops, i) /\ op.size > 0
    <3>1. \A j \in 1..n : ops[j].offset = EndAt(ops, j - 1) /\ ops[j].size > 0
      BY DEF Tiles
    <3>2. ops[i + 1].offset = EndAt(ops, (i + 1) - 1) /\ ops[i + 1].size > 0
      BY <2>1, <3>1
    <3> QED
      BY <2>1, <2>2, <3>2
  <2>4. WritesPart(op, source, f)
    BY <2>1, <2>2 DEF AllWrite
  <2>5. PICK a \in Nat : a = op.offset
    BY DEF OpsOf
  <2>6. PICK b \in Nat : b = op.offset + op.size
    <3>1. op.offset \in Nat /\ op.size \in Nat
      BY DEF OpsOf
    <3> QED
      BY <3>1
  <2>7. 0 <= a /\ a <= b /\ b <= Len(f) /\ a <= Len(f)
    <3>1. op.offset \in Nat /\ op.size \in Nat
      BY DEF OpsOf
    <3>2. b <= Len(f)
      BY <2>4, <2>6 DEF WritesPart
    <3>3. PICK s \in Nat : s = op.size
      BY <3>1
    <3>4. b = a + s
      BY <2>5, <2>6, <3>3
    <3> QED
      BY <3>2, <3>4
  <2>8. EndAt(ops, i + 1) = b
    BY <2>1, <2>2, <2>6 DEF EndAt
  <2>9. t[i] = Stretch(f, 0, a)
    BY <1>3, <2>3, <2>5
  <2>10. PICK data \in Seq(B) : data = Stretch(f, a, b)
    BY <2>7, StretchProperties
  <2>11. Stretch(f, 0, a) \in Seq(B) /\ Len(Stretch(f, 0, a)) = a
    <3>1. 0 \in Nat /\ 0 <= a /\ a <= Len(f) /\ a - 0 = a
      BY <2>7
    <3>2. Stretch(f, 0, a) \in Seq(B) /\ Len(Stretch(f, 0, a)) = a - 0
      BY <3>1, StretchProperties
    <3> QED
      BY <3>1, <3>2
  <2>12. ApplyOperation(t[i], source, op) = WriteAt(t[i], a, data)
    <3>1. op.type \in {"copy", "insert"}
      BY <2>4 DEF WritesPart
    <3>2. CASE op.type = "copy"
      <4>1. Slice(source, op.src, op.size) = data
        BY <2>4, <2>5, <2>6, <2>10, <3>2 DEF WritesPart
      <4> QED
        BY <2>5, <3>2, <4>1 DEF ApplyOperation
    <3>3. CASE op.type = "insert"
      <4>1. op.data = data
        BY <2>4, <2>5, <2>6, <2>10, <3>3 DEF WritesPart
      <4> QED
        BY <2>5, <3>3, <4>1 DEF ApplyOperation
    <3> QED
      BY <3>1, <3>2, <3>3
  <2>13. WriteAt(Stretch(f, 0, a), a, data) = Stretch(f, 0, a) \o data
    <3>1. PICK g \in Seq(B) : g = Stretch(f, 0, a)
      BY <2>11
    <3>2. WriteAt(g, Len(g), data) = g \o data
      BY WriteAtEnd
    <3> QED
      BY <2>11, <3>1, <3>2
  <2>14. Stretch(f, 0, a) \o data = Stretch(f, 0, b)
    <3>1. 0 \in Nat /\ 0 <= a
      BY <2>7
    <3>2. Stretch(f, 0, a) \o Stretch(f, a, b) = Stretch(f, 0, b)
      BY <2>7, <3>1, StretchesMeet
    <3> QED
      BY <2>10, <3>2
  <2>15. t[i + 1] = Stretch(f, 0, b)
    <3>1. t[i + 1] = ApplyOperation(t[i], source, op)
      BY <1>1, <2>1, <2>2
    <3> QED
      BY <2>9, <2>12, <2>13, <2>14, <3>1
  <2>16. b \in 0..Len(f)
    BY <2>7
  <2> QED
    BY <2>1, <2>8, <2>15, <2>16
<1> HIDE DEF S
<1>4. n \in S
  <2> HIDE DEF n
  <2>1. 0..n \subseteq S
    BY <1>0, <1>2, <1>3, UpTo
  <2> QED
    BY <1>0, <2>1
<1>5. t[n] = Stretch(f, 0, Len(f))
  BY <1>4 DEF S, Reach
<1>6. Stretch(f, 0, Len(f)) = f
  BY StretchAll
<1> QED
  BY <1>1, <1>5, <1>6

-----------------------------------------------------------------------------
(* The optimizer, on any operations.                                       *)

\* g is f with data, of one byte or more, written at a.
Wrote(g, B, f, a, data) ==
    /\ g \in Seq(B)
    /\ Len(g) = IF a + Len(data) > Len(f) THEN a + Len(data) ELSE Len(f)
    /\ \A i \in 1..Len(g) :
          g[i] = IF a < i /\ i <= a + Len(data) THEN data[i - a]
                 ELSE IF i <= Len(f) THEN f[i] ELSE 0

LEMMA WriteElements ==
    ASSUME NEW B, 0 \in B, NEW f \in Seq(B), NEW data \in Seq(B), NEW a \in Nat, data # <<>>
    PROVE  Wrote(WriteAt(f, a, data), B, f, a, data)
<1> DEFINE n == IF a + Len(data) > Len(f) THEN a + Len(data) ELSE Len(f)
           val(i) == IF a < i /\ i <= a + Len(data) THEN data[i - a]
                     ELSE IF i <= Len(f) THEN f[i] ELSE 0
<1>1. n \in Nat
  OBVIOUS
<1>2. WriteAt(f, a, data) \in Seq(B)
  BY WriteType
<1>3. WriteAt(f, a, data) = [i \in 1..n |-> val(i)]
  BY DEF WriteAt
<1>4. Len(WriteAt(f, a, data)) = n
  <2> HIDE DEF n, val
  <2> QED
    BY <1>1, <1>2, <1>3
<1>5. \A i \in 1..n : WriteAt(f, a, data)[i] = val(i)
  <2> HIDE DEF n, val
  <2> QED
    BY <1>3
<1> QED
  BY <1>2, <1>4, <1>5 DEF Wrote

\* Writing x and then y behind it is writing x \o y.
LEMMA WritesMeet ==
    ASSUME NEW B, 0 \in B, NEW f \in Seq(B), NEW x \in Seq(B), NEW y \in Seq(B), NEW a \in Nat
    PROVE  WriteAt(WriteAt(f, a, x), a + Len(x), y) = WriteAt(f, a, x \o y)
<1>0. Len(x) \in Nat /\ Len(y) \in Nat /\ Len(f) \in Nat
  OBVIOUS
<1>1. CASE y = <<>>
  <2>1. x \o y = x
    BY <1>1, ConcatEmptySeq
  <2> QED
    BY <1>1, <2>1 DEF WriteAt
<1>2. CASE x = <<>>
  <2>1. x \o y = y /\ Len(x) = 0 /\ a + Len(x) = a
    BY <1>2, ConcatEmptySeq
  <2>2. WriteAt(f, a, x) = f
    BY <1>2 DEF WriteAt
  <2> QED
    BY <2>1, <2>2
<1>3. CASE x # <<>> /\ y # <<>>
  <2>1. PICK m \in Nat : m = Len(x) /\ m > 0
    BY <1>3
  <2>2. PICK k \in Nat : k = Len(y) /\ k > 0
    BY <1>3
  <2>3. PICK n \in Nat : n = Len(f)
    OBVIOUS
  <2>4. PICK xy \in Seq(B) :
           /\ xy = x \o y /\ Len(xy) = m + k
           /\ \A i \in 1..(m + k) : xy[i] = IF i <= m THEN x[i] ELSE y[i - m]
    <3>1. /\ x \o y \in Seq(B) /\ Len(x \o y) = Len(x) + Len(y)
          /\ \A i \in 1..(Len(x) + Len(y)) : (x \o y)[i] = IF i <= Len(x) THEN x[i] ELSE y[i - Len(x)]
      BY ConcatProperties
    <3> QED
      BY <2>1, <2>2, <3>1
  <2>5. PICK g : g = WriteAt(f, a, x)
    OBVIOUS
  <2>6. /\ g \in Seq(B) /\ Len(g) = IF a + m > n THEN a + m ELSE n
        /\ \A i \in 1..Len(g) : g[i] = IF a < i /\ i <= a + m THEN x[i - a]
                                       ELSE IF i <= n THEN f[i] ELSE 0
    <3>1. Wrote(g, B, f, a, x)
      BY <1>3, <2>5, WriteElements
    <3> QED
      BY <2>1, <2>3, <3>1 DEF Wrote
  <2>7. PICK b \in Nat : b = a + m
    OBVIOUS
  <2>8. PICK h : h = WriteAt(g, b, y)
    OBVIOUS
  <2>9. /\ h \in Seq(B) /\ Len(h) = IF b + k > Len(g) THEN b + k ELSE Len(g)
        /\ \A i \in 1..Len(h) : h[i] = IF b < i /\ i <= b + k THEN y[i - b]
                                       ELSE IF i <= Len(g) THEN g[i] ELSE 0
    <3>1. Wrote(h, B, g, b, y)
      BY <1>3, <2>6, <2>8, WriteElements
    <3> QED
      BY <2>2, <3>1 DEF Wrote
  <2>10. PICK w : w = WriteAt(f, a, xy)
    OBVIOUS
  <2>11. /\ w \in Seq(B) /\ Len(w) = IF a + (m + k) > n THEN a + (m + k) ELSE n
         /\ \A i \in 1..Len(w) : w[i] = IF a < i /\ i <= a + (m + k) THEN xy[i - a]
                                        ELSE IF i <= n THEN f[i] ELSE 0
    <3>1. xy # <<>>
      BY <2>1, <2>2, <2>4
    <3>2. Wrote(w, B, f, a, xy)
      BY <2>4, <2>10, <3>1, WriteElements
    <3> QED
      BY <2>3, <2>4, <3>2 DEF Wrote
  <2>12. PICK l \in Nat : l = Len(h) /\ l = Len(w)
    BY <2>6, <2>7, <2>9, <2>11
  <2>13. PICK lg \in Nat : lg = Len(g) /\ lg >= a + m /\ lg >= n /\ (lg = a + m \/ lg = n)
    BY <2>6
  <2>14. ASSUME NEW i \in 1..l PROVE h[i] = w[i]
    <3>h. h[i] = IF b < i /\ i <= b + k THEN y[i - b] ELSE IF i <= lg THEN g[i] ELSE 0
      BY <2>9, <2>12, <2>13
    <3>w. w[i] = IF a < i /\ i <= a + (m + k) THEN xy[i - a] ELSE IF i <= n THEN f[i] ELSE 0
      BY <2>11, <2>12
    <3>1. CASE b < i /\ i <= b + k
      <4>1. h[i] = y[i - b]
        BY <3>1, <3>h
      <4>2. PICK j \in 1..(m + k) : j = i - a /\ ~(j <= m) /\ j - m = i - b
        BY <2>7, <3>1
      <4>3. w[i] = xy[j]
        BY <2>7, <3>1, <3>w, <4>2
      <4>4. xy[j] = y[j - m]
        BY <2>4, <4>2
      <4> QED
        BY <4>1, <4>2, <4>3, <4>4
    <3>2. CASE a < i /\ i <= b
      <4>1. i \in 1..lg
        BY <2>7, <2>13, <3>2
      <4>2. h[i] = g[i]
        BY <3>2, <3>h, <4>1
      <4>3. g[i] = x[i - a]
        BY <2>6, <2>7, <2>13, <3>2, <4>1
      <4>4. PICK j \in 1..(m + k) : j = i - a /\ j <= m
        BY <2>7, <3>2
      <4>5. w[i] = xy[j]
        BY <2>7, <3>2, <3>w, <4>4
      <4>6. xy[j] = x[j]
        BY <2>4, <4>4
      <4> QED
        BY <4>2, <4>3, <4>4, <4>5, <4>6
    <3>3. CASE ~(a < i) \/ ~(i <= b + k)
      <4>1. ~(b < i /\ i <= b + k) /\ ~(a < i /\ i <= a + (m + k)) /\ ~(a < i /\ i <= a + m)
        BY <2>7, <3>3
      <4>2. w[i] = IF i <= n THEN f[i] ELSE 0
        BY <3>w, <4>1
      <4>3. h[i] = IF i <= lg THEN g[i] ELSE 0
        BY <3>h, <4>1
      <4>4. i <= lg => g[i] = IF i <= n THEN f[i] ELSE 0
        BY <2>6, <2>13, <4>1
      <4>5. i <= n => i <= lg
        BY <2>13
      <4> QED
        BY <4>2, <4>3, <4>4, <4>5
    <3> QED
      BY <3>1, <3>2, <3>3
  <2>15. h = w
    BY <2>9, <2>11, <2>12, <2>14, SeqEqual
  <2> QED
    BY <2>1, <2>4, <2>5, <2>7, <2>8, <2>10, <2>15
<1> QED
  BY <1>1, <1>2, <1>3

\* A slice of n bytes and the m bytes behind it: one slice, also past the end
\* of the file, where only the second is empty.
Adjoining(f, s, n, m) ==
    /\ Slice(f, s, n) \o Slice(f, s + n, m) = Slice(f, s, n + m)
    /\ Len(Slice(f, s, n)) = n \/ Slice(f, s + n, m) = <<>>

LEMMA SlicesMeet ==
    ASSUME NEW B, NEW f \in Seq(B), NEW s \in Nat, NEW n \in Nat, NEW m \in Nat
    PROVE  Adjoining(f, s, n, m)
<1> SUFFICES /\ Slice(f, s, n) \o Slice(f, s + n, m) = Slice(f, s, n + m)
             /\ Len(Slice(f, s, n)) = n \/ Slice(f, s + n, m) = <<>>
  BY DEF Adjoining
<1>0. PICK l \in Nat : l = Len(f)
  OBVIOUS
<1>1. PICK b \in Nat : b = s + n
  OBVIOUS
<1>2. CASE b <= l
  <2>1. PICK e \in Nat : e = IF b + m < l THEN b + m ELSE l
    <3>1. (IF b + m < l THEN b + m ELSE l) \in Nat
      OBVIOUS
    <3> QED
      BY <3>1
  <2>2. s <= b /\ b <= e /\ e <= l
    BY <1>1, <1>2, <2>1
  <2>3. Slice(f, s, n) = Stretch(f, s, b)
    BY <1>0, <1>1, <1>2, SliceIsStretch
  <2>4. Slice(f, b, m) = Stretch(f, b, e)
    BY <1>0, <2>1 DEF Slice, Stretch
  <2>5. Slice(f, s, n + m) = Stretch(f, s, e)
    <3>1. s + (n + m) = b + m
      BY <1>1
    <3> QED
      BY <1>0, <2>1, <3>1 DEF Slice, Stretch
  <2>6. Stretch(f, s, b) \o Stretch(f, b, e) = Stretch(f, s, e)
    BY <1>0, <2>2, StretchesMeet
  <2>7. Len(Stretch(f, s, b)) = b - s /\ b - s = n
    <3>1. Len(Stretch(f, s, b)) = b - s
      BY <1>0, <1>2, <2>2, StretchProperties
    <3> QED
      BY <1>1, <3>1
  <2> QED
    BY <1>1, <2>3, <2>4, <2>5, <2>6, <2>7
<1>3. CASE b > l
  <2>1. Slice(f, b, m) = <<>>
    <3>1. (IF b + m < l THEN b + m ELSE l) = l /\ l < b + 1
      BY <1>3
    <3>2. SubSeq(f, b + 1, l) = <<>>
      BY <3>1, SubSeqEmpty
    <3> QED
      BY <1>0, <3>1, <3>2 DEF Slice
  <2>2. Slice(f, s, n) = Slice(f, s, n + m)
    <3>1. (IF s + n < l THEN s + n ELSE l) = l /\ (IF s + (n + m) < l THEN s + (n + m) ELSE l) = l
      BY <1>1, <1>3
    <3> QED
      BY <1>0, <3>1 DEF Slice
  <2>3. Slice(f, s, n) \in Seq(B)
    BY SliceProperties
  <2> QED
    BY <1>1, <2>1, <2>2, <2>3, ConcatEmptySeq
<1> QED
  BY <1>0, <1>1, <1>2, <1>3

LEMMA SizedFields ==
    ASSUME NEW B, NEW op \in SizedOps(B)
    PROVE  /\ op \in OpsOf(B) /\ op.type \in {"copy", "insert", "delete"}
           /\ op.offset \in Nat /\ op.size \in Nat /\ op.src \in Nat /\ op.data \in Seq(B)
           /\ op.type = "insert" => op.size = Len(op.data)
           /\ op.type # "insert" => op.data = <<>>
BY DEF SizedOps, OpsOf

LEMMA EmptyApplies ==
    ASSUME NEW B, NEW op \in SizedOps(B), ~NonEmpty(op), NEW f, NEW source \in Seq(B)
    PROVE  ApplyOperation(f, source, op) = f
<1>1. /\ op.type \in {"copy", "insert", "delete"} /\ op.src \in Nat /\ op.data \in Seq(B)
      /\ op.size = 0 /\ (op.type = "insert" => Len(op.data) = 0)
  BY SizedFields DEF NonEmpty
<1>2. CASE op.type = "copy"
  <2>1. PICK s \in Nat : s = op.src
    BY <1>1
  <2>2. Slice(source, op.src, op.size) = <<>>
    <3>1. Slice(source, s, 0) \in Seq(B) /\ Len(Slice(source, s, 0)) \in 0..0
      BY SliceProperties
    <3>2. Slice(source, s, 0) = <<>>
      BY <3>1
    <3> QED
      BY <1>1, <2>1, <3>2
  <2> QED
    BY <1>2, <2>2 DEF ApplyOperation, WriteAt
<1>3. CASE op.type = "insert"
  <2>1. op.data = <<>>
    BY <1>1, <1>3
  <2> QED
    BY <1>3, <2>1 DEF ApplyOperation, WriteAt
<1>4. CASE op.type = "delete"
  BY <1>4 DEF ApplyOperation
<1> QED
  BY <1>1, <1>2, <1>3, <1>4

\* Two operations of a run, and the one made of them.
LEMMA JoinApplies ==
    ASSUME NEW B, 0 \in B, NEW p \in SizedOps(B), NEW q \in SizedOps(B), Continues(p, q),
           NEW f \in Seq(B), NEW source \in Seq(B)
    PROVE  /\ ApplyOperation(ApplyOperation(f, source, p), source, q) = ApplyOperation(f, source, Join(p, q))
           /\ Join(p, q) \in SizedOps(B)
<1>p. /\ p \in OpsOf(B) /\ p.type \in {"copy", "insert", "delete"}
      /\ p.offset \in Nat /\ p.size \in Nat /\ p.src \in Nat /\ p.data \in Seq(B)
      /\ p.type = "insert" => p.size = Len(p.data)
      /\ p.type # "insert" => p.data = <<>>
  BY SizedFields
<1>q. /\ q \in OpsOf(B) /\ q.type \in {"copy", "insert", "delete"}
      /\ q.offset \in Nat /\ q.size \in Nat /\ q.src \in Nat /\ q.data \in Seq(B)
      /\ q.type = "insert" => q.size = Len(q.data)
      /\ q.type # "insert" => q.data = <<>>
  BY SizedFields
<1>1. PICK j : j = Join(p, q)
  OBVIOUS
<1>2. /\ j \in OpsOf(B) /\ j.type = p.type /\ j.offset = p.offset /\ j.src = p.src
      /\ j.size = p.size + q.size /\ j.data = p.data \o q.data
  BY <1>1, <1>p, <1>q, JoinType
<1>3. q.type = p.type /\ q.offset = p.offset + p.size /\ (p.type = "copy" => q.src = p.src + p.size)
  BY DEF Continues
<1>4. PICK a \in Nat : a = p.offset
  BY <1>p
<1>5. PICK n \in Nat : n = p.size
  BY <1>p
<1>6. PICK m \in Nat : m = q.size
  BY <1>q
<1>7. CASE p.type = "copy"
  <2>1. PICK s \in Nat : s = p.src
    BY <1>p
  <2>2. PICK x \in Seq(B) : x = Slice(source, s, n)
    BY SliceProperties
  <2>3. PICK y \in Seq(B) : y = Slice(source, s + n, m)
    <3>1. s + n \in Nat
      OBVIOUS
    <3> QED
      BY <3>1, SliceProperties
  <2>4. x \o y = Slice(source, s, n + m) /\ (Len(x) = n \/ y = <<>>)
    <3>1. Adjoining(source, s, n, m)
      BY SlicesMeet
    <3> QED
      BY <2>2, <2>3, <3>1 DEF Adjoining
  <2>5. WriteAt(WriteAt(f, a, x), a + n, y) = WriteAt(f, a, x \o y)
    <3>1. CASE Len(x) = n
      <4>1. WriteAt(WriteAt(f, a, x), a + Len(x), y) = WriteAt(f, a, x \o y)
        BY WritesMeet
      <4> QED
        BY <3>1, <4>1
    <3>2. CASE y = <<>>
      <4>1. x \o y = x
        BY <3>2, ConcatEmptySeq
      <4> QED
        BY <3>2, <4>1 DEF WriteAt
    <3> QED
      BY <2>4, <3>1, <3>2
  <2>6. ApplyOperation(f, source, p) = WriteAt(f, a, x)
    BY <1>4, <1>5, <1>7, <2>1, <2>2 DEF ApplyOperation
  <2>7. ApplyOperation(WriteAt(f, a, x), source, q) = WriteAt(WriteAt(f, a, x), a + n, y)
    BY <1>3, <1>4, <1>5, <1>6, <1>7, <2>1, <2>3 DEF ApplyOperation
  <2>8. ApplyOperation(f, source, j) = WriteAt(f, a, x \o y)
    BY <1>2, <1>4, <1>5, <1>6, <1>7, <2>1, <2>4 DEF ApplyOperation
  <2>9. j \in SizedOps(B)
    <3>1. j.data = <<>> /\ j.type # "insert"
      BY <1>p, <1>q, <1>2, <1>3, <1>7, ConcatEmptySeq
    <3> QED
      BY <1>2, <3>1 DEF SizedOps
  <2> QED
    BY <1>1, <2>5, <2>6, <2>7, <2>8, <2>9
<1>8. CASE p.type = "insert"
  <2>1. PICK x \in Seq(B) : x = p.data /\ Len(x) = n
    BY <1>p, <1>5, <1>8
  <2>2. PICK y \in Seq(B) : y = q.data /\ Len(y) = m
    BY <1>q, <1>3, <1>6, <1>8
  <2>3. WriteAt(WriteAt(f, a, x), a + n, y) = WriteAt(f, a, x \o y)
    <3>1. WriteAt(WriteAt(f, a, x), a + Len(x), y) = WriteAt(f, a, x \o y)
      BY WritesMeet
    <3> QED
      BY <2>1, <3>1
  <2>4. ApplyOperation(f, source, p) = WriteAt(f, a, x)
    BY <1>4, <1>8, <2>1 DEF ApplyOperation
  <2>5. ApplyOperation(WriteAt(f, a, x), source, q) = WriteAt(WriteAt(f, a, x), a + n, y)
    BY <1>3, <1>4, <1>5, <1>8, <2>2 DEF ApplyOperation
  <2>6. ApplyOperation(f, source, j) = WriteAt(f, a, x \o y)
    BY <1>2, <1>4, <1>8, <2>1, <2>2 DEF ApplyOperation
  <2>7. Len(x \o y) = n + m
    BY <2>1, <2>2, ConcatProperties
  <2>8. j \in SizedOps(B)
    <3>1. j.type = "insert" /\ j.size = Len(j.data)
      BY <1>2, <1>5, <1>6, <1>8, <2>1, <2>2, <2>7
    <3> QED
      BY <1>2, <3>1 DEF SizedOps
  <2> QED
    BY <1>1, <2>3, <2>4, <2>5, <2>6, <2>8
<1>9. CASE p.type = "delete"
  <2>1. ApplyOperation(f, source, p) = f /\ ApplyOperation(f, source, q) = f /\ ApplyOperation(f, source, j) = f
    BY <1>2, <1>3, <1>9 DEF ApplyOperation
  <2>2. j \in SizedOps(B)
    <3>1. j.data = <<>> /\ j.type # "insert"
      BY <1>p, <1>q, <1>2, <1>3, <1>9, ConcatEmptySeq
    <3> QED
      BY <1>2, <3>1 DEF SizedOps
  <2> QED
    BY <1>1, <2>1, <2>2
<1> QED
  BY <1>p, <1>7, <1>8, <1>9

\* The files that n operations leave one after the other.
Replayed(t, source, ops, n, B) ==
    /\ t \in [0..n -> Seq(B)] /\ t[0] = <<>>
    /\ \A i \in 1..n : t[i] = ApplyOperation(t[i - 1], source, ops[i])
    /\ Rebuild(source, ops) = t[n]

LEMMA ReplayExists ==
    ASSUME NEW B, 0 \in B, NEW source \in Seq(B), NEW ops \in Seq(OpsOf(B)),
           NEW n \in Nat, n = Len(ops)
    PROVE  \E t : Replayed(t, source, ops, n, B)
<1>1. PICK t \in [0..Len(ops) -> Seq(B)] :
         /\ t[0] = <<>>
         /\ \A i \in 1..Len(ops) : t[i] = ApplyOperation(t[i - 1], source, ops[i])
         /\ Rebuild(source, ops) = t[Len(ops)]
  BY RebuildSteps, Zenon
<1>2. Replayed(t, source, ops, Len(ops), B)
  BY <1>1, Zenon DEF Replayed
<1> QED
  BY <1>2

\* The last operation is applied last.
LEMMA RebuildAppend ==
    ASSUME NEW B, 0 \in B, NEW d \in Seq(OpsOf(B)), NEW op \in OpsOf(B), NEW source \in Seq(B)
    PROVE  /\ Rebuild(source, d) \in Seq(B)
           /\ Rebuild(source, Append(d, op)) = ApplyOperation(Rebuild(source, d), source, op)
<1> DEFINE O == OpsOf(B)
<1>0. PICK n \in Nat : n = Len(d)
  OBVIOUS
<1>1. PICK all \in Seq(O) :
         /\ all = Append(d, op) /\ Len(all) = n + 1 /\ all[n + 1] = op
         /\ \A i \in 1..n : all[i] = d[i]
  <2> HIDE DEF O
  <2>1. d \in Seq(O) /\ op \in O
    BY DEF O
  <2>2. /\ Append(d, op) \in Seq(O) /\ Len(Append(d, op)) = Len(d) + 1
        /\ Append(d, op)[Len(d) + 1] = op
        /\ \A i \in 1..Len(d) : Append(d, op)[i] = d[i]
    BY <2>1, AppendProperties
  <2> QED
    BY <1>0, <2>2
<1>2. PICK t \in [0..n -> Seq(B)] :
         /\ t[0] = <<>>
         /\ \A i \in 1..n : t[i] = ApplyOperation(t[i - 1], source, d[i])
         /\ Rebuild(source, d) = t[n]
  <2>1. PICK t : Replayed(t, source, d, n, B)
    BY <1>0, ReplayExists
  <2> QED
    BY <2>1, Zenon DEF Replayed
<1>3. PICK u \in [0..(n + 1) -> Seq(B)] :
         /\ u[0] = <<>>
         /\ \A i \in 1..(n + 1) : u[i] = ApplyOperation(u[i - 1], source, all[i])
         /\ Rebuild(source, all) = u[n + 1]
  <2>1. PICK m \in Nat : m = n + 1
    OBVIOUS
  <2>2. all \in Seq(OpsOf(B)) /\ m = Len(all)
    BY <1>1, <2>1 DEF O
  <2>3. PICK u : Replayed(u, source, all, m, B)
    BY <2>2, ReplayExists
  <2> QED
    BY <2>1, <2>3, Zenon DEF Replayed
<1> DEFINE S == {i \in 0..n : u[i] = t[i]}
<1>4. 0 \in S
  BY <1>2, <1>3
<1>5. ASSUME NEW i \in 0..(n - 1), i \in S PROVE i + 1 \in S
  <2>1. i + 1 \in 1..n /\ i + 1 \in 1..(n + 1) /\ (i + 1) - 1 = i /\ i + 1 \in 0..n
    OBVIOUS
  <2>2. t[i + 1] = ApplyOperation(t[i], source, d[i + 1])
    BY <1>2, <2>1
  <2>3. u[i + 1] = ApplyOperation(u[i], source, d[i + 1])
    BY <1>1, <1>3, <2>1
  <2> QED
    BY <1>5, <2>1, <2>2, <2>3
<1> HIDE DEF S
<1>6. n \in S
  <2>1. 0..n \subseteq S
    BY <1>4, <1>5, UpTo
  <2> QED
    BY <2>1
<1>7. u[n] = t[n]
  BY <1>6 DEF S
<1>8. u[n + 1] = ApplyOperation(u[n], source, op)
  <2>1. n + 1 \in 1..(n + 1) /\ (n + 1) - 1 = n
    OBVIOUS
  <2> QED
    BY <1>1, <1>3, <2>1
<1> QED
  BY <1>1, <1>2, <1>3, <1>7, <1>8

LEMMA RebuildNothing ==
    ASSUME NEW B, 0 \in B, NEW source \in Seq(B)
    PROVE  Rebuild(source, <<>>) = <<>>
<1> DEFINE O == OpsOf(B)
<1>1. PICK d \in Seq(O) : d = <<>> /\ Len(d) = 0
  <2> HIDE DEF O
  <2> QED
    BY EmptySeq
<1>2. PICK t \in [0..Len(d) -> Seq(B)] : t[0] = <<>> /\ Rebuild(source, d) = t[Len(d)]
  BY RebuildSteps
<1> QED
  BY <1>1, <1>2

LEMMA RebuildMerge ==
    ASSUME NEW B, 0 \in B, NEW d \in Seq(SizedOps(B)), NEW op \in SizedOps(B), NEW source \in Seq(B)
    PROVE  /\ Rebuild(source, Merge(d, op)) = ApplyOperation(Rebuild(source, d), source, op)
           /\ Merge(d, op) \in Seq(SizedOps(B))
<1> DEFINE O == OpsOf(B)
           V == SizedOps(B)
<1>0. V \subseteq O
  BY DEF SizedOps
<1>1. d \in Seq(O) /\ op \in O
  <2> HIDE DEF O, V
  <2>1. d \in Seq(V) /\ op \in V
    BY DEF V
  <2> QED
    BY <1>0, <2>1, SeqMonotonic
<1>2. CASE d # <<>> /\ Continues(Last(d), op)
  <2>1. PICK e \in Seq(V), p \in V : d = Append(e, p)
    <3> HIDE DEF V
    <3>1. d \in Seq(V)
      BY DEF V
    <3> QED
      BY <1>2, <3>1, SequenceEmptyOrAppend
  <2>2. Last(d) = p /\ Front(d) = e
    <3> HIDE DEF V
    <3>1. Len(d) = Len(e) + 1 /\ d[Len(e) + 1] = p /\ d \in Seq(V) /\ \A i \in 1..Len(e) : d[i] = e[i]
      BY <2>1, AppendProperties
    <3>2. PICK n \in Nat : n = Len(e)
      OBVIOUS
    <3>3. Len(d) - 1 = n /\ Len(d) = n + 1
      BY <3>1, <3>2
    <3>4. Last(d) = p
      BY <3>1, <3>2, <3>3 DEF Last
    <3>5. Front(d) = Stretch(d, 0, n)
      BY <3>3 DEF Front, Stretch
    <3>6. /\ Stretch(d, 0, n) \in Seq(V) /\ Len(Stretch(d, 0, n)) = n - 0
          /\ \A i \in 1..(n - 0) : Stretch(d, 0, n)[i] = d[0 + i]
      <4>1. d \in Seq(V) /\ 0 \in Nat /\ n \in Nat /\ 0 <= n /\ n <= Len(d)
        BY <3>1, <3>3
      <4> QED
        BY <4>1, StretchProperties
    <3>7. Stretch(d, 0, n) = e
      <4>1. n - 0 = n /\ \A i \in 1..n : 0 + i = i
        OBVIOUS
      <4>2. Len(Stretch(d, 0, n)) = Len(e) /\ \A i \in 1..Len(Stretch(d, 0, n)) : Stretch(d, 0, n)[i] = e[i]
        BY <3>1, <3>2, <3>6, <4>1
      <4> QED
        BY <3>6, <4>2, SeqEqual
    <3> QED
      BY <3>4, <3>5, <3>7
  <2>3. Merge(d, op) = Append(e, Join(p, op))
    BY <1>2, <2>2 DEF Merge
  <2>4. e \in Seq(O) /\ p \in O
    <3> HIDE DEF O, V
    <3> QED
      BY <1>0, SeqMonotonic
  <2>5. PICK f \in Seq(B) :
           /\ f = Rebuild(source, e)
           /\ Rebuild(source, d) = ApplyOperation(f, source, p)
    BY <2>1, <2>4, RebuildAppend
  <2>6. /\ ApplyOperation(ApplyOperation(f, source, p), source, op) = ApplyOperation(f, source, Join(p, op))
        /\ Join(p, op) \in V
    BY <1>2, <2>2, JoinApplies
  <2>7. Rebuild(source, Append(e, Join(p, op))) = ApplyOperation(f, source, Join(p, op))
    <3>1. Join(p, op) \in O
      BY <1>0, <2>6
    <3> QED
      BY <2>4, <2>5, <3>1, RebuildAppend
  <2>8. Append(e, Join(p, op)) \in Seq(V)
    <3> HIDE DEF V
    <3> QED
      BY <2>6, AppendProperties
  <2> QED
    BY <2>3, <2>5, <2>6, <2>7, <2>8
<1>3. CASE ~(d # <<>> /\ Continues(Last(d), op))
  <2>1. Merge(d, op) = Append(d, op)
    BY <1>3 DEF Merge
  <2>2. Append(d, op) \in Seq(V)
    <3> HIDE DEF V
    <3>1. d \in Seq(V) /\ op \in V
      BY DEF V
    <3> QED
      BY <3>1, AppendProperties
  <2> QED
    BY <1>1, <2>1, <2>2, RebuildAppend
<1> QED
  BY <1>2, <1>3

\* Lists that are applied as ops is, step for step.
Stepwise(t, source, ops, n, B) ==
    /\ n = Len(ops) /\ t \in [0..n -> Seq(OpsOf(B))] /\ t[0] = <<>>
    /\ \A i \in 1..n : Rebuild(source, t[i]) = ApplyOperation(Rebuild(source, t[i - 1]), source, ops[i])

LEMMA StepsRebuild ==
    ASSUME NEW B, 0 \in B, NEW source \in Seq(B), NEW ops \in Seq(OpsOf(B)), NEW n \in Nat,
           NEW t, Stepwise(t, source, ops, n, B)
    PROVE  Rebuild(source, t[n]) = Rebuild(source, ops)
<1>0. n = Len(ops)
  BY DEF Stepwise
<1>1. PICK u : Replayed(u, source, ops, n, B)
  BY <1>0, ReplayExists
<1> DEFINE S == {i \in 0..n : Rebuild(source, t[i]) = u[i]}
<1>2. 0 \in S
  <2>1. t[0] = <<>> /\ u[0] = <<>> /\ 0 \in 0..n
    BY <1>1 DEF Stepwise, Replayed
  <2> QED
    BY <2>1, RebuildNothing
<1>3. ASSUME NEW i \in 0..(n - 1), i \in S PROVE i + 1 \in S
  <2>1. i + 1 \in 1..n /\ (i + 1) - 1 = i /\ i + 1 \in 0..n
    OBVIOUS
  <2>2. u[i + 1] = ApplyOperation(u[i], source, ops[i + 1])
    BY <1>1, <2>1 DEF Replayed
  <2>3. Rebuild(source, t[i + 1]) = ApplyOperation(Rebuild(source, t[i]), source, ops[i + 1])
    BY <2>1 DEF Stepwise
  <2> QED
    BY <1>3, <2>1, <2>2, <2>3
<1> HIDE DEF S
<1>4. n \in S
  <2>1. 0..n \subseteq S
    BY <1>2, <1>3, UpTo
  <2> QED
    BY <2>1
<1>5. u[n] = Rebuild(source, ops)
  BY <1>1 DEF Replayed
<1> QED
  BY <1>4, <1>5 DEF S

\* What a pass of the optimizer makes of ops: a list of the same kind that
\* rebuilds the same.
Preserves(passed, B, ops) ==
    /\ passed \in Seq(SizedOps(B))
    /\ \A source \in Seq(B) : Rebuild(source, passed) = Rebuild(source, ops)

LEMMA SizedLists ==
    ASSUME NEW B
    PROVE  SizedOps(B) \subseteq OpsOf(B) /\ Seq(SizedOps(B)) \subseteq Seq(OpsOf(B))
<1>1. SizedOps(B) \subseteq OpsOf(B)
  BY DEF SizedOps
<1> DEFINE V == SizedOps(B)
           O == OpsOf(B)
<1>2. Seq(V) \subseteq Seq(O)
  <2>1. V \subseteq O
    BY <1>1
  <2> HIDE DEF V, O
  <2> QED
    BY <2>1, SeqMonotonic
<1> QED
  BY <1>1, <1>2

LEMMA RemoveEmptyPreserves ==
    ASSUME NEW B, 0 \in B, NEW ops \in Seq(SizedOps(B))
    PROVE  Preserves(RemoveEmpty(ops), B, ops)
<1>0. PICK n \in Nat : n = Len(ops)
  OBVIOUS
<1> DEFINE V == SizedOps(B)
<1>1. PICK t \in [0..n -> Seq(V)] :
         /\ t[0] = <<>>
         /\ \A i \in 1..n : t[i] = (IF NonEmpty(ops[i]) THEN Append(t[i - 1], ops[i]) ELSE t[i - 1])
         /\ RemoveEmpty(ops) = t[n]
  <2> HIDE DEF V
  <2>1. ops \in Seq(V)
    BY DEF V
  <2> QED
    BY <1>0, <2>1, KeptSteps
<1>2. ops \in Seq(OpsOf(B)) /\ t \in [0..n -> Seq(OpsOf(B))]
  <2>1. Seq(V) \subseteq Seq(OpsOf(B))
    BY SizedLists
  <2> QED
    BY <2>1
<1>3. ASSUME NEW source \in Seq(B), NEW i \in 1..n
      PROVE  Rebuild(source, t[i]) = ApplyOperation(Rebuild(source, t[i - 1]), source, ops[i])
  <2>1. PICK d \in Seq(OpsOf(B)) : d = t[i - 1]
    BY <1>2
  <2>2. PICK op \in SizedOps(B) : op = ops[i]
    BY <1>0
  <2>3. op \in OpsOf(B)
    BY SizedLists
  <2>4. CASE NonEmpty(op)
    <3>1. t[i] = Append(d, op)
      BY <1>1, <2>1, <2>2, <2>4
    <3>2. Rebuild(source, Append(d, op)) = ApplyOperation(Rebuild(source, d), source, op)
      BY <2>3, RebuildAppend
    <3> QED
      BY <2>1, <2>2, <3>1, <3>2
  <2>5. CASE ~NonEmpty(op)
    <3>1. t[i] = d
      BY <1>1, <2>1, <2>2, <2>5
    <3>2. ApplyOperation(Rebuild(source, d), source, op) = Rebuild(source, d)
      BY <2>5, EmptyApplies
    <3> QED
      BY <2>1, <2>2, <3>1, <3>2
  <2> QED
    BY <2>4, <2>5
<1>4. ASSUME NEW source \in Seq(B) PROVE Rebuild(source, t[n]) = Rebuild(source, ops)
  <2>1. \A i \in 1..n : Rebuild(source, t[i]) = ApplyOperation(Rebuild(source, t[i - 1]), source, ops[i])
    BY <1>3
  <2>2. n = Len(ops) /\ t \in [0..n -> Seq(OpsOf(B))] /\ t[0] = <<>>
    BY <1>0, <1>1, <1>2
  <2>3. Stepwise(t, source, ops, n, B)
    BY <2>1, <2>2, ZenonT(30) DEF Stepwise
  <2>4. ops \in Seq(OpsOf(B)) /\ source \in Seq(B) /\ 0 \in B
    BY <1>1, <1>2
  <2> QED
    BY <2>3, <2>4, StepsRebuild, ZenonT(30)
<1>5. t[n] \in Seq(V)
  BY <1>1
<1> QED
  BY <1>1, <1>4, <1>5 DEF Preserves

LEMMA MergeRunsPreserves ==
    ASSUME NEW B, 0 \in B, NEW ops \in Seq(SizedOps(B))
    PROVE  Preserves(MergeRuns(ops), B, ops)
<1>0. PICK n \in Nat : n = Len(ops)
  OBVIOUS
<1> DEFINE V == SizedOps(B)
<1>1. ops \in Seq(OpsOf(B)) /\ Seq(V) \subseteq Seq(OpsOf(B))
  BY SizedLists
<1>2. PICK t \in [0..n -> Seq(OpsOf(B))] :
         /\ t[0] = <<>>
         /\ \A i \in 1..n : t[i] = Merge(t[i - 1], ops[i])
         /\ MergeRuns(ops) = t[n]
  BY <1>0, <1>1, MergeSteps
<1>3. ASSUME NEW i \in 1..n, t[i - 1] \in Seq(V) PROVE t[i] \in Seq(V)
  <2>1. PICK d \in Seq(SizedOps(B)) : d = t[i - 1]
    BY <1>3
  <2>2. PICK op \in SizedOps(B) : op = ops[i]
    BY <1>0
  <2>3. PICK source \in Seq(B) : TRUE
    BY EmptySeq
  <2>4. Merge(d, op) \in Seq(SizedOps(B))
    BY RebuildMerge
  <2> QED
    BY <1>2, <2>1, <2>2, <2>4
<1>4. \A i \in 0..n : t[i] \in Seq(V)
  <2>1. t[0] \in Seq(V)
    BY <1>2, EmptySeq
  <2> HIDE DEF V
  <2> QED
    BY <1>3, <2>1, SolutionType
<1>5. ASSUME NEW source \in Seq(B), NEW i \in 1..n
      PROVE  Rebuild(source, t[i]) = ApplyOperation(Rebuild(source, t[i - 1]), source, ops[i])
  <2>1. i - 1 \in 0..n
    OBVIOUS
  <2>2. PICK d \in Seq(SizedOps(B)) : d = t[i - 1]
    BY <1>4, <2>1
  <2>3. PICK op \in SizedOps(B) : op = ops[i]
    BY <1>0
  <2>4. Rebuild(source, Merge(d, op)) = ApplyOperation(Rebuild(source, d), source, op)
    BY RebuildMerge
  <2> QED
    BY <1>2, <2>2, <2>3, <2>4
<1>6. ASSUME NEW source \in Seq(B) PROVE Rebuild(source, t[n]) = Rebuild(source, ops)
  <2>1. \A i \in 1..n : Rebuild(source, t[i]) = ApplyOperation(Rebuild(source, t[i - 1]), source, ops[i])
    BY <1>5
  <2>2. n = Len(ops) /\ t \in [0..n -> Seq(OpsOf(B))] /\ t[0] = <<>>
    BY <1>0, <1>1, <1>2
  <2>3. Stepwise(t, source, ops, n, B)
    BY <2>1, <2>2, ZenonT(30) DEF Stepwise
  <2>4. ops \in Seq(OpsOf(B)) /\ source \in Seq(B) /\ 0 \in B
    BY <1>1, <1>2
  <2> QED
    BY <2>3, <2>4, StepsRebuild, ZenonT(30)
<1>7. t[n] \in Seq(V)
  BY <1>4
<1> QED
  BY <1>2, <1>6, <1>7 DEF Preserves

LEMMA DropRedundantDeletesPreserves ==
    ASSUME NEW B, 0 \in B, NEW ops \in Seq(SizedOps(B))
    PROVE  Preserves(DropRedundantDeletes(ops), B, ops)
<1>0. PICK n \in Nat : n = Len(ops)
  OBVIOUS
<1> DEFINE V == SizedOps(B)
<1>1. PICK t \in [0..n -> Seq(V)] :
         /\ t[0] = <<>>
         /\ \A i \in 1..n : t[i] = (IF RedundantDelete(ops, i) THEN t[i - 1] ELSE Append(t[i - 1], ops[i]))
         /\ DropRedundantDeletes(ops) = t[n]
  <2> HIDE DEF V
  <2>1. ops \in Seq(V)
    BY DEF V
  <2> QED
    BY <1>0, <2>1, DropSteps
<1>2. ops \in Seq(OpsOf(B)) /\ t \in [0..n -> Seq(OpsOf(B))]
  <2>1. Seq(V) \subseteq Seq(OpsOf(B))
    BY SizedLists
  <2> QED
    BY <2>1
<1>3. ASSUME NEW source \in Seq(B), NEW i \in 1..n
      PROVE  Rebuild(source, t[i]) = ApplyOperation(Rebuild(source, t[i - 1]), source, ops[i])
  <2>1. PICK d \in Seq(OpsOf(B)) : d = t[i - 1]
    BY <1>2
  <2>2. PICK op \in OpsOf(B) : op = ops[i]
    BY <1>0, <1>2
  <2>3. CASE ~RedundantDelete(ops, i)
    <3>1. t[i] = Append(d, op)
      BY <1>1, <2>1, <2>2, <2>3
    <3>2. Rebuild(source, Append(d, op)) = ApplyOperation(Rebuild(source, d), source, op)
      BY RebuildAppend
    <3> QED
      BY <2>1, <2>2, <3>1, <3>2
  <2>4. CASE RedundantDelete(ops, i)
    <3>1. t[i] = d
      BY <1>1, <2>1, <2>4
    <3>2. op.type = "delete"
      BY <2>2, <2>4 DEF RedundantDelete
    <3>3. ApplyOperation(Rebuild(source, d), source, op) = Rebuild(source, d)
      BY <3>2 DEF ApplyOperation
    <3> QED
      BY <2>1, <2>2, <3>1, <3>3
  <2> QED
    BY <2>3, <2>4
<1>4. ASSUME NEW source \in Seq(B) PROVE Rebuild(source, t[n]) = Rebuild(source, ops)
  <2>1. \A i \in 1..n : Rebuild(source, t[i]) = ApplyOperation(Rebuild(source, t[i - 1]), source, ops[i])
    BY <1>3
  <2>2. n = Len(ops) /\ t \in [0..n -> Seq(OpsOf(B))] /\ t[0] = <<>>
    BY <1>0, <1>1, <1>2
  <2>3. Stepwise(t, source, ops, n, B)
    BY <2>1, <2>2, ZenonT(30) DEF Stepwise
  <2>4. ops \in Seq(OpsOf(B)) /\ source \in Seq(B) /\ 0 \in B
    BY <1>1, <1>2
  <2> QED
    BY <2>3, <2>4, StepsRebuild, ZenonT(30)
<1>5. t[n] \in Seq(V)
  BY <1>1
<1> QED
  BY <1>1, <1>4, <1>5 DEF Preserves

LEMMA OptimizerPreserves ==
    ASSUME NEW B, 0 \in B, NEW ops \in Seq(SizedOps(B))
    PROVE  Preserves(OptimizeDelta(ops), B, ops)
<1>1. Preserves(RemoveEmpty(ops), B, ops)
  BY RemoveEmptyPreserves
<1>2. PICK kept \in Seq(SizedOps(B)) : kept = RemoveEmpty(ops)
  BY <1>1 DEF Preserves
<1>3. Preserves(MergeRuns(kept), B, kept)
  BY MergeRunsPreserves
<1>4. PICK merged \in Seq(SizedOps(B)) : merged = MergeRuns(kept)
  BY <1>3 DEF Preserves
<1>5. Preserves(DropRedundantDeletes(merged), B, merged)
  BY DropRedundantDeletesPreserves
<1>6. ASSUME NEW source \in Seq(B)
      PROVE  Rebuild(source, DropRedundantDeletes(merged)) = Rebuild(source, ops)
  BY <1>1, <1>2, <1>3, <1>4, <1>5 DEF Preserves
<1>7. OptimizeDelta(ops) = DropRedundantDeletes(merged)
  BY <1>2, <1>4 DEF OptimizeDelta
<1> QED
  BY <1>5, <1>6, <1>7 DEF Preserves

\* For every list of operations, of any types, in any order and at any
\* offsets, the optimizer's three passes keep what applying the list makes
\* of every source: a merged or dropped operation never changes the file that
\* a patch rebuilds.
THEOREM OptimizerKeepsResult ==
    ASSUME NEW B, 0 \in B, NEW ops \in Seq(SizedOps(B)), NEW source \in Seq(B)
    PROVE  Rebuild(source, OptimizeDelta(ops)) = Rebuild(source, ops)
BY OptimizerPreserves DEF Preserves
=============================================================================
