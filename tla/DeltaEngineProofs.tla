-------------------------- MODULE DeltaEngineProofs --------------------------
(***************************************************************************)
(* Proofs about the delta engine, for all files, block sizes and hash      *)
(* parameters.                                                             *)
(***************************************************************************)
EXTENDS DeltaEngine, DeltaOpsProofs

-----------------------------------------------------------------------------
(* Arithmetic modulo m.                                                    *)

Cong(a, b, m) == \E k \in Int : a = b + k * m

LEMMA ModRange ==
    ASSUME NEW a \in Int, NEW m \in Nat \ {0}
    PROVE  a % m \in 0..(m - 1) /\ a = m * (a \div m) + (a % m) /\ a \div m \in Int
OBVIOUS

LEMMA ProductType == ASSUME NEW a \in Nat, NEW b \in Nat PROVE a * b \in Nat
OBVIOUS

LEMMA CongMod ==
    ASSUME NEW a \in Int, NEW m \in Nat \ {0}
    PROVE  Cong(a % m, a, m)
<1>1. PICK q \in Int : a = m * q + (a % m)
  BY ModRange
<1>2. a % m \in Int
  BY ModRange
<1>a. PICK j \in Int : j = -q
  OBVIOUS
<1>3. a % m = a + j * m
  BY <1>1, <1>2, <1>a
<1> QED
  BY <1>3 DEF Cong

LEMMA CongSum ==
    ASSUME NEW a \in Int, NEW b \in Int, NEW c \in Int, NEW d \in Int, NEW m \in Nat \ {0},
           Cong(a, b, m), Cong(c, d, m)
    PROVE  Cong(a + c, b + d, m)
<1>1. PICK k \in Int : a = b + k * m
  BY DEF Cong
<1>2. PICK l \in Int : c = d + l * m
  BY DEF Cong
<1>a. PICK j \in Int : j = k + l
  OBVIOUS
<1>3. a + c = (b + d) + j * m
  BY <1>1, <1>2, <1>a
<1> QED
  BY <1>3 DEF Cong

LEMMA CongProduct ==
    ASSUME NEW a \in Int, NEW b \in Int, NEW c \in Int, NEW m \in Nat \ {0}, Cong(a, b, m)
    PROVE  Cong(a * c, b * c, m) /\ Cong(c * a, c * b, m)
<1>1. PICK k \in Int : a = b + k * m
  BY DEF Cong
<1>2. a * c = b * c + (k * c) * m
  BY <1>1
<1>3. c * a = a * c /\ c * b = b * c
  OBVIOUS
<1> QED
  BY <1>2, <1>3 DEF Cong

LEMMA CongSym ==
    ASSUME NEW a \in Int, NEW b \in Int, NEW m \in Nat \ {0}, Cong(a, b, m)
    PROVE  Cong(b, a, m)
<1>1. PICK k \in Int : a = b + k * m
  BY DEF Cong
<1>2. b = a + (-k) * m
  BY <1>1
<1> QED
  BY <1>2 DEF Cong

LEMMA CongTrans ==
    ASSUME NEW a \in Int, NEW b \in Int, NEW c \in Int, NEW m \in Nat \ {0},
           Cong(a, b, m), Cong(b, c, m)
    PROVE  Cong(a, c, m)
<1>1. PICK k \in Int : a = b + k * m
  BY DEF Cong
<1>2. PICK l \in Int : b = c + l * m
  BY DEF Cong
<1>a. PICK j \in Int : j = k + l
  OBVIOUS
<1>3. a = c + j * m
  BY <1>1, <1>2, <1>a
<1> QED
  BY <1>3 DEF Cong

LEMMA CongUnique ==
    ASSUME NEW m \in Nat \ {0}, NEW a \in 0..(m - 1), NEW b \in 0..(m - 1), Cong(a, b, m)
    PROVE  a = b
<1>1. PICK k \in Int : a = b + k * m
  BY DEF Cong
<1>2. k * m < m /\ k * m > -m
  BY <1>1
<1>3. k < 1 /\ k > -1
  BY <1>2
<1> QED
  BY <1>1, <1>3
-----------------------------------------------------------------------------
(* The rolling hash.                                                       *)

\* The recursion of FastHash, spelt out.
LEMMA HashSteps ==
    ASSUME NEW data \in Seq(Nat)
    PROVE  \E t \in [0..Len(data) -> (0..(Mod - 1))] :
              /\ t[0] = 0
              /\ \A i \in 1..Len(data) : t[i] = ((t[i - 1] * Base + data[i]) % Mod)
              /\ FastHash(data) = t[Len(data)]
<1> DEFINE V == (0..(Mod - 1))
           n == Len(data)
           Rec(t) == t = [i \in 0..n |-> IF i = 0 THEN 0 ELSE ((t[i - 1] * Base + data[i]) % Mod)]
           T == CHOOSE t : Rec(t)
<1>0. n \in Nat /\ 0 \in V /\ \A i \in 1..n, d \in V : ((d * Base + data[i]) % Mod) \in V
  <2>1. \A i \in 1..n : data[i] \in Nat
    OBVIOUS
  <2>2. ASSUME NEW i \in 1..n, NEW d \in V PROVE (d * Base + data[i]) % Mod \in V
    <3>1. d \in Nat /\ Base \in Nat /\ data[i] \in Nat /\ Mod \in Nat \ {0}
      BY <2>1, EngineAssumption
    <3>2. d * Base \in Nat
      BY <3>1, ProductType
    <3>3. PICK a \in Int : a = d * Base + data[i]
      BY <3>1, <3>2
    <3>4. a % Mod \in 0..(Mod - 1)
      BY <3>1, ModRange
    <3> QED
      BY <3>3, <3>4
  <2> QED
    BY <2>2, EngineAssumption
<1>1. \E t : Rec(t)
  <2> DEFINE step == [i \in 1..n |-> [d \in V |-> ((d * Base + data[i]) % Mod)]]
  <2>1. step \in [1..n -> [V -> V]]
    BY <1>0
  <2>2. PICK t \in [0..n -> V] : Solves(t, n, 0, step)
    <3> HIDE DEF step, n, V
    <3> QED
      BY <1>0, <2>1, SolutionExists
  <2>3. ASSUME NEW i \in 0..n
        PROVE  t[i] = IF i = 0 THEN 0 ELSE ((t[i - 1] * Base + data[i]) % Mod)
    <3>1. t[i] = IF i = 0 THEN 0 ELSE step[i][t[i - 1]]
      BY <2>2 DEF Solves
    <3>2. i # 0 => t[i] = ((t[i - 1] * Base + data[i]) % Mod)
      <4> HAVE i # 0
      <4> HIDE DEF n, V
      <4>1. i \in 1..n /\ i - 1 \in 0..n
        <5>1. n \in Nat
          BY <1>0
        <5> QED
          BY <5>1
      <4>2. t[i - 1] \in V
        BY <2>2, <4>1
      <4>3. step[i][t[i - 1]] = ((t[i - 1] * Base + data[i]) % Mod)
        BY <4>1, <4>2
      <4> QED
        BY <3>1, <4>3
    <3> QED
      BY <3>1, <3>2
  <2> QED
    BY <2>2, <2>3
<1>2. Rec(T)
  BY <1>1
<1>3. FastHash(data) = T[n]
  BY DEF FastHash
<1> HIDE DEF T
<1>4. T[0] = 0 /\ \A i \in 1..n : T[i] = ((T[i - 1] * Base + data[i]) % Mod)
  <2>1. \A i \in 0..n : T[i] = IF i = 0 THEN 0 ELSE ((T[i - 1] * Base + data[i]) % Mod)
    BY <1>2
  <2> HIDE DEF n
  <2> QED
    BY <1>0, <2>1
<1>5. \A i \in 0..n : T[i] \in V
  <2> HIDE DEF n, V
  <2>1. \A i \in 1..n : T[i - 1] \in V => T[i] \in V
    BY <1>0, <1>4
  <2> QED
    BY <1>0, <1>4, <2>1, SolutionType
<1>6. T \in [0..n -> V]
  BY <1>2, <1>5
<1> QED
  BY <1>3, <1>4, <1>6

\* The recursion of BasePow, spelt out.
LEMMA PowerSteps ==
    \E t \in [0..(BlockSize - 1) -> Nat] :
       /\ t[0] = 1
       /\ \A i \in 1..(BlockSize - 1) : t[i] = ((t[i - 1] * Base) % Mod)
       /\ BasePow = t[(BlockSize - 1)]
<1> DEFINE V == Nat
           n == (BlockSize - 1)
           Rec(t) == t = [i \in 0..n |-> IF i = 0 THEN 1 ELSE ((t[i - 1] * Base) % Mod)]
           T == CHOOSE t : Rec(t)
<1>0. n \in Nat /\ 1 \in V /\ \A i \in 1..n, d \in V : ((d * Base) % Mod) \in V
  <2>2. ASSUME NEW i \in 1..n, NEW d \in V PROVE (d * Base) % Mod \in V
    <3>1. d \in Nat /\ Base \in Nat /\ Mod \in Nat \ {0}
      BY EngineAssumption
    <3>2. d * Base \in Nat
      BY <3>1, ProductType
    <3>3. PICK a \in Int : a = d * Base
      BY <3>2
    <3>4. a % Mod \in 0..(Mod - 1)
      BY <3>1, ModRange
    <3> QED
      BY <3>3, <3>4
  <2> QED
    BY <2>2, EngineAssumption
<1>1. \E t : Rec(t)
  <2> DEFINE step == [i \in 1..n |-> [d \in V |-> ((d * Base) % Mod)]]
  <2>1. step \in [1..n -> [V -> V]]
    BY <1>0
  <2>2. PICK t \in [0..n -> V] : Solves(t, n, 1, step)
    <3> HIDE DEF step, n, V
    <3> QED
      BY <1>0, <2>1, SolutionExists
  <2>3. ASSUME NEW i \in 0..n
        PROVE  t[i] = IF i = 0 THEN 1 ELSE ((t[i - 1] * Base) % Mod)
    <3>1. t[i] = IF i = 0 THEN 1 ELSE step[i][t[i - 1]]
      BY <2>2 DEF Solves
    <3>2. i # 0 => t[i] = ((t[i - 1] * Base) % Mod)
      <4> HAVE i # 0
      <4> HIDE DEF n, V
      <4>1. i \in 1..n /\ i - 1 \in 0..n
        <5>1. n \in Nat
          BY <1>0
        <5> QED
          BY <5>1
      <4>2. t[i - 1] \in V
        BY <2>2, <4>1
      <4>3. step[i][t[i - 1]] = ((t[i - 1] * Base) % Mod)
        BY <4>1, <4>2
      <4> QED
        BY <3>1, <4>3
    <3> QED
      BY <3>1, <3>2
  <2> QED
    BY <2>2, <2>3
<1>2. Rec(T)
  BY <1>1
<1>3. BasePow = T[n]
  BY DEF BasePow
<1> HIDE DEF T
<1>4. T[0] = 1 /\ \A i \in 1..n : T[i] = ((T[i - 1] * Base) % Mod)
  <2>1. \A i \in 0..n : T[i] = IF i = 0 THEN 1 ELSE ((T[i - 1] * Base) % Mod)
    BY <1>2
  <2> HIDE DEF n
  <2> QED
    BY <1>0, <2>1
<1>5. \A i \in 0..n : T[i] \in V
  <2> HIDE DEF n, V
  <2>1. \A i \in 1..n : T[i - 1] \in V => T[i] \in V
    BY <1>0, <1>4
  <2> QED
    BY <1>0, <1>4, <2>1, SolutionType
<1>6. T \in [0..n -> V]
  BY <1>2, <1>5
<1> QED
  BY <1>3, <1>4, <1>6

\* Hashes that differ by the oldest byte still do once a byte x is added.
LEMMA HashesStayApart ==
    ASSUME NEW m \in Nat \ {0}, NEW b \in Nat, NEW w \in Nat, NEW x \in Nat,
           NEW p \in Nat, NEW g \in Nat, NEW h \in Nat, Cong(h, w * p + g, m)
    PROVE  Cong((h * b + x) % m, w * ((p * b) % m) + ((g * b + x) % m), m)
<1>1. PICK r \in Int : r = w * p + g
  <2>1. w * p \in Nat
    BY ProductType
  <2> QED
    BY <2>1
<1>2. PICK hb \in Int : hb = h * b
  BY ProductType
<1>3. PICK rb \in Int : rb = r * b
  OBVIOUS
<1>4. PICK pb \in Int : pb = p * b
  BY ProductType
<1>5. PICK gb \in Int : gb = g * b
  BY ProductType
<1>6. Cong(hb, rb, m)
  <2>1. Cong(h, r, m)
    BY <1>1
  <2>2. h \in Int /\ b \in Int
    OBVIOUS
  <2>3. Cong(h * b, r * b, m)
    BY <2>1, <2>2, CongProduct
  <2> QED
    BY <1>2, <1>3, <2>3
<1>7. PICK hx \in Int : hx = hb + x
  OBVIOUS
<1>8. PICK rx \in Int : rx = rb + x
  OBVIOUS
<1>9. Cong(hx, rx, m)
  <2>1. PICK k \in Int : hb = rb + k * m
    BY <1>6 DEF Cong
  <2>2. hx = rx + k * m
    BY <1>7, <1>8, <2>1
  <2> QED
    BY <2>2 DEF Cong
<1>10. PICK gx \in Int : gx = gb + x
  OBVIOUS
<1>11. rx = w * pb + gx
  <2>1. r * b = (w * p) * b + g * b
    <3>1. PICK wp \in Int : wp = w * p
      BY ProductType
    <3>2. (wp + g) * b = wp * b + g * b
      OBVIOUS
    <3> QED
      BY <1>1, <3>1, <3>2
  <2>2. (w * p) * b = w * (p * b)
    OBVIOUS
  <2> QED
    BY <1>3, <1>4, <1>5, <1>8, <1>10, <2>1, <2>2
<1>12. PICK pm \in Int : pm = pb % m
  <2>1. pb % m \in 0..(m - 1)
    BY ModRange
  <2> QED
    BY <2>1
<1>13. PICK gm \in Int : gm = gx % m
  <2>1. gx % m \in 0..(m - 1)
    BY ModRange
  <2> QED
    BY <2>1
<1>14. PICK hm \in Int : hm = hx % m
  <2>1. hx % m \in 0..(m - 1)
    BY ModRange
  <2> QED
    BY <2>1
<1>15. Cong(hm, hx, m) /\ Cong(gm, gx, m) /\ Cong(pm, pb, m)
  BY <1>12, <1>13, <1>14, CongMod
<1>16. PICK wb \in Int : wb = w * pb
  OBVIOUS
<1>17. PICK wm \in Int : wm = w * pm
  OBVIOUS
<1>18. Cong(wm, wb, m)
  BY <1>15, <1>16, <1>17, CongProduct
<1>19. PICK sm \in Int : sm = wm + gm
  OBVIOUS
<1>20. Cong(sm, rx, m)
  <2>1. Cong(wm + gm, wb + gx, m)
    BY <1>15, <1>18, CongSum
  <2> QED
    BY <1>11, <1>16, <1>19, <2>1
<1>21. Cong(hm, rx, m)
  BY <1>9, <1>15, CongTrans
<1>22. Cong(rx, sm, m)
  BY <1>20, CongSym
<1>23. Cong(hm, sm, m)
  BY <1>21, <1>22, CongTrans
<1>24. hm = (h * b + x) % m
  BY <1>2, <1>7, <1>14
<1>25. sm = w * ((p * b) % m) + ((g * b + x) % m)
  BY <1>4, <1>5, <1>10, <1>12, <1>13, <1>17, <1>19
<1> QED
  BY <1>23, <1>24, <1>25

\* Taking the oldest byte out leaves the hash of the others.
LEMMA OldestRemoved ==
    ASSUME NEW m \in Nat \ {0}, NEW w \in Nat, NEW p \in Nat,
           NEW g \in 0..(m - 1), NEW h \in 0..(m - 1), Cong(h, w * p + g, m)
    PROVE  (h + m - ((w * p) % m)) % m = g
<1>1. PICK wp \in Int : wp = w * p
  BY ProductType
<1>2. PICK r \in 0..(m - 1) : r = wp % m
  BY ModRange
<1>3. Cong(r, wp, m)
  BY <1>2, CongMod
<1>4. PICK a \in Int : h = wp + g + a * m
  <2>1. PICK k \in Int : h = (w * p + g) + k * m
    BY DEF Cong
  <2> QED
    BY <1>1, <2>1
<1>5. PICK c \in Int : r = wp + c * m
  BY <1>3 DEF Cong
<1>6. PICK s \in Int : s = h + m - r
  OBVIOUS
<1>7. PICK e \in Int : e = a - c + 1
  OBVIOUS
<1>8. s = g + e * m
  <2>1. (a - c + 1) * m = a * m - c * m + m
    OBVIOUS
  <2> QED
    BY <1>4, <1>5, <1>6, <1>7, <2>1
<1>9. Cong(s, g, m)
  BY <1>8 DEF Cong
<1>10. PICK n \in 0..(m - 1) : n = s % m
  BY ModRange
<1>11. Cong(n, s, m)
  BY <1>10, CongMod
<1>12. Cong(n, g, m)
  <2>1. n \in Int /\ g \in Int
    OBVIOUS
  <2> QED
    BY <1>9, <1>11, <2>1, CongTrans
<1>13. n = g
  BY <1>12, CongUnique
<1> QED
  BY <1>1, <1>2, <1>6, <1>10, <1>13

LEMMA HashRange ==
    ASSUME NEW data \in Seq(Nat)
    PROVE  FastHash(data) \in 0..(Mod - 1)
<1>1. PICK t \in [0..Len(data) -> 0..(Mod - 1)] : FastHash(data) = t[Len(data)]
  BY HashSteps
<1> QED
  BY <1>1

\* rollBlockHash gives the hash of the window that has moved on by one byte:
\* v is w without its first byte, and with one more at the end.
LEMMA RollHashIsHash ==
    ASSUME NEW w \in Seq(Nat), NEW v \in Seq(Nat),
           Len(w) = BlockSize, Len(v) = BlockSize,
           \A i \in 1..(BlockSize - 1) : v[i] = w[i + 1]
    PROVE  RollHash(FastHash(w), w[1], v[BlockSize]) = FastHash(v)
<1>0. /\ Mod \in Nat \ {0} /\ Base \in Nat /\ BlockSize \in Nat \ {0}
      /\ \A i \in 1..BlockSize : w[i] \in Nat /\ v[i] \in Nat
  BY EngineAssumption
<1>1. PICK h \in [0..BlockSize -> 0..(Mod - 1)] :
         /\ h[0] = 0
         /\ \A i \in 1..BlockSize : h[i] = (h[i - 1] * Base + w[i]) % Mod
         /\ FastHash(w) = h[BlockSize]
  BY HashSteps
<1>2. PICK g \in [0..BlockSize -> 0..(Mod - 1)] :
         /\ g[0] = 0
         /\ \A i \in 1..BlockSize : g[i] = (g[i - 1] * Base + v[i]) % Mod
         /\ FastHash(v) = g[BlockSize]
  BY HashSteps
<1>3. PICK n \in Nat : n = BlockSize - 1
  BY <1>0
<1>4. PICK p \in [0..n -> Nat] :
         p[0] = 1 /\ (\A i \in 1..n : p[i] = (p[i - 1] * Base) % Mod) /\ BasePow = p[n]
  BY <1>3, PowerSteps
<1>5. w[1] \in Nat
  BY <1>0
<1> DEFINE S == {i \in 0..n : Cong(h[i + 1], w[1] * p[i] + g[i], Mod)}
<1>6. 0 \in S
  <2>1. h[1] = w[1] % Mod
    <3>1. 1 \in 1..BlockSize /\ 1 - 1 = 0 /\ 0 * Base = 0
      BY <1>0
    <3>2. h[1] = (h[1 - 1] * Base + w[1]) % Mod
      BY <1>1, <3>1
    <3>3. h[1] = (0 * Base + w[1]) % Mod
      BY <1>1, <3>1, <3>2
    <3> QED
      BY <1>5, <3>1, <3>3
  <2>2. Cong(h[1], w[1], Mod)
    <3>1. w[1] \in Int
      BY <1>5
    <3>2. Cong(w[1] % Mod, w[1], Mod)
      BY <1>0, <3>1, CongMod
    <3> QED
      BY <2>1, <3>2
  <2>3. w[1] * p[0] + g[0] = w[1]
    BY <1>2, <1>4, <1>5
  <2>4. 0 + 1 = 1 /\ 0 \in 0..n
    OBVIOUS
  <2> QED
    BY <2>2, <2>3, <2>4
<1>7. ASSUME NEW i \in 0..(n - 1), i \in S PROVE i + 1 \in S
  <2>1. /\ i + 1 \in 1..BlockSize /\ i + 2 \in 1..BlockSize /\ (i + 1) - 1 = i
        /\ (i + 2) - 1 = i + 1 /\ (i + 1) + 1 = i + 2
        /\ i + 1 \in 1..n /\ i \in 0..n /\ i + 1 \in 0..n /\ i \in 0..BlockSize
        /\ i + 1 \in 0..BlockSize /\ i + 1 \in 1..(BlockSize - 1)
    BY <1>0, <1>3
  <2>2. PICK x \in Nat : x = w[i + 2]
    BY <1>0, <2>1
  <2>3. x = v[i + 1]
    BY <2>1, <2>2
  <2>4. /\ h[i + 2] = (h[i + 1] * Base + x) % Mod
        /\ g[i + 1] = (g[i] * Base + x) % Mod
        /\ p[i + 1] = (p[i] * Base) % Mod
    BY <1>1, <1>2, <1>4, <2>1, <2>2, <2>3
  <2>5. PICK H \in Nat : H = h[i + 1]
    <3>1. h[i + 1] \in 0..(Mod - 1)
      BY <1>1, <2>1
    <3> QED
      BY <3>1
  <2>6. PICK G \in Nat : G = g[i]
    <3>1. g[i] \in 0..(Mod - 1)
      BY <1>2, <2>1
    <3> QED
      BY <3>1
  <2>7. PICK P \in Nat : P = p[i]
    BY <1>4, <2>1
  <2>8. PICK W \in Nat : W = w[1]
    BY <1>5
  <2>9. Cong(H, W * P + G, Mod)
    BY <1>7, <2>5, <2>6, <2>7, <2>8
  <2>10. Cong((H * Base + x) % Mod, W * ((P * Base) % Mod) + ((G * Base + x) % Mod), Mod)
    BY <1>0, <2>9, HashesStayApart
  <2>11. Cong(h[i + 2], w[1] * p[i + 1] + g[i + 1], Mod)
    BY <2>4, <2>5, <2>6, <2>7, <2>8, <2>10
  <2>12. Cong(h[(i + 1) + 1], w[1] * p[i + 1] + g[i + 1], Mod)
    BY <2>1, <2>11
  <2> QED
    BY <2>1, <2>12
<1> HIDE DEF S
<1>8. n \in S
  <2>1. 0..n \subseteq S
    BY <1>6, <1>7, UpTo
  <2> QED
    BY <2>1
<1>9. PICK H \in 0..(Mod - 1) : H = h[BlockSize]
  <2>1. BlockSize \in 0..BlockSize
    BY <1>0
  <2> QED
    BY <1>1, <2>1
<1>10. PICK G \in 0..(Mod - 1) : G = g[n]
  BY <1>0, <1>2, <1>3, SMTT(20)
<1>11. PICK P \in Nat : P = p[n]
  BY <1>4
<1>12. PICK W \in Nat : W = w[1]
  BY <1>5
<1>13. Cong(H, W * P + G, Mod)
  <2>1. Cong(h[n + 1], w[1] * p[n] + g[n], Mod)
    BY <1>8 DEF S
  <2>2. n + 1 = BlockSize
    BY <1>0, <1>3
  <2> QED
    BY <1>9, <1>10, <1>11, <1>12, <2>1, <2>2
<1>14. (H + Mod - ((W * P) % Mod)) % Mod = G
  BY <1>0, <1>13, OldestRemoved
<1>15. RollHash(FastHash(w), w[1], v[BlockSize]) = (G * Base + v[BlockSize]) % Mod
  BY <1>1, <1>4, <1>9, <1>11, <1>12, <1>14 DEF RollHash
<1>16. g[BlockSize] = (g[n] * Base + v[BlockSize]) % Mod
  <2>1. BlockSize \in 1..BlockSize /\ BlockSize - 1 = n
    BY <1>0, <1>3
  <2>2. g[BlockSize] = (g[BlockSize - 1] * Base + v[BlockSize]) % Mod
    BY <1>2, <2>1
  <2> QED
    BY <2>1, <2>2
<1> QED
  BY <1>2, <1>10, <1>15, <1>16

-----------------------------------------------------------------------------
(* The ring buffer.                                                        *)

\* The ring buffer w read from its oldest byte, at k, on.
Ring(w, k) == SubSeq(w, k + 1, Len(w)) \o SubSeq(w, 1, k)

\* r holds the first n bytes of w from j on, and then the first k.
TwoParts(r, B, w, n, j, k) ==
    /\ r \in Seq(B) /\ Len(r) = (n - j) + k
    /\ \A i \in 1..((n - j) + k) : r[i] = IF i <= n - j THEN w[j + i] ELSE w[i - (n - j)]

LEMMA RingElements ==
    ASSUME NEW B, NEW w \in Seq(B), NEW n \in Nat, Len(w) = n, NEW j \in 0..n, NEW k \in 0..n
    PROVE  TwoParts(Stretch(w, j, n) \o Stretch(w, 0, k), B, w, n, j, k)
<1>0. 0 \in Nat /\ 0 <= k /\ k <= Len(w) /\ j <= n /\ n <= Len(w) /\ j \in Nat /\ k \in Nat
  OBVIOUS
<1>1. PICK s : s = Stretch(w, j, n)
  OBVIOUS
<1>2. PICK t : t = Stretch(w, 0, k)
  OBVIOUS
<1>3. s \in Seq(B) /\ Len(s) = n - j /\ \A i \in 1..(n - j) : s[i] = w[j + i]
  <2>1. /\ Stretch(w, j, n) \in Seq(B) /\ Len(Stretch(w, j, n)) = n - j
        /\ \A i \in 1..(n - j) : Stretch(w, j, n)[i] = w[j + i]
    <3>1. j \in Nat /\ j <= n /\ n <= Len(w)
      BY <1>0
    <3> QED
      BY <3>1, StretchProperties, ZenonT(30)
  <2> QED
    BY <1>1, <2>1, Zenon
<1>4. t \in Seq(B) /\ Len(t) = k /\ \A i \in 1..k : t[i] = w[i]
  <2>1. t \in Seq(B) /\ Len(t) = k - 0 /\ \A i \in 1..(k - 0) : t[i] = w[0 + i]
    <3>1. /\ Stretch(w, 0, k) \in Seq(B) /\ Len(Stretch(w, 0, k)) = k - 0
          /\ \A i \in 1..(k - 0) : Stretch(w, 0, k)[i] = w[0 + i]
      BY <1>0, StretchProperties, ZenonT(30)
    <3> QED
      BY <1>2, <3>1, Zenon
  <2>2. k - 0 = k /\ \A i \in 1..k : 0 + i = i
    OBVIOUS
  <2> QED
    BY <2>1, <2>2
<1>5. /\ s \o t \in Seq(B) /\ Len(s \o t) = Len(s) + Len(t)
      /\ \A i \in 1..(Len(s) + Len(t)) : (s \o t)[i] = IF i <= Len(s) THEN s[i] ELSE t[i - Len(s)]
  BY <1>3, <1>4, ConcatProperties
<1>6. ASSUME NEW i \in 1..((n - j) + k)
      PROVE  (s \o t)[i] = IF i <= n - j THEN w[j + i] ELSE w[i - (n - j)]
  <2>1. (s \o t)[i] = IF i <= n - j THEN s[i] ELSE t[i - (n - j)]
    BY <1>3, <1>4, <1>5
  <2>2. CASE i <= n - j
    BY <1>3, <2>1, <2>2
  <2>3. CASE ~(i <= n - j)
    <3>1. i - (n - j) \in 1..k
      BY <2>3
    <3> QED
      BY <1>4, <2>1, <2>3, <3>1
  <2> QED
    BY <2>2, <2>3
<1>7. Len(s \o t) = (n - j) + k
  BY <1>3, <1>4, <1>5
<1>8. TwoParts(s \o t, B, w, n, j, k)
  BY <1>5, <1>6, <1>7 DEF TwoParts
<1> QED
  BY <1>1, <1>2, <1>8

\* w is a ring buffer of n elements of B, the oldest one at k.
IsRing(B, w, n, k) ==
    w \in Seq(B) /\ n \in Nat \ {0} /\ Len(w) = n /\ k \in 0..(n - 1)

LEMMA RingProperties ==
    ASSUME NEW B, NEW w, NEW n, NEW k, IsRing(B, w, n, k)
    PROVE  /\ Ring(w, k) \in Seq(B) /\ Len(Ring(w, k)) = n
           /\ \A i \in 1..n : Ring(w, k)[i] = IF i <= n - k THEN w[k + i] ELSE w[i - (n - k)]
<1>0. w \in Seq(B) /\ n \in Nat \ {0} /\ Len(w) = n /\ k \in 0..(n - 1)
  BY DEF IsRing
<1>1. k \in 0..n /\ n \in Nat /\ (n - k) + k = n
  BY <1>0
<1>2. Ring(w, k) = Stretch(w, k, n) \o Stretch(w, 0, k)
  BY <1>0 DEF Ring, Stretch
<1>3. PICK r : r = Stretch(w, k, n) \o Stretch(w, 0, k)
  OBVIOUS
<1>4. /\ r \in Seq(B) /\ Len(r) = (n - k) + k
      /\ \A i \in 1..((n - k) + k) : r[i] = IF i <= n - k THEN w[k + i] ELSE w[i - (n - k)]
  <2>1. TwoParts(r, B, w, n, k, k)
    <3>1. TwoParts(Stretch(w, k, n) \o Stretch(w, 0, k), B, w, n, k, k)
      BY <1>0, <1>1, RingElements
    <3> QED
      BY <1>3, <3>1
  <2> QED
    BY <2>1 DEF TwoParts
<1> QED
  BY <1>1, <1>2, <1>3, <1>4, Zenon

\* A window just loaded starts at the buffer's first place.
LEMMA RingLoaded ==
    ASSUME NEW B, NEW w \in Seq(B)
    PROVE  Ring(w, 0) = w
<1>1. SubSeq(w, 1, Len(w)) = w
  BY SubSeqFull
<1>2. SubSeq(w, 1, 0) = <<>>
  BY SubSeqEmpty
<1> QED
  BY <1>1, <1>2 DEF Ring

\* v is the ring buffer w, of n bytes, with x in the place k of the oldest one,
\* and next is the place after it.
Slid(B, w, n, k, x, v, next) ==
    /\ IsRing(B, w, n, k) /\ x \in B
    /\ v = [w EXCEPT ![k + 1] = x] /\ next = (k + 1) % n

\* Read from there, it is the window without its first byte, and x at the end.
LEMMA RingSlides ==
    ASSUME NEW B, NEW w, NEW n, NEW k, NEW x, NEW v, NEW next, Slid(B, w, n, k, x, v, next)
    PROVE  /\ v \in Seq(B) /\ Len(v) = n /\ next \in 0..(n - 1)
           /\ Ring(v, next) \in Seq(B) /\ Len(Ring(v, next)) = n
           /\ \A i \in 1..(n - 1) : Ring(v, next)[i] = Ring(w, k)[i + 1]
           /\ Ring(v, next)[n] = x
           /\ Ring(w, k)[1] = w[k + 1]
<1>a. /\ w \in Seq(B) /\ n \in Nat \ {0} /\ Len(w) = n /\ k \in 0..(n - 1) /\ x \in B
      /\ v = [w EXCEPT ![k + 1] = x] /\ next = (k + 1) % n
  BY DEF Slid, IsRing
<1>2. /\ v \in Seq(B) /\ Len(v) = n /\ v[k + 1] = x
      /\ \A i \in 1..n : i # k + 1 => v[i] = w[i]
  BY <1>a
<1>3. next \in 0..(n - 1) /\ next = IF k + 1 = n THEN 0 ELSE k + 1
  <2>1. CASE k + 1 = n
    <3>1. n % n = 0
      BY <1>a
    <3>2. 0 \in 0..(n - 1)
      BY <1>a
    <3> QED
      BY <1>a, <2>1, <3>1, <3>2
  <2>2. CASE k + 1 # n
    <3>1. k + 1 \in 0..(n - 1)
      BY <1>a, <2>2
    <3>2. (k + 1) % n = k + 1
      BY <1>a, <3>1
    <3> QED
      BY <1>a, <2>2, <3>1, <3>2
  <2> QED
    BY <2>1, <2>2
<1>4. /\ Ring(w, k) \in Seq(B) /\ Len(Ring(w, k)) = n
      /\ \A i \in 1..n : Ring(w, k)[i] = IF i <= n - k THEN w[k + i] ELSE w[i - (n - k)]
  <2>1. IsRing(B, w, n, k)
    BY <1>a DEF IsRing
  <2> QED
    BY <2>1, RingProperties
<1>5. /\ Ring(v, next) \in Seq(B) /\ Len(Ring(v, next)) = n
      /\ \A i \in 1..n : Ring(v, next)[i] = IF i <= n - next THEN v[next + i] ELSE v[i - (n - next)]
  <2>1. IsRing(B, v, n, next)
    BY <1>a, <1>2, <1>3 DEF IsRing
  <2> QED
    BY <2>1, RingProperties
<1>6. ASSUME NEW i \in 1..(n - 1) PROVE Ring(v, next)[i] = Ring(w, k)[i + 1]
  <2>1. i \in 1..n /\ i + 1 \in 1..n
    BY <1>a
  <2>2. Ring(v, next)[i] = IF i <= n - next THEN v[next + i] ELSE v[i - (n - next)]
    BY <1>a, <1>5, <2>1
  <2>3. Ring(w, k)[i + 1] = IF i + 1 <= n - k THEN w[k + (i + 1)] ELSE w[(i + 1) - (n - k)]
    BY <1>a, <1>4, <2>1
  <2>4. CASE k + 1 = n
    <3>1. Ring(v, next)[i] = v[i]
      <4>1. next = 0 /\ i <= n - next /\ next + i = i
        BY <1>a, <1>3, <2>4
      <4> QED
        BY <1>a, <2>2, <4>1
    <3>2. Ring(w, k)[i + 1] = w[i]
      BY <1>a, <2>3, <2>4
    <3>3. v[i] = w[i]
      BY <1>a, <1>2, <2>1, <2>4
    <3> QED
      BY <1>a, <3>1, <3>2, <3>3
  <2>5. CASE k + 1 # n
    <3>1. next = k + 1
      BY <1>a, <1>3, <2>5
    <3>2. CASE i <= n - (k + 1)
      <4>1. Ring(v, next)[i] = v[(k + 1) + i]
        BY <1>a, <2>2, <3>1, <3>2
      <4>2. Ring(w, k)[i + 1] = w[(k + 1) + i]
        BY <1>a, <2>3, <3>2
      <4>3. v[(k + 1) + i] = w[(k + 1) + i]
        BY <1>a, <1>2, <3>2
      <4> QED
        BY <1>a, <4>1, <4>2, <4>3
    <3>3. CASE ~(i <= n - (k + 1))
      <4>1. PICK j \in 1..n : j = i - (n - (k + 1)) /\ j # k + 1
        BY <1>a, <3>3
      <4>2. Ring(v, next)[i] = v[j]
        BY <1>a, <2>2, <3>1, <3>3, <4>1
      <4>3. Ring(w, k)[i + 1] = w[j]
        <5>1. (i + 1) - (n - k) = j /\ ~(i + 1 <= n - k)
          BY <1>a, <3>3, <4>1
        <5> QED
          BY <1>a, <2>3, <5>1
      <4>4. v[j] = w[j]
        BY <1>a, <1>2, <4>1
      <4> QED
        BY <1>a, <4>2, <4>3, <4>4
    <3> QED
      BY <1>a, <3>2, <3>3
  <2> QED
    BY <1>a, <2>4, <2>5
<1>7. Ring(v, next)[n] = x
  <2>1. n \in 1..n
    BY <1>a
  <2>2. Ring(v, next)[n] = IF n <= n - next THEN v[next + n] ELSE v[n - (n - next)]
    BY <1>a, <1>5, <2>1
  <2>3. CASE next = 0
    <3>1. k + 1 = n
      BY <1>a, <1>3, <2>3
    <3>2. Ring(v, next)[n] = v[n]
      BY <1>a, <2>2, <2>3, SMTT(20)
    <3> QED
      BY <1>a, <1>2, <3>1, <3>2
  <2>4. CASE next # 0
    <3>1. next = k + 1
      BY <1>a, <1>3, <2>4
    <3>2. Ring(v, next)[n] = v[k + 1]
      BY <1>a, <2>2, <2>4, <3>1
    <3> QED
      BY <1>a, <1>2, <3>2
  <2> QED
    BY <1>a, <2>3, <2>4
<1>8. Ring(w, k)[1] = w[k + 1]
  <2>1. 1 \in 1..n /\ 1 <= n - k
    BY <1>a
  <2> QED
    BY <1>a, <1>4, <2>1
<1> QED
  BY <1>2, <1>3, <1>5, <1>6, <1>7, <1>8

RingBut(w, k) == SubSeq(w, k + 2, Len(w)) \o SubSeq(w, 1, k)

\* All of the ring but its oldest byte.
LEMMA RingRest ==
    ASSUME NEW B, NEW w, NEW n, NEW k, IsRing(B, w, n, k)
    PROVE  /\ RingBut(w, k) \in Seq(B) /\ Len(RingBut(w, k)) = n - 1
           /\ \A i \in 1..(n - 1) : RingBut(w, k)[i] = Ring(w, k)[i + 1]
<1>0. w \in Seq(B) /\ n \in Nat \ {0} /\ Len(w) = n /\ k \in 0..(n - 1)
  BY DEF IsRing
<1>1. PICK j \in 0..n : j = k + 1
  BY <1>0
<1>2. PICK rest : rest = RingBut(w, k)
  OBVIOUS
<1>3. rest = Stretch(w, j, n) \o Stretch(w, 0, k)
  <2>1. j + 1 = k + 2 /\ 0 + 1 = 1
    BY <1>0, <1>1
  <2> QED
    BY <1>0, <1>2, <2>1 DEF Stretch, RingBut
<1>4. k \in 0..n /\ n \in Nat /\ (n - j) + k = n - 1
  BY <1>0, <1>1
<1>5. /\ rest \in Seq(B) /\ Len(rest) = (n - j) + k
      /\ \A i \in 1..((n - j) + k) : rest[i] = IF i <= n - j THEN w[j + i] ELSE w[i - (n - j)]
  <2>1. TwoParts(rest, B, w, n, j, k)
    <3>1. TwoParts(Stretch(w, j, n) \o Stretch(w, 0, k), B, w, n, j, k)
      BY <1>0, <1>4, RingElements
    <3> QED
      BY <1>3, <3>1
  <2> QED
    BY <2>1 DEF TwoParts
<1>6. \A i \in 1..n : Ring(w, k)[i] = IF i <= n - k THEN w[k + i] ELSE w[i - (n - k)]
  BY RingProperties
<1>7. ASSUME NEW i \in 1..(n - 1) PROVE rest[i] = Ring(w, k)[i + 1]
  <2>1. i + 1 \in 1..n /\ i \in 1..((n - j) + k)
    BY <1>0, <1>4
  <2>2. rest[i] = IF i <= n - j THEN w[j + i] ELSE w[i - (n - j)]
    BY <1>5, <2>1
  <2>3. Ring(w, k)[i + 1] = IF i + 1 <= n - k THEN w[k + (i + 1)] ELSE w[(i + 1) - (n - k)]
    BY <1>6, <2>1
  <2> QED
    BY <1>0, <1>1, <2>2, <2>3
<1>8. Len(rest) = n - 1
  BY <1>4, <1>5
<1> QED
  BY <1>2, <1>5, <1>7, <1>8

-----------------------------------------------------------------------------
(* What the operations of a delta from o to n are, one by one.             *)

\* No block of o has the hash, the size and the checksum of some other bytes
\* that the scan of n may look up.
NoFalseMatch(o, n) ==
    \A i \in DOMAIN Signature(o), p \in 0..Len(n), k \in 0..BlockSize :
        Matches(Signature(o)[i], FastHash(Slice(n, p, k)), Slice(n, p, k)) =>
            Slice(o, Signature(o)[i].offset, Signature(o)[i].size) = Slice(n, p, k)

\* n does not have a full block of o at q.
NoBlockAt(o, n, q) ==
    \A b \in DOMAIN Signature(o) :
        Signature(o)[b].size = BlockSize =>
            Slice(o, Signature(o)[b].offset, BlockSize) # Stretch(n, q, q + BlockSize)

\* n does not have one anywhere from a to e.
NoBlockIn(o, n, a, e) == \A q \in a..(e - BlockSize) : NoBlockAt(o, n, q)

InsertRight(op, o, n) ==
    /\ op.offset + op.size <= Len(n)
    /\ op.data = Stretch(n, op.offset, op.offset + op.size)
    /\ EnableCRC32 => NoBlockIn(o, n, op.offset, op.offset + op.size)

OpRight(op, o, n) ==
    /\ NoFalseMatch(o, n) => WritesPart(op, o, n)
    /\ op.type = "insert" => InsertRight(op, o, n)

GoodOps(d, o, n) ==
    /\ d \in Seq(OpsOf(Bytes)) /\ Tiles(d) /\ NoDeletes(d)
    /\ \A i \in 1..Len(d) : OpRight(d[i], o, n)

EndsInCopy(d) == Len(d) > 0 => d[Len(d)].type = "copy"

\* Insert data, at start, follows the operations d and takes them to end; no
\* block of o is in it up to seen.
PendingRight(d, start, data, end, seen, o, n) ==
    IF data = <<>>
    THEN Reach(d) = end
    ELSE /\ Reach(d) = start /\ start < end
         /\ data = Stretch(n, start, end)
         /\ EnableCRC32 => NoBlockIn(o, n, start, seen)

LEMMA AppendGood ==
    ASSUME NEW o, NEW n, NEW d, GoodOps(d, o, n), NEW op \in OpsOf(Bytes),
           op.offset = Reach(d), op.size > 0, op.type # "delete", OpRight(op, o, n)
    PROVE  GoodOps(Append(d, op), o, n) /\ Reach(Append(d, op)) = op.offset + op.size
<1>1. d \in Seq(OpsOf(Bytes)) /\ Tiles(d) /\ NoDeletes(d) /\ \A i \in 1..Len(d) : OpRight(d[i], o, n)
  BY DEF GoodOps
<1>2. PICK all : all = Append(d, op)
  OBVIOUS
<1>3. all \in Seq(OpsOf(Bytes)) /\ Tiles(all) /\ Reach(all) = op.offset + op.size
  BY <1>1, <1>2, AppendTiles
<1>4. Len(all) = Len(d) + 1 /\ all[Len(d) + 1] = op /\ \A i \in 1..Len(d) : all[i] = d[i]
  BY <1>1, <1>2, AppendProperties
<1>5. ASSUME NEW i \in 1..Len(all) PROVE OpRight(all[i], o, n) /\ all[i].type # "delete"
  <2>1. Len(d) \in Nat
    BY <1>1
  <2>2. CASE i = Len(d) + 1
    BY <1>4, <2>2
  <2>3. CASE i # Len(d) + 1
    <3>1. i \in 1..Len(d)
      BY <1>4, <2>1, <2>3
    <3>2. all[i] = d[i] /\ OpRight(d[i], o, n) /\ d[i].type # "delete"
      BY <1>1, <1>4, <3>1 DEF NoDeletes
    <3> QED
      BY <3>2
  <2> QED
    BY <2>2, <2>3
<1>6. NoDeletes(all)
  BY <1>5 DEF NoDeletes
<1> QED
  BY <1>2, <1>3, <1>5, <1>6 DEF GoodOps

LEMMA AppendAlternates ==
    ASSUME NEW d \in Seq(OpsOf(Bytes)), NEW op \in OpsOf(Bytes), NoAdjacentInserts(d),
           EndsInCopy(d) \/ op.type # "insert"
    PROVE  NoAdjacentInserts(Append(d, op)) /\ (op.type = "copy" => EndsInCopy(Append(d, op)))
<1>1. PICK all : all = Append(d, op)
  OBVIOUS
<1>2. /\ Len(all) = Len(d) + 1 /\ all[Len(d) + 1] = op /\ Len(d) \in Nat
      /\ \A i \in 1..Len(d) : all[i] = d[i]
  BY <1>1, AppendProperties
<1>3. ASSUME NEW i \in 1..(Len(all) - 1), all[i].type = "insert"
      PROVE  all[i + 1].type # "insert"
  <2>1. i \in 1..Len(d)
    BY <1>2
  <2>2. all[i] = d[i]
    BY <1>2, <2>1
  <2>3. CASE i = Len(d)
    <3>1. all[i + 1] = op
      BY <1>2, <2>3
    <3>2. Len(d) > 0 /\ d[Len(d)].type = "insert"
      BY <1>2, <1>3, <2>1, <2>2, <2>3
    <3>3. ~EndsInCopy(d)
      BY <3>2 DEF EndsInCopy
    <3> QED
      BY <3>1, <3>3
  <2>4. CASE i # Len(d)
    <3>1. i \in 1..(Len(d) - 1) /\ i + 1 \in 1..Len(d)
      BY <1>2, <2>1, <2>4
    <3>2. d[i + 1].type # "insert"
      BY <1>3, <2>2, <3>1 DEF NoAdjacentInserts
    <3> QED
      BY <1>2, <3>1, <3>2
  <2> QED
    BY <2>3, <2>4
<1>4. NoAdjacentInserts(all)
  BY <1>3 DEF NoAdjacentInserts
<1>5. op.type = "copy" => EndsInCopy(all)
  BY <1>2 DEF EndsInCopy
<1> QED
  BY <1>1, <1>4, <1>5

LEMMA InsertIsRight ==
    ASSUME NEW o \in Seq(Bytes), NEW n \in Seq(Bytes), NEW a \in Nat, NEW b \in Nat, a < b, b <= Len(n),
           EnableCRC32 => NoBlockIn(o, n, a, b)
    PROVE  LET op == Insert(a, Stretch(n, a, b))
           IN  /\ op \in OpsOf(Bytes) /\ op.type = "insert" /\ op.offset = a /\ op.size = b - a
               /\ op.size > 0 /\ OpRight(op, o, n)
<1>1. PICK data \in Seq(Bytes) : data = Stretch(n, a, b) /\ Len(data) = b - a
  <2>1. a <= b
    OBVIOUS
  <2>2. Stretch(n, a, b) \in Seq(Bytes) /\ Len(Stretch(n, a, b)) = b - a
    BY <2>1, StretchProperties
  <2> QED
    BY <2>2
<1>2. PICK op : op = Insert(a, data)
  OBVIOUS
<1>3. /\ op \in OpsOf(Bytes) /\ op.type = "insert" /\ op.offset = a /\ op.size = b - a
      /\ op.size > 0 /\ op.data = data
  BY <1>1, <1>2 DEF Insert, OpsOf
<1>4. op.offset + op.size = b
  BY <1>3
<1>5. InsertRight(op, o, n)
  BY <1>1, <1>3, <1>4 DEF InsertRight
<1>6. WritesPart(op, o, n)
  BY <1>1, <1>3, <1>4 DEF WritesPart
<1> QED
  BY <1>1, <1>2, <1>3, <1>5, <1>6 DEF OpRight

\* A pending insert, flushed.
LEMMA FlushGood ==
    ASSUME NEW o \in Seq(Bytes), NEW n \in Seq(Bytes), NEW d, GoodOps(d, o, n),
           NoAdjacentInserts(d), EndsInCopy(d),
           NEW start \in Nat, NEW data, NEW end \in Nat, NEW seen \in Nat,
           PendingRight(d, start, data, end, seen, o, n), end <= seen, end <= Len(n)
    PROVE  LET all == Flush(d, start, data)
           IN  /\ GoodOps(all, o, n) /\ NoAdjacentInserts(all) /\ Reach(all) = end
<1>0. d \in Seq(OpsOf(Bytes))
  BY DEF GoodOps
<1>1. CASE data = <<>>
  BY <1>1 DEF PendingRight, Flush
<1>2. CASE data # <<>>
  <2>1. /\ Reach(d) = start /\ start < end /\ data = Stretch(n, start, end)
        /\ EnableCRC32 => NoBlockIn(o, n, start, seen)
    BY <1>2 DEF PendingRight
  <2>2. EnableCRC32 => NoBlockIn(o, n, start, end)
    <3> HAVE EnableCRC32
    <3>1. NoBlockIn(o, n, start, seen)
      BY <2>1
    <3>2. ASSUME NEW q \in start..(end - BlockSize) PROVE NoBlockAt(o, n, q)
      <4>1. q \in start..(seen - BlockSize)
        BY EngineAssumption
      <4> QED
        BY <3>1, <4>1 DEF NoBlockIn
    <3> QED
      BY <3>2 DEF NoBlockIn
  <2>3. PICK op : op = Insert(start, data)
    OBVIOUS
  <2>4. /\ op \in OpsOf(Bytes) /\ op.type = "insert" /\ op.offset = start /\ op.size = end - start
        /\ op.size > 0 /\ OpRight(op, o, n)
    <3>1. LET p == Insert(start, Stretch(n, start, end))
          IN  /\ p \in OpsOf(Bytes) /\ p.type = "insert" /\ p.offset = start /\ p.size = end - start
              /\ p.size > 0 /\ OpRight(p, o, n)
      BY <2>1, <2>2, InsertIsRight
    <3> QED
      BY <2>1, <2>3, <3>1
  <2>5. op.offset + op.size = end
    BY <2>4
  <2>6. GoodOps(Append(d, op), o, n) /\ Reach(Append(d, op)) = op.offset + op.size
    BY <2>1, <2>4, AppendGood
  <2>7. NoAdjacentInserts(Append(d, op))
    BY <1>0, <2>4, AppendAlternates
  <2>8. Flush(d, start, data) = Append(d, op)
    BY <1>2, <2>3 DEF Flush
  <2> QED
    BY <2>5, <2>6, <2>7, <2>8
<1> QED
  BY <1>1, <1>2

\* A block of the signature.
LEMMA SignatureBlock ==
    ASSUME NEW o \in Seq(Bytes), NEW i \in DOMAIN Signature(o)
    PROVE  /\ i \in Nat
           /\ Signature(o)[i].offset \in Nat /\ Signature(o)[i].size \in 0..BlockSize
           /\ LET data == Slice(o, Signature(o)[i].offset, BlockSize)
              IN  /\ Signature(o)[i].size = Len(data) /\ data \in Seq(Bytes)
                  /\ Signature(o)[i].hash = FastHash(data)
                  /\ Signature(o)[i].checksum = Checksum(data)
<1>0. BlockSize \in Nat \ {0}
  BY EngineAssumption
<1>1. PICK m : m = (Len(o) + BlockSize - 1) \div BlockSize
  OBVIOUS
<1>2. m \in Int
  BY <1>0, <1>1
<1>3. i \in 1..m
  BY <1>1 DEF Signature
<1>4. i \in Nat /\ i - 1 \in Nat
  BY <1>2, <1>3
<1>5. PICK a \in Nat : a = (i - 1) * BlockSize
  BY <1>0, <1>4, ProductType
<1>6. PICK data : data = Slice(o, a, BlockSize)
  OBVIOUS
<1>7. data \in Seq(Bytes) /\ Len(data) \in 0..BlockSize
  BY <1>0, <1>6, SliceProperties
<1>8. Signature(o)[i] = [offset |-> a, size |-> Len(data), hash |-> FastHash(data),
                         checksum |-> Checksum(data)]
  BY <1>1, <1>3, <1>5, <1>6 DEF Signature
<1> QED
  BY <1>4, <1>5, <1>6, <1>7, <1>8

\* FindBlock returns a block that matches, if there is one.
LEMMA FindBlockMatches ==
    ASSUME NEW o \in Seq(Bytes), blocks = Signature(o), NEW hash, NEW data, Found(hash, data) # {}
    PROVE  \E i \in DOMAIN Signature(o) :
              FindBlock(hash, data) = Signature(o)[i] /\ Matches(Signature(o)[i], hash, data)
<1> DEFINE F == Found(hash, data)
<1>1. F \subseteq Nat
  BY SignatureBlock DEF Found
<1>2. \E i \in F : \A j \in F : i <= j
  <2> HIDE DEF F
  <2>1. F # {}
    BY DEF F
  <2> QED
    BY <1>1, <2>1, LeastNumber
<1>3. PICK i \in F : i = CHOOSE k \in F : \A j \in F : k <= j
  BY <1>2
<1>4. FindBlock(hash, data) = blocks[i]
  BY <1>3 DEF FindBlock
<1>5. i \in DOMAIN Signature(o) /\ Matches(Signature(o)[i], hash, data)
  BY <1>3 DEF Found
<1> QED
  BY <1>4, <1>5

\* all is d, which reaches a, with the block found for the k bytes of n at a.
MatchCopied(o, n, d, a, k, data, block, all) ==
    /\ o \in Seq(Bytes) /\ n \in Seq(Bytes) /\ GoodOps(d, o, n) /\ NoAdjacentInserts(d)
    /\ a \in Nat /\ k \in 1..BlockSize /\ a + k <= Len(n) /\ Reach(d) = a
    /\ blocks = Signature(o)
    /\ data = Stretch(n, a, a + k) /\ Found(FastHash(data), data) # {}
    /\ block = FindBlock(FastHash(data), data)
    /\ all = Append(d, Copy(a, block.size, block.offset))

LEMMA CopyGood ==
    ASSUME NEW o, NEW n, NEW d, NEW a, NEW k, NEW data, NEW block, NEW all,
           MatchCopied(o, n, d, a, k, data, block, all)
    PROVE  /\ block.size = k
           /\ GoodOps(all, o, n) /\ NoAdjacentInserts(all) /\ EndsInCopy(all) /\ Reach(all) = a + k
<1>a. /\ o \in Seq(Bytes) /\ n \in Seq(Bytes) /\ GoodOps(d, o, n) /\ NoAdjacentInserts(d)
      /\ a \in Nat /\ k \in 1..BlockSize /\ a + k <= Len(n) /\ Reach(d) = a
      /\ blocks = Signature(o)
      /\ data = Stretch(n, a, a + k) /\ Found(FastHash(data), data) # {}
      /\ block = FindBlock(FastHash(data), data)
      /\ all = Append(d, Copy(a, block.size, block.offset))
  BY DEF MatchCopied
<1>0. k \in Nat /\ k > 0 /\ BlockSize \in Nat /\ d \in Seq(OpsOf(Bytes))
  BY <1>a, EngineAssumption DEF GoodOps
<1>2. PICK i \in DOMAIN Signature(o) : block = Signature(o)[i] /\ Matches(Signature(o)[i], FastHash(data), data)
  BY <1>a, FindBlockMatches
<1>3. data \in Seq(Bytes) /\ Len(data) = k
  <2>1. PICK e \in Nat : e = a + k
    BY <1>a, <1>0
  <2>2. a <= e /\ e <= Len(n) /\ e - a = k
    BY <1>a, <1>0, <2>1
  <2>3. Stretch(n, a, e) \in Seq(Bytes) /\ Len(Stretch(n, a, e)) = e - a
    BY <1>a, <2>2, StretchProperties
  <2> QED
    BY <1>a, <2>1, <2>2, <2>3
<1>4. block.size = k
  BY <1>2, <1>3 DEF Matches
<1>5. block.offset \in Nat
  BY <1>a, <1>2, SignatureBlock
<1>6. PICK op : op = Copy(a, block.size, block.offset)
  OBVIOUS
<1>7. <<>> \in Seq(Bytes)
  OBVIOUS
<1>8. /\ op \in OpsOf(Bytes) /\ op.type = "copy" /\ op.offset = a /\ op.size = k
      /\ op.src = block.offset
  BY <1>a, <1>0, <1>4, <1>5, <1>6, <1>7 DEF Copy, OpsOf
<1>9. Slice(n, a, k) = data
  BY <1>a, <1>0, SliceIsStretch
<1>10. NoFalseMatch(o, n) => WritesPart(op, o, n)
  <2> HAVE NoFalseMatch(o, n)
  <2>1. a \in 0..Len(n) /\ k \in 0..BlockSize
    BY <1>a, <1>0
  <2>2. Slice(o, block.offset, block.size) = data
    BY <1>2, <1>9, <2>1 DEF NoFalseMatch
  <2> QED
    BY <1>a, <1>4, <1>8, <2>2 DEF WritesPart
<1>11. OpRight(op, o, n)
  BY <1>8, <1>10 DEF OpRight
<1>12. all = Append(d, op)
  BY <1>a, <1>6
<1>13. GoodOps(all, o, n) /\ Reach(all) = a + k
  <2>1. op.size > 0 /\ op.type # "delete" /\ op.offset = Reach(d)
    BY <1>a, <1>0, <1>8
  <2>2. GoodOps(Append(d, op), o, n) /\ Reach(Append(d, op)) = op.offset + op.size
    BY <1>a, <1>8, <1>11, <2>1, AppendGood
  <2> QED
    BY <1>8, <1>12, <2>2
<1>14. NoAdjacentInserts(all) /\ EndsInCopy(all)
  BY <1>a, <1>0, <1>8, <1>12, AppendAlternates
<1> QED
  BY <1>4, <1>13, <1>14

-----------------------------------------------------------------------------
(* The invariant of the scan.                                              *)

FilesInv ==
    /\ phase \in {"sign", "open", "loop", "flush", "optimize", "done"}
    /\ old \in Seq(Bytes) /\ new \in Seq(Bytes)
    /\ phase # "sign" => blocks = Signature(old)

WindowInv ==
    /\ window \in Seq(Bytes) /\ Len(window) \in {0, BlockSize}
    /\ windowIndex \in 0..(BlockSize - 1) /\ windowHash \in 0..(Mod - 1)
    /\ windowStart \in 0..Len(new)
    /\ phase \in {"sign", "open"} => windowStart = 0
    /\ phase = "loop" =>
          /\ Len(window) = BlockSize
          /\ OrderedWindow = Stretch(new, windowStart, windowStart + BlockSize)
          /\ windowHash = FastHash(OrderedWindow)

ReadInv ==
    /\ read \in 0..Len(new) /\ hashed = Stretch(new, 0, read)
    /\ phase \in {"sign", "open"} => read = 0
    /\ phase = "loop" => read = windowStart + BlockSize
    /\ phase \in {"flush", "optimize", "done"} => read = Len(new)

OpsInv ==
    /\ GoodOps(ops, old, new)
    /\ phase \in {"sign", "open"} => ops = <<>>
    /\ phase # "done" => NoAdjacentInserts(ops)
    /\ phase \in {"loop", "flush"} => EndsInCopy(ops)
    /\ phase \in {"optimize", "done"} => Reach(ops) = Len(new)

PendingInv ==
    /\ unmatchedStart \in 0..Len(new) /\ unmatchedData \in Seq(Bytes)
    /\ phase \in {"sign", "open"} => unmatchedData = <<>>
    /\ phase = "loop" =>
          PendingRight(ops, unmatchedStart, unmatchedData,
                       windowStart, windowStart + BlockSize - 1, old, new)
    /\ phase = "flush" =>
          PendingRight(ops, unmatchedStart, unmatchedData, Len(new), Len(new), old, new)

EngineInv == FilesInv /\ WindowInv /\ ReadInv /\ OpsInv /\ PendingInv

LEMMA InitEngine == Init => EngineInv
<1> SUFFICES ASSUME Init PROVE EngineInv
  OBVIOUS
<1>0. BlockSize \in Nat \ {0} /\ Mod \in Nat \ {0}
  BY EngineAssumption
<1>1. old \in Seq(Bytes) /\ new \in Seq(Bytes)
  <2>1. old \in UNION {[1..n -> Bytes] : n \in 0..MaxOld} /\ new \in UNION {[1..n -> Bytes] : n \in 0..MaxNew}
    BY DEF Init
  <2>2. \A n \in Nat : \A f \in [1..n -> Bytes] : f \in Seq(Bytes)
    BY SMT
  <2>3. 0..MaxOld \subseteq Nat /\ 0..MaxNew \subseteq Nat
    BY EngineAssumption
  <2> QED
    BY <2>1, <2>2, <2>3
<1>2. /\ phase = "sign" /\ window = <<>> /\ windowIndex = 0 /\ windowHash = 0 /\ windowStart = 0
      /\ unmatchedStart = 0 /\ unmatchedData = <<>> /\ read = 0 /\ hashed = <<>> /\ ops = <<>>
  BY DEF Init
<1>3. FilesInv
  BY <1>1, <1>2 DEF FilesInv
<1>4. Len(new) \in Nat
  BY <1>1
<1>5. WindowInv
  BY <1>0, <1>2, <1>4 DEF WindowInv
<1>6. ReadInv
  <2>1. Stretch(new, 0, 0) = <<>>
    <3>1. 0 \in Nat /\ 0 <= Len(new)
      BY <1>4
    <3> QED
      BY <1>1, <3>1, StretchEmpty
  <2> QED
    BY <1>2, <1>4, <2>1 DEF ReadInv
<1>7. OpsInv
  <2>1. GoodOps(<<>>, old, new) /\ NoAdjacentInserts(<<>>)
    BY DEF GoodOps, Tiles, NoDeletes, NoAdjacentInserts
  <2> QED
    BY <1>2, <2>1 DEF OpsInv
<1>8. PendingInv
  BY <1>2, <1>4 DEF PendingInv
<1> QED
  BY <1>3, <1>5, <1>6, <1>7, <1>8 DEF EngineInv

LEMMA BytesAreNumbers == ASSUME NEW f \in Seq(Bytes) PROVE f \in Seq(Nat)
<1>1. Bytes \subseteq Nat
  BY EngineAssumption
<1> QED
  BY <1>1, SeqMonotonic

LEMMA OrderedIsRing == OrderedWindow = Ring(window, windowIndex)
BY DEF OrderedWindow, Ring

\* The next read of the new file.
LEMMA NextBlockProperties ==
    ASSUME new \in Seq(Bytes), read \in 0..Len(new)
    PROVE  /\ NextBlock \in Seq(Bytes) /\ Len(NextBlock) \in 0..BlockSize
           /\ read + Len(NextBlock) \in 0..Len(new)
           /\ NextBlock = Stretch(new, read, read + Len(NextBlock))
           /\ Len(NextBlock) < BlockSize => read + Len(NextBlock) = Len(new)
<1>1. BlockSize \in Nat /\ read \in Nat /\ read <= Len(new) /\ Len(new) \in Nat
  BY EngineAssumption
<1>2. /\ Slice(new, read, BlockSize) \in Seq(Bytes) /\ Len(Slice(new, read, BlockSize)) \in 0..BlockSize
      /\ read + Len(Slice(new, read, BlockSize)) <= Len(new)
      /\ Len(Slice(new, read, BlockSize)) < BlockSize => read + Len(Slice(new, read, BlockSize)) = Len(new)
      /\ Slice(new, read, BlockSize) = Stretch(new, read, read + Len(Slice(new, read, BlockSize)))
  <2>1. PICK a \in Nat : a = read
    BY <1>1
  <2>2. PICK f \in Seq(Bytes) : f = new
    OBVIOUS
  <2>3. BlockSize \in Nat /\ a <= Len(f)
    BY <1>1, <2>1, <2>2
  <2>4. Slice(f, a, BlockSize) \in Seq(Bytes) /\ Len(Slice(f, a, BlockSize)) \in 0..BlockSize
    BY <2>3, SliceProperties
  <2>5. a + Len(Slice(f, a, BlockSize)) <= Len(f)
    BY <2>3, SliceProperties
  <2>6. Len(Slice(f, a, BlockSize)) < BlockSize => a + Len(Slice(f, a, BlockSize)) = Len(f)
    BY <2>3, SliceProperties
  <2>7. Slice(f, a, BlockSize) = Stretch(f, a, a + Len(Slice(f, a, BlockSize)))
    BY <2>3, SliceProperties
  <2> QED
    BY <1>1, <2>1, <2>2, <2>4, <2>5, <2>6, <2>7
<1>3. NextBlock = Slice(new, read, BlockSize)
  BY DEF NextBlock
<1>4. Len(NextBlock) \in Nat
  BY <1>1, <1>2, <1>3
<1> QED
  BY <1>1, <1>2, <1>3, <1>4

\* What is hashed follows what is read.
LEMMA ConsumeStep ==
    ASSUME new \in Seq(Bytes), read \in 0..Len(new), hashed = Stretch(new, 0, read), new' = new,
           NEW data, NEW k \in Nat, Len(data) = k, read + k \in 0..Len(new),
           data = Stretch(new, read, read + k), Consume(data)
    PROVE  /\ read' = read + k /\ read' \in 0..Len(new')
           /\ hashed' = Stretch(new', 0, read')
<1>1. read' = read + k /\ hashed' = hashed \o data
  BY DEF Consume
<1>2. PICK e \in Nat : e = read + k
  BY <1>1
<1>3. 0 \in Nat /\ 0 <= read /\ read <= e /\ e <= Len(new) /\ read \in Nat
  BY <1>2
<1>4. Stretch(new, 0, read) \o Stretch(new, read, e) = Stretch(new, 0, e)
  BY <1>3, StretchesMeet, ZenonT(30)
<1>5. hashed' = Stretch(new, 0, e)
  BY <1>1, <1>2, <1>4
<1> QED
  BY <1>1, <1>2, <1>5

\* Reading on where the operations done end: the next window, or the tail of
\* the file.
LEMMA RefillStep ==
    ASSUME FilesInv, WindowInv, ReadInv, PendingInv, phase # "sign",
           old' = old, new' = new, blocks' = blocks, windowStart' = read,
           NEW done, GoodOps(done, old, new), NoAdjacentInserts(done), EndsInCopy(done),
           Reach(done) = read,
           Refill(NextBlock, done, read), Consume(NextBlock)
    PROVE  EngineInv'
<1>0. /\ BlockSize \in Nat \ {0} /\ old \in Seq(Bytes) /\ new \in Seq(Bytes)
      /\ blocks = Signature(old) /\ read \in 0..Len(new) /\ Len(new) \in Nat
      /\ hashed = Stretch(new, 0, read)
  BY EngineAssumption DEF FilesInv, ReadInv
<1>1. PICK data : data = NextBlock
  OBVIOUS
<1>2. PICK k \in Nat : k = Len(data)
  BY <1>0, <1>1, NextBlockProperties
<1>3. /\ data \in Seq(Bytes) /\ k <= BlockSize
      /\ read + k \in 0..Len(new) /\ data = Stretch(new, read, read + k)
      /\ k < BlockSize => read + k = Len(new)
  BY <1>0, <1>1, <1>2, NextBlockProperties
<1>4. read' = read + k /\ read' \in 0..Len(new') /\ hashed' = Stretch(new', 0, read')
  <2>1. Consume(data)
    BY <1>1
  <2> QED
    BY <1>0, <1>2, <1>3, <2>1, ConsumeStep
<1>5. Refill(data, done, read)
  BY <1>1
<1>6. CASE k < BlockSize
  <2>1. TailData(data, done, read) /\ phase' = "flush" /\ UNCHANGED <<window, windowIndex, windowHash>>
    BY <1>2, <1>5, <1>6 DEF Refill
  <2>2. FilesInv'
    BY <1>0, <2>1 DEF FilesInv
  <2>3. WindowInv'
    BY <1>0, <2>1 DEF WindowInv
  <2>4. ReadInv'
    BY <1>0, <1>3, <1>4, <1>6, <2>1 DEF ReadInv
  <2>5. CASE data # <<>> /\ Found(FastHash(data), data) # {}
    <3>1. k \in 1..BlockSize
      BY <1>0, <1>2, <1>3, <2>5
    <3>2. PICK block : block = FindBlock(FastHash(data), data)
      OBVIOUS
    <3>3. PICK all : all = Append(done, Copy(read, block.size, block.offset))
      OBVIOUS
    <3>4. ops' = all /\ unmatchedData' = <<>> /\ unmatchedStart' = unmatchedStart
      BY <2>1, <2>5, <3>2, <3>3 DEF TailData
    <3>5. /\ GoodOps(all, old, new) /\ NoAdjacentInserts(all) /\ EndsInCopy(all)
          /\ Reach(all) = Len(new)
      <4>1. read \in Nat /\ read + k <= Len(new)
        BY <1>0, <1>3
      <4>2. data = Stretch(new, read, read + k) /\ read + k = Len(new)
        BY <1>3, <1>6
      <4>3. MatchCopied(old, new, done, read, k, data, block, all)
        BY <1>0, <2>5, <3>1, <3>2, <3>3, <4>1, <4>2 DEF MatchCopied
      <4>4. /\ GoodOps(all, old, new) /\ NoAdjacentInserts(all) /\ EndsInCopy(all)
            /\ Reach(all) = read + k
        BY <4>3, CopyGood
      <4> QED
        BY <4>2, <4>4
    <3>6. OpsInv'
      BY <2>1, <3>4, <3>5 DEF OpsInv
    <3>7. PendingInv'
      <4>1. unmatchedStart \in 0..Len(new)
        BY DEF PendingInv
      <4>2. PendingRight(all, unmatchedStart, <<>>, Len(new), Len(new), old, new)
        BY <3>5 DEF PendingRight
      <4> QED
        BY <2>1, <3>4, <4>1, <4>2 DEF PendingInv
    <3> QED
      BY <2>2, <2>3, <2>4, <3>6, <3>7 DEF EngineInv
  <2>6. CASE ~(data # <<>> /\ Found(FastHash(data), data) # {})
    <3>1. /\ ops' = done /\ unmatchedData' = data
          /\ unmatchedStart' = IF data = <<>> THEN unmatchedStart ELSE read
      BY <2>1, <2>6 DEF TailData
    <3>2. OpsInv'
      BY <2>1, <3>1 DEF OpsInv
    <3>3. PendingInv'
      <4>1. unmatchedStart' \in 0..Len(new)
        BY <1>0, <3>1 DEF PendingInv
      <4>2. PendingRight(done, unmatchedStart', data, Len(new), Len(new), old, new)
        <5>1. CASE data = <<>>
          <6>1. k = 0
            BY <1>2, <5>1
          <6>2. read = Len(new)
            BY <1>0, <1>3, <1>6, <6>1
          <6> QED
            BY <5>1, <6>2 DEF PendingRight
        <5>2. CASE data # <<>>
          <6>1. k > 0
            BY <1>2, <1>3, <5>2
          <6>2. read < Len(new) /\ read + k = Len(new)
            BY <1>0, <1>3, <1>6, <6>1
          <6>3. unmatchedStart' = read
            BY <3>1, <5>2
          <6>4. data = Stretch(new, read, Len(new))
            BY <1>3, <6>2
          <6>5. NoBlockIn(old, new, read, Len(new))
            <7>1. \A q \in Int : ~(q \in read..(Len(new) - BlockSize))
              BY <1>0, <1>6, <6>2
            <7> QED
              BY <7>1 DEF NoBlockIn
          <6> QED
            BY <5>2, <6>2, <6>3, <6>4, <6>5 DEF PendingRight
        <5> QED
          BY <5>1, <5>2
      <4> QED
        BY <1>3, <2>1, <3>1, <4>1, <4>2 DEF PendingInv
    <3> QED
      BY <2>2, <2>3, <2>4, <3>2, <3>3 DEF EngineInv
  <2> QED
    BY <2>5, <2>6
<1>7. CASE k = BlockSize
  <2>1. /\ ops' = done /\ unmatchedData' = <<>> /\ phase' = "loop" /\ window' = data
        /\ windowIndex' = 0 /\ windowHash' = FastHash(data) /\ unmatchedStart' = unmatchedStart
    <3>1. ~(Len(data) < BlockSize)
      BY <1>0, <1>2, <1>7
    <3> QED
      BY <1>5, <3>1 DEF Refill
  <2>2. FilesInv'
    BY <1>0, <2>1 DEF FilesInv
  <2>3. WindowInv'
    <3>1. OrderedWindow' = data
      <4>1. Ring(data, 0) = data
        BY <1>3, RingLoaded
      <4>2. OrderedWindow' = Ring(window', windowIndex')
        BY DEF OrderedWindow, Ring
      <4> QED
        BY <2>1, <4>1, <4>2
    <3>2. FastHash(data) \in 0..(Mod - 1)
      <4>1. data \in Seq(Nat)
        BY <1>3, BytesAreNumbers
      <4> QED
        BY <4>1, HashRange
    <3>3. windowStart' \in 0..Len(new')
      BY <1>0
    <3>4. windowIndex' \in 0..(BlockSize - 1)
      BY <1>0, <2>1
    <3>5. data = Stretch(new', windowStart', windowStart' + BlockSize)
      BY <1>3, <1>7
    <3>6. Len(window') = BlockSize /\ window' \in Seq(Bytes)
      BY <1>2, <1>3, <1>7, <2>1
    <3> QED
      BY <2>1, <3>1, <3>2, <3>3, <3>4, <3>5, <3>6 DEF WindowInv
  <2>4. ReadInv'
    BY <1>0, <1>4, <1>7, <2>1 DEF ReadInv
  <2>5. OpsInv'
    BY <2>1 DEF OpsInv
  <2>6. PendingInv'
    <3>1. unmatchedStart \in 0..Len(new)
      BY DEF PendingInv
    <3>2. PendingRight(done, unmatchedStart, <<>>, read, read + BlockSize - 1, old, new)
      BY DEF PendingRight
    <3>3. <<>> \in Seq(Bytes)
      OBVIOUS
    <3> QED
      BY <2>1, <3>1, <3>2, <3>3 DEF PendingInv
  <2> QED
    BY <2>2, <2>3, <2>4, <2>5, <2>6 DEF EngineInv
<1> QED
  BY <1>0, <1>3, <1>6, <1>7

\* Where the look-up finds nothing, there is no block of the old file.
LEMMA NotFoundNoBlock ==
    ASSUME NEW o \in Seq(Bytes), NEW n, NEW q, NEW data, blocks = Signature(o), EnableCRC32,
           data = Stretch(n, q, q + BlockSize), Len(data) = BlockSize,
           Found(FastHash(data), data) = {}
    PROVE  NoBlockAt(o, n, q)
<1> SUFFICES ASSUME NEW b \in DOMAIN Signature(o), Signature(o)[b].size = BlockSize,
                    Slice(o, Signature(o)[b].offset, BlockSize) = data
             PROVE  FALSE
  BY DEF NoBlockAt
<1>1. /\ Signature(o)[b].hash = FastHash(data) /\ Signature(o)[b].checksum = Checksum(data)
  BY SignatureBlock
<1>2. Checksum(data) = Crc(data)
  BY DEF Checksum
<1>3. Matches(Signature(o)[b], FastHash(data), data)
  BY <1>1, <1>2 DEF Matches
<1>4. b \in Found(FastHash(data), data)
  BY <1>3 DEF Found
<1> QED
  BY <1>4

\* start and data are the pending insert after the byte of n at a, where no
\* block of o is, has joined the one from us.
PendingPlus(d, us, ud, a, o, n, start, data) ==
    /\ n \in Seq(Bytes) /\ us \in 0..Len(n) /\ ud \in Seq(Bytes) /\ a \in Nat /\ a < Len(n)
    /\ PendingRight(d, us, ud, a, a + BlockSize - 1, o, n)
    /\ EnableCRC32 => NoBlockAt(o, n, a)
    /\ start = IF ud = <<>> THEN a ELSE us
    /\ data = Append(ud, n[a + 1])

LEMMA PendingGrows ==
    ASSUME NEW d, NEW us, NEW ud, NEW a, NEW o, NEW n, NEW start, NEW data,
           PendingPlus(d, us, ud, a, o, n, start, data)
    PROVE  /\ data \in Seq(Bytes) /\ data # <<>> /\ start \in 0..Len(n)
           /\ Reach(d) = start /\ start < a + 1 /\ data = Stretch(n, start, a + 1)
           /\ EnableCRC32 => NoBlockIn(o, n, start, a + BlockSize)
<1>0. BlockSize \in Nat \ {0}
  BY EngineAssumption
<1>1. /\ n \in Seq(Bytes) /\ us \in 0..Len(n) /\ ud \in Seq(Bytes) /\ a \in Nat /\ a < Len(n)
      /\ PendingRight(d, us, ud, a, a + BlockSize - 1, o, n)
      /\ start = IF ud = <<>> THEN a ELSE us
      /\ data = Append(ud, n[a + 1]) /\ Len(n) \in Nat
  BY DEF PendingPlus
<1>a. EnableCRC32 => NoBlockAt(o, n, a)
  BY DEF PendingPlus
<1>2. n[a + 1] \in Bytes
  <2>1. a + 1 \in 1..Len(n)
    BY <1>1
  <2> QED
    BY <1>1, <2>1
<1>3. data \in Seq(Bytes) /\ data # <<>>
  BY <1>1, <1>2, AppendProperties
<1>4. (a + BlockSize) - BlockSize = a
  BY <1>0, <1>1
<1>5. CASE ud = <<>>
  <2>1. start = a /\ Reach(d) = a
    BY <1>1, <1>5 DEF PendingRight
  <2>2. ud = Stretch(n, a, a)
    <3>1. a <= Len(n)
      BY <1>1
    <3> QED
      BY <1>1, <1>5, <3>1, StretchEmpty
  <2>3. Append(Stretch(n, a, a), n[a + 1]) = Stretch(n, a, a + 1)
    <3>1. a <= a /\ a < Len(n)
      BY <1>1
    <3> QED
      BY <1>1, <3>1, StretchGrows
  <2>4. EnableCRC32 => NoBlockIn(o, n, start, a + BlockSize)
    <3> HAVE EnableCRC32
    <3>1. \A q \in start..a : q = a
      BY <1>1, <2>1
    <3>2. \A q \in start..((a + BlockSize) - BlockSize) : NoBlockAt(o, n, q)
      BY <1>a, <1>4, <3>1
    <3> QED
      BY <3>2, Zenon DEF NoBlockIn
  <2>5. start \in 0..Len(n) /\ start < a + 1
    BY <1>1, <2>1
  <2> QED
    BY <1>1, <1>3, <2>1, <2>2, <2>3, <2>4, <2>5
<1>6. CASE ud # <<>>
  <2>1. PICK s \in Nat : s = us
    BY <1>1
  <2>2. /\ start = s /\ Reach(d) = s /\ s < a /\ ud = Stretch(n, s, a)
        /\ EnableCRC32 => NoBlockIn(o, n, s, a + BlockSize - 1)
    BY <1>1, <1>6, <2>1 DEF PendingRight
  <2>3. Append(Stretch(n, s, a), n[a + 1]) = Stretch(n, s, a + 1)
    <3>1. s <= a /\ a < Len(n)
      BY <1>1, <2>2
    <3> QED
      BY <1>1, <3>1, StretchGrows
  <2>4. EnableCRC32 => NoBlockIn(o, n, start, a + BlockSize)
    <3> HAVE EnableCRC32
    <3>1. (a + BlockSize - 1) - BlockSize = a - 1
      BY <1>0, <1>1
    <3>2. \A q \in s..(a - 1) : NoBlockAt(o, n, q)
      BY <2>2, <3>1 DEF NoBlockIn
    <3>3. \A q \in s..a : q = a \/ q \in s..(a - 1)
      BY <1>1
    <3>4. \A q \in start..((a + BlockSize) - BlockSize) : NoBlockAt(o, n, q)
      BY <1>a, <1>4, <2>2, <3>2, <3>3
    <3> QED
      BY <3>4, Zenon DEF NoBlockIn
  <2>5. start \in 0..Len(n) /\ start < a + 1
    BY <1>1, <2>2
  <2> QED
    BY <1>1, <1>3, <2>2, <2>3, <2>4, <2>5
<1> QED
  BY <1>5, <1>6

LEMMA SignStep == EngineInv /\ GenerateSignature => EngineInv'
<1> SUFFICES ASSUME EngineInv, GenerateSignature PROVE EngineInv'
  OBVIOUS
<1>1. /\ phase = "sign" /\ phase' = "open" /\ blocks' = Signature(old)
      /\ UNCHANGED <<old, new, window, windowIndex, windowHash, windowStart,
                     unmatchedStart, unmatchedData, read, hashed, ops>>
  BY DEF GenerateSignature
<1>2. FilesInv'
  BY <1>1 DEF EngineInv, FilesInv
<1>3. WindowInv'
  BY <1>1 DEF EngineInv, WindowInv
<1>4. ReadInv'
  BY <1>1 DEF EngineInv, ReadInv
<1>5. OpsInv'
  BY <1>1 DEF EngineInv, OpsInv
<1>6. PendingInv'
  BY <1>1 DEF EngineInv, PendingInv
<1> QED
  BY <1>2, <1>3, <1>4, <1>5, <1>6 DEF EngineInv

LEMMA FirstStep == EngineInv /\ FirstWindow => EngineInv'
<1> SUFFICES ASSUME EngineInv, FirstWindow PROVE EngineInv'
  OBVIOUS
<1>1. /\ phase = "open" /\ Refill(NextBlock, ops, 0) /\ Consume(NextBlock)
      /\ old' = old /\ new' = new /\ blocks' = blocks /\ windowStart' = windowStart
  BY DEF FirstWindow
<1>2. FilesInv /\ WindowInv /\ ReadInv /\ OpsInv /\ PendingInv
  BY DEF EngineInv
<1>3. read = 0 /\ windowStart = 0 /\ ops = <<>>
  BY <1>1, <1>2 DEF WindowInv, ReadInv, OpsInv
<1>4. GoodOps(ops, old, new) /\ NoAdjacentInserts(ops)
  BY <1>1, <1>2 DEF OpsInv
<1>5. EndsInCopy(ops) /\ Reach(ops) = read
  BY <1>3 DEF EndsInCopy, Reach, EndAt
<1>6. windowStart' = read /\ phase # "sign" /\ Refill(NextBlock, ops, read)
  BY <1>1, <1>3
<1>7. PICK done : done = ops
  OBVIOUS
<1>8. GoodOps(done, old, new) /\ NoAdjacentInserts(done) /\ EndsInCopy(done) /\ Reach(done) = read
  BY <1>4, <1>5, <1>7
<1>9. Refill(NextBlock, done, read)
  BY <1>6, <1>7
<1> QED
  BY <1>1, <1>2, <1>6, <1>8, <1>9, RefillStep

LEMMA CopyStep == EngineInv /\ CopyBlock => EngineInv'
<1> SUFFICES ASSUME EngineInv, CopyBlock PROVE EngineInv'
  OBVIOUS
<1>0. BlockSize \in Nat \ {0} /\ BlockSize \in 1..BlockSize
  BY EngineAssumption
<1>1. FilesInv /\ WindowInv /\ ReadInv /\ OpsInv /\ PendingInv
  BY DEF EngineInv
<1>2. PICK data : data = OrderedWindow
  OBVIOUS
<1>3. PICK block : block = FindBlock(windowHash, data)
  OBVIOUS
<1>4. PICK flushed : flushed = Flush(ops, unmatchedStart, unmatchedData)
  OBVIOUS
<1>5. PICK all : all = Append(flushed, Copy(windowStart, block.size, block.offset))
  OBVIOUS
<1>6. /\ phase = "loop" /\ Found(windowHash, data) # {}
      /\ windowStart' = windowStart + block.size
      /\ Refill(NextBlock, all, windowStart + block.size) /\ Consume(NextBlock)
      /\ old' = old /\ new' = new /\ blocks' = blocks
  BY <1>2, <1>3, <1>4, <1>5 DEF CopyBlock
<1>7. /\ data = Stretch(new, windowStart, windowStart + BlockSize) /\ windowHash = FastHash(data)
      /\ windowStart \in 0..Len(new)
  BY <1>1, <1>2, <1>6 DEF WindowInv
<1>8. read = windowStart + BlockSize /\ read \in 0..Len(new)
  BY <1>1, <1>6 DEF ReadInv
<1>9. old \in Seq(Bytes) /\ new \in Seq(Bytes) /\ blocks = Signature(old)
  BY <1>1, <1>6 DEF FilesInv
<1>10. GoodOps(flushed, old, new) /\ NoAdjacentInserts(flushed) /\ Reach(flushed) = windowStart
  <2>1. PICK d : d = ops
    OBVIOUS
  <2>2. PICK start \in Nat : start = unmatchedStart
    BY <1>1, <1>9 DEF PendingInv
  <2>3. PICK pending : pending = unmatchedData
    OBVIOUS
  <2>4. PICK end \in Nat : end = windowStart
    BY <1>7
  <2>5. PICK seen \in Nat : seen = windowStart + BlockSize - 1
    BY <1>0, <1>7
  <2>6. PendingRight(d, start, pending, end, seen, old, new)
    BY <1>1, <1>6, <2>1, <2>2, <2>3, <2>4, <2>5 DEF PendingInv
  <2>7. GoodOps(d, old, new) /\ NoAdjacentInserts(d) /\ EndsInCopy(d)
    BY <1>1, <1>6, <2>1 DEF OpsInv
  <2>8. end <= seen /\ end <= Len(new)
    BY <1>0, <1>7, <2>4, <2>5
  <2>9. LET f == Flush(d, start, pending)
        IN  GoodOps(f, old, new) /\ NoAdjacentInserts(f) /\ Reach(f) = end
    BY <1>9, <2>6, <2>7, <2>8, FlushGood
  <2> QED
    BY <1>4, <2>1, <2>2, <2>3, <2>4, <2>9
<1>11. MatchCopied(old, new, flushed, windowStart, BlockSize, data, block, all)
  <2>1. windowStart \in Nat /\ windowStart + BlockSize <= Len(new)
    BY <1>7, <1>8, <1>9
  <2> QED
    BY <1>0, <1>3, <1>5, <1>6, <1>7, <1>9, <1>10, <2>1 DEF MatchCopied
<1>12. /\ block.size = BlockSize
       /\ GoodOps(all, old, new) /\ NoAdjacentInserts(all) /\ EndsInCopy(all)
       /\ Reach(all) = windowStart + BlockSize
  BY <1>11, CopyGood
<1>13. windowStart' = read /\ phase # "sign" /\ Refill(NextBlock, all, read) /\ Reach(all) = read
  BY <1>6, <1>8, <1>12
<1> QED
  BY <1>1, <1>6, <1>12, <1>13, RefillStep

LEMMA SlideStep == EngineInv /\ SlideWindow => EngineInv'
<1> SUFFICES ASSUME EngineInv, SlideWindow PROVE EngineInv'
  OBVIOUS
<1>0. BlockSize \in Nat \ {0} /\ Mod \in Nat \ {0}
  BY EngineAssumption
<1>1. FilesInv /\ WindowInv /\ ReadInv /\ OpsInv /\ PendingInv
  BY DEF EngineInv
<1>2. phase = "loop"
  BY DEF SlideWindow
<1>3. PICK a \in Nat : a = windowStart
  BY <1>1 DEF FilesInv, WindowInv
<1>4. /\ old \in Seq(Bytes) /\ new \in Seq(Bytes) /\ blocks = Signature(old)
  BY <1>1, <1>2 DEF FilesInv
<1>5. PICK w \in Seq(Bytes) : w = window /\ Len(w) = BlockSize
  BY <1>1, <1>2 DEF WindowInv
<1>6. PICK k \in 0..(BlockSize - 1) : k = windowIndex
  BY <1>1 DEF WindowInv
<1>7. PICK ring : ring = Ring(w, k)
  OBVIOUS
<1>8. /\ ring = Stretch(new, a, a + BlockSize) /\ windowHash = FastHash(ring)
      /\ ring = OrderedWindow
  <2>1. OrderedWindow = ring
    BY <1>5, <1>6, <1>7, OrderedIsRing
  <2> QED
    BY <1>1, <1>2, <1>3, <2>1 DEF WindowInv
<1>9. read = a + BlockSize /\ read \in 0..Len(new)
  BY <1>1, <1>2, <1>3 DEF ReadInv
<1>10. PICK x : x = new[read + 1]
  OBVIOUS
<1>11. PICK oldByte : oldByte = w[k + 1]
  OBVIOUS
<1>12. /\ Found(windowHash, ring) = {} /\ read < Len(new)
       /\ unmatchedStart' = InsertStart(a) /\ unmatchedData' = Append(unmatchedData, oldByte)
       /\ windowHash' = RollHash(windowHash, oldByte, x)
       /\ window' = [w EXCEPT ![k + 1] = x] /\ windowIndex' = (k + 1) % BlockSize
       /\ windowStart' = a + 1 /\ Consume(<<x>>)
       /\ old' = old /\ new' = new /\ phase' = phase /\ blocks' = blocks /\ ops' = ops
  BY <1>3, <1>5, <1>6, <1>8, <1>10, <1>11 DEF SlideWindow, NextIndex
<1>13. PICK end \in Nat : end = a + BlockSize
  BY <1>0
<1>14. end < Len(new) /\ a < end /\ a < Len(new) /\ x = new[end + 1] /\ x \in Bytes
  <2>1. end < Len(new) /\ a < end /\ a < Len(new)
    BY <1>0, <1>4, <1>9, <1>12, <1>13
  <2>2. end + 1 \in 1..Len(new)
    BY <1>4, <2>1
  <2> QED
    BY <1>4, <1>9, <1>10, <1>13, <2>1, <2>2
<1>15. /\ ring \in Seq(Bytes) /\ Len(ring) = BlockSize
       /\ \A i \in 1..BlockSize : ring[i] = new[a + i]
  <2>1. a <= end /\ end <= Len(new) /\ end - a = BlockSize
    BY <1>0, <1>4, <1>13, <1>14
  <2>2. /\ Stretch(new, a, end) \in Seq(Bytes) /\ Len(Stretch(new, a, end)) = end - a
        /\ \A i \in 1..(end - a) : Stretch(new, a, end)[i] = new[a + i]
    BY <1>4, <2>1, StretchProperties
  <2> QED
    BY <1>8, <1>13, <2>1, <2>2
<1>16. PICK v : v = window'
  OBVIOUS
<1>17. PICK next : next = windowIndex'
  OBVIOUS
<1>18. PICK ring2 : ring2 = Ring(v, next)
  OBVIOUS
<1>19. /\ v \in Seq(Bytes) /\ Len(v) = BlockSize /\ next \in 0..(BlockSize - 1)
       /\ ring2 \in Seq(Bytes) /\ Len(ring2) = BlockSize
       /\ \A i \in 1..(BlockSize - 1) : ring2[i] = ring[i + 1]
       /\ ring2[BlockSize] = x /\ ring[1] = oldByte
  <2>1. Slid(Bytes, w, BlockSize, k, x, v, next)
    BY <1>0, <1>5, <1>6, <1>12, <1>14, <1>16, <1>17 DEF Slid, IsRing
  <2> QED
    BY <1>7, <1>11, <1>18, <2>1, RingSlides
<1>20. OrderedWindow' = ring2
  BY <1>16, <1>17, <1>18 DEF OrderedWindow, Ring
<1>21. windowHash' = FastHash(ring2) /\ FastHash(ring2) \in 0..(Mod - 1)
  <2>1. ring \in Seq(Nat) /\ ring2 \in Seq(Nat)
    BY <1>15, <1>19, BytesAreNumbers
  <2>2. RollHash(FastHash(ring), ring[1], ring2[BlockSize]) = FastHash(ring2)
    BY <1>15, <1>19, <2>1, RollHashIsHash
  <2>3. FastHash(ring2) \in 0..(Mod - 1)
    BY <2>1, HashRange
  <2> QED
    BY <1>8, <1>12, <1>19, <2>2, <2>3
<1>22. PICK b \in Nat : b = a + 1
  OBVIOUS
<1>23. ring2 = Stretch(new, b, b + BlockSize)
  <2>1. PICK e \in Nat : e = b + BlockSize
    BY <1>0
  <2>2. b <= e /\ e <= Len(new) /\ e - b = BlockSize /\ e = end + 1
    BY <1>0, <1>4, <1>13, <1>14, <1>22, <2>1
  <2>3. /\ Stretch(new, b, e) \in Seq(Bytes) /\ Len(Stretch(new, b, e)) = e - b
        /\ \A i \in 1..(e - b) : Stretch(new, b, e)[i] = new[b + i]
    <3>1. b <= e /\ e <= Len(new)
      BY <2>2
    <3> QED
      BY <1>4, <3>1, StretchProperties
  <2>4. ASSUME NEW i \in 1..BlockSize PROVE ring2[i] = Stretch(new, b, e)[i]
    <3>1. Stretch(new, b, e)[i] = new[b + i]
      BY <2>2, <2>3
    <3>2. CASE i = BlockSize
      <4>1. b + i = end + 1
        BY <1>0, <2>1, <2>2, <3>2
      <4> QED
        BY <1>14, <1>19, <3>1, <3>2, <4>1
    <3>3. CASE i # BlockSize
      <4>1. i \in 1..(BlockSize - 1) /\ i + 1 \in 1..BlockSize /\ a + (i + 1) = b + i
        BY <1>0, <1>22, <3>3
      <4>2. ring2[i] = new[a + (i + 1)]
        BY <1>15, <1>19, <4>1
      <4> QED
        BY <3>1, <4>1, <4>2
    <3> QED
      BY <3>2, <3>3
  <2>5. Len(Stretch(new, b, e)) = BlockSize
    BY <2>2, <2>3
  <2>6. ring2 = Stretch(new, b, e)
    BY <1>19, <2>3, <2>4, <2>5, SeqEqual
  <2> QED
    BY <2>1, <2>6
<1>24. FilesInv'
  BY <1>1, <1>12 DEF FilesInv
<1>25. WindowInv'
  <2>1. windowStart' \in 0..Len(new')
    BY <1>4, <1>12, <1>14
  <2>2. phase' = "loop" /\ phase' \notin {"sign", "open"}
    BY <1>2, <1>12
  <2> QED
    BY <1>12, <1>16, <1>17, <1>19, <1>20, <1>21, <1>22, <1>23, <2>1, <2>2 DEF WindowInv
<1>26. ReadInv'
  <2>1. PICK data : data = <<x>>
    OBVIOUS
  <2>2. Stretch(new, read, read + 1) = data
    <3>1. PICK c \in Nat : c = end + 1
      OBVIOUS
    <3>2. end <= c /\ c <= Len(new) /\ c - end = 1 /\ 1 \in 1..(c - end)
      BY <1>4, <1>14, <3>1
    <3>3. /\ Stretch(new, end, c) \in Seq(Bytes) /\ Len(Stretch(new, end, c)) = c - end
          /\ \A i \in 1..(c - end) : Stretch(new, end, c)[i] = new[end + i]
      BY <1>4, <3>2, StretchProperties, ZenonT(30)
    <3>4. data \in Seq(Bytes) /\ Len(data) = 1 /\ data[1] = x
      BY <1>14, <2>1
    <3>5. Len(Stretch(new, end, c)) = 1 /\ Stretch(new, end, c)[1] = x
      BY <1>14, <3>2, <3>3
    <3>6. Stretch(new, end, c) = data
      BY <3>3, <3>4, <3>5, SeqEqual
    <3> QED
      BY <1>9, <1>13, <3>1, <3>6
  <2>3. read' = read + 1 /\ read' \in 0..Len(new') /\ hashed' = Stretch(new', 0, read')
    <3>1. Len(data) = 1 /\ 1 \in Nat /\ read + 1 \in 0..Len(new)
      BY <1>4, <1>9, <1>12, <2>1
    <3>2. hashed = Stretch(new, 0, read) /\ Consume(data) /\ new' = new
      BY <1>1, <1>12, <2>1 DEF ReadInv
    <3> QED
      BY <1>4, <1>9, <2>2, <3>1, <3>2, ConsumeStep
  <2>4. read' = windowStart' + BlockSize
    BY <1>0, <1>9, <1>12, <2>3
  <2> QED
    BY <1>2, <1>12, <2>3, <2>4 DEF ReadInv
<1>27. OpsInv'
  BY <1>1, <1>2, <1>12 DEF OpsInv
<1>28. PendingInv'
  <2>1. PICK start : start = unmatchedStart'
    OBVIOUS
  <2>2. PICK data : data = unmatchedData'
    OBVIOUS
  <2>3. oldByte = new[a + 1]
    <3>1. 1 \in 1..BlockSize
      BY <1>0
    <3> QED
      BY <1>15, <1>19, <3>1
  <2>4. EnableCRC32 => NoBlockAt(old, new, a)
    <3> HAVE EnableCRC32
    <3>1. Found(FastHash(ring), ring) = {}
      BY <1>8, <1>12
    <3> QED
      BY <1>4, <1>8, <1>15, <3>1, NotFoundNoBlock
  <2>5. PendingPlus(ops, unmatchedStart, unmatchedData, a, old, new, start, data)
    <3>1. data = Append(unmatchedData, new[a + 1]) /\ start = IF unmatchedData = <<>> THEN a ELSE unmatchedStart
      BY <1>12, <2>1, <2>2, <2>3 DEF InsertStart
    <3>2. /\ unmatchedStart \in 0..Len(new) /\ unmatchedData \in Seq(Bytes)
          /\ PendingRight(ops, unmatchedStart, unmatchedData, a, a + BlockSize - 1, old, new)
      BY <1>1, <1>2, <1>3 DEF PendingInv
    <3> QED
      BY <1>4, <1>14, <2>4, <3>1, <3>2 DEF PendingPlus
  <2>6. /\ data \in Seq(Bytes) /\ data # <<>> /\ start \in 0..Len(new)
        /\ Reach(ops) = start /\ start < a + 1 /\ data = Stretch(new, start, a + 1)
        /\ EnableCRC32 => NoBlockIn(old, new, start, a + BlockSize)
    BY <2>5, PendingGrows
  <2>7. (a + 1) + BlockSize - 1 = a + BlockSize
    BY <1>0
  <2>8. PendingRight(ops, start, data, a + 1, (a + 1) + BlockSize - 1, old, new)
    BY <2>6, <2>7 DEF PendingRight
  <2> QED
    BY <1>2, <1>12, <2>1, <2>2, <2>6, <2>8 DEF PendingInv
<1> QED
  BY <1>24, <1>25, <1>26, <1>27, <1>28 DEF EngineInv

LEMMA DrainStep == EngineInv /\ DrainWindow => EngineInv'
<1> SUFFICES ASSUME EngineInv, DrainWindow PROVE EngineInv'
  OBVIOUS
<1>0. BlockSize \in Nat \ {0}
  BY EngineAssumption
<1>1. FilesInv /\ WindowInv /\ ReadInv /\ OpsInv /\ PendingInv
  BY DEF EngineInv
<1>2. phase = "loop"
  BY DEF DrainWindow
<1>3. PICK a \in Nat : a = windowStart
  BY <1>1 DEF FilesInv, WindowInv
<1>4. old \in Seq(Bytes) /\ new \in Seq(Bytes) /\ blocks = Signature(old) /\ Len(new) \in Nat
  BY <1>1, <1>2 DEF FilesInv
<1>5. PICK w \in Seq(Bytes) : w = window /\ Len(w) = BlockSize
  BY <1>1, <1>2 DEF WindowInv
<1>6. PICK k \in 0..(BlockSize - 1) : k = windowIndex
  BY <1>1 DEF WindowInv
<1>7. PICK ring : ring = Ring(w, k)
  OBVIOUS
<1>8. /\ ring = Stretch(new, a, a + BlockSize) /\ windowHash = FastHash(ring)
      /\ ring = OrderedWindow
  <2>1. OrderedWindow = ring
    BY <1>5, <1>6, <1>7, OrderedIsRing
  <2> QED
    BY <1>1, <1>2, <1>3, <2>1 DEF WindowInv
<1>9. read = a + BlockSize /\ read = Len(new)
  <2>1. read = a + BlockSize /\ read \in 0..Len(new)
    BY <1>1, <1>2, <1>3 DEF ReadInv
  <2>2. read >= Len(new)
    BY DEF DrainWindow, AtEnd
  <2> QED
    BY <1>4, <2>1, <2>2
<1>10. PICK rest : rest = RemainingWindow
  OBVIOUS
<1>11. PICK oldByte : oldByte = w[k + 1]
  OBVIOUS
<1>12. /\ Found(windowHash, ring) = {}
       /\ unmatchedStart' = InsertStart(a) /\ unmatchedData' = Append(unmatchedData, oldByte) \o rest
       /\ phase' = "flush"
       /\ UNCHANGED <<old, new, blocks, window, windowIndex, windowHash, windowStart,
                      read, hashed, ops>>
  BY <1>3, <1>5, <1>6, <1>8, <1>10, <1>11 DEF DrainWindow
<1>13. PICK end \in Nat : end = Len(new)
  BY <1>4
<1>14. PICK b \in Nat : b = a + 1
  OBVIOUS
<1>15. a < end /\ a <= end /\ b <= end /\ end - a = BlockSize /\ end - b = BlockSize - 1 /\ end = a + BlockSize
  BY <1>0, <1>9, <1>13, <1>14
<1>16. /\ ring \in Seq(Bytes) /\ Len(ring) = BlockSize
       /\ \A i \in 1..BlockSize : ring[i] = new[a + i]
  <2>1. a <= end /\ end <= Len(new)
    BY <1>13, <1>15
  <2>2. /\ Stretch(new, a, end) \in Seq(Bytes) /\ Len(Stretch(new, a, end)) = end - a
        /\ \A i \in 1..(end - a) : Stretch(new, a, end)[i] = new[a + i]
    BY <1>4, <2>1, StretchProperties
  <2> QED
    BY <1>8, <1>15, <2>2
<1>17. ring[1] = oldByte /\ \A i \in 1..BlockSize : ring[i] = IF i <= BlockSize - k THEN w[k + i] ELSE w[i - (BlockSize - k)]
  <2>1. \A i \in 1..BlockSize : ring[i] = IF i <= BlockSize - k THEN w[k + i] ELSE w[i - (BlockSize - k)]
    <3>1. IsRing(Bytes, w, BlockSize, k)
      BY <1>0, <1>5 DEF IsRing
    <3> QED
      BY <1>7, <3>1, RingProperties
  <2>2. 1 \in 1..BlockSize /\ 1 <= BlockSize - k
    BY <1>0
  <2> QED
    BY <1>11, <2>1, <2>2
<1>18. rest = Stretch(new, b, end)
  <2>1. /\ rest \in Seq(Bytes) /\ Len(rest) = BlockSize - 1
        /\ \A i \in 1..(BlockSize - 1) : rest[i] = ring[i + 1]
    <3>1. rest = RingBut(w, k)
      BY <1>5, <1>6, <1>10 DEF RemainingWindow, RingBut
    <3>2. IsRing(Bytes, w, BlockSize, k)
      BY <1>0, <1>5 DEF IsRing
    <3>3. /\ RingBut(w, k) \in Seq(Bytes) /\ Len(RingBut(w, k)) = BlockSize - 1
          /\ \A i \in 1..(BlockSize - 1) : RingBut(w, k)[i] = Ring(w, k)[i + 1]
      BY <3>2, RingRest
    <3> QED
      BY <1>7, <3>1, <3>3
  <2>2. /\ Stretch(new, b, end) \in Seq(Bytes) /\ Len(Stretch(new, b, end)) = end - b
        /\ \A i \in 1..(end - b) : Stretch(new, b, end)[i] = new[b + i]
    <3>1. b <= end /\ end <= Len(new)
      BY <1>13, <1>15
    <3> QED
      BY <1>4, <3>1, StretchProperties
  <2>3. ASSUME NEW i \in 1..(BlockSize - 1) PROVE rest[i] = Stretch(new, b, end)[i]
    <3>1. i + 1 \in 1..BlockSize /\ a + (i + 1) = b + i /\ i \in 1..(end - b)
      BY <1>0, <1>14, <1>15
    <3> QED
      BY <1>16, <2>1, <2>2, <3>1
  <2>4. Len(Stretch(new, b, end)) = BlockSize - 1
    BY <1>15, <2>2
  <2> QED
    BY <2>1, <2>2, <2>3, <2>4, SeqEqual
<1>19. FilesInv'
  BY <1>1, <1>2, <1>12 DEF FilesInv
<1>20. WindowInv'
  BY <1>1, <1>12 DEF WindowInv
<1>21. ReadInv'
  BY <1>1, <1>9, <1>12 DEF ReadInv
<1>22. OpsInv'
  BY <1>1, <1>2, <1>12 DEF OpsInv
<1>23. PendingInv'
  <2>1. PICK start : start = unmatchedStart'
    OBVIOUS
  <2>2. PICK data : data = Append(unmatchedData, oldByte)
    OBVIOUS
  <2>3. oldByte = new[a + 1]
    <3>1. 1 \in 1..BlockSize
      BY <1>0
    <3> QED
      BY <1>16, <1>17, <3>1
  <2>4. EnableCRC32 => NoBlockAt(old, new, a)
    <3> HAVE EnableCRC32
    <3>1. Found(FastHash(ring), ring) = {}
      BY <1>8, <1>12
    <3> QED
      BY <1>4, <1>8, <1>16, <3>1, NotFoundNoBlock
  <2>5. PendingPlus(ops, unmatchedStart, unmatchedData, a, old, new, start, data)
    <3>1. data = Append(unmatchedData, new[a + 1]) /\ start = IF unmatchedData = <<>> THEN a ELSE unmatchedStart
      BY <1>12, <2>1, <2>2, <2>3 DEF InsertStart
    <3>2. /\ unmatchedStart \in 0..Len(new) /\ unmatchedData \in Seq(Bytes)
          /\ PendingRight(ops, unmatchedStart, unmatchedData, a, a + BlockSize - 1, old, new)
      BY <1>1, <1>2, <1>3 DEF PendingInv
    <3>3. a < Len(new)
      BY <1>13, <1>15
    <3> QED
      BY <1>4, <2>4, <3>1, <3>2, <3>3 DEF PendingPlus
  <2>6. /\ start \in 0..Len(new)
        /\ Reach(ops) = start /\ start < a + 1 /\ data = Stretch(new, start, a + 1)
        /\ EnableCRC32 => NoBlockIn(old, new, start, a + BlockSize)
    BY <2>5, PendingGrows
  <2>7. PICK s \in Nat : s = start
    BY <1>4, <2>6
  <2>8. s <= b /\ b <= end /\ s <= end /\ end <= Len(new) /\ s < end
    BY <1>13, <1>14, <1>15, <2>6, <2>7
  <2>9. Stretch(new, s, b) \o Stretch(new, b, end) = Stretch(new, s, end)
    BY <1>4, <2>8, StretchesMeet
  <2>10. data \o rest = Stretch(new, s, end)
    BY <1>14, <1>18, <2>6, <2>7, <2>9
  <2>11. Stretch(new, s, end) \in Seq(Bytes) /\ Len(Stretch(new, s, end)) = end - s
    BY <1>4, <2>8, StretchProperties, ZenonT(30)
  <2>12. Stretch(new, s, end) # <<>>
    BY <2>8, <2>11
  <2>13. PendingRight(ops, s, Stretch(new, s, end), end, end, old, new)
    BY <1>15, <2>6, <2>7, <2>8, <2>12 DEF PendingRight
  <2>14. unmatchedData' = Stretch(new, s, end) /\ unmatchedStart' = s
    BY <1>12, <2>1, <2>2, <2>7, <2>10
  <2> QED
    BY <1>12, <1>13, <2>6, <2>7, <2>11, <2>13, <2>14 DEF PendingInv
<1> QED
  BY <1>19, <1>20, <1>21, <1>22, <1>23 DEF EngineInv

LEMMA FlushStep == EngineInv /\ FlushInsert => EngineInv'
<1> SUFFICES ASSUME EngineInv, FlushInsert PROVE EngineInv'
  OBVIOUS
<1>1. FilesInv /\ WindowInv /\ ReadInv /\ OpsInv /\ PendingInv
  BY DEF EngineInv
<1>2. /\ phase = "flush" /\ phase' = "optimize" /\ ops' = Flush(ops, unmatchedStart, unmatchedData)
      /\ UNCHANGED <<old, new, blocks, window, windowIndex, windowHash, windowStart,
                     unmatchedStart, unmatchedData, read, hashed>>
  BY DEF FlushInsert
<1>3. old \in Seq(Bytes) /\ new \in Seq(Bytes) /\ Len(new) \in Nat
  BY <1>1 DEF FilesInv
<1>4. PICK flushed : flushed = Flush(ops, unmatchedStart, unmatchedData)
  OBVIOUS
<1>5. GoodOps(flushed, old, new) /\ NoAdjacentInserts(flushed) /\ Reach(flushed) = Len(new)
  <2>1. PICK d : d = ops
    OBVIOUS
  <2>2. PICK start \in Nat : start = unmatchedStart
    BY <1>1, <1>3 DEF PendingInv
  <2>3. PICK pending : pending = unmatchedData
    OBVIOUS
  <2>4. PICK end \in Nat : end = Len(new)
    BY <1>3
  <2>5. PendingRight(d, start, pending, end, end, old, new)
    BY <1>1, <1>2, <2>1, <2>2, <2>3, <2>4 DEF PendingInv
  <2>6. GoodOps(d, old, new) /\ NoAdjacentInserts(d) /\ EndsInCopy(d)
    BY <1>1, <1>2, <2>1 DEF OpsInv
  <2>7. end <= end /\ end <= Len(new)
    BY <2>4
  <2>8. LET f == Flush(d, start, pending)
        IN  GoodOps(f, old, new) /\ NoAdjacentInserts(f) /\ Reach(f) = end
    BY <1>3, <2>5, <2>6, <2>7, FlushGood
  <2> QED
    BY <1>4, <2>1, <2>2, <2>3, <2>4, <2>8
<1>6. FilesInv'
  BY <1>1, <1>2 DEF FilesInv
<1>7. WindowInv'
  BY <1>1, <1>2 DEF WindowInv
<1>8. ReadInv'
  BY <1>1, <1>2 DEF ReadInv
<1>9. OpsInv'
  BY <1>2, <1>4, <1>5 DEF OpsInv
<1>10. PendingInv'
  BY <1>1, <1>2 DEF PendingInv
<1> QED
  BY <1>6, <1>7, <1>8, <1>9, <1>10 DEF EngineInv

LEMMA OptimizeStep == EngineInv /\ Optimize => EngineInv'
<1> SUFFICES ASSUME EngineInv, Optimize PROVE EngineInv'
  OBVIOUS
<1>1. FilesInv /\ WindowInv /\ ReadInv /\ OpsInv /\ PendingInv
  BY DEF EngineInv
<1>2. /\ phase = "optimize" /\ phase' = "done" /\ ops' = OptimizeDelta(ops)
      /\ UNCHANGED <<old, new, blocks, window, windowIndex, windowHash, windowStart,
                     unmatchedStart, unmatchedData, read, hashed>>
  BY DEF Optimize
<1>3. old \in Seq(Bytes) /\ new \in Seq(Bytes)
  BY <1>1 DEF FilesInv
<1>4. GoodOps(ops, old, new) /\ NoAdjacentInserts(ops) /\ Reach(ops) = Len(new)
  BY <1>1, <1>2 DEF OpsInv
<1>5. /\ ops \in Seq(OpsOf(Bytes)) /\ Tiles(ops) /\ NoDeletes(ops)
      /\ \A i \in 1..Len(ops) : OpRight(ops[i], old, new)
  BY <1>4 DEF GoodOps
<1>6. PICK best : best = OptimizeDelta(ops)
  OBVIOUS
<1>7. /\ best = MergeRuns(ops) /\ best \in Seq(OpsOf(Bytes)) /\ NoDeletes(best)
      /\ Tiles(best) /\ Reach(best) = Reach(ops)
  BY <1>5, <1>6, OptimizedTiles
<1>8. NoFalseMatch(old, new) => AllWrite(best, old, new)
  <2> HAVE NoFalseMatch(old, new)
  <2>1. AllWrite(ops, old, new)
    BY <1>5 DEF AllWrite, OpRight
  <2>2. AllWrite(MergeRuns(ops), old, new)
    BY <1>3, <1>5, <2>1, MergedWrites
  <2> QED
    BY <1>7, <2>2
<1>9. \A j \in 1..Len(best) : best[j].type = "insert" => \E i \in 1..Len(ops) : best[j] = ops[i]
  <2>1. \A j \in 1..Len(MergeRuns(ops)) :
           MergeRuns(ops)[j].type = "insert" => \E i \in 1..Len(ops) : MergeRuns(ops)[j] = ops[i]
    BY <1>4, <1>5, MergedInserts
  <2> QED
    BY <1>7, <2>1
<1>10. ASSUME NEW j \in 1..Len(best) PROVE OpRight(best[j], old, new)
  <2>1. NoFalseMatch(old, new) => WritesPart(best[j], old, new)
    BY <1>8 DEF AllWrite
  <2>2. best[j].type = "insert" => InsertRight(best[j], old, new)
    BY <1>5, <1>9 DEF OpRight
  <2> QED
    BY <2>1, <2>2 DEF OpRight
<1>11. GoodOps(best, old, new)
  BY <1>7, <1>10 DEF GoodOps
<1>12. FilesInv'
  BY <1>1, <1>2 DEF FilesInv
<1>13. WindowInv'
  BY <1>1, <1>2 DEF WindowInv
<1>14. ReadInv'
  BY <1>1, <1>2 DEF ReadInv
<1>15. OpsInv'
  BY <1>2, <1>4, <1>6, <1>7, <1>11 DEF OpsInv
<1>16. PendingInv'
  BY <1>1, <1>2 DEF PendingInv
<1> QED
  BY <1>12, <1>13, <1>14, <1>15, <1>16 DEF EngineInv

LEMMA StutterStep == EngineInv /\ UNCHANGED vars => EngineInv'
<1> SUFFICES ASSUME EngineInv, UNCHANGED vars PROVE EngineInv'
  OBVIOUS
<1>1. FilesInv' /\ OpsInv' /\ PendingInv'
  BY DEF EngineInv, FilesInv, OpsInv, PendingInv, vars
<1>2. WindowInv' /\ ReadInv'
  <2>1. OrderedWindow' = OrderedWindow
    BY DEF OrderedWindow, vars
  <2> QED
    BY <2>1 DEF EngineInv, WindowInv, ReadInv, vars
<1> QED
  BY <1>1, <1>2 DEF EngineInv

LEMMA EngineInvariant == Spec => []EngineInv
<1>1. EngineInv /\ [Next]_vars => EngineInv'
  BY SignStep, FirstStep, CopyStep, SlideStep, DrainStep, FlushStep, OptimizeStep, StutterStep
  DEF Next
<1> QED
  BY <1>1, InitEngine, PTL DEF Spec

-----------------------------------------------------------------------------
(* What the invariant says of the scan's promises.                         *)

\* The m bytes from p on of the stretch from a to e.
Within(B, f, a, e, p, m) ==
    /\ f \in Seq(B) /\ a \in Nat /\ e \in Nat /\ a <= e /\ e <= Len(f)
    /\ p \in Nat /\ m \in Nat /\ p + m <= e - a

LEMMA StretchOfStretch ==
    ASSUME NEW B, NEW f, NEW a, NEW e, NEW p, NEW m, Within(B, f, a, e, p, m)
    PROVE  Stretch(Stretch(f, a, e), p, p + m) = Stretch(f, a + p, (a + p) + m)
<1>a. /\ f \in Seq(B) /\ a \in Nat /\ e \in Nat /\ a <= e /\ e <= Len(f)
      /\ p \in Nat /\ m \in Nat /\ p + m <= e - a
  BY DEF Within
<1>1. PICK s \in Seq(B) : s = Stretch(f, a, e) /\ Len(s) = e - a /\ \A i \in 1..(e - a) : s[i] = f[a + i]
  <2>1. /\ Stretch(f, a, e) \in Seq(B) /\ Len(Stretch(f, a, e)) = e - a
        /\ \A i \in 1..(e - a) : Stretch(f, a, e)[i] = f[a + i]
    BY <1>a, StretchProperties
  <2> QED
    BY <2>1
<1>2. PICK q \in Nat : q = p + m
  BY <1>a
<1>3. PICK b \in Nat : b = a + p
  BY <1>a
<1>4. PICK c \in Nat : c = b + m
  BY <1>a
<1>5. p <= q /\ q <= Len(s) /\ q - p = m /\ b <= c /\ c <= Len(f) /\ c - b = m /\ Len(f) \in Nat
  BY <1>a, <1>1, <1>2, <1>3, <1>4
<1>6. /\ Stretch(s, p, q) \in Seq(B) /\ Len(Stretch(s, p, q)) = q - p
      /\ \A i \in 1..(q - p) : Stretch(s, p, q)[i] = s[p + i]
  <2>1. p \in Nat /\ p <= q /\ q <= Len(s)
    BY <1>a, <1>5
  <2> QED
    BY <2>1, StretchProperties
<1>7. /\ Stretch(f, b, c) \in Seq(B) /\ Len(Stretch(f, b, c)) = c - b
      /\ \A i \in 1..(c - b) : Stretch(f, b, c)[i] = f[b + i]
  <2>1. f \in Seq(B) /\ b <= c /\ c <= Len(f)
    BY <1>a, <1>5
  <2> QED
    BY <2>1, StretchProperties
<1>8. ASSUME NEW i \in 1..m PROVE Stretch(s, p, q)[i] = Stretch(f, b, c)[i]
  <2>1. p + i \in 1..(e - a) /\ a + (p + i) = b + i
    BY <1>a, <1>3
  <2>2. Stretch(s, p, q)[i] = s[p + i] /\ Stretch(f, b, c)[i] = f[b + i]
    BY <1>5, <1>6, <1>7
  <2> QED
    BY <1>1, <2>1, <2>2
<1>9. Stretch(s, p, q) = Stretch(f, b, c)
  <2>1. Len(Stretch(s, p, q)) = m /\ Len(Stretch(f, b, c)) = m
    BY <1>5, <1>6, <1>7
  <2> QED
    BY <1>a, <1>6, <1>7, <1>8, <2>1, SeqEqual
<1> QED
  BY <1>1, <1>2, <1>3, <1>4, <1>9

\* The operations, with the pending insert flushed, reach the frontier.
LEMMA AllOpsGood ==
    EngineInv => /\ GoodOps(AllOps, old, new)
                 /\ phase \in {"loop", "flush", "optimize", "done"} => Reach(AllOps) = Frontier
<1> SUFFICES ASSUME EngineInv
             PROVE  /\ GoodOps(AllOps, old, new)
                    /\ phase \in {"loop", "flush", "optimize", "done"} => Reach(AllOps) = Frontier
  OBVIOUS
<1>0. BlockSize \in Nat \ {0}
  BY EngineAssumption
<1>1. FilesInv /\ WindowInv /\ OpsInv /\ PendingInv
  BY DEF EngineInv
<1>2. old \in Seq(Bytes) /\ new \in Seq(Bytes) /\ Len(new) \in Nat
  BY <1>1 DEF FilesInv
<1>3. CASE phase \notin {"loop", "flush"}
  <2>1. AllOps = ops /\ Frontier = Len(new)
    BY <1>3 DEF AllOps, Frontier
  <2>2. GoodOps(ops, old, new) /\ (phase \in {"optimize", "done"} => Reach(ops) = Len(new))
    BY <1>1 DEF OpsInv
  <2> QED
    BY <1>3, <2>1, <2>2
<1>4. CASE phase \in {"loop", "flush"}
  <2>1. PICK d : d = ops
    OBVIOUS
  <2>2. PICK start \in Nat : start = unmatchedStart
    BY <1>1, <1>2 DEF PendingInv
  <2>3. PICK pending : pending = unmatchedData
    OBVIOUS
  <2>4. PICK end \in Nat : end = Frontier /\ end <= Len(new)
    BY <1>1, <1>2 DEF WindowInv, Frontier
  <2>5. PICK seen \in Nat : seen = (IF phase = "loop" THEN end + BlockSize - 1 ELSE end)
    BY <1>0
  <2>6. end <= seen
    BY <1>0, <2>5
  <2>7. PendingRight(d, start, pending, end, seen, old, new)
    BY <1>1, <1>4, <2>1, <2>2, <2>3, <2>4, <2>5 DEF PendingInv, Frontier
  <2>8. GoodOps(d, old, new) /\ NoAdjacentInserts(d) /\ EndsInCopy(d)
    BY <1>1, <1>4, <2>1 DEF OpsInv
  <2>9. LET f == Flush(d, start, pending)
        IN  GoodOps(f, old, new) /\ NoAdjacentInserts(f) /\ Reach(f) = end
    BY <1>2, <2>4, <2>6, <2>7, <2>8, FlushGood
  <2>10. AllOps = Flush(d, start, pending)
    BY <1>4, <2>1, <2>2, <2>3 DEF AllOps
  <2> QED
    BY <2>4, <2>9, <2>10
<1> QED
  BY <1>3, <1>4

LEMMA EndOfPart ==
    ASSUME NEW S, NEW d \in Seq(S), NEW n \in 0..Len(d)
    PROVE  EndOf(SubSeq(d, 1, n)) = EndAt(d, n)
<1>1. n \in Nat /\ 0 \in Nat /\ 0 <= n /\ n <= Len(d) /\ 0 + 1 = 1 /\ n - 0 = n /\ 0 + n = n
  OBVIOUS
<1>2. /\ Stretch(d, 0, n) \in Seq(S) /\ Len(Stretch(d, 0, n)) = n - 0
      /\ \A i \in 1..(n - 0) : Stretch(d, 0, n)[i] = d[0 + i]
  BY <1>1, StretchProperties
<1>3. PICK s \in Seq(S) : s = SubSeq(d, 1, n) /\ Len(s) = n /\ \A i \in 1..n : s[i] = d[0 + i]
  BY <1>1, <1>2 DEF Stretch
<1>4. CASE n = 0
  <2>1. s = <<>>
    BY <1>3, <1>4
  <2> QED
    BY <1>3, <1>4, <2>1 DEF EndOf, EndAt
<1>5. CASE n # 0
  <2>1. s # <<>> /\ n \in 1..n
    BY <1>1, <1>3, <1>5
  <2>2. s[Len(s)] = d[n]
    BY <1>1, <1>3, <2>1
  <2> QED
    BY <1>3, <1>5, <2>1, <2>2 DEF EndOf, EndAt
<1> QED
  BY <1>4, <1>5

LEMMA OpsCover == EngineInv => OpsTile
<1> SUFFICES ASSUME EngineInv, phase \in {"loop", "flush", "optimize", "done"}
             PROVE  /\ \A i \in DOMAIN AllOps :
                          AllOps[i].offset = EndOf(SubSeq(AllOps, 1, i - 1)) /\ AllOps[i].size > 0
                    /\ EndOf(AllOps) = Frontier
  BY DEF OpsTile
<1>1. PICK d : d = AllOps
  OBVIOUS
<1>2. d \in Seq(OpsOf(Bytes)) /\ Tiles(d) /\ Reach(d) = Frontier
  BY <1>1, AllOpsGood DEF GoodOps
<1>3. ASSUME NEW i \in DOMAIN d PROVE d[i].offset = EndOf(SubSeq(d, 1, i - 1)) /\ d[i].size > 0
  <2>1. i \in 1..Len(d) /\ i - 1 \in 0..Len(d)
    BY <1>2
  <2>2. PICK n \in 0..Len(d) : n = i - 1
    BY <2>1
  <2>3. EndOf(SubSeq(d, 1, n)) = EndAt(d, n)
    BY <1>2, EndOfPart
  <2> QED
    BY <1>2, <2>1, <2>2, <2>3 DEF Tiles
<1>4. EndOf(d) = Frontier
  <2>1. SubSeq(d, 1, Len(d)) = d
    BY <1>2, SubSeqFull
  <2>2. PICK n \in 0..Len(d) : n = Len(d)
    BY <1>2
  <2>3. EndOf(SubSeq(d, 1, n)) = EndAt(d, n)
    BY <1>2, EndOfPart
  <2> QED
    BY <1>2, <2>1, <2>2, <2>3 DEF Reach
<1> QED
  BY <1>1, <1>3, <1>4

LEMMA ScanTyped == EngineInv => TypeOK /\ WindowIsNext /\ RollingHashIsFresh
<1> SUFFICES ASSUME EngineInv PROVE TypeOK /\ WindowIsNext /\ RollingHashIsFresh
  OBVIOUS
<1>1. FilesInv /\ WindowInv /\ ReadInv /\ PendingInv
  BY DEF EngineInv
<1>2. hashed \in Seq(Bytes)
  <2>1. PICK r \in Nat : r = read /\ r <= Len(new)
    BY <1>1 DEF FilesInv, ReadInv
  <2>2. new \in Seq(Bytes) /\ 0 \in Nat /\ 0 <= r
    BY <1>1 DEF FilesInv
  <2>3. Stretch(new, 0, r) \in Seq(Bytes)
    BY <2>1, <2>2, StretchProperties
  <2> QED
    BY <1>1, <2>1, <2>3 DEF ReadInv
<1>3. TypeOK
  BY <1>1, <1>2 DEF TypeOK, FilesInv, WindowInv, ReadInv, PendingInv
<1>4. WindowIsNext
  BY <1>1 DEF WindowIsNext, WindowInv, ReadInv, Stretch
<1>5. RollingHashIsFresh
  BY <1>1 DEF RollingHashIsFresh, WindowInv
<1> QED
  BY <1>3, <1>4, <1>5

LEMMA OpsAreNew == EngineInv /\ NoFalseMatch(old, new) => OpsWriteNew
<1> SUFFICES ASSUME EngineInv, NoFalseMatch(old, new), NEW i \in DOMAIN AllOps
             PROVE  OpBytes(AllOps[i]) = Slice(new, AllOps[i].offset, AllOps[i].size)
  BY DEF OpsWriteNew
<1>1. PICK d : d = AllOps
  OBVIOUS
<1>2. d \in Seq(OpsOf(Bytes)) /\ \A j \in 1..Len(d) : OpRight(d[j], old, new)
  BY <1>1, AllOpsGood DEF GoodOps
<1>3. PICK op \in OpsOf(Bytes) : op = d[i] /\ OpRight(op, old, new)
  BY <1>1, <1>2
<1>4. WritesPart(op, old, new)
  BY <1>3 DEF OpRight
<1>5. PICK a \in Nat : a = op.offset
  BY DEF OpsOf
<1>6. PICK k \in Nat : k = op.size
  BY DEF OpsOf
<1>7. a + k <= Len(new) /\ OpBytes(op) = Stretch(new, a, a + k)
  BY <1>4, <1>5, <1>6 DEF WritesPart, OpBytes
<1>8. new \in Seq(Bytes)
  BY DEF EngineInv, FilesInv
<1>9. Slice(new, a, k) = Stretch(new, a, a + k)
  BY <1>7, <1>8, SliceIsStretch
<1> QED
  BY <1>1, <1>3, <1>5, <1>6, <1>7, <1>9

LEMMA DeltaRebuilds == EngineInv /\ NoFalseMatch(old, new) => DeltaRebuildsNew
<1> SUFFICES ASSUME EngineInv, NoFalseMatch(old, new), phase = "done"
             PROVE  Rebuild(old, ops) = new /\ hashed = new
  BY DEF DeltaRebuildsNew
<1>1. FilesInv /\ ReadInv /\ OpsInv
  BY DEF EngineInv
<1>2. old \in Seq(Bytes) /\ new \in Seq(Bytes)
  BY <1>1 DEF FilesInv
<1>3. hashed = new
  <2>1. hashed = Stretch(new, 0, Len(new))
    BY <1>1 DEF ReadInv
  <2> QED
    BY <1>2, <2>1, StretchAll
<1>4. PICK d \in Seq(OpsOf(Bytes)) :
         /\ d = ops /\ Tiles(d) /\ Reach(d) = Len(new)
         /\ \A i \in 1..Len(d) : OpRight(d[i], old, new)
  BY <1>1 DEF OpsInv, GoodOps
<1>5. AllWrite(d, old, new)
  BY <1>4 DEF AllWrite, OpRight
<1>6. Bytes \subseteq Nat /\ Seq(Bytes) \subseteq Seq(Nat)
  <2>1. Bytes \subseteq Nat
    BY EngineAssumption
  <2>2. ASSUME NEW s \in Seq(Bytes) PROVE s \in Seq(Nat)
    <3>1. Len(s) \in Nat /\ s \in [1..Len(s) -> Bytes]
      OBVIOUS
    <3>2. s \in [1..Len(s) -> Nat]
      BY <2>1, <3>1
    <3> QED
      BY <3>1, <3>2
  <2> QED
    BY <2>1, <2>2
<1>7. d \in Seq(OpsOf(Nat))
  <2>1. OpsOf(Bytes) \subseteq OpsOf(Nat)
    BY <1>6 DEF OpsOf
  <2> QED
    BY <2>1
<1>8. 0 \in Nat /\ old \in Seq(Nat) /\ new \in Seq(Nat)
  BY <1>2, <1>6
<1>9. Rebuild(old, d) = new
  BY <1>4, <1>5, <1>7, <1>8, RebuildGivesFile
<1> QED
  BY <1>3, <1>4, <1>9

LEMMA InsertsHaveNoBlock == EngineInv /\ EnableCRC32 => BlocksReused
<1> SUFFICES ASSUME EngineInv, EnableCRC32, phase = "done",
                    NEW i \in DOMAIN ops, NEW b \in DOMAIN blocks,
                    ops[i].type = "insert", blocks[b].size = BlockSize,
                    NEW p \in 0..(ops[i].size - BlockSize)
             PROVE  Slice(ops[i].data, p, BlockSize) # Slice(old, blocks[b].offset, BlockSize)
  BY DEF BlocksReused
<1>0. BlockSize \in Nat \ {0}
  BY EngineAssumption
<1>1. FilesInv /\ OpsInv
  BY DEF EngineInv
<1>2. old \in Seq(Bytes) /\ new \in Seq(Bytes) /\ blocks = Signature(old)
  BY <1>1 DEF FilesInv
<1>3. PICK op \in OpsOf(Bytes) : op = ops[i] /\ OpRight(op, old, new)
  <2>1. ops \in Seq(OpsOf(Bytes)) /\ \A j \in 1..Len(ops) : OpRight(ops[j], old, new)
    BY <1>1 DEF OpsInv, GoodOps
  <2> QED
    BY <2>1
<1>4. InsertRight(op, old, new)
  BY <1>3 DEF OpRight
<1>5. PICK a \in Nat : a = op.offset
  BY DEF OpsOf
<1>6. PICK k \in Nat : k = op.size
  BY DEF OpsOf
<1>7. PICK e \in Nat : e = a + k
  OBVIOUS
<1>8. e <= Len(new) /\ op.data = Stretch(new, a, e) /\ NoBlockIn(old, new, a, e)
  BY <1>4, <1>5, <1>6, <1>7 DEF InsertRight
<1>9. p \in Nat /\ p + BlockSize <= k /\ k = e - a /\ a <= e
  BY <1>0, <1>3, <1>6, <1>7
<1>10. PICK q \in Nat : q = a + p
  BY <1>9
<1>11. NoBlockAt(old, new, q)
  <2>1. q \in a..(e - BlockSize)
    BY <1>0, <1>9, <1>10
  <2> QED
    BY <1>8, <2>1 DEF NoBlockIn
<1>12. PICK data \in Seq(Bytes) : data = op.data /\ Len(data) = e - a
  BY <1>2, <1>8, <1>9, StretchProperties
<1>13. Slice(data, p, BlockSize) = Stretch(data, p, p + BlockSize)
  BY <1>0, <1>9, <1>12, SliceIsStretch
<1>14. Stretch(data, p, p + BlockSize) = Stretch(new, q, q + BlockSize)
  <2>1. Within(Bytes, new, a, e, p, BlockSize)
    BY <1>0, <1>2, <1>8, <1>9 DEF Within
  <2>2. Stretch(Stretch(new, a, e), p, p + BlockSize) = Stretch(new, a + p, (a + p) + BlockSize)
    BY <2>1, StretchOfStretch
  <2> QED
    BY <1>8, <1>10, <1>12, <2>2
<1>15. Slice(old, blocks[b].offset, BlockSize) # Stretch(new, q, q + BlockSize)
  BY <1>2, <1>11 DEF NoBlockAt
<1> QED
  BY <1>3, <1>12, <1>13, <1>14, <1>15

-----------------------------------------------------------------------------

\* Whatever hashes and checksums collide, the window is the stretch of the new
\* file where the operations end, the hash that rollBlockHash carries from
\* window to window is the window's own, and the operations cover the new file
\* up to there with no gap and no overlap.
THEOREM ScanTiles == Spec => [](TypeOK /\ WindowIsNext /\ RollingHashIsFresh /\ OpsTile)
<1>1. EngineInv => TypeOK /\ WindowIsNext /\ RollingHashIsFresh /\ OpsTile
  BY ScanTyped, OpsCover
<1> QED
  BY <1>1, EngineInvariant, PTL

\* When no block of the old file has the hash, size and checksum of other
\* bytes looked up in the new one, every operation also writes, all through
\* the scan, the bytes the new file has at its place.
THEOREM ScanIsRight == Spec => [](NoFalseMatch(old, new) => ScanInv)
<1>1. EngineInv => (NoFalseMatch(old, new) => ScanInv)
  BY ScanTyped, OpsCover, OpsAreNew DEF ScanInv
<1> QED
  BY <1>1, EngineInvariant, PTL

\* Then the optimized delta that GenerateDelta returns, applied to the old
\* file, gives the new file, and its checksum is that of the new file.
THEOREM DeltaIsRight == Spec => [](NoFalseMatch(old, new) => DeltaRebuildsNew)
<1>1. EngineInv => (NoFalseMatch(old, new) => DeltaRebuildsNew)
  BY DeltaRebuilds
<1> QED
  BY <1>1, EngineInvariant, PTL

\* With checksums in the signature, as GenerateDelta's lookup expects, no full
\* block of the old file is left in an insert of the finished delta, wherever
\* in the new file it stands and whatever the operations before it did to the
\* window.
THEOREM BlocksAreReused ==
    ASSUME EnableCRC32
    PROVE  Spec => []BlocksReused
<1>1. EngineInv => BlocksReused
  BY InsertsHaveNoBlock
<1> QED
  BY <1>1, EngineInvariant, PTL

-----------------------------------------------------------------------------
(* The scan comes to its end.                                              *)

\* More than the steps that are left.
ScanLeft ==
    IF phase = "sign" THEN Len(new) + 5 ELSE IF phase = "open" THEN Len(new) + 4
    ELSE IF phase = "loop" THEN Len(new) - windowStart + 3
    ELSE IF phase = "flush" THEN 2 ELSE IF phase = "optimize" THEN 1 ELSE 0

\* A match moves the window by what was read, which is a block if the scan goes
\* on; a slide by one byte.
LEMMA WindowMovesOn ==
    ASSUME EngineInv, EngineInv', CopyBlock \/ SlideWindow, phase' = "loop"
    PROVE  windowStart' > windowStart
<1>1. BlockSize \in Nat \ {0} /\ windowStart \in Nat /\ windowStart' \in Nat
  BY EngineAssumption DEF EngineInv, WindowInv
<1>2. CASE CopyBlock
  <2>1. PICK n : n = Len(NextBlock)
    OBVIOUS
  <2>2. read' = read + n /\ ~(n < BlockSize)
    BY <1>2, <2>1 DEF CopyBlock, Refill, Consume
  <2>3. read = windowStart + BlockSize /\ read' = windowStart' + BlockSize
    BY <1>2 DEF EngineInv, ReadInv, CopyBlock
  <2>4. n \in Nat
    <3>1. NextBlock \in Seq(Bytes)
      BY NextBlockProperties DEF EngineInv, FilesInv, ReadInv
    <3> QED
      BY <2>1, <3>1
  <2>5. PICK a \in Nat, b \in Nat, s \in Nat \ {0} : a = windowStart /\ b = windowStart' /\ s = BlockSize
    BY <1>1
  <2>6. b + s = (a + s) + n /\ ~(n < s)
    BY <2>2, <2>3, <2>5
  <2>7. b > a
    BY <2>4, <2>6
  <2> QED
    BY <2>5, <2>7
<1>3. CASE SlideWindow
  BY <1>1, <1>3 DEF SlideWindow
<1> QED
  BY <1>2, <1>3

\* The scan ends after at most Len(new) + 5 steps, whatever the files, hashes
\* and checksums are: every turn of the loop moves the window on or is the last.
THEOREM ScanMovesOn ==
    /\ Init => ScanLeft = Len(new) + 5
    /\ Spec => [](ScanLeft \in Nat /\ (ScanLeft = 0 <=> phase = "done"))
    /\ Spec => [][ScanLeft' < ScanLeft]_vars
<1>1. Init => ScanLeft = Len(new) + 5
  BY DEF Init, ScanLeft
<1>2. ASSUME EngineInv PROVE ScanLeft \in Nat /\ (ScanLeft = 0 <=> phase = "done")
  <2>1. /\ phase \in {"sign", "open", "loop", "flush", "optimize", "done"}
        /\ Len(new) \in Nat /\ windowStart \in 0..Len(new)
    BY <1>2 DEF EngineInv, FilesInv, WindowInv
  <2> QED
    BY <2>1 DEF ScanLeft
<1>3. EngineInv /\ [Next]_vars => EngineInv'
  BY SignStep, FirstStep, CopyStep, SlideStep, DrainStep, FlushStep, OptimizeStep, StutterStep
  DEF Next
<1>4. ASSUME EngineInv, EngineInv', Next PROVE ScanLeft' < ScanLeft
  <2>1. /\ Len(new) \in Nat /\ windowStart \in 0..Len(new)
        /\ windowStart' \in 0..Len(new') /\ new' = new
    BY <1>4 DEF EngineInv, FilesInv, WindowInv, Next, GenerateSignature, FirstWindow, CopyBlock,
                SlideWindow, DrainWindow, FlushInsert, Optimize
  <2>2. CASE GenerateSignature \/ DrainWindow \/ FlushInsert \/ Optimize
    BY <2>1, <2>2 DEF GenerateSignature, DrainWindow, FlushInsert, Optimize, ScanLeft
  <2>3. CASE FirstWindow \/ CopyBlock
    <3>1. phase' \in {"loop", "flush"}
      BY <2>3 DEF FirstWindow, CopyBlock, Refill
    <3>2. FirstWindow => phase = "open"
      BY DEF FirstWindow
    <3>3. CopyBlock => phase = "loop"
      BY DEF CopyBlock
    <3> QED
      BY <1>4, <2>1, <2>3, <3>1, <3>2, <3>3, WindowMovesOn DEF ScanLeft
  <2>4. CASE SlideWindow
    <3>1. phase = "loop" /\ phase' = "loop"
      BY <2>4 DEF SlideWindow
    <3> QED
      BY <1>4, <2>1, <2>4, <3>1, WindowMovesOn DEF ScanLeft
  <2> QED
    BY <1>4, <2>2, <2>3, <2>4 DEF Next
<1>5. Spec => [](ScanLeft \in Nat /\ (ScanLeft = 0 <=> phase = "done"))
  BY <1>2, EngineInvariant, PTL
<1>6. Spec => [][ScanLeft' < ScanLeft]_vars
  BY <1>3, <1>4, InitEngine, PTL DEF Spec
<1> QED
  BY <1>1, <1>5, <1>6
=============================================================================
