-------------------------- MODULE FlattenTheorems --------------------------
(***************************************************************************)
(* Laws of FlattenSeq, with which the models gather what waits in a queue. *)
(* FlattenSeq is computed by recursion; that the recursion has a value,    *)
(* and what it is, is proved by induction over sets of naturals.           *)
(***************************************************************************)
EXTENDS SequencesExt, Integers, FiniteSetTheorems, SequenceTheorems, TLAPS

\* A number outside of a set with 0 that is closed under +1 would have as many
\* numbers outside of the set up to it as there are before it.
LEMMA SetInduction ==
    ASSUME NEW S, 0 \in S, \A n \in Nat : n \in S => n + 1 \in S
    PROVE  Nat \subseteq S
<1> SUFFICES ASSUME NEW n \in Nat, n \notin S
             PROVE  FALSE
  OBVIOUS
<1> DEFINE U == (0..n) \ S
           V == U \ {n}
           f == [i \in U |-> i - 1]
<1>1. IsFiniteSet(0..n)
  BY FS_Interval
<1>2. IsFiniteSet(U)
  BY <1>1, FS_Subset
<1>3. Cardinality(V) = Cardinality(U) - 1 /\ IsFiniteSet(V)
  <2>1. n \in U
    OBVIOUS
  <2> QED
    BY <1>2, <2>1, FS_RemoveElement
<1>4. \A i \in U : i - 1 \in V
  <2> SUFFICES ASSUME NEW i \in U
               PROVE  i - 1 \in V
    OBVIOUS
  <2>1. i \in Nat /\ i # 0 /\ i <= n
    OBVIOUS
  <2>2. i - 1 \in Nat /\ (i - 1) + 1 = i /\ i - 1 # n /\ i - 1 \in 0..n
    BY <2>1
  <2> QED
    BY <2>2
<1>5. f \in [U -> V]
  BY <1>4
<1>6. Cardinality(U) \in Nat
  BY <1>2, FS_CardinalityType
<1>7. \A i, j \in U : i # j => f[i] # f[j]
  OBVIOUS
<1> HIDE DEF U, V, f
<1>8. \E i, j \in U : i # j /\ f[i] = f[j]
  <2>1. Cardinality(V) < Cardinality(U)
    BY <1>3, <1>6
  <2> QED
    BY <1>2, <1>3, <1>5, <2>1, FS_PigeonHole
<1> QED
  BY <1>7, <1>8


-----------------------------------------------------------------------------
\* g is the function that FlattenSeq computes, for the first n of the sequences ss.
Flattens(g, ss, n) ==
    g = [i \in 1..n |-> IF i = 1 THEN ss[i] ELSE g[i-1] \o ss[i]]

LEMMA FlattenExists ==
    ASSUME NEW ss, NEW n \in Nat
    PROVE  \E g : Flattens(g, ss, n)
<1> DEFINE S == {m \in Nat : \E g : Flattens(g, ss, m)}
<1>1. 0 \in S
  <2> DEFINE g == [i \in 1..0 |-> IF i = 1 THEN ss[i] ELSE <<>> \o ss[i]]
  <2>1. g = [i \in 1..0 |-> IF i = 1 THEN ss[i] ELSE g[i-1] \o ss[i]]
    OBVIOUS
  <2>2. Flattens(g, ss, 0)
    BY <2>1 DEF Flattens
  <2> QED
    BY <2>2
<1>2. ASSUME NEW m \in Nat, m \in S
      PROVE  m + 1 \in S
  <2>1. PICK g : Flattens(g, ss, m)
    BY <1>2
  <2> DEFINE h == [i \in 1..(m + 1) |->
                     IF i <= m THEN g[i]
                     ELSE IF i = 1 THEN ss[i] ELSE g[i-1] \o ss[i]]
             h2 == [i \in 1..(m + 1) |-> IF i = 1 THEN ss[i] ELSE h[i-1] \o ss[i]]
  <2>2. \A i \in 1..m : h[i] = g[i]
    OBVIOUS
  <2>3. \A i \in 1..m : g[i] = IF i = 1 THEN ss[i] ELSE g[i-1] \o ss[i]
    BY <2>1 DEF Flattens
  <2>4. ASSUME NEW i \in 1..(m + 1)
        PROVE  h[i] = IF i = 1 THEN ss[i] ELSE h[i-1] \o ss[i]
    <3>1. CASE i = 1
      BY <3>1, <2>3
    <3>2. CASE i # 1
      <4>1. i - 1 \in 1..m
        BY <3>2
      <4>2. h[i] = g[i-1] \o ss[i]
        <5>1. CASE i <= m
          <6>1. i \in 1..m /\ h[i] = g[i]
            BY <2>2, <5>1
          <6> QED
            BY <2>3, <3>2, <6>1
        <5>2. CASE ~(i <= m)
          BY <3>2, <5>2
        <5> QED
          BY <5>1, <5>2
      <4>3. h[i-1] = g[i-1]
        BY <2>2, <4>1
      <4> HIDE DEF h
      <4> QED
        BY <3>2, <4>2, <4>3
    <3> QED
      BY <3>1, <3>2
  <2>5. h = h2
    <3>1. \A i \in 1..(m + 1) : h[i] = h2[i]
      BY <2>4
    <3> QED
      BY <3>1
  <2> HIDE DEF h
  <2>6. Flattens(h, ss, m + 1)
    BY <2>5 DEF Flattens
  <2> QED
    BY <2>6
<1> HIDE DEF S
<1>3. Nat \subseteq S
  BY <1>1, <1>2, SetInduction
<1> QED
  BY <1>3 DEF S

LEMMA FlattenValue ==
    ASSUME NEW ss, Len(ss) \in Nat, Len(ss) # 0
    PROVE  \E g : Flattens(g, ss, Len(ss)) /\ FlattenSeq(ss) = g[Len(ss)]
<1> DEFINE g == CHOOSE h : Flattens(h, ss, Len(ss))
<1>1. Flattens(g, ss, Len(ss))
  BY FlattenExists
<1>2. FlattenSeq(ss) = g[Len(ss)]
  BY DEF FlattenSeq, Flattens
<1> QED
  BY <1>1, <1>2


LEMMA FlattenEmpty == FlattenSeq(<<>>) = <<>>
BY DEF FlattenSeq

\* ss and tt have the same first k items.
SameFirst(ss, tt, k) == \A i \in 1..k : ss[i] = tt[i]

\* The partial results only depend on the sequences they gather.
LEMMA FlattensAgree ==
    ASSUME NEW ss, NEW tt, NEW g, NEW h, NEW n \in Nat, NEW m \in Nat, NEW k \in Nat,
           Flattens(g, ss, n), Flattens(h, tt, m), k <= n, k <= m,
           SameFirst(ss, tt, k)
    PROVE  SameFirst(g, h, k)
<1> DEFINE S == {j \in Nat : j \in 1..k => g[j] = h[j]}
<1>1. 0 \in S
  OBVIOUS
<1>2. ASSUME NEW j \in Nat, j \in S
      PROVE  j + 1 \in S
  <2> SUFFICES ASSUME j + 1 \in 1..k
               PROVE  g[j + 1] = h[j + 1]
    OBVIOUS
  <2>1. /\ j + 1 \in 1..n /\ j + 1 \in 1..m /\ (j + 1) - 1 = j
        /\ ss[j + 1] = tt[j + 1]
    BY DEF SameFirst
  <2>2. g[j + 1] = IF j + 1 = 1 THEN ss[j + 1] ELSE g[(j + 1) - 1] \o ss[j + 1]
    BY <2>1 DEF Flattens
  <2>3. h[j + 1] = IF j + 1 = 1 THEN tt[j + 1] ELSE h[(j + 1) - 1] \o tt[j + 1]
    BY <2>1 DEF Flattens
  <2>4. j + 1 # 1 => g[j] = h[j]
    BY <1>2
  <2> QED
    BY <2>1, <2>2, <2>3, <2>4
<1> HIDE DEF S
<1>3. Nat \subseteq S
  BY <1>1, <1>2, SetInduction
<1> QED
  BY <1>3 DEF S, SameFirst

LEMMA FlattensType ==
    ASSUME NEW T, NEW ss \in Seq(Seq(T)), NEW g, Flattens(g, ss, Len(ss))
    PROVE  \A i \in 1..Len(ss) : g[i] \in Seq(T)
<1> DEFINE S == {j \in Nat : j \in 1..Len(ss) => g[j] \in Seq(T)}
<1>1. 0 \in S
  OBVIOUS
<1>2. ASSUME NEW j \in Nat, j \in S
      PROVE  j + 1 \in S
  <2> SUFFICES ASSUME j + 1 \in 1..Len(ss)
               PROVE  g[j + 1] \in Seq(T)
    OBVIOUS
  <2>1. (j + 1) - 1 = j /\ ss[j + 1] \in Seq(T)
    OBVIOUS
  <2>2. g[j + 1] = IF j + 1 = 1 THEN ss[j + 1] ELSE g[(j + 1) - 1] \o ss[j + 1]
    BY DEF Flattens
  <2>3. j + 1 # 1 => g[j] \in Seq(T)
    BY <1>2
  <2> QED
    BY <2>1, <2>2, <2>3
<1> HIDE DEF S
<1>3. Nat \subseteq S
  BY <1>1, <1>2, SetInduction
<1> QED
  BY <1>3 DEF S

\* What is gathered of sequences over T is a sequence over T.
LEMMA FlattenType ==
    ASSUME NEW T, NEW ss \in Seq(Seq(T))
    PROVE  FlattenSeq(ss) \in Seq(T)
<1>1. CASE Len(ss) = 0
  <2>1. FlattenSeq(ss) = <<>>
    <3>1. ss = <<>>
      BY <1>1
    <3> QED
      BY <3>1, FlattenEmpty
  <2> QED
    BY <2>1
<1>2. CASE Len(ss) # 0
  <2>1. PICK g : Flattens(g, ss, Len(ss)) /\ FlattenSeq(ss) = g[Len(ss)]
    BY <1>2, FlattenValue
  <2> QED
    BY <1>2, <2>1, FlattensType
<1> QED
  BY <1>1, <1>2

\* One more sequence at the end.
LEMMA FlattenAppend ==
    ASSUME NEW T, NEW ss \in Seq(Seq(T)), NEW s \in Seq(T)
    PROVE  FlattenSeq(Append(ss, s)) = FlattenSeq(ss) \o s
<1> DEFINE tt == Append(ss, s)
<1>1. /\ tt \in Seq(Seq(T)) /\ Len(tt) = Len(ss) + 1 /\ Len(ss) \in Nat
      /\ \A i \in 1..Len(ss) : ss[i] = tt[i]
      /\ tt[Len(ss) + 1] = s
  OBVIOUS
<1> HIDE DEF tt
<1>2. PICK h : Flattens(h, tt, Len(tt)) /\ FlattenSeq(tt) = h[Len(tt)]
  BY <1>1, FlattenValue
<1>3. h[Len(ss) + 1] = IF Len(ss) = 0 THEN s ELSE h[Len(ss)] \o s
  <2>1. Len(ss) + 1 \in 1..Len(tt)
    BY <1>1
  <2>2. h[Len(ss) + 1] = IF Len(ss) + 1 = 1 THEN tt[Len(ss) + 1]
                         ELSE h[(Len(ss) + 1) - 1] \o tt[Len(ss) + 1]
    BY <1>2, <2>1 DEF Flattens
  <2>3. (Len(ss) + 1) - 1 = Len(ss) /\ (Len(ss) + 1 = 1 <=> Len(ss) = 0)
    BY <1>1
  <2> QED
    BY <1>1, <2>2, <2>3
<1>4. CASE Len(ss) = 0
  <2>1. FlattenSeq(ss) = <<>>
    <3>1. ss = <<>>
      BY <1>4
    <3> QED
      BY <3>1, FlattenEmpty
  <2>2. FlattenSeq(tt) = s
    BY <1>1, <1>2, <1>3, <1>4
  <2> QED
    BY <2>1, <2>2 DEF tt
<1>5. CASE Len(ss) # 0
  <2>1. PICK g : Flattens(g, ss, Len(ss)) /\ FlattenSeq(ss) = g[Len(ss)]
    BY <1>1, <1>5, FlattenValue
  <2>2. SameFirst(g, h, Len(ss))
    <3>1. Len(tt) \in Nat /\ Len(ss) <= Len(tt) /\ Len(ss) <= Len(ss)
      BY <1>1
    <3>2. Flattens(g, ss, Len(ss)) /\ Flattens(h, tt, Len(tt))
      BY <1>2, <2>1
    <3>3. SameFirst(ss, tt, Len(ss)) /\ Len(ss) \in Nat
      BY <1>1 DEF SameFirst
    <3> QED
      BY <3>1, <3>2, <3>3, FlattensAgree
  <2>3. g[Len(ss)] = h[Len(ss)]
    BY <1>1, <1>5, <2>2 DEF SameFirst
  <2> QED
    BY <1>1, <1>2, <1>3, <1>5, <2>1, <2>3 DEF tt
<1> QED
  BY <1>4, <1>5


\* The first sequence, and what is gathered of the others.
LEMMA FlattenHeadTail ==
    ASSUME NEW T, NEW ss \in Seq(Seq(T)), ss # <<>>
    PROVE  FlattenSeq(ss) = ss[1] \o FlattenSeq(Tail(ss))
<1> DEFINE tt == Tail(ss)
<1>0. \A x, y, z \in Seq(T) : (x \o y) \o z = x \o (y \o z)
  <2> TAKE x, y, z \in Seq(T)
  <2> QED
    BY SMTT(30)
<1>1. /\ tt \in Seq(Seq(T)) /\ Len(ss) = Len(tt) + 1 /\ Len(tt) \in Nat
      /\ \A i \in 1..Len(tt) : tt[i] = ss[i + 1]
      /\ ss[1] \in Seq(T)
  OBVIOUS
<1> HIDE DEF tt
<1>2. PICK h : Flattens(h, ss, Len(ss)) /\ FlattenSeq(ss) = h[Len(ss)]
  <2>1. Len(ss) \in Nat /\ Len(ss) # 0
    BY <1>1
  <2> QED
    BY <2>1, FlattenValue
<1>3. \A i \in 1..Len(ss) : h[i] = IF i = 1 THEN ss[i] ELSE h[i-1] \o ss[i]
  BY <1>2 DEF Flattens
<1>4. CASE Len(tt) = 0
  <2>1. FlattenSeq(tt) = <<>>
    <3>1. tt = <<>>
      BY <1>1, <1>4
    <3> QED
      BY <3>1, FlattenEmpty
  <2>2. FlattenSeq(ss) = ss[1]
    BY <1>1, <1>2, <1>3, <1>4
  <2> QED
    BY <1>1, <2>1, <2>2 DEF tt
<1>5. CASE Len(tt) # 0
  <2>1. PICK g : Flattens(g, tt, Len(tt)) /\ FlattenSeq(tt) = g[Len(tt)]
    BY <1>1, <1>5, FlattenValue
  <2>2. \A i \in 1..Len(tt) : g[i] = IF i = 1 THEN tt[i] ELSE g[i-1] \o tt[i]
    BY <2>1 DEF Flattens
  <2>3. \A i \in 1..Len(tt) : g[i] \in Seq(T)
    BY <1>1, <2>1, FlattensType
  <2> DEFINE S == {j \in Nat : j \in 1..Len(tt) => h[j + 1] = ss[1] \o g[j]}
  <2>4. 0 \in S
    OBVIOUS
  <2> HIDE DEF S
  <2>5. ASSUME NEW j \in Nat, j \in S
        PROVE  j + 1 \in S
    <3> SUFFICES ASSUME j + 1 \in 1..Len(tt)
                 PROVE  h[(j + 1) + 1] = ss[1] \o g[j + 1]
      <4>1. j + 1 \in Nat
        OBVIOUS
      <4> QED
        BY <4>1, Zenon DEF S
    <3>0. j \in 1..Len(tt) => h[j + 1] = ss[1] \o g[j]
      BY <2>5 DEF S
    <3>1. h[(j + 1) + 1] = h[j + 1] \o ss[(j + 1) + 1]
      <4>1. (j + 1) + 1 \in 1..Len(ss) /\ (j + 1) + 1 # 1 /\ ((j + 1) + 1) - 1 = j + 1
        BY <1>1
      <4> QED
        BY <1>3, <4>1
    <3>2. ss[(j + 1) + 1] = tt[j + 1] /\ tt[j + 1] \in Seq(T)
      BY <1>1
    <3>3. CASE j = 0
      <4>1. h[j + 1] = ss[1]
        BY <1>1, <1>3, <3>3
      <4>2. g[j + 1] = tt[j + 1]
        <5>1. j + 1 = 1 /\ j + 1 \in 1..Len(tt)
          BY <3>3
        <5> QED
          BY <2>2, <5>1
      <4> QED
        BY <3>1, <3>2, <4>1, <4>2
    <3>4. CASE j # 0
      <4>1. j \in 1..Len(tt) /\ (j + 1) - 1 = j /\ j + 1 # 1
        BY <1>1, <3>4
      <4>2. h[j + 1] = ss[1] \o g[j] /\ g[j] \in Seq(T)
        BY <2>3, <3>0, <4>1
      <4>3. g[j + 1] = g[j] \o tt[j + 1]
        BY <2>2, <4>1
      <4>4. (ss[1] \o g[j]) \o tt[j + 1] = ss[1] \o (g[j] \o tt[j + 1])
        <5>1. ss[1] \in Seq(T) /\ g[j] \in Seq(T) /\ tt[j + 1] \in Seq(T)
          BY <1>1, <3>2, <4>2
        <5> QED
          BY <1>0, <5>1, Zenon
      <4> QED
        BY <3>1, <3>2, <4>2, <4>3, <4>4
    <3> QED
      BY <3>3, <3>4
  <2>6. Nat \subseteq S
    BY <2>4, <2>5, SetInduction
  <2>7. Len(tt) \in S /\ Len(tt) \in 1..Len(tt)
    BY <1>1, <1>5, <2>6
  <2> QED
    BY <1>1, <1>2, <2>1, <2>7 DEF S, tt
<1> QED
  BY <1>4, <1>5

\* When nothing is gathered after place p, what is gathered ends with place p,
\* after a text that does not depend on it.
NothingBehind(ss, p) == \A i \in 1..Len(ss) : i > p => ss[i] = <<>>

\* s2 is s with its end, u, replaced by u2.
DiffersAtTheEnd(T, s, s2, u, u2) == \E before \in Seq(T) : s = before \o u /\ s2 = before \o u2

LEMMA FlattenLast ==
    ASSUME NEW T, NEW ss \in Seq(Seq(T)), NEW p \in 1..Len(ss), NEW s \in Seq(T),
           NothingBehind(ss, p)
    PROVE  DiffersAtTheEnd(T, FlattenSeq(ss), FlattenSeq([ss EXCEPT ![p] = s]), ss[p], s)
<1> DEFINE tt == [ss EXCEPT ![p] = s]
<1>1. /\ tt \in Seq(Seq(T)) /\ Len(tt) = Len(ss) /\ Len(ss) \in Nat /\ Len(ss) # 0
      /\ tt[p] = s /\ ss[p] \in Seq(T)
      /\ \A i \in 1..Len(ss) : i # p => tt[i] = ss[i]
  OBVIOUS
<1> HIDE DEF tt
<1>2. PICK g : Flattens(g, ss, Len(ss)) /\ FlattenSeq(ss) = g[Len(ss)]
  BY <1>1, FlattenValue
<1>3. PICK h : Flattens(h, tt, Len(ss)) /\ FlattenSeq(tt) = h[Len(ss)]
  BY <1>1, FlattenValue
<1>4. \A i \in 1..Len(ss) : /\ g[i] = IF i = 1 THEN ss[i] ELSE g[i-1] \o ss[i]
                            /\ h[i] = IF i = 1 THEN tt[i] ELSE h[i-1] \o tt[i]
  BY <1>2, <1>3 DEF Flattens
<1>5. \A i \in 1..Len(ss) : g[i] \in Seq(T) /\ h[i] \in Seq(T)
  <2>1. Flattens(h, tt, Len(tt))
    BY <1>1, <1>3
  <2> QED
    BY <1>1, <1>2, <2>1, FlattensType
<1> DEFINE before == IF p = 1 THEN <<>> ELSE g[p - 1]
<1>6. before \in Seq(T)
  <2>1. p # 1 => p - 1 \in 1..Len(ss)
    BY <1>1
  <2> QED
    BY <1>5, <2>1
<1>7. g[p] = before \o ss[p]
  <2>1. g[p] = IF p = 1 THEN ss[p] ELSE g[p - 1] \o ss[p]
    BY <1>4
  <2>2. CASE p = 1
    <3>1. before = <<>> /\ g[p] = ss[p]
      BY <2>1, <2>2
    <3> HIDE DEF before
    <3> QED
      BY <1>1, <3>1
  <2>3. CASE p # 1
    BY <2>1, <2>3
  <2> QED
    BY <2>2, <2>3
<1>8. h[p] = before \o s
  <2>1. CASE p = 1
    BY <1>1, <1>4, <2>1
  <2>2. CASE p # 1
    <3>1. p - 1 \in Nat /\ p - 1 \in 1..(p - 1) /\ p - 1 <= Len(ss)
      BY <1>1, <2>2
    <3>2. SameFirst(ss, tt, p - 1)
      <4>1. \A i \in 1..(p - 1) : i \in 1..Len(ss) /\ i # p
        BY <1>1, SMTT(30)
      <4>2. \A i \in 1..(p - 1) : tt[i] = ss[i]
        BY <1>1, <4>1
      <4> QED
        BY <4>2 DEF SameFirst
    <3>3. SameFirst(g, h, p - 1)
      <4>1. Len(ss) \in Nat /\ Flattens(g, ss, Len(ss)) /\ Flattens(h, tt, Len(ss))
        BY <1>1, <1>2, <1>3
      <4> QED
        BY <3>1, <3>2, <4>1, FlattensAgree
    <3> QED
      BY <1>1, <1>4, <2>2, <3>1, <3>3 DEF SameFirst
  <2> QED
    BY <2>1, <2>2
<1> DEFINE S == {j \in Nat : j \in p..Len(ss) => g[j] = g[p] /\ h[j] = h[p]}
<1> HIDE DEF before
<1>9. 0 \in S
  OBVIOUS
<1>10. ASSUME NEW j \in Nat, j \in S
       PROVE  j + 1 \in S
  <2> SUFFICES ASSUME j + 1 \in p..Len(ss), j + 1 # p
               PROVE  g[j + 1] = g[p] /\ h[j + 1] = h[p]
    OBVIOUS
  <2>1. /\ j \in p..Len(ss) /\ j \in 1..Len(ss) /\ j + 1 \in 1..Len(ss)
        /\ j + 1 > p /\ j + 1 # 1 /\ (j + 1) - 1 = j
    OBVIOUS
  <2>2. ss[j + 1] = <<>> /\ tt[j + 1] = <<>>
    BY <1>1, <2>1 DEF NothingBehind
  <2>3. g[j + 1] = g[j] \o <<>> /\ h[j + 1] = h[j] \o <<>>
    BY <1>4, <2>1, <2>2
  <2>4. g[j] \in Seq(T) /\ h[j] \in Seq(T)
    BY <1>5, <2>1
  <2>5. g[j] = g[p] /\ h[j] = h[p]
    BY <1>10, <2>1
  <2> QED
    BY <2>3, <2>4, <2>5
<1> HIDE DEF S
<1>11. Nat \subseteq S
  BY <1>9, <1>10, SetInduction
<1>12. g[Len(ss)] = g[p] /\ h[Len(ss)] = h[p]
  BY <1>1, <1>11 DEF S
<1> QED
  BY <1>2, <1>3, <1>6, <1>7, <1>8, <1>12 DEF tt, DiffersAtTheEnd

\* x is in s.
Has(s, x) == \E j \in DOMAIN s : s[j] = x

\* A sequence of one.
LEMMA HasOnly == ASSUME NEW x PROVE Has(<<x>>, x)
<1>1. 1 \in DOMAIN <<x>> /\ <<x>>[1] = x
  OBVIOUS
<1> QED
  BY <1>1 DEF Has

\* What is in a sequence stays in it when another is appended.
LEMMA HasConcat ==
    ASSUME NEW T, NEW s \in Seq(T), NEW t \in Seq(T), NEW x, Has(s, x) \/ Has(t, x)
    PROVE  Has(s \o t, x)
<1>1. CASE Has(s, x)
  <2>1. PICK j \in 1..Len(s) : s[j] = x
    BY <1>1 DEF Has
  <2>2. j \in 1..Len(s \o t) /\ (s \o t)[j] = x
    BY <2>1
  <2> QED
    BY <2>2 DEF Has
<1>2. CASE Has(t, x)
  <2>1. PICK j \in 1..Len(t) : t[j] = x
    BY <1>2 DEF Has
  <2>2. Len(s) + j \in 1..Len(s \o t) /\ (s \o t)[Len(s) + j] = x
    BY <2>1
  <2> QED
    BY <2>2 DEF Has
<1> QED
  BY <1>1, <1>2

\* What is in one of the sequences is in what is gathered of them.
LEMMA FlattenKeeps ==
    ASSUME NEW T, NEW ss \in Seq(Seq(T)), NEW i \in 1..Len(ss), NEW x, Has(ss[i], x)
    PROVE  Has(FlattenSeq(ss), x)
<1>1. PICK g : Flattens(g, ss, Len(ss)) /\ FlattenSeq(ss) = g[Len(ss)]
  BY FlattenValue, SMTT(30)
<1>2. \A m \in 1..Len(ss) : g[m] \in Seq(T)
  BY <1>1, FlattensType
<1> DEFINE S == {m \in Nat : m \in i..Len(ss) => Has(g[m], x)}
<1>3. 0 \in S
  OBVIOUS
<1>4. ASSUME NEW m \in Nat, m \in S
      PROVE  m + 1 \in S
  <2> SUFFICES ASSUME m + 1 \in i..Len(ss)
               PROVE  Has(g[m + 1], x)
    OBVIOUS
  <2>1. m + 1 \in 1..Len(ss) /\ (m + 1) - 1 = m /\ ss[m + 1] \in Seq(T)
    OBVIOUS
  <2>2. g[m + 1] = IF m + 1 = 1 THEN ss[m + 1] ELSE g[(m + 1) - 1] \o ss[m + 1]
    BY <1>1, <2>1 DEF Flattens
  <2>3. m + 1 # 1 => g[m] \in Seq(T)
    BY <1>2, <2>1
  <2>4. CASE m + 1 = i
    <3>1. Has(ss[m + 1], x)
      BY <2>4
    <3> QED
      BY <2>1, <2>2, <2>3, <3>1, HasConcat
  <2>5. CASE m + 1 # i
    <3>1. m \in i..Len(ss) /\ m + 1 # 1
      BY <2>5
    <3>2. Has(g[m], x)
      BY <1>4, <3>1
    <3> QED
      BY <2>1, <2>2, <2>3, <3>1, <3>2, HasConcat
  <2> QED
    BY <2>4, <2>5
<1> HIDE DEF S
<1>5. Nat \subseteq S
  BY <1>3, <1>4, SetInduction
<1>6. Len(ss) \in S /\ Len(ss) \in i..Len(ss)
  BY <1>5
<1> QED
  BY <1>1, <1>6 DEF S
-----------------------------------------------------------------------------
\* How sequences are put together, with the facts that a prover needs of them.
LEMMA Associative ==
    ASSUME NEW T, NEW p \in Seq(T), NEW q \in Seq(T), NEW r \in Seq(T)
    PROVE  (p \o q) \o r = p \o (q \o r)
OBVIOUS

Joins(t, x, y) == t = x \o y

LEMMA Joined ==
    ASSUME NEW T, NEW x \in Seq(T), NEW y \in Seq(T), NEW t, Joins(t, x, y)
    PROVE  /\ t \in Seq(T) /\ Len(t) = Len(x) + Len(y)
           /\ \A j \in 1..Len(x) : t[j] = x[j]
           /\ \A j \in 1..Len(y) : t[Len(x) + j] = y[j]
BY DEF Joins

LEMMA Prefixed ==
    ASSUME NEW T, NEW e \in T, NEW y \in Seq(T), NEW t, t = <<e>> \o y
    PROVE  /\ t \in Seq(T) /\ Len(t) = 1 + Len(y) /\ t[1] = e
           /\ \A j \in 1..Len(y) : t[1 + j] = y[j]
OBVIOUS
=============================================================================
