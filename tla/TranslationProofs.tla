---------------------------- MODULE TranslationProofs ----------------------------
(*******************************************************************************)
(* Theorems about Translation and Segmenter: every document reassembles to     *)
(* its source, text is withheld inside an open protected element and offered   *)
(* once every one before it has ended, and what is published is translated     *)
(* and validated.  Each step of the segmenter is shown to keep all of the text *)
(* that was read, in order: in the parts and segments, then in the run, then   *)
(* in the buffer of a protected element.                                       *)
(*******************************************************************************)
EXTENDS Translation, FiniteSetTheorems, SequenceTheorems, WellFoundedInduction, TLAPS

(*******************************************************************************)
(* Induction over a list.  The least number of a set gives induction up to n   *)
(* (Induct), that recursive functions exist (Recursion), and what FlattenSeq   *)
(* does with a longer list.                                                    *)
(*******************************************************************************)
\* A set of numbers that is not empty has a smallest one.
LEMMA LeastNumber ==
    ASSUME NEW T, T \subseteq Nat, T # {}
    PROVE  \E x \in T : \A y \in T : x <= y
<1>1. PICK x \in T : \A y \in T : ~(<<y, x>> \in OpToRel(<, Nat))
  BY WFMin, NatLessThanWellFounded
<1>2. ASSUME NEW y \in T, y < x
      PROVE  FALSE
  <2>1. <<y, x>> \in Nat \X Nat /\ <<y, x>>[1] < <<y, x>>[2]
    BY <1>2
  <2>2. <<y, x>> \in OpToRel(<, Nat)
    BY <2>1 DEF OpToRel
  <2>3. QED  BY <1>1, <2>2
<1>3. QED  BY <1>2

\* A bounded set of numbers that is not empty has a largest one.
LEMMA GreatestNumber ==
    ASSUME NEW n \in Nat, NEW T, T \subseteq 0 .. n, T # {}
    PROVE  \E x \in T : \A y \in T : x >= y
<1> DEFINE U == {m \in Nat : \A y \in T : y <= m}
<1>1. n \in U
  OBVIOUS
<1>2. PICK m \in U : \A y \in U : m <= y
  <2> HIDE DEF U
  <2>1. U \subseteq Nat
    BY DEF U
  <2>2. QED  BY <1>1, <2>1, LeastNumber
<1>3. m \in T
  <2>1. SUFFICES ASSUME m \notin T PROVE FALSE
    OBVIOUS
  <2>2. PICK z \in T : TRUE
    OBVIOUS
  <2>3. m - 1 \in Nat /\ \A y \in T : y <= m - 1
    BY <2>1, <2>2
  <2>4. m - 1 \in U
    BY <2>3
  <2>5. QED  BY <1>2, <2>3, <2>4
<1>4. QED  BY <1>2, <1>3

\* Induction up to n, for the set of numbers that are all right.
LEMMA Induct ==
    ASSUME NEW n \in Nat, NEW S, 0 \in S, \A i \in 1 .. n : i - 1 \in S => i \in S
    PROVE  \A i \in 0 .. n : i \in S
<1> DEFINE T == {i \in 0 .. n : i \notin S}
<1> SUFFICES ASSUME T # {} PROVE FALSE
  OBVIOUS
<1>1. PICK m \in T : \A y \in T : m <= y
  <2>1. T \subseteq Nat
    OBVIOUS
  <2> HIDE DEF T
  <2>2. QED  BY <2>1, LeastNumber
<1>2. m # 0 /\ m - 1 \in 0 .. n /\ ~(m <= m - 1)
  BY <1>1
<1>3. m - 1 \in S
  BY <1>1, <1>2
<1>4. QED  BY <1>1, <1>2, <1>3

\* A function of the value so far and the number counted to, and what it makes of 0 .. n.
IsStep(F, A, n) == F \in [A \X (1..n) -> A]
IsFold(f, A, n, base, F) ==
    f \in [0..n -> A] /\ f[0] = base /\ \A i \in 1..n : f[i] = F[<<f[i - 1], i>>]

\* Counting up from 0 defines a function.
LEMMA Recursion ==
    ASSUME NEW A, NEW n \in Nat, NEW base \in A, NEW F, IsStep(F, A, n)
    PROVE  \E f : IsFold(f, A, n, base, F)
<1> USE DEF IsStep, IsFold
<1> DEFINE Sol(m, f) == f[0] = base /\ \A i \in 1..m : f[i] = F[<<f[i - 1], i>>]
           G == {m \in Nat : m <= n => \E f \in [0..m -> A] : Sol(m, f)}
<1>1. 0 \in G
  <2>1. [i \in 0..0 |-> base] \in [0..0 -> A] /\ Sol(0, [i \in 0..0 |-> base])
    OBVIOUS
  <2>2. QED  BY <2>1
<1>2. ASSUME NEW m \in Nat, m \in G
      PROVE  m + 1 \in G
  <2> SUFFICES ASSUME m + 1 <= n
               PROVE  \E f \in [0..(m + 1) -> A] : Sol(m + 1, f)
    OBVIOUS
  <2>1. PICK f \in [0..m -> A] : Sol(m, f)
    BY <1>2
  <2> DEFINE g == [i \in 0..(m + 1) |-> IF i <= m THEN f[i] ELSE F[<<f[m], m + 1>>]]
  <2>2. F[<<f[m], m + 1>>] \in A
    BY <2>1
  <2>3. g \in [0..(m + 1) -> A]
    BY <2>1, <2>2
  <2>4. ASSUME NEW i \in 1..(m + 1)
        PROVE  g[i] = F[<<g[i - 1], i>>]
    <3>1. CASE i <= m
      <4>1. f[i] = F[<<f[i - 1], i>>] /\ g[i] = f[i] /\ g[i - 1] = f[i - 1]
        BY <2>1, <3>1
      <4>2. QED  BY <4>1
    <3>2. CASE i = m + 1
      <4>1. i - 1 = m /\ ~(i <= m)
        BY <3>2
      <4>2. g[m] = f[m] /\ g[i] = F[<<f[m], m + 1>>]
        BY <4>1
      <4>3. QED  BY <3>2, <4>1, <4>2
    <3>3. QED  BY <3>1, <3>2
  <2>5. Sol(m + 1, g)
    <3>1. g[0] = base
      BY <2>1
    <3>2. QED  BY <2>4, <3>1
  <2>6. QED  BY <2>3, <2>5
<1>3. \A i \in 1 .. n : i - 1 \in G => i \in G
  <2> HIDE DEF G
  <2> SUFFICES ASSUME NEW i \in 1 .. n, i - 1 \in G PROVE i \in G
    OBVIOUS
  <2>1. i - 1 \in Nat /\ (i - 1) + 1 = i
    OBVIOUS
  <2>2. QED BY <1>2, <2>1
<1>4. n \in G
  <2> HIDE DEF G
  <2>1. QED  BY <1>1, <1>3, Induct
<1>5. QED  BY <1>4

\* FlattenSeq adds one sequence after the other.
LEMMA FlattenRecursion ==
    ASSUME NEW S, NEW s \in Seq(Seq(S))
    PROVE  \E g \in [0 .. Len(s) -> Seq(S)] :
              /\ FlattenSeq(s) = g[Len(s)]
              /\ g[0] = <<>>
              /\ \A i \in 1 .. Len(s) : g[i] = g[i - 1] \o s[i]
<1> DEFINE n == Len(s)
           F == [x \in Seq(S) \X (1 .. n) |-> x[1] \o s[x[2]]]
           Is(f) == f = [i \in 1 .. Len(s) |-> IF i = 1 THEN s[i] ELSE f[i - 1] \o s[i]]
           h == CHOOSE f : Is(f)
<1>1. n \in Nat /\ \A i \in 1 .. n : s[i] \in Seq(S)
  OBVIOUS
<1>2. F \in [Seq(S) \X (1 .. n) -> Seq(S)]
  BY <1>1, ConcatProperties
<1>3. <<>> \in Seq(S)
  OBVIOUS
<1>4. PICK g \in [0 .. n -> Seq(S)] : g[0] = <<>> /\ \A i \in 1 .. n : g[i] = F[<<g[i - 1], i>>]
  <2> DEFINE A == Seq(S)
  <2>1. PICK base \in A : base = <<>>
    BY <1>3
  <2>2. IsStep(F, A, n)
    BY <1>2 DEF IsStep
  <2>5. n \in Nat
    OBVIOUS
  <2> HIDE DEF F, n, A
  <2>3. \E g : IsFold(g, A, n, base, F)
    BY <2>5, <2>2, Recursion
  <2>4. QED  BY <2>1, <2>3 DEF A, IsFold
<1>5. g[0] = <<>> /\ \A i \in 1 .. n : g[i] = g[i - 1] \o s[i]
  <2>1. ASSUME NEW i \in 1 .. n
        PROVE  g[i] = g[i - 1] \o s[i]
    <3>1. i - 1 \in 0 .. n
      BY <1>1
    <3>2. QED  BY <1>4, <3>1
  <2>2. QED  BY <1>4, <2>1
<1>6. CASE s = <<>>
  <2>1. FlattenSeq(s) = <<>> /\ n = 0
    BY <1>6 DEF FlattenSeq
  <2>2. QED  BY <1>5, <2>1
<1>7. CASE s # <<>>
  <2>1. FlattenSeq(s) = h[n]
    BY <1>7 DEF FlattenSeq
  <2>2. Is([i \in 1 .. n |-> g[i]])
    <3> DEFINE f == [i \in 1 .. n |-> g[i]]
    <3>1. ASSUME NEW i \in 1 .. n
          PROVE  f[i] = IF i = 1 THEN s[i] ELSE f[i - 1] \o s[i]
      <4>1. CASE i = 1
        <5> 1 \in 1 .. n /\ 1 - 1 = 0
          BY <1>1, <4>1
        <5>1. g[1] = <<>> \o s[1] /\ s[1] \in Seq(S)
          BY <1>1, <1>5
        <5>2. g[1] = s[1]
          BY <5>1, ConcatEmptySeq
        <5>3. QED  BY <4>1, <5>2
      <4>2. CASE i # 1
        <5>1. i - 1 \in 1 .. n
          BY <1>1, <4>2
        <5>2. QED  BY <1>5, <4>2, <5>1
      <4>3. QED  BY <4>1, <4>2
    <3>2. QED  BY <3>1
  <2>3. Is(h)
    <3> HIDE DEF Is
    <3>1. QED  BY <2>2
  <2> HIDE DEF h
  <2>4. /\ h[1] = s[1]
        /\ \A i \in 2 .. n : h[i] = h[i - 1] \o s[i]
    <3>1. 1 \in 1 .. n /\ \A i \in 2 .. n : i \in 1 .. n /\ i # 1
      BY <1>1, <1>7
    <3>2. QED  BY <2>3, <3>1
  <2> DEFINE G == {i \in 0 .. n : i = 0 \/ h[i] = g[i]}
  <2>5. \A i \in 0 .. n : i \in G
    <3>1. 0 \in G
      BY <1>1
    <3>2. ASSUME NEW i \in 1 .. n, i - 1 \in G
          PROVE  i \in G
      <4>1. CASE i = 1
        <5> 1 \in 1 .. n /\ 1 - 1 = 0
          BY <1>1, <4>1
        <5>1. g[1] = <<>> \o s[1] /\ s[1] \in Seq(S)
          BY <1>1, <1>5
        <5>2. g[1] = s[1]
          BY <5>1, ConcatEmptySeq
        <5>3. 1 \in 0 .. n /\ h[1] = g[1]
          BY <1>1, <2>4, <5>2
        <5>4. QED  BY <4>1, <5>3
      <4>2. CASE i # 1
        <5>1. i \in 2 .. n /\ i - 1 # 0 /\ i \in 0 .. n
          BY <1>1, <4>2
        <5>2. QED  BY <1>5, <2>4, <3>2, <5>1
      <4>3. QED  BY <4>1, <4>2
    <3> HIDE DEF G, n
    <3>3. QED  BY <1>1, <3>1, <3>2, Induct
  <2>6. h[n] = g[n]
    <3>1. n # 0 /\ n \in 0 .. n
      BY <1>1, <1>7
    <3>2. QED  BY <2>5, <3>1
  <2>7. QED  BY <1>5, <2>1, <2>6
<1>8. QED  BY <1>6, <1>7

\* What FlattenSeq gives.
LEMMA FlattenType ==
    ASSUME NEW S, NEW s \in Seq(Seq(S))
    PROVE  FlattenSeq(s) \in Seq(S)
<1>1. PICK g \in [0 .. Len(s) -> Seq(S)] : FlattenSeq(s) = g[Len(s)]
  BY FlattenRecursion
<1>2. Len(s) \in 0 .. Len(s)
  OBVIOUS
<1>3. QED  BY <1>1, <1>2

\* Nothing flattened is nothing.
LEMMA FlattenEmpty == FlattenSeq(<<>>) = <<>>
BY DEF FlattenSeq

\* One more sequence is added at the end.
LEMMA FlattenAppend ==
    ASSUME NEW S, NEW s \in Seq(Seq(S)), NEW x \in Seq(S)
    PROVE  FlattenSeq(Append(s, x)) = FlattenSeq(s) \o x
<1> DEFINE t == Append(s, x)
           n == Len(s)
<1>1. n \in Nat
  OBVIOUS
<1>2. t \in Seq(Seq(S)) /\ Len(t) = n + 1 /\ t[n + 1] = x /\ \A i \in 1 .. n : t[i] = s[i]
  OBVIOUS
<1> HIDE DEF t
<1>3. PICK g \in [0 .. n -> Seq(S)] :
         /\ FlattenSeq(s) = g[n] /\ g[0] = <<>>
         /\ \A i \in 1 .. n : g[i] = g[i - 1] \o s[i]
  BY FlattenRecursion
<1>4. PICK k \in [0 .. Len(t) -> Seq(S)] :
         /\ FlattenSeq(t) = k[Len(t)] /\ k[0] = <<>>
         /\ \A i \in 1 .. Len(t) : k[i] = k[i - 1] \o t[i]
  BY <1>2, FlattenRecursion
<1> DEFINE G == {i \in 0 .. n : k[i] = g[i]}
<1> HIDE DEF n
<1>5. 0 \in G
  BY <1>1, <1>3, <1>4
<1>6. ASSUME NEW i \in 1 .. n, i - 1 \in G
      PROVE  i \in G
  <2>1. i \in 1 .. (n + 1) /\ i \in 0 .. n
    BY <1>1
  <2>2. k[i] = k[i - 1] \o t[i] /\ t[i] = s[i] /\ g[i] = g[i - 1] \o s[i] /\ k[i - 1] = g[i - 1]
    BY <1>2, <1>3, <1>4, <1>6, <2>1
  <2>3. QED  BY <2>1, <2>2
<1>7. n \in G
  <2> HIDE DEF G
  <2>1. \A i \in 1 .. n : i - 1 \in G => i \in G
    BY <1>6
  <2>2. \A i \in 0 .. n : i \in G
    BY <1>1, <1>5, <2>1, Induct
  <2>3. QED  BY <1>1, <2>2
<1>8. k[n + 1] = k[n] \o t[n + 1]
  <2>1. n + 1 \in 1 .. (n + 1) /\ (n + 1) - 1 = n
    BY <1>1
  <2>2. QED  BY <1>2, <1>4, <2>1
<1>9. QED  BY <1>2, <1>3, <1>4, <1>7, <1>8 DEF t

\* Beginnings of a sequence.
LEMMA Beginnings ==
    ASSUME NEW X, NEW s \in Seq(X)
    PROVE  /\ SubSeq(s, 1, 0) = <<>> /\ SubSeq(s, 1, Len(s)) = s
           /\ \A i \in 0 .. Len(s) : SubSeq(s, 1, i) \in Seq(X)
           /\ \A i \in 1 .. Len(s) : s[i] \in X /\ SubSeq(s, 1, i) = Append(SubSeq(s, 1, i - 1), s[i])
<1>1. SubSeq(s, 1, 0) = <<>> /\ SubSeq(s, 1, Len(s)) = s
  BY SubSeqFull, SubSeqEmpty
<1>2. ASSUME NEW i \in 0 .. Len(s)
      PROVE  SubSeq(s, 1, i) \in Seq(X)
  BY SubSeqProperties
<1>3. ASSUME NEW i \in 1 .. Len(s)
      PROVE  s[i] \in X /\ SubSeq(s, 1, i) = Append(SubSeq(s, 1, i - 1), s[i])
  <2>1. 1 \in 1 .. (Len(s) + 1) /\ i \in 1 .. Len(s)
    OBVIOUS
  <2>2. QED  BY <2>1, SubSeqRecursiveSecond
<1>4. QED  BY <1>1, <1>2, <1>3

\* Flattening goes through concatenation.
LEMMA FlattenConcat ==
    ASSUME NEW S, NEW s \in Seq(Seq(S)), NEW t \in Seq(Seq(S))
    PROVE  FlattenSeq(s \o t) = FlattenSeq(s) \o FlattenSeq(t)
<1> DEFINE n == Len(t)
           Pre(m) == SubSeq(t, 1, m)
           G == {m \in 0 .. n : FlattenSeq(s \o Pre(m)) = FlattenSeq(s) \o FlattenSeq(Pre(m))}
<1>1. n \in Nat
  OBVIOUS
<1>2. /\ Pre(0) = <<>> /\ Pre(n) = t
      /\ \A i \in 0 .. n : Pre(i) \in Seq(Seq(S))
      /\ \A i \in 1 .. n : t[i] \in Seq(S) /\ Pre(i) = Append(Pre(i - 1), t[i])
  BY Beginnings
<1> HIDE DEF Pre, n
<1>3. 0 \in G
  <2>1. s \o <<>> = s /\ FlattenSeq(s) \o <<>> = FlattenSeq(s)
    BY FlattenType, ConcatEmptySeq
  <2>2. FlattenSeq(s \o Pre(0)) = FlattenSeq(s) \o FlattenSeq(Pre(0))
    BY <1>2, <2>1, FlattenEmpty
  <2>3. QED  BY <1>1, <2>2
<1>4. ASSUME NEW i \in 1 .. n, i - 1 \in G
      PROVE  i \in G
  <2> DEFINE u == Pre(i - 1)
             x == t[i]
  <2>1. i \in 0 .. n /\ i - 1 \in 0 .. n
    BY <1>1
  <2>2. u \in Seq(Seq(S)) /\ x \in Seq(S) /\ Pre(i) = Append(u, x)
    BY <1>2, <2>1
  <2>3. FlattenSeq(s \o u) = FlattenSeq(s) \o FlattenSeq(u)
    BY <1>4
  <2> HIDE DEF u, x
  <2>4. s \o u \in Seq(Seq(S)) /\ FlattenSeq(s) \in Seq(S) /\ FlattenSeq(u) \in Seq(S)
    BY <2>2, FlattenType, ConcatProperties
  <2>5. s \o Append(u, x) = Append(s \o u, x)
    BY <2>2, <2>4
  <2>6. FlattenSeq(Append(s \o u, x)) = FlattenSeq(s \o u) \o x
    BY <2>2, <2>4, FlattenAppend
  <2>7. FlattenSeq(Append(u, x)) = FlattenSeq(u) \o x
    BY <2>2, FlattenAppend
  <2>8. (FlattenSeq(s) \o FlattenSeq(u)) \o x = FlattenSeq(s) \o (FlattenSeq(u) \o x)
    <3> DEFINE a == FlattenSeq(s)
               b == FlattenSeq(u)
    <3>1. a \in Seq(S) /\ b \in Seq(S) /\ x \in Seq(S)
      BY <2>2, <2>4
    <3> HIDE DEF a, b
    <3>2. (a \o b) \o x = a \o (b \o x)
      BY <3>1, ConcatAssociative
    <3>3. QED  BY <3>2 DEF a, b
  <2>9. FlattenSeq(s \o Pre(i)) = FlattenSeq(s) \o FlattenSeq(Pre(i))
    BY <2>2, <2>3, <2>5, <2>6, <2>7, <2>8
  <2>10. QED  BY <2>1, <2>9
<1>5. n \in G
  <2> HIDE DEF G
  <2>1. \A i \in 1 .. n : i - 1 \in G => i \in G
    BY <1>4
  <2>2. \A i \in 0 .. n : i \in G
    BY <1>1, <1>3, <2>1, Induct
  <2>3. QED  BY <1>1, <2>2
<1>6. QED  BY <1>2, <1>5

\* The texts of the elements of a sequence, one after the other.
Mapped(g, s) == [i \in DOMAIN s |-> g[s[i]]]
IsText(g, X, S) == \A x \in X : g[x] \in Seq(S)

\* Mapping a longer sequence.
LEMMA MappedProperties ==
    ASSUME NEW X, NEW S, NEW g, IsText(g, X, S)
    PROVE  /\ \A s \in Seq(X) : Mapped(g, s) \in Seq(Seq(S))
           /\ Mapped(g, <<>>) = <<>>
           /\ \A s \in Seq(X), x \in X : Mapped(g, Append(s, x)) = Append(Mapped(g, s), g[x])
           /\ \A s, t \in Seq(X) : Mapped(g, s \o t) = Mapped(g, s) \o Mapped(g, t)
<1>1. ASSUME NEW s \in Seq(X)
      PROVE  /\ Mapped(g, s) \in Seq(Seq(S)) /\ Len(Mapped(g, s)) = Len(s)
             /\ \A i \in 1 .. Len(s) : Mapped(g, s)[i] = g[s[i]]
  BY DEF Mapped, IsText
<1>2. Mapped(g, <<>>) = <<>>
  BY DEF Mapped
<1>3. ASSUME NEW s \in Seq(X), NEW x \in X
      PROVE  Mapped(g, Append(s, x)) = Append(Mapped(g, s), g[x])
  <2>1. Append(s, x) \in Seq(X) /\ Len(Append(s, x)) = Len(s) + 1
    OBVIOUS
  <2>2. g[x] \in Seq(S)
    BY DEF IsText
  <2> DEFINE a == Mapped(g, Append(s, x))
             b == Append(Mapped(g, s), g[x])
  <2>3. a \in Seq(Seq(S)) /\ Len(a) = Len(s) + 1 /\ \A i \in 1 .. (Len(s) + 1) : a[i] = g[Append(s, x)[i]]
    BY <1>1, <2>1
  <2>4. b \in Seq(Seq(S)) /\ Len(b) = Len(s) + 1
    BY <1>1, <2>2
  <2>5. ASSUME NEW i \in 1 .. (Len(s) + 1)
        PROVE  a[i] = b[i]
    <3> DEFINE m == Mapped(g, s)
    <3>1. m \in Seq(Seq(S)) /\ Len(m) = Len(s) /\ \A j \in 1 .. Len(s) : m[j] = g[s[j]]
      BY <1>1
    <3>2. a[i] = g[Append(s, x)[i]]
      BY <2>3
    <3> HIDE DEF m
    <3>3. Append(m, g[x])[i] = g[Append(s, x)[i]]
      <4>1. CASE i \in 1 .. Len(s)
        <5>1. Append(s, x)[i] = s[i] /\ Append(m, g[x])[i] = m[i]
          BY <2>2, <3>1, <4>1
        <5>2. QED  BY <3>1, <4>1, <5>1
      <4>2. CASE i = Len(s) + 1
        <5>1. Append(s, x)[i] = x /\ Append(m, g[x])[i] = g[x]
          BY <2>2, <3>1, <4>2
        <5>2. QED  BY <5>1
      <4>3. i \in 1 .. Len(s) \/ i = Len(s) + 1
        OBVIOUS
      <4> HIDE DEF a, b
      <4>4. QED  BY <4>1, <4>2, <4>3
    <3>4. QED  BY <3>2, <3>3 DEF m
  <2> HIDE DEF a, b
  <2>6. a = b
    BY <2>3, <2>4, <2>5, SeqEqual
  <2>7. QED  BY <2>6 DEF a, b
<1>4. ASSUME NEW s \in Seq(X), NEW t \in Seq(X)
      PROVE  Mapped(g, s \o t) = Mapped(g, s) \o Mapped(g, t)
  <2> DEFINE a == Mapped(g, s \o t)
  <2>1. s \o t \in Seq(X) /\ Len(s \o t) = Len(s) + Len(t)
    BY ConcatProperties
  <2>2. a \in Seq(Seq(S)) /\ Len(a) = Len(s) + Len(t) /\ \A i \in 1 .. (Len(s) + Len(t)) : a[i] = g[(s \o t)[i]]
    BY <1>1, <2>1
  <2> DEFINE m == Mapped(g, s)
             k == Mapped(g, t)
  <2>3. /\ m \in Seq(Seq(S)) /\ Len(m) = Len(s) /\ \A j \in 1 .. Len(s) : m[j] = g[s[j]]
        /\ k \in Seq(Seq(S)) /\ Len(k) = Len(t) /\ \A j \in 1 .. Len(t) : k[j] = g[t[j]]
    BY <1>1
  <2> HIDE DEF m, k
  <2>4. /\ m \o k \in Seq(Seq(S)) /\ Len(m \o k) = Len(s) + Len(t)
        /\ \A i \in 1 .. (Len(s) + Len(t)) : (m \o k)[i] = IF i <= Len(s) THEN m[i] ELSE k[i - Len(s)]
    <3>1. m \in Seq(Seq(S)) /\ k \in Seq(Seq(S))
      BY <2>3
    <3>2. /\ m \o k \in Seq(Seq(S)) /\ Len(m \o k) = Len(m) + Len(k)
          /\ \A i \in 1 .. (Len(m) + Len(k)) : (m \o k)[i] = IF i <= Len(m) THEN m[i] ELSE k[i - Len(m)]
      BY <3>1, ConcatProperties
    <3>3. QED  BY <2>3, <3>2
  <2>5. ASSUME NEW i \in 1 .. (Len(s) + Len(t))
        PROVE  a[i] = (m \o k)[i]
    <3>1. /\ a[i] = g[(s \o t)[i]] /\ (s \o t)[i] = IF i <= Len(s) THEN s[i] ELSE t[i - Len(s)]
          /\ (m \o k)[i] = IF i <= Len(s) THEN m[i] ELSE k[i - Len(s)]
      BY <2>2, <2>4, ConcatProperties
    <3>2. CASE i <= Len(s)
      <4>1. i \in 1 .. Len(s)
        BY <3>2
      <4>2. QED  BY <2>3, <3>1, <3>2, <4>1
    <3>3. CASE ~(i <= Len(s))
      <4>1. i - Len(s) \in 1 .. Len(t)
        BY <3>3
      <4>2. QED  BY <2>3, <3>1, <3>3, <4>1
    <3>4. QED  BY <3>2, <3>3
  <2> HIDE DEF a
  <2>6. a = m \o k
    BY <2>2, <2>4, <2>5, SeqEqual
  <2>7. QED  BY <2>6 DEF a, m, k
<1>5. QED  BY <1>1, <1>2, <1>3, <1>4

(*******************************************************************************)
(* Texts: sequences of source positions.                                       *)
(*******************************************************************************)
\* Source positions and texts.
AtomSet == Nat \X Nat
Text == Seq(AtomSet)

\* Texts and their concatenation.
LEMMA TextEmpty == <<>> \in Text /\ \A a \in Text : a \o <<>> = a /\ <<>> \o a = a
BY ConcatEmptySeq DEF Text

\* A text after a text is a text.
LEMMA TextConcat == \A a, b \in Text : a \o b \in Text
BY ConcatProperties DEF Text

\* Three texts one after the other.
LEMMA TextAssoc == \A a, b, c \in Text : a \o (b \o c) = (a \o b) \o c
BY ConcatAssociative DEF Text

\* One more piece of source.
LEMMA TextAppend == \A a \in Text, x \in AtomSet : <<x>> \in Text /\ a \o <<x>> = Append(a, x)
BY AppendIsConcat DEF Text

\* A text is cut in two.
LEMMA TextCut ==
    ASSUME NEW a \in Text, NEW k \in 0 .. Len(a)
    PROVE  /\ SubSeq(a, 1, k) \in Text /\ SubSeq(a, k + 1, Len(a)) \in Text
           /\ SubSeq(a, 1, k) \o SubSeq(a, k + 1, Len(a)) = a
<1> DEFINE n == Len(a)
           b == SubSeq(a, 1, k)
           c == SubSeq(a, k + 1, n)
<1>1. a \in Seq(AtomSet) /\ n \in Nat /\ k \in Nat /\ k <= n
  BY DEF Text
<1>2. b \in Seq(AtomSet) /\ Len(b) = k /\ \A i \in 1 .. k : b[i] = a[i]
  BY <1>1
<1>3. c \in Seq(AtomSet) /\ Len(c) = n - k /\ \A i \in 1 .. (n - k) : c[i] = a[k + i]
  BY <1>1
<1> HIDE DEF b, c, n
<1>4. b \o c \in Seq(AtomSet) /\ Len(b \o c) = n /\ \A i \in 1 .. n : (b \o c)[i] = IF i <= k THEN b[i] ELSE c[i - k]
  <2>1. b \in Seq(AtomSet) /\ c \in Seq(AtomSet)
    BY <1>2, <1>3
  <2>2. /\ b \o c \in Seq(AtomSet) /\ Len(b \o c) = Len(b) + Len(c)
        /\ \A i \in 1 .. (Len(b) + Len(c)) : (b \o c)[i] = IF i <= Len(b) THEN b[i] ELSE c[i - Len(b)]
    BY <2>1, ConcatProperties
  <2>3. Len(b) + Len(c) = n
    BY <1>1, <1>2, <1>3
  <2>4. QED  BY <1>2, <2>2, <2>3
<1>5. \A i \in 1 .. n : (b \o c)[i] = a[i]
  <2> SUFFICES ASSUME NEW i \in 1 .. n
               PROVE  (b \o c)[i] = a[i]
    OBVIOUS
  <2>1. CASE i <= k
    <3>1. i \in 1 .. k
      BY <1>1, <2>1
    <3>2. QED  BY <1>2, <1>4, <2>1, <3>1
  <2>2. CASE ~(i <= k)
    <3>1. i - k \in 1 .. (n - k) /\ k + (i - k) = i
      BY <1>1, <2>2
    <3>2. QED  BY <1>3, <1>4, <2>2, <3>1
  <2>3. QED  BY <2>1, <2>2
<1>6. b \o c = a
  <2>1. Len(a) = n
    BY DEF n
  <2>2. QED  BY <1>1, <1>4, <1>5, <2>1, SeqEqual
<1>7. QED  BY <1>2, <1>3, <1>6 DEF b, c, n, Text

\* FlattenSeq on lists of texts.
LEMMA FlattenText == \A s \in Seq(Text) : FlattenSeq(s) \in Text
BY FlattenType DEF Text

\* ... on one more text,
LEMMA FlattenMore ==
    \A s \in Seq(Text), x \in Text :
        Append(s, x) \in Seq(Text) /\ FlattenSeq(Append(s, x)) = FlattenSeq(s) \o x
<1>1. \A s \in Seq(Text), x \in Text : Append(s, x) \in Seq(Text)
  BY AppendProperties
<1>2. \A s \in Seq(Text), x \in Text : FlattenSeq(Append(s, x)) = FlattenSeq(s) \o x
  BY FlattenAppend DEF Text
<1>3. QED  BY <1>1, <1>2

\* ... on two lists,
LEMMA FlattenBoth ==
    \A s, t \in Seq(Text) :
        s \o t \in Seq(Text) /\ FlattenSeq(s \o t) = FlattenSeq(s) \o FlattenSeq(t)
<1>1. \A s, t \in Seq(Text) : s \o t \in Seq(Text)
  BY ConcatProperties
<1>2. \A s, t \in Seq(Text) : FlattenSeq(s \o t) = FlattenSeq(s) \o FlattenSeq(t)
  BY FlattenConcat DEF Text
<1>3. QED  BY <1>1, <1>2

\* ... and on one text or three.
LEMMA FlattenFew ==
    /\ <<>> \in Seq(Text)
    /\ \A x \in Text : <<x>> \in Seq(Text) /\ FlattenSeq(<<x>>) = x
    /\ \A x, y, z \in Text : <<x, y, z>> \in Seq(Text) /\ FlattenSeq(<<x, y, z>>) = (x \o y) \o z
<1>1. ASSUME NEW x \in Text
      PROVE  <<x>> \in Seq(Text) /\ FlattenSeq(<<x>>) = x
  <2> DEFINE e == <<>>
  <2>1. <<x>> = Append(e, x) /\ e \in Seq(Text) /\ FlattenSeq(e) = e
    BY FlattenEmpty
  <2>2. e \o x = x
    BY TextEmpty
  <2> HIDE DEF e
  <2>3. QED  BY <2>1, <2>2, FlattenMore
<1>2. ASSUME NEW x \in Text, NEW y \in Text, NEW z \in Text
      PROVE  <<x, y, z>> \in Seq(Text) /\ FlattenSeq(<<x, y, z>>) = (x \o y) \o z
  <2> DEFINE a == <<x>>
             b == <<x, y>>
  <2>1. b = Append(a, y) /\ <<x, y, z>> = Append(b, z)
    OBVIOUS
  <2>2. a \in Seq(Text) /\ FlattenSeq(a) = x
    BY <1>1
  <2> HIDE DEF a, b
  <2>3. b \in Seq(Text) /\ FlattenSeq(b) = x \o y
    BY <2>1, <2>2, FlattenMore
  <2>4. QED  BY <2>1, <2>3, FlattenMore
<1>3. <<>> \in Seq(Text)
  OBVIOUS
<1>4. QED  BY <1>1, <1>2, <1>3

\* What counting up keeps true.
LEMMA StaysIn ==
    ASSUME NEW A, NEW h, NEW n \in Nat, h[0] \in A, \A i \in 1 .. n : h[i - 1] \in A => h[i] \in A
    PROVE  \A i \in 0 .. n : h[i] \in A
<1> DEFINE G == {i \in 0 .. n : h[i] \in A}
<1>1. 0 \in G
  OBVIOUS
<1>2. \A i \in 1 .. n : i - 1 \in G => i \in G
  OBVIOUS
<1> HIDE DEF G
<1>3. \A i \in 0 .. n : i \in G
  BY <1>1, <1>2, Induct
<1>4. QED  BY <1>3 DEF G

\* A text that grows by one element of a list at a time ...
Grows(t, s) == t[0] \in Text /\ \A i \in 1 .. Len(s) : t[i] = t[i - 1] \o s[i]

\* ... grows by all of them.
LEMMA Grown ==
    ASSUME NEW s \in Seq(Text), NEW t, Grows(t, s)
    PROVE  t[Len(s)] = t[0] \o FlattenSeq(s)
<1> DEFINE n == Len(s)
           Pre(i) == SubSeq(s, 1, i)
           G == {i \in 0 .. n : t[i] = t[0] \o FlattenSeq(Pre(i))}
<1>1. n \in Nat
  OBVIOUS
<1>2. /\ Pre(0) = <<>> /\ Pre(n) = s
      /\ \A i \in 0 .. n : Pre(i) \in Seq(Text)
      /\ \A i \in 1 .. n : s[i] \in Text /\ Pre(i) = Append(Pre(i - 1), s[i])
  BY Beginnings
<1> HIDE DEF Pre, n
<1>3. 0 \in G
  <2>1. FlattenSeq(Pre(0)) = <<>> /\ t[0] \in Text
    BY <1>2, FlattenEmpty DEF Grows
  <2>2. t[0] = t[0] \o FlattenSeq(Pre(0))
    BY <2>1, TextEmpty
  <2>3. QED  BY <1>1, <2>2
<1>4. ASSUME NEW i \in 1 .. n, i - 1 \in G
      PROVE  i \in G
  <2> DEFINE u == Pre(i - 1)
             x == s[i]
             f == FlattenSeq(u)
  <2>1. i \in 0 .. n /\ i - 1 \in 0 .. n
    BY <1>1
  <2>2. u \in Seq(Text) /\ x \in Text /\ Pre(i) = Append(u, x)
    BY <1>2, <2>1
  <2>3. t[i - 1] = t[0] \o f /\ t[i] = t[i - 1] \o x
    BY <1>4 DEF n, Grows
  <2> HIDE DEF u, x
  <2>4. f \in Text /\ FlattenSeq(Pre(i)) = f \o x
    BY <2>2, FlattenText, FlattenMore
  <2> HIDE DEF f
  <2>5. t[i] = t[0] \o (f \o x)
    <3>1. t[0] \in Text
      BY DEF Grows
    <3>2. t[0] \o (f \o x) = (t[0] \o f) \o x
      BY <2>2, <2>4, <3>1, TextAssoc
    <3>3. QED  BY <2>3, <3>2
  <2>6. QED  BY <2>1, <2>4, <2>5
<1>5. n \in G
  <2> HIDE DEF G
  <2>1. \A i \in 1 .. n : i - 1 \in G => i \in G
    BY <1>4
  <2>2. \A i \in 0 .. n : i \in G
    BY <1>1, <1>3, <2>1, Induct
  <2>3. QED  BY <1>1, <2>2
<1>6. QED  BY <1>2, <1>5 DEF n

(*******************************************************************************)
(* Tokens, lists of tokens, and the sentences a text is cut into.              *)
(*******************************************************************************)
\* Tokens, lists of them, and the text of a list of lists.
TagNames == {e.tag : e \in Starts \cup Empties} \cup Ends \cup {""}
Token == [kind : {"text", "tag", "protected"}, raw : Text, name : TagNames, closing : BOOLEAN]
RawsOf(tokens) == [i \in DOMAIN tokens |-> tokens[i].raw]
RawsOfUnits(units) == [i \in DOMAIN units |-> Raw(units[i])]
UnitText(units) == FlattenSeq(RawsOfUnits(units))
TokenList == Seq(Token)
UnitList == Seq(TokenList) \ {<<>>}

\* The text of a token.
LEMMA TokenRaw == \A t \in Token : t.raw \in Text
BY DEF Token

\* The texts of tokens.
LEMMA RawsOfProperties ==
    /\ \A s \in Seq(Token) : RawsOf(s) \in Seq(Text) /\ Len(RawsOf(s)) = Len(s) /\ \A i \in 1 .. Len(s) : RawsOf(s)[i] = s[i].raw
    /\ RawsOf(<<>>) = <<>>
    /\ \A s \in Seq(Token), t \in Token : RawsOf(Append(s, t)) = Append(RawsOf(s), t.raw)
    /\ \A s, t \in Seq(Token) : RawsOf(s \o t) = RawsOf(s) \o RawsOf(t)
<1> DEFINE g == [t \in Token |-> t.raw]
<1>1. IsText(g, Token, AtomSet) /\ \A t \in Token : g[t] = t.raw
  BY DEF IsText, Token, Text
<1>2. ASSUME NEW s \in Seq(Token)
      PROVE  RawsOf(s) = Mapped(g, s)
  <2>1. \A i \in DOMAIN s : s[i] \in Token
    OBVIOUS
  <2>2. QED  BY <2>1 DEF Mapped, RawsOf
<1>3. ASSUME NEW s \in Seq(Token)
      PROVE  RawsOf(s) \in Seq(Text) /\ Len(RawsOf(s)) = Len(s) /\ \A i \in 1 .. Len(s) : RawsOf(s)[i] = s[i].raw
  <2>1. \A i \in 1 .. Len(s) : s[i].raw \in Text
    BY TokenRaw
  <2>2. QED  BY <2>1 DEF RawsOf
<1>4. RawsOf(<<>>) = <<>>
  BY DEF RawsOf
<1> HIDE DEF g
<1>5. /\ \A s \in Seq(Token), t \in Token : Mapped(g, Append(s, t)) = Append(Mapped(g, s), g[t])
      /\ \A s, t \in Seq(Token) : Mapped(g, s \o t) = Mapped(g, s) \o Mapped(g, t)
  BY <1>1, MappedProperties
<1>6. ASSUME NEW s \in Seq(Token), NEW t \in Token
      PROVE  RawsOf(Append(s, t)) = Append(RawsOf(s), t.raw)
  <2>1. Append(s, t) \in Seq(Token)
    BY AppendProperties
  <2> HIDE DEF Token
  <2>2. QED  BY <1>1, <1>2, <1>5, <2>1
<1>7. ASSUME NEW s \in Seq(Token), NEW t \in Seq(Token)
      PROVE  RawsOf(s \o t) = RawsOf(s) \o RawsOf(t)
  <2>1. s \o t \in Seq(Token)
    BY ConcatProperties
  <2> HIDE DEF Token
  <2>2. QED  BY <1>1, <1>2, <1>5, <2>1
<1>8. QED  BY <1>3, <1>4, <1>6, <1>7

\* The text of tokens.
LEMMA RawText == \A s \in Seq(Token) : Raw(s) \in Text /\ Raw(s) = FlattenSeq(RawsOf(s))
BY RawsOfProperties, FlattenText DEF Raw, RawsOf

\* No token, no text.
LEMMA RawEmpty == Raw(<<>>) = <<>>
<1>1. RawsOf(<<>>) = <<>> /\ Raw(<<>>) = FlattenSeq(RawsOf(<<>>))
  BY RawsOfProperties DEF Raw, RawsOf
<1>2. QED  BY <1>1, FlattenEmpty

\* The text grows with the tokens.
LEMMA RawMore == \A s \in Seq(Token), t \in Token : Append(s, t) \in Seq(Token) /\ Raw(Append(s, t)) = Raw(s) \o t.raw
<1> SUFFICES ASSUME NEW s \in Seq(Token), NEW t \in Token
             PROVE  Append(s, t) \in Seq(Token) /\ Raw(Append(s, t)) = Raw(s) \o t.raw
  OBVIOUS
<1>1. Append(s, t) \in Seq(Token)
  BY AppendProperties
<1> DEFINE r == RawsOf(s)
           x == t.raw
<1>2. RawsOf(Append(s, t)) = Append(r, x) /\ r \in Seq(Text) /\ x \in Text
  BY RawsOfProperties DEF Token
<1>3. Raw(Append(s, t)) = FlattenSeq(RawsOf(Append(s, t))) /\ Raw(s) = FlattenSeq(r)
  BY <1>1, RawText
<1> HIDE DEF r, x
<1>4. FlattenSeq(Append(r, x)) = FlattenSeq(r) \o x
  BY <1>2, FlattenMore
<1>5. QED  BY <1>1, <1>2, <1>3, <1>4 DEF x

\* The text of two lists of tokens.
LEMMA RawBoth == \A s, t \in Seq(Token) : s \o t \in Seq(Token) /\ Raw(s \o t) = Raw(s) \o Raw(t)
<1> SUFFICES ASSUME NEW s \in Seq(Token), NEW t \in Seq(Token)
             PROVE  s \o t \in Seq(Token) /\ Raw(s \o t) = Raw(s) \o Raw(t)
  OBVIOUS
<1>1. s \o t \in Seq(Token)
  BY ConcatProperties
<1> DEFINE r == RawsOf(s)
           x == RawsOf(t)
<1>2. RawsOf(s \o t) = r \o x /\ r \in Seq(Text) /\ x \in Seq(Text)
  BY RawsOfProperties
<1>3. Raw(s \o t) = FlattenSeq(RawsOf(s \o t)) /\ Raw(s) = FlattenSeq(r) /\ Raw(t) = FlattenSeq(x)
  BY <1>1, RawText
<1> HIDE DEF r, x
<1>4. FlattenSeq(r \o x) = FlattenSeq(r) \o FlattenSeq(x)
  BY <1>2, FlattenBoth
<1>5. QED  BY <1>1, <1>2, <1>3, <1>4

\* The text of a list of token lists.
LEMMA UnitTextProperties ==
    /\ \A u \in Seq(TokenList) :
          /\ RawsOfUnits(u) \in Seq(Text) /\ Len(RawsOfUnits(u)) = Len(u) /\ UnitText(u) \in Text
          /\ \A i \in 1 .. Len(u) : RawsOfUnits(u)[i] = Raw(u[i])
    /\ UnitText(<<>>) = <<>>
<1>1. ASSUME NEW u \in Seq(TokenList)
      PROVE  /\ RawsOfUnits(u) \in Seq(Text) /\ Len(RawsOfUnits(u)) = Len(u)
             /\ \A i \in 1 .. Len(u) : RawsOfUnits(u)[i] = Raw(u[i])
  <2>1. \A i \in 1 .. Len(u) : Raw(u[i]) \in Text
    <3> SUFFICES ASSUME NEW i \in 1 .. Len(u)
                 PROVE  Raw(u[i]) \in Text
      OBVIOUS
    <3>1. u[i] \in TokenList
      OBVIOUS
    <3>2. QED  BY <3>1, RawText DEF TokenList
  <2>2. QED  BY <2>1 DEF RawsOfUnits
<1>2. RawsOfUnits(<<>>) = <<>>
  BY DEF RawsOfUnits
<1>3. QED  BY <1>1, <1>2, FlattenText, FlattenEmpty DEF UnitText

\* The text of a longer list of token lists.
LEMMA UnitTextMore == \A u \in Seq(TokenList), s \in TokenList : Append(u, s) \in Seq(TokenList) /\ UnitText(Append(u, s)) = UnitText(u) \o Raw(s)
<1> SUFFICES ASSUME NEW u \in Seq(TokenList), NEW s \in TokenList
             PROVE  Append(u, s) \in Seq(TokenList) /\ UnitText(Append(u, s)) = UnitText(u) \o Raw(s)
  OBVIOUS
<1> DEFINE g == [t \in TokenList |-> Raw(t)]
<1>1. IsText(g, TokenList, AtomSet) /\ \A t \in TokenList : g[t] = Raw(t)
  BY RawText DEF IsText, TokenList, Text
<1>2. ASSUME NEW v \in Seq(TokenList)
      PROVE  RawsOfUnits(v) = Mapped(g, v)
  <2>1. \A i \in DOMAIN v : v[i] \in TokenList
    OBVIOUS
  <2>2. QED  BY <2>1 DEF Mapped, RawsOfUnits
<1>3. Append(u, s) \in Seq(TokenList)
  BY AppendProperties
<1> HIDE DEF g
<1>4. Mapped(g, Append(u, s)) = Append(Mapped(g, u), g[s])
  BY <1>1, MappedProperties
<1>5. RawsOfUnits(Append(u, s)) = Append(RawsOfUnits(u), Raw(s))
  BY <1>1, <1>2, <1>3, <1>4
<1> DEFINE r == RawsOfUnits(u)
           x == Raw(s)
<1>6. r \in Seq(Text) /\ x \in Text
  BY UnitTextProperties, RawText DEF TokenList
<1> HIDE DEF r, x
<1>7. FlattenSeq(Append(r, x)) = FlattenSeq(r) \o x
  BY <1>6, FlattenMore
<1>8. QED  BY <1>3, <1>5, <1>7 DEF UnitText, r, x

\* The last element and those before it.
LEMMA FrontAndLast ==
    ASSUME NEW X, NEW s \in Seq(X), s # <<>>
    PROVE  Front(s) \in Seq(X) /\ Last(s) \in X /\ s = Append(Front(s), Last(s))
<1>1. Len(s) \in 1 .. Len(s)
  OBVIOUS
<1>2. s[Len(s)] \in X /\ SubSeq(s, 1, Len(s)) = Append(SubSeq(s, 1, Len(s) - 1), s[Len(s)])
  BY <1>1, Beginnings
<1>3. SubSeq(s, 1, Len(s)) = s
  BY Beginnings
<1>4. SubSeq(s, 1, Len(s) - 1) \in Seq(X)
  <2>1. Len(s) - 1 \in 0 .. Len(s)
    BY <1>1
  <2>2. QED  BY <2>1, Beginnings
<1>5. QED  BY <1>2, <1>3, <1>4 DEF Front, Last

\* An appended list is not empty.
LEMMA AppendNotEmpty ==
    ASSUME NEW X, NEW s \in Seq(X), NEW x \in X
    PROVE  Append(s, x) \in Seq(X) \ {<<>>}
<1>1. Append(s, x) \in Seq(X) /\ Append(s, x) # <<>>
  BY AppendProperties
<1>2. QED  BY <1>1

\* One more atom in the last of the texts.
LEMMA AddAtomToLast ==
    ASSUME NEW s \in Seq(Text) \ {<<>>}, NEW x \in AtomSet
    PROVE  /\ AddToLast(s, x) \in Seq(Text) \ {<<>>}
           /\ FlattenSeq(AddToLast(s, x)) = Append(FlattenSeq(s), x)
<1> DEFINE a == Front(s)
           b == Last(s)
           c == Append(b, x)
           fa == FlattenSeq(a)
           X == <<x>>
<1>1. a \in Seq(Text) /\ b \in Text /\ s = Append(a, b)
  BY FrontAndLast
<1>2. c \in Text /\ c = b \o X /\ X \in Text
  <2> HIDE DEF b
  <2>1. QED  BY <1>1, TextAppend, TextConcat
<1>3. AddToLast(s, x) = Append(a, c)
  BY DEF AddToLast
<1>4. fa \in Text
  BY <1>1, FlattenText
<1> HIDE DEF a, b, c, fa, X
<1>5. FlattenSeq(Append(a, c)) = fa \o c /\ FlattenSeq(s) = fa \o b
  BY <1>1, <1>2, FlattenMore DEF fa
<1>6. fa \o (b \o X) = (fa \o b) \o X /\ fa \o b \in Text
  BY <1>1, <1>2, <1>4, TextAssoc, TextConcat
<1>7. (fa \o b) \o X = Append(fa \o b, x)
  <2> DEFINE d == fa \o b
  <2>1. d \in Text
    BY <1>6
  <2> HIDE DEF d
  <2>2. d \o X = Append(d, x)
    BY <2>1, TextAppend DEF X
  <2>3. QED  BY <2>2 DEF d
<1>8. FlattenSeq(AddToLast(s, x)) = Append(FlattenSeq(s), x)
  BY <1>2, <1>3, <1>5, <1>6, <1>7
<1>9. QED  BY <1>1, <1>2, <1>3, <1>8, AppendNotEmpty

\* One more token in the last of the lists.
LEMMA AddTokenToLast ==
    ASSUME NEW u \in UnitList, NEW t \in Token
    PROVE  AddToLast(u, t) \in UnitList /\ UnitText(AddToLast(u, t)) = UnitText(u) \o t.raw
<1> DEFINE a == Front(u)
           b == Last(u)
           c == Append(b, t)
           fa == UnitText(a)
           rb == Raw(b)
           x == t.raw
<1>1. a \in Seq(TokenList) /\ b \in TokenList /\ u = Append(a, b)
  BY FrontAndLast DEF UnitList
<1>2. c \in TokenList /\ Raw(c) = rb \o x
  BY <1>1, RawMore DEF TokenList
<1>3. AddToLast(u, t) = Append(a, c)
  BY DEF AddToLast
<1>4. fa \in Text /\ rb \in Text /\ x \in Text
  BY <1>1, UnitTextProperties, RawText, TokenRaw DEF TokenList
<1> HIDE DEF a, b, c
<1>5. UnitText(Append(a, c)) = fa \o Raw(c) /\ UnitText(u) = fa \o rb
  BY <1>1, <1>2, UnitTextMore
<1> HIDE DEF fa, rb, x
<1>6. fa \o (rb \o x) = (fa \o rb) \o x
  BY <1>4, TextAssoc
<1>7. UnitText(AddToLast(u, t)) = UnitText(u) \o t.raw
  BY <1>2, <1>3, <1>5, <1>6 DEF x
<1>8. AddToLast(u, t) \in UnitList
  <2>1. Append(a, c) \in Seq(TokenList) \ {<<>>}
    BY <1>1, <1>2, AppendNotEmpty
  <2>2. QED  BY <1>3, <2>1 DEF UnitList
<1>9. QED  BY <1>7, <1>8

\* _split_keeping_whitespace, atom by atom.
LEMMA AddAtomProperties ==
    ASSUME NEW raw \in Text, NEW s \in Seq(Text) \ {<<>>}, NEW i \in 1 .. Len(raw)
    PROVE  /\ AddAtom(s, raw, i) \in Seq(Text) \ {<<>>}
           /\ FlattenSeq(AddAtom(s, raw, i)) = Append(FlattenSeq(s), raw[i])
<1> DEFINE x == raw[i]
           X == <<x>>
           f == FlattenSeq(s)
<1>1. x \in AtomSet
  BY DEF Text
<1>2. s \in Seq(Text) /\ f \in Text
  BY FlattenText
<1> HIDE DEF x, X, f
<1>3. CASE AddAtom(s, raw, i) = AddToLast(s, x)
  BY <1>1, <1>3, AddAtomToLast DEF x
<1>4. CASE AddAtom(s, raw, i) = Append(s, X)
  <2>1. X \in Text /\ f \o X = Append(f, x)
    BY <1>1, <1>2, TextAppend DEF X
  <2>2. FlattenSeq(Append(s, X)) = f \o X
    BY <1>2, <2>1, FlattenMore DEF f
  <2>3. Append(s, X) \in Seq(Text) \ {<<>>}
    BY <1>2, <2>1, AppendNotEmpty
  <2>4. QED  BY <1>4, <2>1, <2>2, <2>3 DEF x, f
<1>5. QED  BY <1>3, <1>4 DEF AddAtom, x, X

\* Sentences counts through the text.
LEMMA SentencesFold ==
    ASSUME NEW raw \in Text
    PROVE  \E h : /\ Sentences(raw) = h[Len(raw)] /\ h[0] = << <<>> >>
                  /\ \A i \in 0 .. Len(raw) : h[i] \in Seq(Text) \ {<<>>}
                  /\ \A i \in 1 .. Len(raw) : h[i] = AddAtom(h[i - 1], raw, i)
<1> DEFINE n == Len(raw)
           A == Seq(Text) \ {<<>>}
           F == [x \in A \X (1 .. n) |-> AddAtom(x[1], raw, x[2])]
           Is(f) == f = [i \in 0 .. Len(raw) |-> IF i = 0 THEN << <<>> >> ELSE AddAtom(f[i - 1], raw, i)]
           h == CHOOSE f : Is(f)
<1>1. n \in Nat
  BY DEF Text
<1>2. ASSUME NEW a \in A, NEW i \in 1 .. n
      PROVE  AddAtom(a, raw, i) \in A
  BY AddAtomProperties
<1>3. IsStep(F, A, n)
  BY <1>2 DEF IsStep
<1>4. PICK base \in A : base = << <<>> >>
  <2> DEFINE e == <<>>
  <2>1. e \in Text
    BY TextEmpty
  <2> HIDE DEF e
  <2>2. <<e>> \in Seq(Text) /\ <<e>> # <<>>
    BY <2>1
  <2>3. QED  BY <2>2 DEF e
<1>5. PICK g : IsFold(g, A, n, base, F)
  <2> HIDE DEF F, n, A
  <2>1. QED  BY <1>1, <1>3, Recursion
<1>6. g \in [0 .. n -> A] /\ g[0] = << <<>> >> /\ \A i \in 1 .. n : g[i] = F[<<g[i - 1], i>>]
  BY <1>4, <1>5 DEF IsFold
<1>7. \A i \in 1 .. n : g[i] = AddAtom(g[i - 1], raw, i)
  <2> SUFFICES ASSUME NEW i \in 1 .. n
               PROVE  g[i] = AddAtom(g[i - 1], raw, i)
    OBVIOUS
  <2>1. i - 1 \in 0 .. n
    BY <1>1
  <2>2. g[i] = F[<<g[i - 1], i>>] /\ <<g[i - 1], i>> \in A \X (1 .. n)
    <3> HIDE DEF F, n, A
    <3>1. QED  BY <1>6, <2>1
  <2> HIDE DEF n, A
  <2>3. QED  BY <2>2
<1>8. Is(g)
  <2>1. \A i \in 0 .. n : g[i] = IF i = 0 THEN << <<>> >> ELSE AddAtom(g[i - 1], raw, i)
    <3> SUFFICES ASSUME NEW i \in 0 .. n
                 PROVE  g[i] = IF i = 0 THEN << <<>> >> ELSE AddAtom(g[i - 1], raw, i)
      OBVIOUS
    <3>1. i = 0 \/ i \in 1 .. n
      BY <1>1
    <3>2. QED  BY <1>6, <1>7, <3>1
  <2>2. g = [i \in 0 .. n |-> g[i]]
    <3> HIDE DEF F, A, n
    <3>1. QED  BY <1>6
  <2> HIDE DEF A
  <2>3. QED  BY <2>1, <2>2
<1>9. Is(h)
  <2> HIDE DEF Is
  <2>1. QED  BY <1>8
<1>10. Sentences(raw) = h[Len(raw)]
  BY DEF Sentences
<1> HIDE DEF h
<1>11. h[0] = << <<>> >> /\ \A i \in 1 .. n : h[i] = AddAtom(h[i - 1], raw, i)
  <2>1. 0 \in 0 .. n /\ \A i \in 1 .. n : i \in 0 .. n /\ i # 0
    BY <1>1
  <2>2. QED  BY <1>9, <2>1
<1>12. h[0] \in A /\ \A i \in 1 .. n : h[i - 1] \in A => h[i] \in A
  <2> HIDE DEF n, A
  <2>1. QED  BY <1>2, <1>4, <1>11
<1>13. \A i \in 0 .. n : h[i] \in A
  <2> HIDE DEF n, A
  <2>1. QED  BY <1>1, <1>12, StaysIn
<1>14. QED  BY <1>10, <1>11, <1>13

\* The sentences of a text are all of it.
LEMMA SentencesText ==
    ASSUME NEW raw \in Text
    PROVE  Sentences(raw) \in Seq(Text) /\ FlattenSeq(Sentences(raw)) = raw
<1> DEFINE n == Len(raw)
<1>1. n \in Nat /\ raw \in Seq(AtomSet) /\ n \in 0 .. n
  BY DEF Text
<1>2. PICK h : /\ Sentences(raw) = h[n] /\ h[0] = << <<>> >>
               /\ \A i \in 0 .. n : h[i] \in Seq(Text) \ {<<>>}
               /\ \A i \in 1 .. n : h[i] = AddAtom(h[i - 1], raw, i)
  BY SentencesFold
<1> DEFINE Pre(i) == SubSeq(raw, 1, i)
           G == {i \in 0 .. n : FlattenSeq(h[i]) = Pre(i)}
<1>3. /\ Pre(0) = <<>> /\ Pre(n) = raw
      /\ \A i \in 1 .. n : Pre(i) = Append(Pre(i - 1), raw[i])
  BY <1>1, Beginnings
<1> HIDE DEF Pre, n
<1>4. 0 \in G
  <2> DEFINE e == <<>>
  <2>1. e \in Text
    BY TextEmpty
  <2>2. h[0] = <<e>> /\ Pre(0) = e
    BY <1>2, <1>3
  <2> HIDE DEF e
  <2>3. FlattenSeq(h[0]) = Pre(0)
    BY <2>1, <2>2, FlattenFew
  <2>4. QED  BY <1>1, <2>3
<1>5. ASSUME NEW i \in 1 .. n, i - 1 \in G
      PROVE  i \in G
  <2>1. i \in 0 .. n /\ i - 1 \in 0 .. n
    BY <1>1
  <2>2. h[i - 1] \in Seq(Text) \ {<<>>} /\ h[i] = AddAtom(h[i - 1], raw, i)
    BY <1>2, <2>1
  <2>3. FlattenSeq(h[i]) = Append(FlattenSeq(h[i - 1]), raw[i])
    <3>1. i \in 1 .. Len(raw)
      BY DEF n
    <3>2. QED  BY <2>2, <3>1, AddAtomProperties
  <2>4. QED  BY <1>3, <1>5, <2>1, <2>3
<1>6. n \in G
  <2> HIDE DEF G
  <2>1. \A i \in 1 .. n : i - 1 \in G => i \in G
    BY <1>5
  <2>2. \A i \in 0 .. n : i \in G
    BY <1>1, <1>4, <2>1, Induct
  <2>3. QED  BY <1>1, <2>2
<1>7. QED  BY <1>1, <1>2, <1>3, <1>6

(*******************************************************************************)
(* _chunks: however a run is cut, the pieces have all of its text, in order.   *)
(*******************************************************************************)
\* A text becomes a token.
LEMMA TokText == \A raw \in Text : Tok("text", raw, "", FALSE) \in Token /\ Tok("text", raw, "", FALSE).raw = raw
<1> SUFFICES ASSUME NEW raw \in Text
             PROVE  Tok("text", raw, "", FALSE) \in Token /\ Tok("text", raw, "", FALSE).raw = raw
  OBVIOUS
<1>1. PICK no \in BOOLEAN : no = FALSE
  BY Zenon
<1>2. PICK name \in TagNames : name = ""
  BY DEF TagNames
<1>3. [kind |-> "text", raw |-> raw, name |-> name, closing |-> no] \in Token
  BY DEF Token
<1>4. QED  BY <1>1, <1>2, <1>3 DEF Tok

\* The empty list of tokens.
LEMMA NoTokens == <<>> \in TokenList /\ Raw(<<>>) = <<>>
BY RawEmpty DEF TokenList

\* One sentence of a text.
LEMMA AddSentenceProperties ==
    ASSUME NEW u \in UnitList, NEW raw \in Text
    PROVE  AddSentence(u, raw) \in UnitList /\ UnitText(AddSentence(u, raw)) = UnitText(u) \o raw
<1> DEFINE t == Tok("text", raw, "", FALSE)
           v == AddToLast(u, t)
           w == UnitText(v)
           e == <<>>
<1>1. t \in Token /\ t.raw = raw
  BY TokText
<1> HIDE DEF t
<1>2. v \in UnitList /\ w = UnitText(u) \o raw
  BY <1>1, AddTokenToLast
<1>3. v \in Seq(TokenList) /\ e \in TokenList /\ Raw(e) = e
  BY <1>2, NoTokens DEF UnitList
<1>4. w \in Text
  BY <1>3, UnitTextProperties
<1>5. w \o e = w
  BY <1>4, TextEmpty
<1>6. AddSentence(u, raw) = v \/ AddSentence(u, raw) = Append(v, e)
  BY DEF AddSentence, t
<1> HIDE DEF v, e
<1>7. UnitText(Append(v, e)) = w \o Raw(e)
  BY <1>3, UnitTextMore
<1>8. Append(v, e) \in UnitList
  BY <1>3, AppendNotEmpty DEF UnitList
<1> HIDE DEF w
<1>9. QED  BY <1>2, <1>3, <1>5, <1>6, <1>7, <1>8 DEF w

\* AddSentences counts through the sentences.
LEMMA AddSentencesFold ==
    ASSUME NEW u \in UnitList, NEW sentences \in Seq(Text)
    PROVE  \E h : /\ AddSentences(u, sentences) = h[Len(sentences)] /\ h[0] = u
                  /\ \A i \in 0 .. Len(sentences) : h[i] \in UnitList
                  /\ \A i \in 1 .. Len(sentences) : h[i] = AddSentence(h[i - 1], sentences[i])
<1> DEFINE n == Len(sentences)
           A == UnitList
           F == [x \in A \X (1 .. n) |-> AddSentence(x[1], sentences[x[2]])]
           Is(f) == f = [i \in 0 .. Len(sentences) |-> IF i = 0 THEN u ELSE AddSentence(f[i - 1], sentences[i])]
           h == CHOOSE f : Is(f)
<1>1. n \in Nat
  OBVIOUS
<1>2. ASSUME NEW a \in A, NEW i \in 1 .. n
      PROVE  AddSentence(a, sentences[i]) \in A
  <2>1. sentences[i] \in Text
    OBVIOUS
  <2>2. QED  BY <2>1, AddSentenceProperties
<1>3. IsStep(F, A, n)
  BY <1>2 DEF IsStep
<1>4. PICK base \in A : base = u
  OBVIOUS
<1>5. PICK g : IsFold(g, A, n, base, F)
  <2> HIDE DEF F, n, A
  <2>1. QED  BY <1>1, <1>3, Recursion
<1>6. g \in [0 .. n -> A] /\ g[0] = u /\ \A i \in 1 .. n : g[i] = F[<<g[i - 1], i>>]
  BY <1>4, <1>5 DEF IsFold
<1>7. \A i \in 1 .. n : g[i] = AddSentence(g[i - 1], sentences[i])
  <2> SUFFICES ASSUME NEW i \in 1 .. n
               PROVE  g[i] = AddSentence(g[i - 1], sentences[i])
    OBVIOUS
  <2>1. i - 1 \in 0 .. n
    BY <1>1
  <2>2. g[i] = F[<<g[i - 1], i>>] /\ <<g[i - 1], i>> \in A \X (1 .. n)
    <3> HIDE DEF F, n, A
    <3>1. QED  BY <1>6, <2>1
  <2> HIDE DEF n, A
  <2>3. QED  BY <2>2
<1>8. Is(g)
  <2>1. \A i \in 0 .. n : g[i] = IF i = 0 THEN u ELSE AddSentence(g[i - 1], sentences[i])
    <3> SUFFICES ASSUME NEW i \in 0 .. n
                 PROVE  g[i] = IF i = 0 THEN u ELSE AddSentence(g[i - 1], sentences[i])
      OBVIOUS
    <3>1. i = 0 \/ i \in 1 .. n
      BY <1>1
    <3>2. QED  BY <1>6, <1>7, <3>1
  <2>2. g = [i \in 0 .. n |-> g[i]]
    <3> HIDE DEF F, A, n
    <3>1. QED  BY <1>6
  <2> HIDE DEF A
  <2>3. QED  BY <2>1, <2>2
<1>9. Is(h)
  <2> HIDE DEF Is
  <2>1. QED  BY <1>8
<1>10. AddSentences(u, sentences) = h[Len(sentences)]
  BY DEF AddSentences
<1> HIDE DEF h
<1>11. h[0] = u /\ \A i \in 1 .. n : h[i] = AddSentence(h[i - 1], sentences[i])
  <2>1. 0 \in 0 .. n /\ \A i \in 1 .. n : i \in 0 .. n /\ i # 0
    BY <1>1
  <2>2. QED  BY <1>9, <2>1
<1>12. h[0] \in A /\ \A i \in 1 .. n : h[i - 1] \in A => h[i] \in A
  <2> HIDE DEF n, A
  <2>1. QED  BY <1>2, <1>4, <1>11
<1>13. \A i \in 0 .. n : h[i] \in A
  <2> HIDE DEF n, A
  <2>1. QED  BY <1>1, <1>12, StaysIn
<1>14. QED  BY <1>10, <1>11, <1>13

\* All sentences of a text.
LEMMA AddSentencesProperties ==
    ASSUME NEW u \in UnitList, NEW sentences \in Seq(Text)
    PROVE  /\ AddSentences(u, sentences) \in UnitList
           /\ UnitText(AddSentences(u, sentences)) = UnitText(u) \o FlattenSeq(sentences)
<1> DEFINE n == Len(sentences)
<1>1. n \in Nat /\ n \in 0 .. n /\ 0 \in 0 .. n
  OBVIOUS
<1>2. PICK h : /\ AddSentences(u, sentences) = h[n] /\ h[0] = u
               /\ \A i \in 0 .. n : h[i] \in UnitList
               /\ \A i \in 1 .. n : h[i] = AddSentence(h[i - 1], sentences[i])
  BY AddSentencesFold
<1> DEFINE t == [i \in 0 .. n |-> UnitText(h[i])]
<1>3. t[0] = UnitText(u) /\ t[n] = UnitText(AddSentences(u, sentences))
  <2> HIDE DEF n
  <2>1. QED  BY <1>1, <1>2
<1>4. Grows(t, sentences)
  <2>1. t[0] \in Text
    BY <1>3, UnitTextProperties DEF UnitList
  <2>2. ASSUME NEW i \in 1 .. n
        PROVE  t[i] = t[i - 1] \o sentences[i]
    <3>1. sentences[i] \in Text
      OBVIOUS
    <3> HIDE DEF n
    <3>2. i \in 0 .. n /\ i - 1 \in 0 .. n
      BY <1>1
    <3>3. h[i - 1] \in UnitList /\ h[i] = AddSentence(h[i - 1], sentences[i])
      BY <1>2, <3>2
    <3>4. UnitText(h[i]) = UnitText(h[i - 1]) \o sentences[i]
      BY <3>1, <3>3, AddSentenceProperties
    <3>5. QED  BY <3>2, <3>4
  <2> HIDE DEF t
  <2>3. QED  BY <2>1, <2>2 DEF Grows
<1> HIDE DEF t
<1>5. t[n] = t[0] \o FlattenSeq(sentences)
  BY <1>4, Grown
<1>6. QED  BY <1>1, <1>2, <1>3, <1>5

\* One token of a run: its text arrives in the units.
LEMMA AddTokenProperties ==
    ASSUME NEW tokens \in TokenList, NEW u \in UnitList, NEW i \in 1 .. Len(tokens)
    PROVE  /\ AddToken(u, tokens, i) \in UnitList
           /\ UnitText(AddToken(u, tokens, i)) = UnitText(u) \o tokens[i].raw
<1> DEFINE t == tokens[i]
           ss == Sentences(t.raw)
<1>1. t \in Token
  BY DEF TokenList
<1> HIDE DEF t
<1>2. ss \in Seq(Text) /\ FlattenSeq(ss) = t.raw
  BY <1>1, TokenRaw, SentencesText
<1> HIDE DEF ss
<1>3. AddToken(u, tokens, i) = AddToLast(u, t) \/ AddToken(u, tokens, i) = AddSentences(u, ss)
  BY DEF AddToken, t, ss
<1>4. CASE AddToken(u, tokens, i) = AddToLast(u, t)
  BY <1>1, <1>4, AddTokenToLast DEF t
<1>5. CASE AddToken(u, tokens, i) = AddSentences(u, ss)
  <2>1. AddSentences(u, ss) \in UnitList /\ UnitText(AddSentences(u, ss)) = UnitText(u) \o FlattenSeq(ss)
    BY <1>2, AddSentencesProperties
  <2>2. QED  BY <1>2, <1>5, <2>1 DEF t
<1>6. QED  BY <1>3, <1>4, <1>5

\* Units counts through the tokens.
LEMMA UnitsFold ==
    ASSUME NEW tokens \in TokenList
    PROVE  \E h : /\ Units(tokens) = h[Len(tokens)] /\ h[0] = << <<>> >>
                  /\ \A i \in 0 .. Len(tokens) : h[i] \in UnitList
                  /\ \A i \in 1 .. Len(tokens) : h[i] = AddToken(h[i - 1], tokens, i)
<1> DEFINE n == Len(tokens)
           A == UnitList
           F == [x \in A \X (1 .. n) |-> AddToken(x[1], tokens, x[2])]
           Is(f) == f = [i \in 0 .. Len(tokens) |-> IF i = 0 THEN << <<>> >> ELSE AddToken(f[i - 1], tokens, i)]
           h == CHOOSE f : Is(f)
<1>1. n \in Nat
  BY DEF TokenList
<1>2. ASSUME NEW a \in A, NEW i \in 1 .. n
      PROVE  AddToken(a, tokens, i) \in A
  BY AddTokenProperties
<1>3. IsStep(F, A, n)
  BY <1>2 DEF IsStep
<1>4. PICK base \in A : base = << <<>> >>
  <2> DEFINE e == <<>>
  <2>1. e \in TokenList
    BY NoTokens
  <2> HIDE DEF e
  <2>2. <<e>> \in Seq(TokenList) /\ <<e>> # <<>>
    BY <2>1
  <2>3. QED  BY <2>2 DEF e, UnitList
<1>5. PICK g : IsFold(g, A, n, base, F)
  <2> HIDE DEF F, n, A
  <2>1. QED  BY <1>1, <1>3, Recursion
<1>6. g \in [0 .. n -> A] /\ g[0] = << <<>> >> /\ \A i \in 1 .. n : g[i] = F[<<g[i - 1], i>>]
  BY <1>4, <1>5 DEF IsFold
<1>7. \A i \in 1 .. n : g[i] = AddToken(g[i - 1], tokens, i)
  <2> SUFFICES ASSUME NEW i \in 1 .. n
               PROVE  g[i] = AddToken(g[i - 1], tokens, i)
    OBVIOUS
  <2>1. i - 1 \in 0 .. n
    BY <1>1
  <2>2. g[i] = F[<<g[i - 1], i>>] /\ <<g[i - 1], i>> \in A \X (1 .. n)
    <3> HIDE DEF F, n, A
    <3>1. QED  BY <1>6, <2>1
  <2> HIDE DEF n, A
  <2>3. QED  BY <2>2
<1>8. Is(g)
  <2>1. \A i \in 0 .. n : g[i] = IF i = 0 THEN << <<>> >> ELSE AddToken(g[i - 1], tokens, i)
    <3> SUFFICES ASSUME NEW i \in 0 .. n
                 PROVE  g[i] = IF i = 0 THEN << <<>> >> ELSE AddToken(g[i - 1], tokens, i)
      OBVIOUS
    <3>1. i = 0 \/ i \in 1 .. n
      BY <1>1
    <3>2. QED  BY <1>6, <1>7, <3>1
  <2>2. g = [i \in 0 .. n |-> g[i]]
    <3> HIDE DEF F, A, n
    <3>1. QED  BY <1>6
  <2> HIDE DEF A
  <2>3. QED  BY <2>1, <2>2
<1>9. Is(h)
  <2> HIDE DEF Is
  <2>1. QED  BY <1>8
<1>10. Units(tokens) = h[Len(tokens)]
  BY DEF Units
<1> HIDE DEF h
<1>11. h[0] = << <<>> >> /\ \A i \in 1 .. n : h[i] = AddToken(h[i - 1], tokens, i)
  <2>1. 0 \in 0 .. n /\ \A i \in 1 .. n : i \in 0 .. n /\ i # 0
    BY <1>1
  <2>2. QED  BY <1>9, <2>1
<1>12. h[0] \in A /\ \A i \in 1 .. n : h[i - 1] \in A => h[i] \in A
  <2> HIDE DEF n, A
  <2>1. QED  BY <1>2, <1>4, <1>11
<1>13. \A i \in 0 .. n : h[i] \in A
  <2> HIDE DEF n, A
  <2>1. QED  BY <1>1, <1>12, StaysIn
<1>14. QED  BY <1>10, <1>11, <1>13

\* A list of one token list.
LEMMA UnitTextOne == \A s \in TokenList : <<s>> \in UnitList /\ UnitText(<<s>>) = Raw(s)
<1> SUFFICES ASSUME NEW s \in TokenList
             PROVE  <<s>> \in UnitList /\ UnitText(<<s>>) = Raw(s)
  OBVIOUS
<1> DEFINE e == <<>>
           r == Raw(s)
<1>1. e \in Seq(TokenList) /\ UnitText(e) = e /\ <<s>> = Append(e, s)
  BY UnitTextProperties
<1>2. r \in Text /\ e \o r = r
  BY RawText, TextEmpty DEF TokenList
<1> HIDE DEF e
<1>3. UnitText(Append(e, s)) = UnitText(e) \o r
  BY <1>1, UnitTextMore
<1>4. Append(e, s) \in UnitList
  BY <1>1, AppendNotEmpty DEF UnitList
<1> HIDE DEF r
<1>5. UnitText(<<s>>) = r
  BY <1>1, <1>2, <1>3
<1>6. QED  BY <1>1, <1>4, <1>5 DEF r

\* The units of a run are all of its text.
LEMMA UnitsText ==
    ASSUME NEW tokens \in TokenList
    PROVE  Units(tokens) \in UnitList /\ UnitText(Units(tokens)) = Raw(tokens)
<1> DEFINE n == Len(tokens)
           s == RawsOf(tokens)
<1>1. n \in Nat /\ n \in 0 .. n /\ 0 \in 0 .. n
  BY DEF TokenList
<1>2. PICK h : /\ Units(tokens) = h[n] /\ h[0] = << <<>> >>
               /\ \A i \in 0 .. n : h[i] \in UnitList
               /\ \A i \in 1 .. n : h[i] = AddToken(h[i - 1], tokens, i)
  BY UnitsFold
<1>3. s \in Seq(Text) /\ Len(s) = n /\ \A i \in 1 .. n : s[i] = tokens[i].raw
  BY RawsOfProperties DEF TokenList
<1> DEFINE t == [i \in 0 .. n |-> UnitText(h[i])]
<1>4. t[0] = <<>> /\ t[n] = UnitText(Units(tokens))
  <2> DEFINE e == <<>>
  <2>1. e \in TokenList /\ Raw(e) = e /\ h[0] = <<e>>
    BY <1>2, NoTokens
  <2> HIDE DEF n, e
  <2>2. UnitText(h[0]) = e
    BY <2>1, UnitTextOne
  <2>3. QED  BY <1>1, <1>2, <2>2 DEF e
<1>5. Grows(t, s)
  <2>1. t[0] \in Text
    BY <1>4, TextEmpty
  <2>2. ASSUME NEW i \in 1 .. n
        PROVE  t[i] = t[i - 1] \o s[i]
    <3>1. i \in 0 .. n /\ i - 1 \in 0 .. n
      <4> HIDE DEF n
      <4>1. QED  BY <1>1
    <3>2. h[i - 1] \in UnitList /\ h[i] = AddToken(h[i - 1], tokens, i)
      BY <1>2, <3>1
    <3>3. UnitText(h[i]) = UnitText(h[i - 1]) \o tokens[i].raw
      BY <3>2, AddTokenProperties
    <3> HIDE DEF s, n
    <3>4. QED  BY <1>3, <3>1, <3>3
  <2> HIDE DEF t, s, n
  <2>3. QED  BY <1>3, <2>1, <2>2 DEF Grows
<1> HIDE DEF t, s
<1>6. t[n] = t[0] \o FlattenSeq(s)
  BY <1>3, <1>5, Grown
<1>7. Raw(tokens) = FlattenSeq(s) /\ Raw(tokens) \in Text
  BY RawText DEF TokenList, s
<1>8. <<>> \o FlattenSeq(s) = FlattenSeq(s)
  BY <1>7, TextEmpty
<1>9. UnitText(Units(tokens)) = Raw(tokens)
  BY <1>4, <1>6, <1>7, <1>8
<1>10. QED  BY <1>1, <1>2, <1>9

\* Joining one more unit.
LEMMA JoinProperties ==
    ASSUME NEW chunks \in Seq(TokenList), NEW unit \in TokenList
    PROVE  Join(chunks, unit) \in Seq(TokenList) /\ UnitText(Join(chunks, unit)) = UnitText(chunks) \o Raw(unit)
<1> DEFINE a == Front(chunks)
           b == Last(chunks)
           c == b \o unit
           e == <<>>
<1>1. CASE chunks # <<>> /\ Join(chunks, unit) = Append(a, c)
  <2>1. a \in Seq(TokenList) /\ b \in TokenList /\ chunks = Append(a, b)
    BY <1>1, FrontAndLast
  <2> HIDE DEF a, b
  <2>2. c \in TokenList /\ Raw(c) = Raw(b) \o Raw(unit)
    BY <2>1, RawBoth DEF TokenList
  <2> HIDE DEF c
  <2> DEFINE fa == UnitText(a)
             rb == Raw(b)
             ru == Raw(unit)
  <2>3. fa \in Text /\ rb \in Text /\ ru \in Text
    BY <2>1, RawText, UnitTextProperties DEF TokenList
  <2>4. UnitText(chunks) = fa \o rb /\ UnitText(Append(a, c)) = fa \o Raw(c) /\ Append(a, c) \in Seq(TokenList)
    BY <2>1, <2>2, UnitTextMore
  <2> HIDE DEF fa, rb, ru
  <2>5. fa \o (rb \o ru) = (fa \o rb) \o ru
    BY <2>3, TextAssoc
  <2>6. UnitText(Append(a, c)) = UnitText(chunks) \o Raw(unit)
    BY <2>2, <2>4, <2>5 DEF rb, ru
  <2>7. QED  BY <1>1, <2>4, <2>6
<1>2. CASE Join(chunks, unit) = Append(chunks, unit)
  BY <1>2, UnitTextMore
<1>3. CASE unit = e /\ Join(chunks, unit) = chunks
  <2>1. UnitText(chunks) \in Text /\ Raw(unit) = e
    BY <1>3, UnitTextProperties, NoTokens
  <2>2. UnitText(chunks) \o e = UnitText(chunks)
    BY <2>1, TextEmpty
  <2> HIDE DEF e
  <2>3. QED  BY <1>3, <2>1, <2>2
<1>4. QED  BY <1>1, <1>2, <1>3 DEF Join

\* Joined counts through the units.
LEMMA JoinedFold ==
    ASSUME NEW units \in Seq(TokenList)
    PROVE  \E h : /\ Joined(units) = h[Len(units)] /\ h[0] = <<>>
                  /\ \A i \in 0 .. Len(units) : h[i] \in Seq(TokenList)
                  /\ \A i \in 1 .. Len(units) : h[i] = Join(h[i - 1], units[i])
<1> DEFINE n == Len(units)
           A == Seq(TokenList)
           F == [x \in A \X (1 .. n) |-> Join(x[1], units[x[2]])]
           Is(f) == f = [i \in 0 .. Len(units) |-> IF i = 0 THEN <<>> ELSE Join(f[i - 1], units[i])]
           h == CHOOSE f : Is(f)
<1>1. n \in Nat
  OBVIOUS
<1>2. ASSUME NEW a \in A, NEW i \in 1 .. n
      PROVE  Join(a, units[i]) \in A
  <2>1. units[i] \in TokenList
    OBVIOUS
  <2>2. QED  BY <2>1, JoinProperties
<1>3. IsStep(F, A, n)
  BY <1>2 DEF IsStep
<1>4. PICK base \in A : base = <<>>
  <2>1. <<>> \in Seq(TokenList)
    OBVIOUS
  <2>2. QED  BY <2>1
<1>5. PICK g : IsFold(g, A, n, base, F)
  <2> HIDE DEF F, n, A
  <2>1. QED  BY <1>1, <1>3, Recursion
<1>6. g \in [0 .. n -> A] /\ g[0] = <<>> /\ \A i \in 1 .. n : g[i] = F[<<g[i - 1], i>>]
  BY <1>4, <1>5 DEF IsFold
<1>7. \A i \in 1 .. n : g[i] = Join(g[i - 1], units[i])
  <2> SUFFICES ASSUME NEW i \in 1 .. n
               PROVE  g[i] = Join(g[i - 1], units[i])
    OBVIOUS
  <2>1. i - 1 \in 0 .. n
    BY <1>1
  <2>2. g[i] = F[<<g[i - 1], i>>] /\ <<g[i - 1], i>> \in A \X (1 .. n)
    <3> HIDE DEF F, n, A
    <3>1. QED  BY <1>6, <2>1
  <2> HIDE DEF n, A
  <2>3. QED  BY <2>2
<1>8. Is(g)
  <2>1. \A i \in 0 .. n : g[i] = IF i = 0 THEN <<>> ELSE Join(g[i - 1], units[i])
    <3> SUFFICES ASSUME NEW i \in 0 .. n
                 PROVE  g[i] = IF i = 0 THEN <<>> ELSE Join(g[i - 1], units[i])
      OBVIOUS
    <3>1. i = 0 \/ i \in 1 .. n
      BY <1>1
    <3>2. QED  BY <1>6, <1>7, <3>1
  <2>2. g = [i \in 0 .. n |-> g[i]]
    <3> HIDE DEF F, A, n
    <3>1. QED  BY <1>6
  <2> HIDE DEF A
  <2>3. QED  BY <2>1, <2>2
<1>9. Is(h)
  <2> HIDE DEF Is
  <2>1. QED  BY <1>8
<1>10. Joined(units) = h[Len(units)]
  BY DEF Joined
<1> HIDE DEF h
<1>11. h[0] = <<>> /\ \A i \in 1 .. n : h[i] = Join(h[i - 1], units[i])
  <2>1. 0 \in 0 .. n /\ \A i \in 1 .. n : i \in 0 .. n /\ i # 0
    BY <1>1
  <2>2. QED  BY <1>9, <2>1
<1>12. h[0] \in A /\ \A i \in 1 .. n : h[i - 1] \in A => h[i] \in A
  <2> HIDE DEF n, A
  <2>1. QED  BY <1>2, <1>4, <1>11
<1>13. \A i \in 0 .. n : h[i] \in A
  <2> HIDE DEF n, A
  <2>1. QED  BY <1>1, <1>12, StaysIn
<1>14. QED  BY <1>10, <1>11, <1>13

\* Joined units have the text of the units.
LEMMA JoinedText ==
    ASSUME NEW units \in Seq(TokenList)
    PROVE  Joined(units) \in Seq(TokenList) /\ UnitText(Joined(units)) = UnitText(units)
<1> DEFINE n == Len(units)
           s == RawsOfUnits(units)
<1>1. n \in Nat /\ n \in 0 .. n /\ 0 \in 0 .. n
  OBVIOUS
<1>2. PICK h : /\ Joined(units) = h[n] /\ h[0] = <<>>
               /\ \A i \in 0 .. n : h[i] \in Seq(TokenList)
               /\ \A i \in 1 .. n : h[i] = Join(h[i - 1], units[i])
  BY JoinedFold
<1>3. s \in Seq(Text) /\ Len(s) = n /\ \A i \in 1 .. n : s[i] = Raw(units[i])
  BY UnitTextProperties
<1> DEFINE t == [i \in 0 .. n |-> UnitText(h[i])]
<1>4. t[0] = <<>> /\ t[n] = UnitText(Joined(units))
  <2>1. UnitText(h[0]) = <<>>
    BY <1>2, UnitTextProperties
  <2> HIDE DEF n
  <2>2. QED  BY <1>1, <1>2, <2>1
<1>5. Grows(t, s)
  <2>1. t[0] \in Text
    BY <1>4, TextEmpty
  <2>2. ASSUME NEW i \in 1 .. n
        PROVE  t[i] = t[i - 1] \o s[i]
    <3>1. i \in 0 .. n /\ i - 1 \in 0 .. n
      <4> HIDE DEF n
      <4>1. QED  BY <1>1
    <3>2. h[i - 1] \in Seq(TokenList) /\ h[i] = Join(h[i - 1], units[i]) /\ units[i] \in TokenList
      BY <1>2, <3>1
    <3>3. UnitText(h[i]) = UnitText(h[i - 1]) \o Raw(units[i])
      BY <3>2, JoinProperties
    <3> HIDE DEF s, n
    <3>4. QED  BY <1>3, <3>1, <3>3
  <2> HIDE DEF t, s, n
  <2>3. QED  BY <1>3, <2>1, <2>2 DEF Grows
<1> HIDE DEF t, s
<1>6. t[n] = t[0] \o FlattenSeq(s)
  BY <1>3, <1>5, Grown
<1>7. UnitText(units) = FlattenSeq(s) /\ UnitText(units) \in Text
  BY UnitTextProperties DEF UnitText, s
<1>8. <<>> \o FlattenSeq(s) = FlattenSeq(s)
  BY <1>7, TextEmpty
<1>9. UnitText(Joined(units)) = UnitText(units)
  BY <1>4, <1>6, <1>7, <1>8
<1>10. QED  BY <1>1, <1>2, <1>9

\* _chunks cuts a run in pieces without losing any of it.
LEMMA ChunksText ==
    ASSUME NEW tokens \in TokenList
    PROVE  _chunks(tokens) \in Seq(TokenList) /\ UnitText(_chunks(tokens)) = Raw(tokens)
<1>1. <<tokens>> \in Seq(TokenList) /\ UnitText(<<tokens>>) = Raw(tokens)
  BY UnitTextOne DEF UnitList
<1> DEFINE u == Units(tokens)
<1>2. u \in Seq(TokenList) /\ UnitText(u) = Raw(tokens)
  BY UnitsText DEF UnitList
<1> HIDE DEF u
<1>3. Joined(u) \in Seq(TokenList) /\ UnitText(Joined(u)) = Raw(tokens)
  BY <1>2, JoinedText
<1>4. _chunks(tokens) = <<tokens>> \/ _chunks(tokens) = Joined(u)
  BY DEF _chunks, u
<1>5. QED  BY <1>1, <1>3, <1>4

\* One token that is kept if it has text.
LEMMA KeepTokenProperties ==
    ASSUME NEW kept \in TokenList, NEW t \in Token
    PROVE  KeepToken(kept, t) \in TokenList /\ Raw(KeepToken(kept, t)) = Raw(kept) \o t.raw
<1>1. CASE t.raw = <<>>
  <2>1. KeepToken(kept, t) = kept /\ Raw(kept) \in Text
    BY <1>1, RawText DEF KeepToken, TokenList
  <2>2. Raw(kept) = Raw(kept) \o t.raw
    BY <1>1, <2>1, TextEmpty
  <2>3. QED  BY <2>1, <2>2
<1>2. CASE t.raw # <<>>
  BY <1>2, RawMore DEF KeepToken, TokenList
<1>3. QED  BY <1>1, <1>2

\* NonEmpty counts through the tokens.
LEMMA NonEmptyFold ==
    ASSUME NEW tokens \in TokenList
    PROVE  \E h : /\ NonEmpty(tokens) = h[Len(tokens)] /\ h[0] = <<>>
                  /\ \A i \in 0 .. Len(tokens) : h[i] \in TokenList
                  /\ \A i \in 1 .. Len(tokens) : h[i] = KeepToken(h[i - 1], tokens[i])
<1> DEFINE n == Len(tokens)
           A == TokenList
           F == [x \in A \X (1 .. n) |-> KeepToken(x[1], tokens[x[2]])]
           Is(f) == f = [i \in 0 .. Len(tokens) |-> IF i = 0 THEN <<>> ELSE KeepToken(f[i - 1], tokens[i])]
           h == CHOOSE f : Is(f)
<1>1. n \in Nat
  BY DEF TokenList
<1>2. ASSUME NEW a \in A, NEW i \in 1 .. n
      PROVE  KeepToken(a, tokens[i]) \in A
  <2>1. tokens[i] \in Token
    BY DEF TokenList
  <2>2. QED  BY <2>1, KeepTokenProperties
<1>3. IsStep(F, A, n)
  BY <1>2 DEF IsStep
<1>4. PICK base \in A : base = <<>>
  BY NoTokens
<1>5. PICK g : IsFold(g, A, n, base, F)
  <2> HIDE DEF F, n, A
  <2>1. QED  BY <1>1, <1>3, Recursion
<1>6. g \in [0 .. n -> A] /\ g[0] = <<>> /\ \A i \in 1 .. n : g[i] = F[<<g[i - 1], i>>]
  BY <1>4, <1>5 DEF IsFold
<1>7. \A i \in 1 .. n : g[i] = KeepToken(g[i - 1], tokens[i])
  <2> SUFFICES ASSUME NEW i \in 1 .. n
               PROVE  g[i] = KeepToken(g[i - 1], tokens[i])
    OBVIOUS
  <2>1. i - 1 \in 0 .. n
    BY <1>1
  <2>2. g[i] = F[<<g[i - 1], i>>] /\ <<g[i - 1], i>> \in A \X (1 .. n)
    <3> HIDE DEF F, n, A
    <3>1. QED  BY <1>6, <2>1
  <2> HIDE DEF n, A
  <2>3. QED  BY <2>2
<1>8. Is(g)
  <2>1. \A i \in 0 .. n : g[i] = IF i = 0 THEN <<>> ELSE KeepToken(g[i - 1], tokens[i])
    <3> SUFFICES ASSUME NEW i \in 0 .. n
                 PROVE  g[i] = IF i = 0 THEN <<>> ELSE KeepToken(g[i - 1], tokens[i])
      OBVIOUS
    <3>1. i = 0 \/ i \in 1 .. n
      BY <1>1
    <3>2. QED  BY <1>6, <1>7, <3>1
  <2>2. g = [i \in 0 .. n |-> g[i]]
    <3> HIDE DEF F, A, n
    <3>1. QED  BY <1>6
  <2> HIDE DEF A
  <2>3. QED  BY <2>1, <2>2
<1>9. Is(h)
  <2> HIDE DEF Is
  <2>1. QED  BY <1>8
<1>10. NonEmpty(tokens) = h[Len(tokens)]
  BY DEF NonEmpty
<1> HIDE DEF h
<1>11. h[0] = <<>> /\ \A i \in 1 .. n : h[i] = KeepToken(h[i - 1], tokens[i])
  <2>1. 0 \in 0 .. n /\ \A i \in 1 .. n : i \in 0 .. n /\ i # 0
    BY <1>1
  <2>2. QED  BY <1>9, <2>1
<1>12. h[0] \in A /\ \A i \in 1 .. n : h[i - 1] \in A => h[i] \in A
  <2> HIDE DEF n, A
  <2>1. QED  BY <1>2, <1>4, <1>11
<1>13. \A i \in 0 .. n : h[i] \in A
  <2> HIDE DEF n, A
  <2>1. QED  BY <1>1, <1>12, StaysIn
<1>14. QED  BY <1>10, <1>11, <1>13

\* Tokens without text are no loss.
LEMMA NonEmptyText ==
    ASSUME NEW tokens \in TokenList
    PROVE  NonEmpty(tokens) \in TokenList /\ Raw(NonEmpty(tokens)) = Raw(tokens)
<1> DEFINE n == Len(tokens)
           s == RawsOf(tokens)
<1>1. n \in Nat /\ n \in 0 .. n /\ 0 \in 0 .. n
  BY DEF TokenList
<1>2. PICK h : /\ NonEmpty(tokens) = h[n] /\ h[0] = <<>>
               /\ \A i \in 0 .. n : h[i] \in TokenList
               /\ \A i \in 1 .. n : h[i] = KeepToken(h[i - 1], tokens[i])
  BY NonEmptyFold
<1>3. s \in Seq(Text) /\ Len(s) = n /\ \A i \in 1 .. n : s[i] = tokens[i].raw
  BY RawsOfProperties DEF TokenList
<1> DEFINE t == [i \in 0 .. n |-> Raw(h[i])]
<1>4. t[0] = <<>> /\ t[n] = Raw(NonEmpty(tokens))
  <2>1. Raw(h[0]) = <<>>
    BY <1>2, NoTokens
  <2> HIDE DEF n
  <2>2. QED  BY <1>1, <1>2, <2>1
<1>5. Grows(t, s)
  <2>1. t[0] \in Text
    BY <1>4, TextEmpty
  <2>2. ASSUME NEW i \in 1 .. n
        PROVE  t[i] = t[i - 1] \o s[i]
    <3>1. i \in 0 .. n /\ i - 1 \in 0 .. n
      <4> HIDE DEF n
      <4>1. QED  BY <1>1
    <3>2. h[i - 1] \in TokenList /\ h[i] = KeepToken(h[i - 1], tokens[i])
      BY <1>2, <3>1
    <3>3. tokens[i] \in Token
      BY DEF TokenList
    <3>4. Raw(h[i]) = Raw(h[i - 1]) \o tokens[i].raw
      BY <3>2, <3>3, KeepTokenProperties
    <3> HIDE DEF s, n
    <3>5. QED  BY <1>3, <3>1, <3>4
  <2> HIDE DEF t, s, n
  <2>3. QED  BY <1>3, <2>1, <2>2 DEF Grows
<1> HIDE DEF t, s
<1>6. t[n] = t[0] \o FlattenSeq(s)
  BY <1>3, <1>5, Grown
<1>7. Raw(tokens) = FlattenSeq(s) /\ Raw(tokens) \in Text
  BY RawText DEF TokenList, s
<1>8. <<>> \o FlattenSeq(s) = FlattenSeq(s)
  BY <1>7, TextEmpty
<1>9. Raw(NonEmpty(tokens)) = Raw(tokens)
  BY <1>4, <1>6, <1>7, <1>8
<1>10. QED  BY <1>1, <1>2, <1>9

(*******************************************************************************)
(* _emit: white space that is cut off at the edges.                            *)
(*******************************************************************************)
\* White space at the edges of a text.
LEMMA StripBounds ==
    ASSUME NEW raw \in Text
    PROVE  LStrip(raw) \in 0 .. Len(raw) /\ RStrip(raw) \in 0 .. Len(raw)
<1> DEFINE n == Len(raw)
           W == Words(raw)
<1>1. n \in Nat /\ W \subseteq 1 .. n
  BY DEF Words, Text
<1>2. CASE W = {}
  BY <1>1, <1>2 DEF LStrip, RStrip
<1>3. CASE W # {}
  <2> HIDE DEF W
  <2>1. W \subseteq Nat /\ W \subseteq 0 .. n
    BY <1>1
  <2>2. \E i \in W : \A j \in W : i <= j
    BY <1>3, <2>1, LeastNumber
  <2>3. \E i \in W : \A j \in W : i >= j
    BY <1>1, <1>3, <2>1, GreatestNumber
  <2>4. (CHOOSE i \in W : \A j \in W : i <= j) \in W /\ (CHOOSE i \in W : \A j \in W : i >= j) \in W
    BY <2>2, <2>3
  <2>5. LStrip(raw) = (CHOOSE i \in W : \A j \in W : i <= j) - 1 /\ RStrip(raw) = CHOOSE i \in W : \A j \in W : i >= j
    BY <1>3 DEF LStrip, RStrip, W
  <2> HIDE DEF n
  <2>6. \A i \in W : i \in 0 .. n /\ i - 1 \in 0 .. n
    BY <1>1
  <2>7. QED  BY <2>4, <2>5, <2>6 DEF n
<1>4. QED  BY <1>2, <1>3

\* The same token with another text.
LEMMA OtherRaw ==
    ASSUME NEW t \in Token, NEW r \in Text
    PROVE  [t EXCEPT !.raw = r] \in Token /\ [t EXCEPT !.raw = r].raw = r
BY DEF Token

\* What the first token loses at its start, the run loses at its start.
LEMMA CutFirst ==
    ASSUME NEW s \in TokenList, s # <<>>, NEW x \in Text, NEW r \in Text, x \o r = s[1].raw
    PROVE  /\ [s EXCEPT ![1].raw = r] \in TokenList /\ Len([s EXCEPT ![1].raw = r]) = Len(s)
           /\ Raw(s) = x \o Raw([s EXCEPT ![1].raw = r])
<1> DEFINE n == Len(s)
           t == s[1]
           c == [t EXCEPT !.raw = r]
           v == [s EXCEPT ![1].raw = r]
           rest == Tail(s)
<1>1. s \in Seq(Token) /\ n \in Nat /\ 1 \in 1 .. n
  BY DEF TokenList
<1>2. t \in Token /\ c \in Token /\ c.raw = r /\ t.raw = x \o r
  BY <1>1, OtherRaw
<1>3. rest \in Seq(Token) /\ Len(rest) = n - 1 /\ \A i \in 1 .. (n - 1) : rest[i] = s[i + 1]
  BY <1>1, HeadTailProperties
<1>4. v = [s EXCEPT ![1] = c]
  BY <1>1
<1> HIDE DEF v, c, t
<1>5. v \in Seq(Token) /\ Len(v) = n /\ v[1] = c /\ \A i \in 2 .. n : v[i] = s[i]
  BY <1>1, <1>2, <1>4
<1> HIDE DEF rest, n
<1>6. ASSUME NEW a \in Token, NEW w \in Seq(Token), Len(w) = n, w[1] = a, \A i \in 2 .. n : w[i] = s[i]
      PROVE  Raw(w) = a.raw \o Raw(rest)
  <2> DEFINE one == <<a>>
             both == one \o rest
  <2>1. one \in Seq(Token) /\ Len(one) = 1 /\ one[1] = a
    OBVIOUS
  <2> HIDE DEF one
  <2>2. both \in Seq(Token) /\ Len(both) = 1 + (n - 1) /\ \A i \in 1 .. (1 + (n - 1)) : both[i] = IF i <= 1 THEN one[i] ELSE rest[i - 1]
    <3>1. one \in Seq(Token) /\ rest \in Seq(Token)
      BY <1>3, <2>1
    <3>2. /\ both \in Seq(Token) /\ Len(both) = Len(one) + Len(rest)
          /\ \A i \in 1 .. (Len(one) + Len(rest)) : both[i] = IF i <= Len(one) THEN one[i] ELSE rest[i - Len(one)]
      BY <3>1, ConcatProperties
    <3>3. QED  BY <1>3, <2>1, <3>2
  <2> HIDE DEF both
  <2>3. 1 + (n - 1) = n
    BY <1>1
  <2>4. \A i \in 1 .. n : both[i] = w[i]
    <3> SUFFICES ASSUME NEW i \in 1 .. n
                 PROVE  both[i] = w[i]
      OBVIOUS
    <3>1. CASE i = 1
      BY <1>6, <2>1, <2>2, <2>3, <3>1
    <3>2. CASE i # 1
      <4>1. i \in 2 .. n /\ i - 1 \in 1 .. (n - 1) /\ (i - 1) + 1 = i /\ ~(i <= 1)
        BY <1>1, <3>2
      <4>2. QED  BY <1>3, <1>6, <2>2, <2>3, <4>1
    <3>3. QED  BY <3>1, <3>2
  <2>5. both = w
    BY <1>6, <2>2, <2>3, <2>4, SeqEqual
  <2>6. Raw(both) = Raw(one) \o Raw(rest)
    BY <1>3, <2>1, RawBoth DEF both
  <2>7. Raw(one) = a.raw
    <3> DEFINE e == <<>>
               y == a.raw
    <3>1. one = Append(e, a) /\ e \in Seq(Token) /\ Raw(e) = e
      BY NoTokens DEF one, TokenList
    <3>2. y \in Text /\ e \o y = y
      BY TokenRaw, TextEmpty
    <3> HIDE DEF e
    <3>3. Raw(Append(e, a)) = Raw(e) \o y
      BY <3>1, RawMore
    <3>4. QED  BY <3>1, <3>2, <3>3
  <2>8. QED  BY <2>5, <2>6, <2>7
<1>7. Raw(v) = c.raw \o Raw(rest)
  BY <1>2, <1>5, <1>6
<1>8. Raw(s) = t.raw \o Raw(rest)
  <2>1. Len(s) = n /\ s[1] = t
    BY DEF n, t
  <2>2. QED  BY <1>1, <1>2, <1>6, <2>1
<1> DEFINE b == Raw(rest)
<1>9. b \in Text
  BY <1>3, RawText
<1> HIDE DEF b
<1>10. x \o (r \o b) = (x \o r) \o b
  BY <1>9, TextAssoc
<1>11. Raw(s) = x \o Raw(v)
  BY <1>2, <1>7, <1>8, <1>10 DEF b
<1>12. QED  BY <1>5, <1>11 DEF TokenList, v, n

\* What the last token loses at its end, the run loses at its end.
LEMMA CutLast ==
    ASSUME NEW s \in TokenList, s # <<>>, NEW x \in Text, NEW r \in Text, r \o x = s[Len(s)].raw
    PROVE  /\ [s EXCEPT ![Len(s)].raw = r] \in TokenList
           /\ Raw(s) = Raw([s EXCEPT ![Len(s)].raw = r]) \o x
<1> DEFINE n == Len(s)
           t == s[n]
           c == [t EXCEPT !.raw = r]
           v == [s EXCEPT ![n].raw = r]
           front == Front(s)
<1>1. s \in Seq(Token) /\ n \in Nat /\ n \in 1 .. n /\ n - 1 \in Nat
  BY DEF TokenList
<1>2. t \in Token /\ c \in Token /\ c.raw = r /\ t.raw = r \o x
  BY <1>1, OtherRaw
<1>3. front \in Seq(Token) /\ s = Append(front, t)
  <2>1. Front(s) \in Seq(Token) /\ s = Append(Front(s), Last(s))
    BY <1>1, FrontAndLast
  <2>2. QED  BY <2>1 DEF Last
<1>4. v = [s EXCEPT ![n] = c]
  BY <1>1
<1> HIDE DEF v, c, t, front
<1>5. v \in Seq(Token) /\ Len(v) = n /\ v[n] = c /\ \A i \in 1 .. (n - 1) : v[i] = s[i]
  BY <1>1, <1>2, <1>4
<1>6. Len(front) = n - 1 /\ \A i \in 1 .. (n - 1) : front[i] = s[i]
  <2>1. Len(s) = Len(front) + 1 /\ \A i \in 1 .. Len(front) : s[i] = front[i]
    BY <1>3, AppendProperties
  <2>2. Len(front) \in Nat
    BY <1>3
  <2>3. Len(front) = n - 1
    BY <2>1, <2>2
  <2>4. QED  BY <2>1, <2>3
<1> HIDE DEF n
<1>7. v = Append(front, c)
  <2> DEFINE a == Append(front, c)
  <2>1. a \in Seq(Token) /\ Len(a) = (n - 1) + 1 /\ a[(n - 1) + 1] = c /\ \A i \in 1 .. (n - 1) : a[i] = front[i]
    BY <1>1, <1>2, <1>3, <1>6, AppendProperties
  <2>2. (n - 1) + 1 = n /\ \A i \in 1 .. n : i = n \/ i \in 1 .. (n - 1)
    BY <1>1
  <2> HIDE DEF a
  <2>3. \A i \in 1 .. n : v[i] = a[i]
    BY <1>5, <1>6, <2>1, <2>2
  <2>4. v = a
    BY <1>5, <2>1, <2>2, <2>3, SeqEqual
  <2>5. QED  BY <2>4 DEF a
<1> DEFINE b == Raw(front)
<1>8. b \in Text
  BY <1>3, RawText
<1>9. Raw(v) = b \o r /\ Raw(s) = b \o t.raw
  BY <1>2, <1>3, <1>7, RawMore
<1> HIDE DEF b
<1>10. b \o (r \o x) = (b \o r) \o x
  BY <1>8, TextAssoc
<1>11. Raw(s) = Raw(v) \o x
  BY <1>2, <1>9, <1>10
<1>12. QED  BY <1>5, <1>11 DEF TokenList, v, n

(*******************************************************************************)
(* Documents: parts and segments, and what they reassemble to.                 *)
(*******************************************************************************)
\* The parts of a document with up to n segments, its segments, and the text they make.
PartSet(n) == [slot : 0 .. n, raw : Text]
AnyPart == [slot : Nat, raw : Text]
Segment(L) == [tokens : TokenList, lang : L]
PieceOf(part, segments) == IF part.slot = 0 THEN part.raw ELSE Raw(segments[part.slot].tokens)
Pieces(parts, segments) == [i \in DOMAIN parts |-> PieceOf(parts[i], segments)]
OutOf(parts, segments) == FlattenSeq(Pieces(parts, segments))
IsMore(new, segments) == new \in Seq(PartSet(Len(segments)))
IsDoc(parts, segments, L) == segments \in Seq(Segment(L)) /\ parts \in Seq(PartSet(Len(segments)))

\* What a part stands for.
LEMMA PieceText ==
    ASSUME NEW L, NEW segments \in Seq(Segment(L)), NEW part \in PartSet(Len(segments))
    PROVE  PieceOf(part, segments) \in Text
<1>1. part.slot \in 0 .. Len(segments) /\ part.raw \in Text
  BY DEF PartSet
<1>2. CASE part.slot = 0
  BY <1>1, <1>2 DEF PieceOf
<1>3. CASE part.slot # 0
  <2>1. part.slot \in 1 .. Len(segments)
    BY <1>1, <1>3
  <2>2. segments[part.slot] \in Segment(L)
    BY <2>1
  <2>3. segments[part.slot].tokens \in TokenList
    BY <2>2 DEF Segment
  <2>4. QED  BY <1>3, <2>3, RawText DEF PieceOf, TokenList
<1>4. QED  BY <1>2, <1>3

\* The pieces as a map, so that they grow with the parts.
LEMMA PiecesMapped ==
    ASSUME NEW L, NEW segments \in Seq(Segment(L))
    PROVE  \E g : /\ IsText(g, PartSet(Len(segments)), AtomSet)
                  /\ \A s \in Seq(PartSet(Len(segments))) : Pieces(s, segments) = Mapped(g, s)
<1> DEFINE X == PartSet(Len(segments))
           g == [x \in X |-> PieceOf(x, segments)]
<1>1. \A x \in X : g[x] = PieceOf(x, segments) /\ g[x] \in Text
  BY PieceText
<1>2. IsText(g, X, AtomSet)
  BY <1>1 DEF IsText, Text
<1>3. ASSUME NEW s \in Seq(X)
      PROVE  Pieces(s, segments) = Mapped(g, s)
  <2>1. \A i \in DOMAIN s : s[i] \in X
    OBVIOUS
  <2> HIDE DEF X
  <2>2. QED  BY <2>1 DEF Mapped, Pieces
<1> HIDE DEF g
<1>4. QED  BY <1>2, <1>3

\* The text of a document is a text.
LEMMA DocText ==
    ASSUME NEW L, NEW parts, NEW segments, IsDoc(parts, segments, L)
    PROVE  Pieces(parts, segments) \in Seq(Text) /\ OutOf(parts, segments) \in Text
<1>1. segments \in Seq(Segment(L)) /\ parts \in Seq(PartSet(Len(segments)))
  BY DEF IsDoc
<1>2. PICK g : /\ IsText(g, PartSet(Len(segments)), AtomSet)
               /\ \A s \in Seq(PartSet(Len(segments))) : Pieces(s, segments) = Mapped(g, s)
  BY <1>1, PiecesMapped
<1>3. Pieces(parts, segments) \in Seq(Seq(AtomSet))
  BY <1>1, <1>2, MappedProperties
<1>4. QED  BY <1>3, FlattenText DEF OutOf, Text

\* More parts.
LEMMA DocMore ==
    ASSUME NEW L, NEW parts, NEW segments, IsDoc(parts, segments, L), NEW new, IsMore(new, segments)
    PROVE  /\ IsDoc(parts \o new, segments, L)
           /\ OutOf(parts \o new, segments) = OutOf(parts, segments) \o OutOf(new, segments)
<1> DEFINE X == PartSet(Len(segments))
<1>1. segments \in Seq(Segment(L)) /\ parts \in Seq(X)
  BY DEF IsDoc
<1>2. PICK g : /\ IsText(g, X, AtomSet)
               /\ \A s \in Seq(X) : Pieces(s, segments) = Mapped(g, s)
  BY <1>1, PiecesMapped
<1>3. parts \o new \in Seq(X)
  <2> HIDE DEF X
  <2>1. new \in Seq(X)
    BY DEF X, IsMore
  <2>2. QED  BY <1>1, <2>1, ConcatProperties
<1>4. IsDoc(parts \o new, segments, L)
  BY <1>1, <1>3 DEF IsDoc
<1>5. Pieces(parts \o new, segments) = Pieces(parts, segments) \o Pieces(new, segments)
  <2>1. new \in Seq(X)
    BY DEF IsMore
  <2> HIDE DEF X
  <2>2. Mapped(g, parts \o new) = Mapped(g, parts) \o Mapped(g, new)
    BY <1>1, <1>2, <2>1, MappedProperties
  <2>3. QED  BY <1>1, <1>2, <1>3, <2>1, <2>2
<1> DEFINE a == Pieces(parts, segments)
           b == Pieces(new, segments)
<1>6. a \in Seq(Text) /\ b \in Seq(Text)
  <2>1. IsDoc(new, segments, L)
    BY <1>1 DEF IsDoc, IsMore
  <2>2. QED  BY <2>1, DocText
<1> HIDE DEF a, b, X
<1>7. FlattenSeq(a \o b) = FlattenSeq(a) \o FlattenSeq(b)
  BY <1>6, FlattenBoth
<1>8. QED  BY <1>4, <1>5, <1>7 DEF OutOf, a, b

\* One more segment changes nothing of the parts before it.
LEMMA DocSegment ==
    ASSUME NEW L, NEW parts, NEW segments, IsDoc(parts, segments, L), NEW s \in Segment(L)
    PROVE  /\ IsDoc(parts, Append(segments, s), L) /\ OutOf(parts, Append(segments, s)) = OutOf(parts, segments)
           /\ Len(Append(segments, s)) = Len(segments) + 1 /\ Append(segments, s)[Len(segments) + 1] = s
<1> DEFINE n == Len(segments)
           v == Append(segments, s)
<1>1. segments \in Seq(Segment(L)) /\ parts \in Seq(PartSet(n)) /\ n \in Nat
  BY DEF IsDoc
<1>2. v \in Seq(Segment(L)) /\ Len(v) = n + 1 /\ v[n + 1] = s /\ \A i \in 1 .. n : v[i] = segments[i]
  BY <1>1, AppendProperties
<1> HIDE DEF v, n
<1>3. PartSet(n) \subseteq PartSet(n + 1)
  BY <1>1 DEF PartSet
<1>4. parts \in Seq(PartSet(n + 1))
  <2> HIDE DEF PartSet
  <2>1. QED  BY <1>1, <1>3
<1>5. Pieces(parts, v) = Pieces(parts, segments)
  <2>1. ASSUME NEW i \in DOMAIN parts
        PROVE  PieceOf(parts[i], v) = PieceOf(parts[i], segments)
    <3>1. parts[i] \in PartSet(n)
      BY <1>1
    <3>2. parts[i].slot \in 0 .. n
      BY <3>1 DEF PartSet
    <3>3. parts[i].slot = 0 \/ parts[i].slot \in 1 .. n
      BY <1>1, <3>2
    <3>4. QED  BY <1>2, <3>3 DEF PieceOf
  <2>2. QED  BY <2>1 DEF Pieces
<1>6. QED  BY <1>2, <1>4, <1>5 DEF IsDoc, OutOf, n, v

\* Text that no segment touches.
LEMMA UnchangedText ==
    ASSUME NEW raws \in Seq(Text), NEW n \in Nat, NEW segments
    PROVE  Unchanged(raws) \in Seq(PartSet(n)) /\ OutOf(Unchanged(raws), segments) = FlattenSeq(raws)
<1> DEFINE u == Unchanged(raws)
           m == Len(raws)
<1>1. m \in Nat /\ DOMAIN raws = 1 .. m
  OBVIOUS
<1>2. DOMAIN u = 1 .. m /\ \A i \in 1 .. m : u[i] = [slot |-> 0, raw |-> raws[i]]
  BY <1>1 DEF Unchanged
<1>3. \A i \in 1 .. m : [slot |-> 0, raw |-> raws[i]] \in PartSet(n)
  BY DEF PartSet
<1>4. u \in Seq(PartSet(n))
  <2>1. u = [i \in 1 .. m |-> u[i]]
    BY <1>1 DEF Unchanged
  <2> HIDE DEF u, m
  <2>2. u \in [1 .. m -> PartSet(n)]
    BY <1>2, <1>3, <2>1
  <2>3. QED  BY <1>1, <2>2
<1> HIDE DEF u
<1>5. \A i \in 1 .. m : PieceOf(u[i], segments) = raws[i]
  BY <1>2 DEF PieceOf
<1>6. Pieces(u, segments) = [i \in 1 .. m |-> raws[i]]
  BY <1>2, <1>5 DEF Pieces
<1>7. [i \in 1 .. m |-> raws[i]] = raws
  OBVIOUS
<1>8. QED  BY <1>4, <1>6, <1>7 DEF OutOf, u

\* One part of unchanged text.
LEMMA OnePart ==
    ASSUME NEW raw \in Text, NEW n \in Nat, NEW segments
    PROVE  << [slot |-> 0, raw |-> raw] >> \in Seq(PartSet(n)) /\ OutOf(<< [slot |-> 0, raw |-> raw] >>, segments) = raw
<1> DEFINE x == [slot |-> 0, raw |-> raw]
<1>1. x \in PartSet(n) /\ PieceOf(x, segments) = raw
  BY DEF PartSet, PieceOf
<1> HIDE DEF x
<1>2. <<x>> \in Seq(PartSet(n))
  BY <1>1
<1>3. Pieces(<<x>>, segments) = <<raw>>
  BY <1>1 DEF Pieces
<1>4. QED  BY <1>2, <1>3, FlattenFew DEF OutOf, x

\* A segment between two pieces of unchanged text.
LEMMA ThreeParts ==
    ASSUME NEW L, NEW segments \in Seq(Segment(L)), NEW k \in 1 .. Len(segments), NEW a \in Text, NEW c \in Text
    PROVE  LET new == << [slot |-> 0, raw |-> a], [slot |-> k, raw |-> <<>>], [slot |-> 0, raw |-> c] >>
           IN  /\ new \in Seq(PartSet(Len(segments)))
               /\ OutOf(new, segments) = (a \o Raw(segments[k].tokens)) \o c
<1> DEFINE n == Len(segments)
           x == [slot |-> 0, raw |-> a]
           y == [slot |-> k, raw |-> <<>>]
           z == [slot |-> 0, raw |-> c]
           b == Raw(segments[k].tokens)
<1>1. n \in Nat /\ k \in 0 .. n /\ k # 0 /\ 0 \in 0 .. n
  OBVIOUS
<1>2. x \in PartSet(n) /\ z \in PartSet(n) /\ PieceOf(x, segments) = a /\ PieceOf(z, segments) = c
  BY <1>1 DEF PartSet, PieceOf
<1>3. y \in PartSet(n)
  <2>1. PICK e \in Text : e = <<>>
    BY TextEmpty
  <2>2. [slot |-> k, raw |-> e] \in PartSet(n)
    BY <1>1 DEF PartSet
  <2>3. QED  BY <2>1, <2>2
<1>4. PieceOf(y, segments) = b
  BY <1>1 DEF PieceOf
<1>5. b \in Text
  BY <1>3, <1>4, PieceText
<1> HIDE DEF x, y, z, b, n
<1>6. <<x, y, z>> \in Seq(PartSet(n))
  BY <1>2, <1>3
<1>7. Pieces(<<x, y, z>>, segments) = <<a, b, c>>
  BY <1>2, <1>4 DEF Pieces
<1>8. FlattenSeq(<<a, b, c>>) = (a \o b) \o c
  BY <1>5, FlattenFew
<1>9. OutOf(<<x, y, z>>, segments) = (a \o b) \o c
  BY <1>7, <1>8 DEF OutOf
<1>10. QED  BY <1>6, <1>9 DEF x, y, z, b, n

\* Putting the segments back gives the text.
LEMMA Reassembled ==
    ASSUME NEW q, NEW L, IsDoc(q.parts, q.segments, L)
    PROVE  reassemble(q, Original(q)) = OutOf(q.parts, q.segments)
<1> DEFINE parts == q.parts
           segments == q.segments
           n == Len(segments)
           o == Original(q)
<1>1. n \in Nat /\ parts \in Seq(PartSet(n)) /\ DOMAIN segments = 1 .. n
  BY DEF IsDoc
<1>2. \A k \in 1 .. n : o[k] = Raw(segments[k].tokens)
  BY <1>1 DEF Original
<1> HIDE DEF n, o
<1>3. ASSUME NEW i \in DOMAIN parts
      PROVE  (IF parts[i].slot = 0 THEN parts[i].raw ELSE o[parts[i].slot]) = PieceOf(parts[i], segments)
  <2>1. parts[i] \in PartSet(n)
    BY <1>1
  <2>2. parts[i].slot \in 0 .. n
    BY <2>1 DEF PartSet
  <2>3. parts[i].slot = 0 \/ parts[i].slot \in 1 .. n
    BY <1>1, <2>2
  <2>4. QED  BY <1>2, <2>3 DEF PieceOf
<1>4. [i \in DOMAIN parts |-> IF parts[i].slot = 0 THEN parts[i].raw ELSE o[parts[i].slot]] = Pieces(parts, segments)
  BY <1>3 DEF Pieces
<1>5. QED  BY <1>4 DEF reassemble, OutOf, o

(*******************************************************************************)
(* _emit and the chunks of a run.                                              *)
(*******************************************************************************)
\* The fields of _Segmenter, all but the parts and the segments those of q; and the ones
\* of them that are a document.
Machine(q, P, S) ==
    [parts : P, segments : S, stack : {q.stack}, run : {q.run}, context : {q.context}, skip : {q.skip},
     root_lang : {q.root_lang}, top_level : {q.top_level}, unterminated : {q.unterminated}]
DocSet(q, L) ==
    {r \in Machine(q, Seq(AnyPart), Seq(Segment(L))) : IsDoc(r.parts, r.segments, L)}
Out(q) == OutOf(q.parts, q.segments)

\* Parts of a document are parts.
LEMMA AnyParts == \A n \in Nat : Seq(PartSet(n)) \subseteq Seq(AnyPart)
<1> SUFFICES ASSUME NEW n \in Nat
             PROVE  Seq(PartSet(n)) \subseteq Seq(AnyPart)
  OBVIOUS
<1>1. PartSet(n) \subseteq AnyPart
  BY DEF PartSet, AnyPart
<1>2. QED  BY <1>1

WithDoc(q, x, y) == [q EXCEPT !.segments = y, !.parts = x]

\* Other parts and segments in the same machine.
LEMMA DocSetOther ==
    ASSUME NEW q0, NEW L, NEW q \in DocSet(q0, L), NEW x, NEW y, IsDoc(x, y, L)
    PROVE  /\ WithDoc(q, x, y) \in DocSet(q0, L)
           /\ WithDoc(q, x, y).parts = x /\ WithDoc(q, x, y).segments = y
<1> DEFINE r == WithDoc(q, x, y)
<1>1. y \in Seq(Segment(L)) /\ x \in Seq(AnyPart)
  <2>1. y \in Seq(Segment(L)) /\ x \in Seq(PartSet(Len(y))) /\ Len(y) \in Nat
    BY DEF IsDoc
  <2>2. QED  BY <2>1, AnyParts
<1> DEFINE P == Seq(AnyPart)
           S == Seq(Segment(L))
<1>2. q \in Machine(q0, P, S) /\ x \in P /\ y \in S
  BY <1>1 DEF DocSet
<1> HIDE DEF P, S
<1>3. r \in Machine(q0, P, S) /\ r.parts = x /\ r.segments = y
  BY <1>2 DEF Machine, WithDoc
<1> HIDE DEF r
<1>4. QED  BY <1>3 DEF DocSet, P, S, r

\* Other parts with the same segments.
LEMMA DocSetParts ==
    ASSUME NEW q0, NEW L, NEW q \in DocSet(q0, L), NEW x, IsDoc(x, q.segments, L)
    PROVE  LET r == [q EXCEPT !.parts = x]
           IN  r \in DocSet(q0, L) /\ r.parts = x /\ r.segments = q.segments
<1> DEFINE r == [q EXCEPT !.parts = x]
<1>1. x \in Seq(AnyPart)
  <2>1. q.segments \in Seq(Segment(L)) /\ x \in Seq(PartSet(Len(q.segments))) /\ Len(q.segments) \in Nat
    BY DEF IsDoc
  <2>2. QED  BY <2>1, AnyParts
<1> DEFINE P == Seq(AnyPart)
           S == Seq(Segment(L))
<1>2. q \in Machine(q0, P, S) /\ x \in P
  BY <1>1 DEF DocSet
<1> HIDE DEF P, S
<1>3. r \in Machine(q0, P, S) /\ r.parts = x /\ r.segments = q.segments
  BY <1>2 DEF Machine
<1> HIDE DEF r
<1>4. QED  BY <1>3 DEF DocSet, P, S, r

\* _emit adds the text of the tokens, and nothing else.
LEMMA EmitText ==
    ASSUME NEW q0, NEW L, q0.context \in L, NEW q \in DocSet(q0, L), NEW all \in TokenList
    PROVE  _emit(q, all) \in DocSet(q0, L) /\ Out(_emit(q, all)) = Out(q) \o Raw(all)
<1> DEFINE tokens == NonEmpty(all)
           n == Len(tokens)
           visible == \E i \in 1 .. n : tokens[i].kind = "text" /\ Visible(tokens[i].raw)
           parts == q.parts
           segments == q.segments
<1>1. tokens \in TokenList /\ Raw(tokens) = Raw(all) /\ Raw(tokens) \in Text
  BY NonEmptyText, RawText DEF TokenList
<1>2. IsDoc(parts, segments, L) /\ segments \in Seq(Segment(L)) /\ Len(segments) \in Nat /\ q.context \in L
  BY DEF DocSet, IsDoc, Machine
<1>3. n \in Nat /\ DOMAIN tokens = 1 .. n /\ \A i \in 1 .. n : tokens[i] \in Token
  BY <1>1 DEF TokenList
<1>4. CASE ~visible
  <2> DEFINE raws == RawsOf(tokens)
             new == Unchanged(raws)
  <2>1. _emit(q, all) = [q EXCEPT !.parts = parts \o Unchanged([i \in 1 .. n |-> tokens[i].raw])]
    BY <1>4 DEF _emit
  <2>2. raws = [i \in 1 .. n |-> tokens[i].raw]
    BY <1>3 DEF RawsOf
  <2>3. raws \in Seq(Text) /\ FlattenSeq(raws) = Raw(tokens)
    BY <1>1, RawsOfProperties, RawText DEF TokenList
  <2> HIDE DEF raws, tokens
  <2>4. new \in Seq(PartSet(Len(segments))) /\ OutOf(new, segments) = FlattenSeq(raws)
    BY <1>2, <2>3, UnchangedText
  <2> HIDE DEF new
  <2>5. IsDoc(parts \o new, segments, L) /\ OutOf(parts \o new, segments) = OutOf(parts, segments) \o OutOf(new, segments)
    <3> HIDE DEF parts, segments
    <3>1. IsMore(new, segments)
      BY <2>4 DEF IsMore
    <3>2. QED  BY <1>2, <3>1, DocMore
  <2> DEFINE x == parts \o new
             r == [q EXCEPT !.parts = x]
  <2>6. _emit(q, all) = r
    BY <2>1, <2>2 DEF new
  <2>7. r \in DocSet(q0, L) /\ r.parts = x /\ r.segments = segments
    <3> HIDE DEF x
    <3>1. IsDoc(x, q.segments, L)
      BY <2>5 DEF x
    <3>2. QED  BY <3>1, DocSetParts
  <2> HIDE DEF r
  <2>8. Out(r) = Out(q) \o Raw(all)
    BY <1>1, <2>3, <2>4, <2>5, <2>7 DEF Out
  <2>9. QED  BY <2>6, <2>7, <2>8
<1>5. CASE visible
  <2>1. n # 0 /\ 1 \in 1 .. n /\ n \in 1 .. n
    BY <1>3, <1>5
  <2>2. tokens # <<>>
    BY <2>1
  <2> DEFINE raw1 == tokens[1].raw
             head == IF tokens[1].kind = "text" THEN LStrip(raw1) ELSE 0
             H == SubSeq(raw1, 1, head)
             R == SubSeq(raw1, head + 1, Len(raw1))
             first == [tokens EXCEPT ![1].raw = R]
             rawn == first[n].raw
             tail == IF first[n].kind = "text" THEN RStrip(rawn) ELSE Len(rawn)
             B == SubSeq(rawn, 1, tail)
             T == SubSeq(rawn, tail + 1, Len(rawn))
             both == [first EXCEPT ![n].raw = B]
             k == Len(segments) + 1
             s == [tokens |-> NonEmpty(both), lang |-> q.context]
             new == << [slot |-> 0, raw |-> H], [slot |-> k, raw |-> <<>>], [slot |-> 0, raw |-> T] >>
             segs == Append(segments, s)
  <2>3. raw1 \in Text /\ Len(raw1) \in Nat
    BY <1>3, <2>1, TokenRaw DEF Text
  <2>4. head \in 0 .. Len(raw1)
    BY <2>3, StripBounds
  <2>5. H \in Text /\ R \in Text /\ H \o R = raw1
    <3> HIDE DEF head, raw1
    <3>1. QED  BY <2>3, <2>4, TextCut
  <2>6. first \in TokenList /\ Len(first) = n /\ Raw(tokens) = H \o Raw(first)
    <3> HIDE DEF H, R, tokens
    <3>1. H \o R = tokens[1].raw
      BY <2>5 DEF raw1
    <3>2. QED  BY <1>1, <2>2, <2>5, <3>1, CutFirst
  <2> HIDE DEF H, R
  <2>7. first # <<>> /\ first[n] \in Token
    BY <2>1, <2>6 DEF TokenList
  <2>8. rawn \in Text /\ Len(rawn) \in Nat
    <3> HIDE DEF first
    <3>1. QED  BY <2>7, TokenRaw DEF Text
  <2>9. tail \in 0 .. Len(rawn)
    <3> HIDE DEF first, rawn
    <3>1. QED  BY <2>8, StripBounds
  <2>10. B \in Text /\ T \in Text /\ B \o T = rawn
    <3> HIDE DEF tail, rawn
    <3>1. QED  BY <2>8, <2>9, TextCut
  <2>11. both \in TokenList /\ Raw(first) = Raw(both) \o T
    <3> HIDE DEF B, T, first, n
    <3>1. B \o T = first[Len(first)].raw /\ both = [first EXCEPT ![Len(first)].raw = B]
      BY <2>6, <2>10 DEF rawn
    <3>2. QED  BY <2>6, <2>7, <2>10, <3>1, CutLast
  <2>12. _emit(q, all) = [q EXCEPT !.segments = segs, !.parts = parts \o new]
    BY <1>5 DEF _emit, H, R
  <2> HIDE DEF both, T, first
  <2>13. s \in Segment(L) /\ Raw(s.tokens) = Raw(both)
    BY <1>2, <2>11, NonEmptyText DEF Segment
  <2> HIDE DEF s
  <2>14. /\ IsDoc(parts, segs, L) /\ OutOf(parts, segs) = OutOf(parts, segments)
         /\ Len(segs) = k /\ segs[k] = s /\ k \in 1 .. k
    <3>1. k \in 1 .. k
      BY <1>2
    <3>2. QED  BY <1>2, <2>13, <3>1, DocSegment
  <2>15. segs \in Seq(Segment(L))
    BY <2>14 DEF IsDoc
  <2> HIDE DEF segs, k
  <2>16. new \in Seq(PartSet(Len(segs))) /\ OutOf(new, segs) = (H \o Raw(s.tokens)) \o T
    BY <2>5, <2>10, <2>14, <2>15, ThreeParts
  <2> HIDE DEF new
  <2>17. IsDoc(parts \o new, segs, L) /\ OutOf(parts \o new, segs) = OutOf(parts, segs) \o OutOf(new, segs)
    <3> HIDE DEF parts, segments
    <3>1. IsMore(new, segs)
      BY <2>16 DEF IsMore
    <3>2. IsDoc(parts, segs, L)
      BY <2>14
    <3>3. QED  BY <3>1, <3>2, DocMore
  <2> DEFINE x == parts \o new
             r == WithDoc(q, x, segs)
  <2>18. r \in DocSet(q0, L) /\ r.parts = x /\ r.segments = segs
    <3> HIDE DEF x
    <3>1. IsDoc(x, segs, L)
      BY <2>17 DEF x
    <3>2. QED  BY <3>1, DocSetOther
  <2>19. _emit(q, all) = r
    BY <2>12 DEF WithDoc
  <2> HIDE DEF r
  <2>20. (H \o Raw(s.tokens)) \o T = Raw(all)
    <3> DEFINE b == Raw(both)
    <3>1. b \in Text
      BY <2>11, RawText DEF TokenList
    <3> HIDE DEF b
    <3>2. H \o (b \o T) = (H \o b) \o T
      BY <2>5, <2>10, <3>1, TextAssoc
    <3>3. QED  BY <1>1, <2>6, <2>11, <2>13, <3>2 DEF b
  <2>21. Out(r) = Out(q) \o Raw(all)
    BY <2>14, <2>16, <2>17, <2>18, <2>20 DEF Out
  <2>22. QED  BY <2>18, <2>19, <2>21
<1>6. QED  BY <1>4, <1>5

\* EmitAll counts through the chunks.
LEMMA EmitAllFold ==
    ASSUME NEW L, NEW q, q.context \in L, q \in DocSet(q, L), NEW chunks \in Seq(TokenList)
    PROVE  \E h : /\ EmitAll(q, chunks) = h[Len(chunks)] /\ h[0] = q
                  /\ \A i \in 0 .. Len(chunks) : h[i] \in DocSet(q, L)
                  /\ \A i \in 1 .. Len(chunks) : h[i] = _emit(h[i - 1], chunks[i])
<1> DEFINE n == Len(chunks)
           A == DocSet(q, L)
           F == [x \in A \X (1 .. n) |-> _emit(x[1], chunks[x[2]])]
           Is(f) == f = [i \in 0 .. Len(chunks) |-> IF i = 0 THEN q ELSE _emit(f[i - 1], chunks[i])]
           h == CHOOSE f : Is(f)
<1>1. n \in Nat
  OBVIOUS
<1>2. ASSUME NEW a \in A, NEW i \in 1 .. n
      PROVE  _emit(a, chunks[i]) \in A
  <2>1. chunks[i] \in TokenList
    OBVIOUS
  <2>2. QED  BY <2>1, EmitText
<1>3. IsStep(F, A, n)
  BY <1>2 DEF IsStep
<1>4. PICK base \in A : base = q
  OBVIOUS
<1>5. PICK g : IsFold(g, A, n, base, F)
  <2> HIDE DEF F, n, A
  <2>1. QED  BY <1>1, <1>3, Recursion
<1>6. g \in [0 .. n -> A] /\ g[0] = q /\ \A i \in 1 .. n : g[i] = F[<<g[i - 1], i>>]
  BY <1>4, <1>5 DEF IsFold
<1>7. \A i \in 1 .. n : g[i] = _emit(g[i - 1], chunks[i])
  <2> SUFFICES ASSUME NEW i \in 1 .. n
               PROVE  g[i] = _emit(g[i - 1], chunks[i])
    OBVIOUS
  <2>1. i - 1 \in 0 .. n
    BY <1>1
  <2>2. g[i] = F[<<g[i - 1], i>>] /\ <<g[i - 1], i>> \in A \X (1 .. n)
    <3> HIDE DEF F, n, A
    <3>1. QED  BY <1>6, <2>1
  <2> HIDE DEF n, A
  <2>3. QED  BY <2>2
<1>8. Is(g)
  <2>1. \A i \in 0 .. n : g[i] = IF i = 0 THEN q ELSE _emit(g[i - 1], chunks[i])
    <3> SUFFICES ASSUME NEW i \in 0 .. n
                 PROVE  g[i] = IF i = 0 THEN q ELSE _emit(g[i - 1], chunks[i])
      OBVIOUS
    <3>1. i = 0 \/ i \in 1 .. n
      BY <1>1
    <3>2. QED  BY <1>6, <1>7, <3>1
  <2>2. g = [i \in 0 .. n |-> g[i]]
    <3> HIDE DEF F, A, n
    <3>1. QED  BY <1>6
  <2> HIDE DEF A
  <2>3. QED  BY <2>1, <2>2
<1>9. Is(h)
  <2> HIDE DEF Is
  <2>1. QED  BY <1>8
<1>10. EmitAll(q, chunks) = h[Len(chunks)]
  BY DEF EmitAll
<1> HIDE DEF h
<1>11. h[0] = q /\ \A i \in 1 .. n : h[i] = _emit(h[i - 1], chunks[i])
  <2>1. 0 \in 0 .. n /\ \A i \in 1 .. n : i \in 0 .. n /\ i # 0
    BY <1>1
  <2>2. QED  BY <1>9, <2>1
<1>12. h[0] \in A /\ \A i \in 1 .. n : h[i - 1] \in A => h[i] \in A
  <2> HIDE DEF n, A
  <2>1. QED  BY <1>2, <1>4, <1>11
<1>13. \A i \in 0 .. n : h[i] \in A
  <2> HIDE DEF n, A
  <2>1. QED  BY <1>1, <1>12, StaysIn
<1>14. QED  BY <1>10, <1>11, <1>13

\* All chunks arrive in the document.
LEMMA EmitAllText ==
    ASSUME NEW L, NEW q, q.context \in L, q \in DocSet(q, L), NEW chunks \in Seq(TokenList)
    PROVE  EmitAll(q, chunks) \in DocSet(q, L) /\ Out(EmitAll(q, chunks)) = Out(q) \o UnitText(chunks)
<1> DEFINE n == Len(chunks)
           s == RawsOfUnits(chunks)
<1>1. n \in Nat /\ n \in 0 .. n /\ 0 \in 0 .. n
  OBVIOUS
<1>2. PICK h : /\ EmitAll(q, chunks) = h[n] /\ h[0] = q
               /\ \A i \in 0 .. n : h[i] \in DocSet(q, L)
               /\ \A i \in 1 .. n : h[i] = _emit(h[i - 1], chunks[i])
  BY EmitAllFold
<1>3. s \in Seq(Text) /\ Len(s) = n /\ \A i \in 1 .. n : s[i] = Raw(chunks[i])
  BY UnitTextProperties
<1> DEFINE t == [i \in 0 .. n |-> Out(h[i])]
<1>4. t[0] = Out(q) /\ t[n] = Out(EmitAll(q, chunks))
  <2> HIDE DEF n
  <2>1. QED  BY <1>1, <1>2
<1>5. Grows(t, s)
  <2>1. t[0] \in Text
    <3>1. IsDoc(q.parts, q.segments, L)
      BY DEF DocSet
    <3>2. Out(q) \in Text
      BY <3>1, DocText DEF Out
    <3>3. QED  BY <1>4, <3>2
  <2>2. ASSUME NEW i \in 1 .. n
        PROVE  t[i] = t[i - 1] \o s[i]
    <3>1. i \in 0 .. n /\ i - 1 \in 0 .. n
      <4> HIDE DEF n
      <4>1. QED  BY <1>1
    <3>2. h[i - 1] \in DocSet(q, L) /\ h[i] = _emit(h[i - 1], chunks[i]) /\ chunks[i] \in TokenList
      BY <1>2, <3>1
    <3>3. Out(h[i]) = Out(h[i - 1]) \o Raw(chunks[i])
      BY <3>2, EmitText
    <3> HIDE DEF s, n
    <3>4. QED  BY <1>3, <3>1, <3>3
  <2> HIDE DEF t, s, n
  <2>3. QED  BY <1>3, <2>1, <2>2 DEF Grows
<1> HIDE DEF t, s
<1>6. t[n] = t[0] \o FlattenSeq(s)
  BY <1>3, <1>5, Grown
<1>7. UnitText(chunks) = FlattenSeq(s)
  BY DEF UnitText, s
<1>8. Out(EmitAll(q, chunks)) = Out(q) \o UnitText(chunks)
  BY <1>4, <1>6, <1>7
<1>9. QED  BY <1>1, <1>2, <1>8

(*******************************************************************************)
(* The run between its unmatched edges.                                        *)
(*******************************************************************************)
\* A run is cut in three.
LEMMA ThreeRuns ==
    ASSUME NEW run \in TokenList, NEW a \in 1 .. Len(run), NEW b \in a .. Len(run)
    PROVE  /\ SubSeq(run, 1, a - 1) \in TokenList /\ SubSeq(run, a, b) \in TokenList
           /\ SubSeq(run, b + 1, Len(run)) \in TokenList
           /\ Raw(run) = (Raw(SubSeq(run, 1, a - 1)) \o Raw(SubSeq(run, a, b))) \o Raw(SubSeq(run, b + 1, Len(run)))
<1> DEFINE n == Len(run)
           x == SubSeq(run, 1, a - 1)
           y == SubSeq(run, a, b)
           z == SubSeq(run, b + 1, n)
<1>1. run \in Seq(Token) /\ n \in Nat /\ a \in Nat /\ b \in Nat /\ 1 <= a /\ a <= b /\ b <= n
  BY DEF TokenList
<1>2. \A i \in 1 .. n : run[i] \in Token
  BY <1>1
<1>3. x \in Seq(Token) /\ Len(x) = a - 1 /\ \A i \in 1 .. (a - 1) : x[i] = run[i]
  BY <1>1
<1>4. y \in Seq(Token) /\ Len(y) = b - a + 1 /\ \A i \in 1 .. (b - a + 1) : y[i] = run[a + i - 1]
  BY <1>1
<1>5. z \in Seq(Token) /\ Len(z) = n - b /\ \A i \in 1 .. (n - b) : z[i] = run[b + i]
  BY <1>1
<1>6. run = (x \o y) \o z
  <2> HIDE DEF x, y, z, n
  <2>1. x \in Seq(Token) /\ y \in Seq(Token) /\ z \in Seq(Token)
    BY <1>3, <1>4, <1>5
  <2> DEFINE u == x \o y
  <2>2. /\ u \in Seq(Token) /\ Len(u) = Len(x) + Len(y)
        /\ \A i \in 1 .. (Len(x) + Len(y)) : u[i] = IF i <= Len(x) THEN x[i] ELSE y[i - Len(x)]
    BY <2>1, ConcatProperties
  <2>3. Len(x) + Len(y) = b
    BY <1>1, <1>3, <1>4
  <2>4. \A i \in 1 .. b : u[i] = run[i]
    <3> SUFFICES ASSUME NEW i \in 1 .. b
                 PROVE  u[i] = run[i]
      OBVIOUS
    <3>1. u[i] = IF i <= a - 1 THEN x[i] ELSE y[i - (a - 1)]
      BY <1>3, <2>2, <2>3
    <3>2. CASE i <= a - 1
      <4>1. i \in 1 .. (a - 1)
        BY <1>1, <3>2
      <4>2. QED  BY <1>3, <3>1, <3>2, <4>1
    <3>3. CASE ~(i <= a - 1)
      <4>1. i - (a - 1) \in 1 .. (b - a + 1) /\ a + (i - (a - 1)) - 1 = i
        BY <1>1, <3>3
      <4>2. QED  BY <1>4, <3>1, <3>3, <4>1
    <3>4. QED  BY <3>2, <3>3
  <2>5. u \in Seq(Token) /\ Len(u) = b
    BY <2>2, <2>3
  <2> HIDE DEF u
  <2> DEFINE w == u \o z
  <2>6. /\ w \in Seq(Token) /\ Len(w) = Len(u) + Len(z)
        /\ \A i \in 1 .. (Len(u) + Len(z)) : w[i] = IF i <= Len(u) THEN u[i] ELSE z[i - Len(u)]
    <3>1. u \in Seq(Token) /\ z \in Seq(Token)
      BY <2>1, <2>5
    <3>2. QED  BY <3>1, ConcatProperties
  <2>7. Len(u) + Len(z) = n
    BY <1>1, <1>5, <2>5
  <2> HIDE DEF w
  <2>8. \A i \in 1 .. n : w[i] = run[i]
    <3> SUFFICES ASSUME NEW i \in 1 .. n
                 PROVE  w[i] = run[i]
      OBVIOUS
    <3>1. w[i] = IF i <= b THEN u[i] ELSE z[i - b]
      BY <2>5, <2>6, <2>7
    <3>2. CASE i <= b
      <4>1. i \in 1 .. b
        BY <1>1, <3>2
      <4>2. QED  BY <2>4, <3>1, <3>2, <4>1
    <3>3. CASE ~(i <= b)
      <4>1. i - b \in 1 .. (n - b) /\ b + (i - b) = i
        BY <1>1, <3>3
      <4>2. QED  BY <1>5, <3>1, <3>3, <4>1
    <3>4. QED  BY <3>2, <3>3
  <2>9. w = run
    <3>1. Len(run) = n
      BY DEF n
    <3>2. QED  BY <1>1, <2>6, <2>7, <2>8, <3>1, SeqEqual
  <2>10. QED  BY <2>9 DEF w, u
<1> HIDE DEF x, y, z, n
<1>7. x \o y \in Seq(Token) /\ Raw(x \o y) = Raw(x) \o Raw(y)
  BY <1>3, <1>4, RawBoth
<1>8. Raw((x \o y) \o z) = Raw(x \o y) \o Raw(z)
  <2> DEFINE u == x \o y
  <2>1. u \in Seq(Token) /\ z \in Seq(Token)
    BY <1>5, <1>7
  <2> HIDE DEF u
  <2>2. Raw(u \o z) = Raw(u) \o Raw(z)
    BY <2>1, RawBoth
  <2>3. QED  BY <2>2 DEF u
<1>9. Raw(run) = (Raw(x) \o Raw(y)) \o Raw(z)
  BY <1>6, <1>7, <1>8
<1>10. QED  BY <1>3, <1>4, <1>5, <1>9 DEF x, y, z, n, TokenList

\* The raw texts from a to b.
RawsFrom(run, a, b) == [i \in 1 .. b - a + 1 |-> run[a + i - 1].raw]

\* ... are those of the tokens from a to b.
LEMMA RawsFromText ==
    ASSUME NEW run \in TokenList, NEW a \in 1 .. (Len(run) + 1), NEW b \in (a - 1) .. Len(run)
    PROVE  RawsFrom(run, a, b) \in Seq(Text) /\ FlattenSeq(RawsFrom(run, a, b)) = Raw(SubSeq(run, a, b))
<1> DEFINE n == Len(run)
           y == SubSeq(run, a, b)
           m == b - a + 1
<1>1. run \in Seq(Token) /\ n \in Nat /\ a \in Nat /\ b \in Int /\ 1 <= a /\ a <= b + 1 /\ b <= n
  BY DEF TokenList
<1>2. m \in Nat
  BY <1>1
<1>3. y \in Seq(Token) /\ Len(y) = m /\ \A i \in 1 .. m : y[i] = run[a + i - 1]
  <2>1. \A i \in a .. b : run[i] \in Token
    BY <1>1
  <2>2. /\ SubSeq(run, a, b) \in Seq(Token)
        /\ Len(SubSeq(run, a, b)) = IF a <= b THEN b - a + 1 ELSE 0
        /\ \A i \in 1 .. b - a + 1 : SubSeq(run, a, b)[i] = run[a + i - 1]
    BY <1>1, <2>1
  <2>3. QED  BY <1>1, <2>2
<1> HIDE DEF y
<1>4. RawsOf(y) = [i \in 1 .. m |-> run[a + i - 1].raw]
  <2>1. DOMAIN y = 1 .. m
    BY <1>2, <1>3
  <2> HIDE DEF m
  <2>2. QED  BY <1>3, <2>1 DEF RawsOf
<1>5. RawsOf(y) \in Seq(Text) /\ Raw(y) = FlattenSeq(RawsOf(y))
  BY <1>3, RawsOfProperties, RawText
<1>6. RawsFrom(run, a, b) = RawsOf(y)
  BY <1>4 DEF RawsFrom
<1>7. QED  BY <1>5, <1>6 DEF y

(*******************************************************************************)
(* _flush.                                                                     *)
(*******************************************************************************)
\* The machine of a document is its own.
LEMMA DocSetSelf ==
    ASSUME NEW q0, NEW L, NEW q \in DocSet(q0, L)
    PROVE  q \in DocSet(q, L) /\ DocSet(q, L) = DocSet(q0, L) /\ q.context = q0.context
<1> DEFINE P == Seq(AnyPart)
           S == Seq(Segment(L))
<1>1. q \in Machine(q0, P, S) /\ IsDoc(q.parts, q.segments, L)
  BY DEF DocSet
<1> HIDE DEF P, S
<1>2. /\ q.stack = q0.stack /\ q.run = q0.run /\ q.context = q0.context /\ q.skip = q0.skip
      /\ q.root_lang = q0.root_lang /\ q.top_level = q0.top_level /\ q.unterminated = q0.unterminated
  BY <1>1 DEF Machine
<1>3. Machine(q, P, S) = Machine(q0, P, S)
  BY <1>2 DEF Machine
<1>4. QED  BY <1>1, <1>2, <1>3 DEF DocSet, P, S

\* The machine with an empty run.
LEMMA DocSetEmptied ==
    ASSUME NEW q, NEW L, q \in DocSet(q, L)
    PROVE  LET e == [q EXCEPT !.run = <<>>]
           IN  /\ e \in DocSet(e, L) /\ e.run = <<>> /\ e.parts = q.parts /\ e.segments = q.segments
               /\ e.stack = q.stack /\ e.context = q.context /\ e.skip = q.skip
               /\ q.run = <<>> => q = e
<1> DEFINE P == Seq(AnyPart)
           S == Seq(Segment(L))
           e == [q EXCEPT !.run = <<>>]
<1>1. q \in Machine(q, P, S) /\ IsDoc(q.parts, q.segments, L)
  BY DEF DocSet
<1> HIDE DEF P, S
<1>2. /\ e.run = <<>> /\ e.parts = q.parts /\ e.segments = q.segments
      /\ e.stack = q.stack /\ e.context = q.context /\ e.skip = q.skip
      /\ e.root_lang = q.root_lang /\ e.top_level = q.top_level /\ e.unterminated = q.unterminated
  BY <1>1 DEF Machine
<1>3. e \in Machine(e, P, S)
  BY <1>1 DEF Machine
<1>4. q.run = <<>> => q = e
  BY <1>1 DEF Machine
<1> HIDE DEF e
<1>5. e \in DocSet(e, L)
  BY <1>1, <1>2, <1>3 DEF DocSet, P, S
<1>6. QED  BY <1>2, <1>4, <1>5 DEF e

\* A document with more text outside of its segments ...
WithText(q, raws) == [q EXCEPT !.parts = q.parts \o Unchanged(raws)]

\* ... is a document, and the text is added to what it has.
LEMMA DocSetText ==
    ASSUME NEW q0, NEW L, NEW q \in DocSet(q0, L), NEW raws \in Seq(Text)
    PROVE  WithText(q, raws) \in DocSet(q0, L) /\ Out(WithText(q, raws)) = Out(q) \o FlattenSeq(raws)
<1> DEFINE parts == q.parts
           segments == q.segments
           new == Unchanged(raws)
           x == parts \o new
           r == [q EXCEPT !.parts = x]
<1>1. IsDoc(parts, segments, L) /\ Len(segments) \in Nat
  BY DEF DocSet, IsDoc
<1>2. IsMore(new, segments) /\ OutOf(new, segments) = FlattenSeq(raws)
  BY <1>1, UnchangedText DEF IsMore
<1>3. IsDoc(x, segments, L) /\ OutOf(x, segments) = OutOf(parts, segments) \o OutOf(new, segments)
  <2> HIDE DEF parts, segments, new
  <2>1. IsDoc(parts, segments, L)
    BY <1>1
  <2>2. IsMore(new, segments)
    BY <1>2
  <2>3. QED  BY <2>1, <2>2, DocMore
<1> HIDE DEF x
<1>4. r \in DocSet(q0, L) /\ r.parts = x /\ r.segments = segments
  <2>1. IsDoc(x, q.segments, L)
    BY <1>3
  <2>2. QED  BY <2>1, DocSetParts
<1>5. r = WithText(q, raws)
  BY DEF WithText, x
<1> HIDE DEF r
<1>6. Out(r) = Out(q) \o FlattenSeq(raws)
  BY <1>2, <1>3, <1>4 DEF Out
<1>7. QED  BY <1>4, <1>5, <1>6

\* What a document says is a text.
LEMMA OutText == \A q0, L : \A q \in DocSet(q0, L) : Out(q) \in Text
<1> SUFFICES ASSUME NEW q0, NEW L, NEW q \in DocSet(q0, L)
             PROVE  Out(q) \in Text
  OBVIOUS
<1>1. IsDoc(q.parts, q.segments, L)
  BY DEF DocSet
<1>2. QED  BY <1>1, DocText DEF Out

\* _flush moves the text of the run to the document.
LEMMA FlushText ==
    ASSUME NEW q, NEW L, q.context \in L, q \in DocSet(q, L), q.run \in TokenList
    PROVE  /\ _flush(q) \in DocSet([q EXCEPT !.run = <<>>], L)
           /\ Out(_flush(q)) = Out(q) \o Raw(q.run)
<1> DEFINE run == q.run
           n == Len(run)
           q1 == [q EXCEPT !.run = <<>>]
<1>1. q1 \in DocSet(q1, L) /\ Out(q1) = Out(q) /\ q1.context \in L /\ (run = <<>> => q = q1) /\ q1.parts = q.parts
  BY DocSetEmptied DEF Out
<1>2. Out(q) \in Text
  BY OutText
<1>3. CASE run = <<>>
  <2>1. _flush(q) = q
    BY <1>3 DEF _flush
  <2>2. Raw(run) = <<>>
    BY <1>3, NoTokens
  <2>3. Out(q) = Out(q) \o Raw(run)
    BY <1>2, <2>2, TextEmpty
  <2> HIDE DEF q1
  <2>4. QED  BY <1>1, <1>3, <2>1, <2>3 DEF q1
<1>4. CASE run # <<>>
  <2> DEFINE matched == UNION {{pair[1], pair[2]} : pair \in matched_tag_pairs(run)}
             Edge(i) == run[i].kind = "tag" /\ i \notin matched
             inside  == {i \in DOMAIN run : ~Edge(i)}
             start   == IF inside = {} THEN Len(run) + 1 ELSE CHOOSE i \in inside : \A j \in inside : i <= j
             end     == IF inside = {} THEN Len(run) ELSE CHOOSE i \in inside : \A j \in inside : i >= j
             A == RawsFrom(run, 1, start - 1)
             C == RawsFrom(run, end + 1, Len(run))
             middle == SubSeq(run, start, end)
             before == WithText(q1, A)
             emitted == IF start > end THEN before ELSE EmitAll(before, _chunks(middle))
             after == WithText(emitted, C)
             x == Raw(SubSeq(run, 1, start - 1))
             y == Raw(middle)
             z == Raw(SubSeq(run, end + 1, Len(run)))
  <2>1. _flush(q) = after
    BY <1>4 DEF _flush, RawsFrom, WithText
  <2>2. n \in Nat /\ n # 0 /\ inside \subseteq 1 .. n /\ run \in Seq(Token)
    BY <1>4 DEF TokenList
  <2> HIDE DEF inside
  <2>3. \/ inside = {} /\ start = n + 1 /\ end = n
        \/ start \in 1 .. n /\ end \in start .. n
    <3>1. CASE inside = {}
      BY <3>1
    <3>2. CASE inside # {}
      <4>1. inside \subseteq Nat /\ inside \subseteq 0 .. n
        BY <2>2
      <4>2. \E i \in inside : \A j \in inside : i <= j
        BY <3>2, <4>1, LeastNumber
      <4>3. \E i \in inside : \A j \in inside : i >= j
        BY <2>2, <3>2, <4>1, GreatestNumber
      <4>4. start \in inside /\ end \in inside /\ \A j \in inside : start <= j
        BY <3>2, <4>2, <4>3
      <4> HIDE DEF start, end
      <4>5. start \in 1 .. n /\ end \in 1 .. n /\ start <= end
        BY <2>2, <4>4
      <4>6. QED  BY <2>2, <4>5
    <3>3. QED  BY <3>1, <3>2
  <2> HIDE DEF start, end, q1
  <2>4. start \in 1 .. (n + 1) /\ end \in Nat /\ end <= n /\ start - 1 <= end /\ 1 <= end + 1
    BY <2>2, <2>3
  <2>5. A \in Seq(Text) /\ FlattenSeq(A) = x
    <3>1. 1 \in 1 .. (Len(run) + 1) /\ start - 1 \in (1 - 1) .. Len(run)
      BY <2>2, <2>4
    <3>2. QED  BY <3>1, RawsFromText
  <2>6. C \in Seq(Text) /\ FlattenSeq(C) = z
    <3>1. end + 1 \in 1 .. (Len(run) + 1) /\ Len(run) \in ((end + 1) - 1) .. Len(run)
      BY <2>2, <2>4
    <3>2. QED  BY <3>1, RawsFromText
  <2> HIDE DEF A, C
  <2>7. before \in DocSet(q1, L) /\ Out(before) = Out(q1) \o x
    BY <1>1, <2>5, DocSetText
  <2>8. before \in DocSet(before, L) /\ DocSet(before, L) = DocSet(q1, L) /\ before.context \in L
    BY <1>1, <2>7, DocSetSelf
  <2> HIDE DEF before
  <2>9. CASE start \in 1 .. n /\ end \in start .. n
    <3>1. /\ SubSeq(run, 1, start - 1) \in TokenList /\ middle \in TokenList /\ SubSeq(run, end + 1, n) \in TokenList
          /\ Raw(run) = (x \o y) \o z
      BY <2>9, ThreeRuns
    <3>2. x \in Text /\ y \in Text /\ z \in Text
      BY <3>1, RawText DEF TokenList
    <3> HIDE DEF middle, x, z
    <3> DEFINE ch == _chunks(middle)
    <3>3. ch \in Seq(TokenList) /\ UnitText(ch) = y
      BY <3>1, ChunksText
    <3> HIDE DEF ch, y
    <3>4. EmitAll(before, ch) \in DocSet(before, L) /\ Out(EmitAll(before, ch)) = Out(before) \o UnitText(ch)
      BY <2>8, <3>3, EmitAllText
    <3>5. ~(start > end)
      BY <2>2, <2>9
    <3>6. emitted = EmitAll(before, ch)
      BY <3>5 DEF ch
    <3>7. emitted \in DocSet(q1, L) /\ Out(emitted) = Out(before) \o y
      BY <2>8, <3>3, <3>4, <3>6
    <3> HIDE DEF emitted
    <3>8. after \in DocSet(q1, L) /\ Out(after) = Out(emitted) \o z
      BY <2>6, <3>7, DocSetText
    <3> HIDE DEF after
    <3>9. Out(after) = Out(q) \o Raw(run)
      <4> DEFINE o == Out(q)
      <4>1. o \in Text
        BY <1>2
      <4>2. Out(after) = ((o \o x) \o y) \o z
        BY <1>1, <2>7, <3>7, <3>8
      <4> HIDE DEF o
      <4>3. (o \o x) \o y = o \o (x \o y) /\ x \o y \in Text
        BY <3>2, <4>1, TextAssoc, TextConcat
      <4> DEFINE xy == x \o y
      <4>4. xy \in Text
        BY <4>3
      <4> HIDE DEF xy
      <4>5. (o \o xy) \o z = o \o (xy \o z)
        BY <3>2, <4>1, <4>4, TextAssoc
      <4>6. ((o \o x) \o y) \o z = o \o ((x \o y) \o z)
        BY <4>3, <4>5 DEF xy
      <4>7. QED  BY <3>1, <4>2, <4>6 DEF o
    <3>10. QED  BY <2>1, <3>8, <3>9 DEF q1
  <2>10. CASE inside = {} /\ start = n + 1 /\ end = n
    <3>1. start > end /\ emitted = before
      BY <2>2, <2>10
    <3>2. x = Raw(run) /\ z = <<>>
      <4>1. SubSeq(run, 1, n) = run /\ SubSeq(run, n + 1, n) = <<>>
        BY <2>2, SubSeqFull
      <4>2. start - 1 = n /\ end + 1 = n + 1
        BY <2>2, <2>10
      <4>3. QED  BY <4>1, <4>2, NoTokens
    <3> HIDE DEF emitted, x, z
    <3>3. after \in DocSet(q1, L) /\ Out(after) = Out(emitted) \o z
      BY <2>6, <2>7, <3>1, DocSetText
    <3> HIDE DEF after
    <3> DEFINE o == Out(q)
               w == Raw(run)
    <3>4. o \in Text /\ w \in Text
      BY <1>2, RawText DEF TokenList
    <3>5. Out(after) = (o \o w) \o <<>>
      BY <1>1, <2>7, <3>1, <3>2, <3>3
    <3> HIDE DEF o, w
    <3>6. (o \o w) \o <<>> = o \o w
      BY <3>4, TextConcat, TextEmpty
    <3>7. QED  BY <2>1, <3>3, <3>5, <3>6 DEF o, w, q1
  <2>11. QED  BY <2>3, <2>9, <2>10
<1>5. QED  BY <1>3, <1>4

(*******************************************************************************)
(* The machine and what it has read so far (Reads).                            *)
(*******************************************************************************)
\* The fields of _Segmenter and of its skip, whatever is in them.
IsMachine(q) ==
    q = [parts |-> q.parts, segments |-> q.segments, stack |-> q.stack, run |-> q.run, context |-> q.context,
         skip |-> q.skip, root_lang |-> q.root_lang, top_level |-> q.top_level, unterminated |-> q.unterminated]
IsSkip(s) ==
    s = [on |-> s.on, name |-> s.name, to_run |-> s.to_run, buffer |-> s.buffer, depth |-> s.depth,
         inner |-> s.inner, closers |-> s.closers]

\* What has been read: it is in the document, then in the run, then in the buffer of a
\* protected element; and a protected block has no run before it.
Whole(q) == (Out(q) \o Raw(q.run)) \o q.skip.buffer
Good(q) ==
    /\ IsMachine(q) /\ IsSkip(q.skip)
    /\ \E L : q.context \in L /\ IsDoc(q.parts, q.segments, L)
    /\ q.run \in TokenList /\ q.skip.buffer \in Text
    /\ ~q.skip.on => q.skip.buffer = <<>>
    /\ q.skip.on /\ ~q.skip.to_run => q.run = <<>>
Reads(q, w) == Good(q) /\ Whole(q) = w

\* A document in its machine.
LEMMA MachineDoc ==
    ASSUME NEW q, NEW L
    PROVE  /\ IsMachine(q) /\ IsDoc(q.parts, q.segments, L) => q \in DocSet(q, L)
           /\ q \in DocSet(q, L) => IsMachine(q) /\ IsDoc(q.parts, q.segments, L)
<1> DEFINE P == Seq(AnyPart)
           S == Seq(Segment(L))
<1>1. IsDoc(q.parts, q.segments, L) => q.parts \in P /\ q.segments \in S
  <2> SUFFICES ASSUME IsDoc(q.parts, q.segments, L)
               PROVE  q.parts \in P /\ q.segments \in S
    OBVIOUS
  <2>1. q.segments \in Seq(Segment(L)) /\ q.parts \in Seq(PartSet(Len(q.segments))) /\ Len(q.segments) \in Nat
    BY DEF IsDoc
  <2>2. QED  BY <2>1, AnyParts
<1> HIDE DEF P, S
<1>2. IsMachine(q) /\ q.parts \in P /\ q.segments \in S => q \in Machine(q, P, S)
  BY DEF IsMachine, Machine
<1>3. q \in Machine(q, P, S) => IsMachine(q)
  BY DEF IsMachine, Machine
<1>4. QED  BY <1>1, <1>2, <1>3 DEF DocSet, P, S

\* The language of the segments may be any.
LEMMA DocAnyLanguage ==
    ASSUME NEW parts, NEW segments, NEW L, IsDoc(parts, segments, L), NEW c
    PROVE  \E M : c \in M /\ IsDoc(parts, segments, M)
<1> DEFINE M == L \cup {c}
<1>1. Segment(L) \subseteq Segment(M)
  BY DEF Segment
<1>2. segments \in Seq(Segment(L)) /\ parts \in Seq(PartSet(Len(segments)))
  BY DEF IsDoc
<1>3. segments \in Seq(Segment(M))
  <2> HIDE DEF M, Segment
  <2>1. QED  BY <1>1, <1>2
<1>4. IsDoc(parts, segments, M)
  BY <1>2, <1>3 DEF IsDoc
<1>5. QED  BY <1>4

\* What has been read is a text.
LEMMA WholeText == \A q : Good(q) => Whole(q) \in Text /\ Out(q) \in Text /\ Raw(q.run) \in Text
<1> SUFFICES ASSUME NEW q, Good(q)
             PROVE  Whole(q) \in Text /\ Out(q) \in Text /\ Raw(q.run) \in Text
  OBVIOUS
<1>1. PICK L : IsDoc(q.parts, q.segments, L)
  BY DEF Good
<1>2. Out(q) \in Text
  BY <1>1, DocText DEF Out
<1>3. Raw(q.run) \in Text /\ q.skip.buffer \in Text
  BY RawText DEF Good, TokenList
<1>4. Whole(q) \in Text
  BY <1>2, <1>3, TextConcat DEF Whole
<1>5. QED  BY <1>2, <1>3, <1>4

\* Outside of a protected element the buffer is empty.
LEMMA WholeOutside ==
    ASSUME NEW q, Good(q), ~q.skip.on
    PROVE  Whole(q) = Out(q) \o Raw(q.run)
<1>1. q.skip.buffer = <<>>
  BY DEF Good
<1>2. Out(q) \o Raw(q.run) \in Text
  BY WholeText, TextConcat
<1>3. QED  BY <1>1, <1>2, TextEmpty DEF Whole

\* Fields that have no text in them.
LEMMA OtherFields ==
    ASSUME NEW q, NEW w, Reads(q, w), NEW r, IsMachine(r), r.parts = q.parts, r.segments = q.segments,
           r.run = q.run, r.context = q.context, r.skip = q.skip
    PROVE  Reads(r, w)
BY DEF Reads, Good, Whole, Out

\* The skip with another buffer, depth or list of inner tags.
WithBuffer(s, c) == [s EXCEPT !.buffer = c]
WithDepth(s, c) == [s EXCEPT !.depth = c]
WithInner(s, c) == [s EXCEPT !.inner = c]

\* Only the first of them changes its text.
LEMMA SkipUpdates ==
    ASSUME NEW s, IsSkip(s), NEW c
    PROVE  /\ IsSkip(WithBuffer(s, c)) /\ WithBuffer(s, c).buffer = c
           /\ (WithBuffer(s, c).on <=> s.on) /\ (WithBuffer(s, c).to_run <=> s.to_run)
           /\ IsSkip(WithDepth(s, c)) /\ WithDepth(s, c).buffer = s.buffer
           /\ (WithDepth(s, c).on <=> s.on) /\ (WithDepth(s, c).to_run <=> s.to_run)
           /\ IsSkip(WithInner(s, c)) /\ WithInner(s, c).buffer = s.buffer
           /\ (WithInner(s, c).on <=> s.on) /\ (WithInner(s, c).to_run <=> s.to_run)
<1>1. /\ IsSkip(WithBuffer(s, c)) /\ WithBuffer(s, c).buffer = c
      /\ (WithBuffer(s, c).on <=> s.on) /\ (WithBuffer(s, c).to_run <=> s.to_run)
  BY DEF IsSkip, WithBuffer
<1>2. /\ IsSkip(WithDepth(s, c)) /\ WithDepth(s, c).buffer = s.buffer
      /\ (WithDepth(s, c).on <=> s.on) /\ (WithDepth(s, c).to_run <=> s.to_run)
  BY DEF IsSkip, WithDepth
<1>3. /\ IsSkip(WithInner(s, c)) /\ WithInner(s, c).buffer = s.buffer
      /\ (WithInner(s, c).on <=> s.on) /\ (WithInner(s, c).to_run <=> s.to_run)
  BY DEF IsSkip, WithInner
<1>4. QED  BY <1>1, <1>2, <1>3

\* More text in the buffer.
LEMMA BufferedReads ==
    ASSUME NEW q, NEW w, Reads(q, w), q.skip.on, NEW raw \in Text
    PROVE  LET r == Buffered(q, raw)
           IN  /\ Reads(r, w \o raw) /\ r.skip.on /\ (r.skip.to_run <=> q.skip.to_run)
               /\ r.stack = q.stack /\ r.run = q.run
<1> DEFINE r == Buffered(q, raw)
           a == Out(q) \o Raw(q.run)
           b == q.skip.buffer
           c == b \o raw
<1>1. IsMachine(q) /\ IsSkip(q.skip) /\ b \in Text
  BY DEF Reads, Good
<1>2. a \in Text /\ c \in Text
  BY <1>1, WholeText, TextConcat DEF Reads
<1>3. a \o (b \o raw) = (a \o b) \o raw
  <2> HIDE DEF a, b
  <2>1. QED  BY <1>1, <1>2, TextAssoc
<1> DEFINE s == WithBuffer(q.skip, c)
<1>4. r = [q EXCEPT !.skip = s]
  BY <1>1 DEF Buffered, WithBuffer
<1> HIDE DEF c, r
<1>5. IsSkip(s) /\ s.buffer = c /\ (s.on <=> q.skip.on) /\ (s.to_run <=> q.skip.to_run)
  BY <1>1, SkipUpdates
<1> HIDE DEF s
<1>6. /\ IsMachine(r) /\ r.skip = s /\ r.parts = q.parts /\ r.segments = q.segments /\ r.run = q.run
      /\ r.context = q.context /\ r.stack = q.stack
  BY <1>1, <1>4 DEF IsMachine, s
<1>7. Good(r)
  BY <1>2, <1>5, <1>6 DEF Reads, Good
<1>8. Whole(r) = a \o c
  BY <1>5, <1>6 DEF Whole, Out
<1>9. Whole(r) = w \o raw
  BY <1>3, <1>8 DEF Reads, Whole, c
<1>10. QED  BY <1>5, <1>6, <1>7, <1>9 DEF Reads, r

\* One more token in the run.
LEMMA AppendReads ==
    ASSUME NEW q, NEW w, Reads(q, w), ~q.skip.on, NEW t \in Token
    PROVE  LET r == _append(q, t)
           IN  Reads(r, w \o t.raw) /\ r.skip = q.skip /\ r.stack = q.stack
<1> DEFINE r == _append(q, t)
           c == IF q.run = <<>> THEN _context(q) ELSE q.context
           u == Append(q.run, t)
<1>1. IsMachine(q) /\ q.run \in TokenList
  BY DEF Reads, Good
<1>2. r = [q EXCEPT !.context = c, !.run = u]
  BY <1>1 DEF _append
<1>3. u \in TokenList /\ Raw(u) = Raw(q.run) \o t.raw
  BY <1>1, RawMore DEF TokenList
<1> HIDE DEF c, u, r
<1>4. /\ IsMachine(r) /\ r.skip = q.skip /\ r.parts = q.parts /\ r.segments = q.segments /\ r.run = u
      /\ r.context = c /\ r.stack = q.stack
  BY <1>1, <1>2 DEF IsMachine
<1>5. \E M : c \in M /\ IsDoc(q.parts, q.segments, M)
  <2>1. PICK L : IsDoc(q.parts, q.segments, L)
    BY DEF Reads, Good
  <2>2. QED  BY <2>1, DocAnyLanguage
<1>6. Good(r)
  BY <1>3, <1>4, <1>5 DEF Reads, Good
<1>7. Whole(r) = Out(r) \o Raw(r.run) /\ Whole(q) = Out(q) \o Raw(q.run)
  BY <1>4, <1>6, WholeOutside DEF Reads
<1> DEFINE o == Out(q)
           x == Raw(q.run)
           y == t.raw
<1>8. o \in Text /\ x \in Text /\ y \in Text
  BY WholeText, TokenRaw DEF Reads
<1>9. Out(r) = o
  BY <1>4 DEF Out
<1> HIDE DEF o, x, y
<1>10. o \o (x \o y) = (o \o x) \o y
  BY <1>8, TextAssoc
<1>11. Whole(r) = w \o y
  BY <1>3, <1>4, <1>7, <1>9, <1>10 DEF Reads, o, x, y
<1>12. QED  BY <1>4, <1>6, <1>11 DEF Reads, r, y

\* Text outside of the segments.
LEMMA PartReads ==
    ASSUME NEW q, NEW w, Reads(q, w), ~q.skip.on, q.run = <<>>, NEW raw \in Text
    PROVE  LET r == Part(q, raw)
           IN  Reads(r, w \o raw) /\ r.run = <<>> /\ r.skip = q.skip /\ r.stack = q.stack
<1> DEFINE r == Part(q, raw)
           parts == q.parts
           segments == q.segments
           one == << [slot |-> 0, raw |-> raw] >>
           x == parts \o one
<1>1. IsMachine(q)
  BY DEF Reads, Good
<1>2. PICK L : q.context \in L /\ IsDoc(parts, segments, L)
  BY DEF Reads, Good
<1>3. Len(segments) \in Nat
  BY <1>2 DEF IsDoc
<1>4. IsMore(one, segments) /\ OutOf(one, segments) = raw
  BY <1>3, OnePart DEF IsMore
<1>5. r = [q EXCEPT !.parts = x]
  <2> DEFINE y == [slot |-> 0, raw |-> raw]
  <2>1. PICK n : parts \in Seq(PartSet(n))
    BY <1>2 DEF IsDoc
  <2> HIDE DEF y
  <2>2. Append(parts, y) = parts \o <<y>>
    <3>1. parts \in Seq(PartSet(n) \cup {y})
      BY <2>1
    <3> HIDE DEF parts
    <3>2. QED  BY <3>1, AppendIsConcat
  <2>3. QED  BY <1>1, <2>2 DEF Part, y
<1>6. IsDoc(x, segments, L) /\ OutOf(x, segments) = OutOf(parts, segments) \o OutOf(one, segments)
  <2> HIDE DEF parts, segments, one
  <2>1. IsDoc(parts, segments, L)
    BY <1>2
  <2>2. IsMore(one, segments)
    BY <1>4
  <2>3. QED  BY <2>1, <2>2, DocMore
<1> HIDE DEF x, r
<1>7. /\ IsMachine(r) /\ r.skip = q.skip /\ r.parts = x /\ r.segments = segments /\ r.run = q.run
      /\ r.context = q.context /\ r.stack = q.stack
  BY <1>1, <1>5 DEF IsMachine
<1>8. Good(r)
  BY <1>2, <1>6, <1>7 DEF Reads, Good
<1>9. Whole(r) = Out(r) \o Raw(r.run) /\ Whole(q) = Out(q) \o Raw(q.run)
  BY <1>7, <1>8, WholeOutside DEF Reads
<1>10. Raw(r.run) = <<>> /\ Raw(q.run) = <<>>
  BY <1>7, NoTokens
<1>11. Out(r) \in Text /\ Out(q) \in Text
  BY <1>8, WholeText DEF Reads
<1>12. Whole(r) = Out(r) /\ Whole(q) = Out(q)
  BY <1>9, <1>10, <1>11, TextEmpty
<1>13. Out(r) = Out(q) \o raw
  BY <1>4, <1>6, <1>7 DEF Out
<1>14. QED  BY <1>7, <1>8, <1>12, <1>13 DEF Reads, r

\* _flush keeps what has been read.
LEMMA FlushReads ==
    ASSUME NEW q, NEW w, Reads(q, w), ~q.skip.on
    PROVE  LET r == _flush(q)
           IN  Reads(r, w) /\ r.run = <<>> /\ r.skip = q.skip /\ r.stack = q.stack
<1> DEFINE r == _flush(q)
           e == [q EXCEPT !.run = <<>>]
<1>1. IsMachine(q) /\ q.run \in TokenList
  BY DEF Reads, Good
<1>2. PICK L : q.context \in L /\ IsDoc(q.parts, q.segments, L)
  BY DEF Reads, Good
<1>3. q \in DocSet(q, L)
  BY <1>1, <1>2, MachineDoc
<1>4. r \in DocSet(e, L) /\ Out(r) = Out(q) \o Raw(q.run)
  BY <1>1, <1>2, <1>3, FlushText
<1>5. e.run = <<>> /\ e.stack = q.stack /\ e.context = q.context /\ e.skip = q.skip
  BY <1>3, DocSetEmptied
<1> HIDE DEF e, r
<1>6. r \in DocSet(r, L)
  BY <1>4, DocSetSelf
<1>7. IsMachine(r) /\ IsDoc(r.parts, r.segments, L)
  BY <1>6, MachineDoc
<1>8. r.run = <<>> /\ r.stack = q.stack /\ r.context = q.context /\ r.skip = q.skip
  BY <1>4, <1>5 DEF DocSet, Machine
<1>9. r.run \in TokenList /\ Raw(r.run) = <<>>
  BY <1>8, NoTokens
<1>10. Good(r)
  BY <1>2, <1>7, <1>8, <1>9 DEF Reads, Good
<1>11. Whole(r) = Out(r) \o Raw(r.run) /\ Whole(q) = Out(q) \o Raw(q.run)
  BY <1>8, <1>10, WholeOutside DEF Reads
<1>12. Whole(r) = Out(r)
  BY <1>9, <1>10, <1>11, WholeText, TextEmpty
<1>13. QED  BY <1>4, <1>8, <1>10, <1>11, <1>12 DEF Reads, r

(*******************************************************************************)
(* Text, comments and protected elements.                                      *)
(*******************************************************************************)
\* A token of any kind.
LEMMA TokAny ==
    ASSUME NEW kind \in {"text", "tag", "protected"}, NEW raw \in Text, NEW name \in TagNames, NEW closing \in BOOLEAN
    PROVE  Tok(kind, raw, name, closing) \in Token /\ Tok(kind, raw, name, closing).raw = raw
BY DEF Tok, Token

\* A protected block in the run.
LEMMA TokProtected == \A raw \in Text : Tok("protected", raw, "", FALSE) \in Token /\ Tok("protected", raw, "", FALSE).raw = raw
<1> SUFFICES ASSUME NEW raw \in Text
             PROVE  Tok("protected", raw, "", FALSE) \in Token /\ Tok("protected", raw, "", FALSE).raw = raw
  OBVIOUS
<1>1. PICK no \in BOOLEAN : no = FALSE
  BY Zenon
<1>2. PICK name \in TagNames : name = ""
  BY DEF TagNames
<1>3. Tok("protected", raw, name, no) \in Token /\ Tok("protected", raw, name, no).raw = raw
  BY TokAny
<1>4. QED  BY <1>1, <1>2, <1>3

\* An inline tag in the run.
LEMMA TokTag ==
    ASSUME NEW raw \in Text, NEW name \in TagNames
    PROVE  /\ Tok("tag", raw, name, FALSE) \in Token /\ Tok("tag", raw, name, FALSE).raw = raw
           /\ Tok("tag", raw, name, TRUE) \in Token /\ Tok("tag", raw, name, TRUE).raw = raw
<1>1. PICK no \in BOOLEAN : no = FALSE
  BY Zenon
<1>2. PICK yes \in BOOLEAN : yes = TRUE
  BY Zenon
<1>3. /\ Tok("tag", raw, name, no) \in Token /\ Tok("tag", raw, name, no).raw = raw
      /\ Tok("tag", raw, name, yes) \in Token /\ Tok("tag", raw, name, yes).raw = raw
  BY TokAny
<1>4. QED  BY <1>1, <1>2, <1>3

\* More text in the last token of the run.
LEMMA GrowLast ==
    ASSUME NEW s \in TokenList, s # <<>>, NEW raw \in Text
    PROVE  LET v == [s EXCEPT ![Len(s)].raw = s[Len(s)].raw \o raw]
           IN  v \in TokenList /\ Raw(v) = Raw(s) \o raw
<1> DEFINE n == Len(s)
           old == s[n].raw
           c == old \o raw
           v == [s EXCEPT ![n].raw = c]
           t == [s[n] EXCEPT !.raw = c]
<1>1. s \in Seq(Token) /\ n \in Nat /\ n \in 1 .. n /\ s[n] \in Token
  BY DEF TokenList
<1>2. old \in Text /\ c \in Text
  BY <1>1, TokenRaw, TextConcat
<1> HIDE DEF c
<1>3. t \in Token /\ t.raw = c
  BY <1>1, <1>2, OtherRaw
<1>4. v = [s EXCEPT ![n] = t]
  BY <1>1
<1>5. v \in Seq(Token) /\ Len(v) = n /\ v[n] = t
  <2> HIDE DEF t, v
  <2>1. QED  BY <1>1, <1>3, <1>4
<1>6. [v EXCEPT ![n].raw = old] = s
  <2>1. [t EXCEPT !.raw = old] = s[n]
    BY <1>1 DEF Token
  <2> HIDE DEF t, old
  <2>2. [v EXCEPT ![n].raw = old] = [v EXCEPT ![n] = s[n]]
    <3> HIDE DEF v
    <3>1. QED  BY <1>1, <1>5, <2>1
  <2>3. [[s EXCEPT ![n] = t] EXCEPT ![n] = s[n]] = s
    <3> DEFINE z == [[s EXCEPT ![n] = t] EXCEPT ![n] = s[n]]
    <3>1. z \in Seq(Token) /\ Len(z) = Len(s) /\ \A i \in 1 .. Len(s) : z[i] = s[i]
      BY <1>1, <1>3
    <3> HIDE DEF z
    <3>2. z = s
      BY <1>1, <3>1, SeqEqual
    <3>3. QED  BY <3>2 DEF z
  <2>4. QED  BY <1>4, <2>2, <2>3
<1> HIDE DEF v
<1>7. v \in TokenList /\ v # <<>>
  BY <1>1, <1>5 DEF TokenList
<1>8. old \o raw = v[Len(v)].raw
  BY <1>3, <1>5 DEF c
<1>9. Raw(v) = Raw([v EXCEPT ![Len(v)].raw = old]) \o raw
  <2> HIDE DEF old
  <2>1. QED  BY <1>2, <1>7, <1>8, CutLast
<1>10. Raw(v) = Raw(s) \o raw
  BY <1>5, <1>6, <1>9
<1>11. QED  BY <1>7, <1>10 DEF v, c

\* _text: the text is added to the last token, or is a token.
LEMMA TextReads ==
    ASSUME NEW q, NEW w, Reads(q, w), NEW raw \in Text
    PROVE  Reads(_text(q, raw), w \o raw)
<1>1. CASE q.skip.on
  <2>1. _text(q, raw) = Buffered(q, raw)
    BY <1>1 DEF _text
  <2>2. QED  BY <1>1, <2>1, BufferedReads
<1>2. CASE ~q.skip.on /\ q.run # <<>> /\ Last(q.run).kind = "text"
  <2> DEFINE run == q.run
             v == [run EXCEPT ![Len(run)].raw = run[Len(run)].raw \o raw]
             r == [q EXCEPT !.run = v]
  <2>1. IsMachine(q) /\ run \in TokenList
    BY DEF Reads, Good
  <2>2. _text(q, raw) = r
    BY <1>2, <2>1 DEF _text, IsMachine
  <2>3. v \in TokenList /\ Raw(v) = Raw(run) \o raw
    BY <1>2, <2>1, GrowLast
  <2> HIDE DEF v
  <2>4. /\ IsMachine(r) /\ r.skip = q.skip /\ r.parts = q.parts /\ r.segments = q.segments /\ r.run = v
        /\ r.context = q.context
    BY <2>1 DEF IsMachine
  <2> HIDE DEF r
  <2>5. Good(r)
    BY <1>2, <2>3, <2>4 DEF Reads, Good
  <2>6. Whole(r) = Out(r) \o Raw(v) /\ Whole(q) = Out(q) \o Raw(run)
    BY <1>2, <2>4, <2>5, WholeOutside DEF Reads
  <2> DEFINE o == Out(q)
             x == Raw(run)
  <2>7. o \in Text /\ x \in Text
    BY WholeText DEF Reads
  <2>8. Out(r) = o
    BY <2>4 DEF Out
  <2> HIDE DEF o, x
  <2>9. o \o (x \o raw) = (o \o x) \o raw
    BY <2>7, TextAssoc
  <2>10. Whole(r) = w \o raw
    BY <2>3, <2>6, <2>8, <2>9 DEF Reads, o, x
  <2>11. QED  BY <2>2, <2>5, <2>10 DEF Reads
<1>3. CASE ~q.skip.on /\ ~(q.run # <<>> /\ Last(q.run).kind = "text")
  <2> DEFINE t == Tok("text", raw, "", FALSE)
  <2>1. t \in Token /\ t.raw = raw
    BY TokText
  <2>2. _text(q, raw) = _append(q, t)
    BY <1>3 DEF _text
  <2> HIDE DEF t
  <2>3. QED  BY <1>3, <2>1, <2>2, AppendReads
<1>4. QED  BY <1>1, <1>2, <1>3

\* _opaque: a comment or an empty protected element.
LEMMA OpaqueReads ==
    ASSUME NEW q, NEW w, Reads(q, w), NEW raw \in Text
    PROVE  Reads(_opaque(q, raw), w \o raw)
<1>1. CASE q.skip.on
  <2>1. _opaque(q, raw) = Buffered(q, raw)
    BY <1>1 DEF _opaque
  <2>2. QED  BY <1>1, <2>1, BufferedReads
<1>2. CASE ~q.skip.on /\ q.run # <<>>
  <2> DEFINE t == Tok("protected", raw, "", FALSE)
  <2>1. t \in Token /\ t.raw = raw
    BY TokProtected
  <2>2. _opaque(q, raw) = _append(q, t)
    BY <1>2 DEF _opaque
  <2> HIDE DEF t
  <2>3. QED  BY <1>2, <2>1, <2>2, AppendReads
<1>3. CASE ~q.skip.on /\ q.run = <<>>
  <2>1. _opaque(q, raw) = Part(q, raw)
    BY <1>3 DEF _opaque
  <2>2. QED  BY <1>3, <2>1, PartReads
<1>4. QED  BY <1>1, <1>2, <1>3

\* A protected element begins.
LEMMA OpenReads ==
    ASSUME NEW q, NEW w, Reads(q, w), ~q.skip.on, NEW s, IsSkip(s), s.on, s.buffer \in Text, s.to_run \/ q.run = <<>>
    PROVE  Reads([q EXCEPT !.skip = s], w \o s.buffer)
<1> DEFINE r == [q EXCEPT !.skip = s]
<1>1. IsMachine(q)
  BY DEF Reads, Good
<1>2. /\ IsMachine(r) /\ r.skip = s /\ r.parts = q.parts /\ r.segments = q.segments /\ r.run = q.run
      /\ r.context = q.context
  BY <1>1 DEF IsMachine
<1> HIDE DEF r
<1>3. Good(r)
  BY <1>2 DEF Reads, Good
<1>4. Whole(q) = Out(q) \o Raw(q.run)
  BY WholeOutside DEF Reads
<1>5. Whole(r) = w \o s.buffer
  BY <1>2, <1>4 DEF Whole, Out, Reads
<1>6. QED  BY <1>3, <1>5 DEF Reads, r

\* Depth and inner tags have no text in them.
LEMMA SkipReads ==
    ASSUME NEW q, NEW w, Reads(q, w), NEW s, IsSkip(s), s.buffer = q.skip.buffer,
           s.on <=> q.skip.on, s.to_run <=> q.skip.to_run
    PROVE  Reads([q EXCEPT !.skip = s], w) /\ [q EXCEPT !.skip = s].skip = s
<1> DEFINE r == [q EXCEPT !.skip = s]
<1>1. IsMachine(q)
  BY DEF Reads, Good
<1>2. /\ IsMachine(r) /\ r.skip = s /\ r.parts = q.parts /\ r.segments = q.segments /\ r.run = q.run
      /\ r.context = q.context
  BY <1>1 DEF IsMachine
<1> HIDE DEF r
<1>3. Good(r)
  BY <1>2 DEF Reads, Good
<1>4. Whole(r) = w
  BY <1>2 DEF Whole, Out, Reads
<1>5. QED  BY <1>2, <1>3, <1>4 DEF Reads, r

\* _end_skip: the buffer becomes a token of the run, or a part.
LEMMA EndSkipReads ==
    ASSUME NEW q, NEW w, Reads(q, w), q.skip.on
    PROVE  Reads(_end_skip(q), w) /\ ~_end_skip(q).skip.on
<1> DEFINE s == q.skip
           b == s.buffer
           r == [q EXCEPT !.skip = NoSkip]
           o == Out(q) \o Raw(q.run)
<1>1. IsMachine(q) /\ b \in Text /\ o \in Text
  BY WholeText, TextConcat DEF Reads, Good
<1>2. /\ IsMachine(r) /\ r.skip = NoSkip /\ r.parts = q.parts /\ r.segments = q.segments /\ r.run = q.run
      /\ r.context = q.context
  BY <1>1 DEF IsMachine
<1>3. IsSkip(NoSkip) /\ NoSkip.buffer = <<>> /\ ~NoSkip.on /\ NoSkip.buffer \in Text
  BY TextEmpty DEF IsSkip, NoSkip
<1>4. _end_skip(q) = IF s.to_run THEN _append(r, Tok("protected", b, "", FALSE)) ELSE Part(r, b)
  BY DEF _end_skip
<1> HIDE DEF r
<1>5. Good(r)
  BY <1>2, <1>3 DEF Reads, Good
<1>6. Whole(r) = o
  <2>1. Whole(r) = Out(r) \o Raw(r.run)
    BY <1>2, <1>3, <1>5, WholeOutside
  <2>2. QED  BY <1>2, <2>1 DEF Out
<1>7. Reads(r, o) /\ ~r.skip.on /\ w = o \o b
  BY <1>2, <1>3, <1>5, <1>6 DEF Reads, Whole
<1> HIDE DEF o, b
<1>8. CASE s.to_run
  <2> DEFINE t == Tok("protected", b, "", FALSE)
  <2>1. t \in Token /\ t.raw = b
    BY <1>1, TokProtected
  <2>2. _end_skip(q) = _append(r, t)
    BY <1>4, <1>8
  <2> HIDE DEF t
  <2>3. Reads(_append(r, t), o \o b) /\ _append(r, t).skip = r.skip
    BY <1>7, <2>1, AppendReads
  <2>4. QED  BY <1>7, <2>2, <2>3
<1>9. CASE ~s.to_run
  <2>1. r.run = <<>>
    BY <1>2, <1>9 DEF Reads, Good
  <2>2. Reads(Part(r, b), o \o b) /\ Part(r, b).skip = r.skip
    BY <1>1, <1>7, <2>1, PartReads
  <2>3. _end_skip(q) = Part(r, b)
    BY <1>4, <1>9
  <2>4. QED  BY <1>7, <2>2, <2>3
<1>10. QED  BY <1>8, <1>9

(*******************************************************************************)
(* Start and end tags outside of a protected element.                          *)
(*******************************************************************************)
\* Another block stack.
LEMMA StackReads ==
    ASSUME NEW q, NEW w, Reads(q, w), NEW x
    PROVE  Reads([q EXCEPT !.stack = x], w) /\ [q EXCEPT !.stack = x].skip = q.skip
<1> DEFINE r == [q EXCEPT !.stack = x]
<1>1. IsMachine(q)
  BY DEF Reads, Good
<1>2. /\ IsMachine(r) /\ r.skip = q.skip /\ r.parts = q.parts /\ r.segments = q.segments /\ r.run = q.run
      /\ r.context = q.context
  BY <1>1 DEF IsMachine
<1> HIDE DEF r
<1>3. Reads(r, w)
  BY <1>2, OtherFields
<1>4. QED  BY <1>2, <1>3 DEF r

\* Rooted only counts.
LEMMA RootedReads ==
    ASSUME NEW q, NEW w, Reads(q, w), NEW lang
    PROVE  Reads(Rooted(q, lang), w) /\ Rooted(q, lang).skip = q.skip
<1>1. CASE q.stack # <<>>
  BY <1>1 DEF Rooted
<1>2. CASE q.stack = <<>>
  <2> DEFINE m == q.top_level + 1
             l == IF q.top_level = 0 THEN lang ELSE "none"
             s == [q EXCEPT !.top_level = m]
             r == [s EXCEPT !.root_lang = l]
  <2>1. IsMachine(q)
    BY DEF Reads, Good
  <2>2. Rooted(q, lang) = r
    BY <1>2, <2>1 DEF Rooted
  <2> HIDE DEF m, l
  <2>3. /\ IsMachine(s) /\ s.skip = q.skip /\ s.parts = q.parts /\ s.segments = q.segments /\ s.run = q.run
        /\ s.context = q.context
    BY <2>1 DEF IsMachine
  <2> HIDE DEF s
  <2>4. /\ IsMachine(r) /\ r.skip = s.skip /\ r.parts = s.parts /\ r.segments = s.segments /\ r.run = s.run
        /\ r.context = s.context
    BY <2>3 DEF IsMachine
  <2> HIDE DEF r
  <2>5. Reads(r, w)
    BY <2>3, <2>4, OtherFields
  <2>6. QED  BY <2>2, <2>3, <2>4, <2>5
<1>3. QED  BY <1>1, <1>2

\* A block: the run ends, and the tag is a part.
LEMMA BlockReads ==
    ASSUME NEW q, NEW w, Reads(q, w), ~q.skip.on, NEW raw \in Text
    PROVE  Reads(Part(_flush(q), raw), w \o raw) /\ Part(_flush(q), raw).skip = q.skip
<1> DEFINE f == _flush(q)
<1>1. Reads(f, w) /\ f.run = <<>> /\ f.skip = q.skip
  BY FlushReads
<1> HIDE DEF f
<1>2. ~f.skip.on
  BY <1>1
<1>3. Reads(Part(f, raw), w \o raw) /\ Part(f, raw).skip = f.skip
  BY <1>1, <1>2, PartReads
<1>4. QED  BY <1>1, <1>3 DEF f

\* A start tag outside of a protected element.
LEMMA StartOutsideReads ==
    ASSUME NEW q, NEW w, Reads(q, w), ~q.skip.on, NEW raw \in Text, NEW e, e.tag \in TagNames, NEW void
    PROVE  Reads(StartOutside(q, e, raw, void), w \o raw)
<1> DEFINE tag == e.tag
           inline == tag \in INLINE_TAGS \cup PROTECTED_INLINE_TAGS
           protect == tag \in SKIPPED_TAGS \cup PROTECTED_INLINE_TAGS \/ e.no
           opened == [on |-> TRUE, name |-> tag, to_run |-> inline, buffer |-> raw,
                      depth |-> 1, inner |-> <<>>, closers |-> OpenAncestors(q)]
           closed == [opened EXCEPT !.closers = Ancestors(q.stack)]
           r == StartOutside(q, e, raw, void)
<1>1. /\ IsSkip(opened) /\ opened.on /\ opened.buffer = raw /\ (opened.to_run <=> inline)
      /\ IsSkip(closed) /\ closed.on /\ closed.buffer = raw /\ (closed.to_run <=> inline)
  <2> HIDE DEF inline, tag
  <2>1. PICK yes : yes = TRUE
    OBVIOUS
  <2>2. PICK run : run = inline
    OBVIOUS
  <2> DEFINE o == [on |-> yes, name |-> tag, to_run |-> run, buffer |-> raw,
                   depth |-> 1, inner |-> <<>>, closers |-> OpenAncestors(q)]
             c == [o EXCEPT !.closers = Ancestors(q.stack)]
  <2>3. /\ IsSkip(o) /\ o.on = yes /\ o.buffer = raw /\ o.to_run = run
        /\ IsSkip(c) /\ c.on = yes /\ c.buffer = raw /\ c.to_run = run
    BY DEF IsSkip
  <2>4. opened = o /\ closed = c
    BY <2>1, <2>2
  <2> HIDE DEF o, c
  <2>5. QED  BY <2>1, <2>2, <2>3, <2>4
<1>2. CASE protect /\ void /\ inline
  <2>1. r = _opaque(q, raw)
    BY <1>2 DEF StartOutside
  <2>2. QED  BY <2>1, OpaqueReads
<1>3. CASE protect /\ ~void /\ inline
  <2>1. r = [q EXCEPT !.skip = opened]
    BY <1>3 DEF StartOutside
  <2> HIDE DEF opened
  <2>2. Reads([q EXCEPT !.skip = opened], w \o opened.buffer)
    BY <1>1, <1>3, OpenReads
  <2>3. QED  BY <1>1, <2>1, <2>2
<1>4. CASE protect /\ ~void /\ ~inline
  <2> DEFINE f == _flush(q)
  <2>1. r = [f EXCEPT !.skip = closed]
    BY <1>4 DEF StartOutside
  <2>2. Reads(f, w) /\ f.run = <<>> /\ f.skip = q.skip
    BY FlushReads
  <2> HIDE DEF f, closed
  <2>3. Reads([f EXCEPT !.skip = closed], w \o closed.buffer)
    <3>1. ~f.skip.on
      BY <2>2
    <3>2. QED  BY <1>1, <2>2, <3>1, OpenReads
  <2>4. QED  BY <1>1, <2>1, <2>3
<1>5. CASE tag \in INLINE_TAGS /\ ~protect
  <2> DEFINE t == Tok("tag", raw, tag, FALSE)
  <2>1. r = _append(q, t)
    BY <1>5 DEF StartOutside
  <2>2. t \in Token /\ t.raw = raw
    BY TokTag
  <2> HIDE DEF t
  <2>3. Reads(_append(q, t), w \o t.raw)
    BY <2>2, AppendReads
  <2>4. QED  BY <2>1, <2>2, <2>3
<1>6. CASE /\ ~(protect /\ void /\ inline) /\ ~(protect /\ ~void /\ inline)
           /\ ~(protect /\ ~void /\ ~inline) /\ ~(tag \in INLINE_TAGS /\ ~protect)
  <2> DEFINE stack == Closes(WithoutP(q.stack), IMPLIED_END(tag))
             frame == [tag |-> tag, lang |-> IF e.lang = "none" THEN ContextOf(stack) ELSE e.lang]
             x == IF void THEN stack ELSE Append(stack, frame)
             b == Part(_flush(q), raw)
  <2>1. r = [b EXCEPT !.stack = x]
    <3>1. r = _block_start(q, tag, raw, e.lang, void)
      BY <1>6 DEF StartOutside
    <3>2. QED  BY <3>1 DEF _block_start
  <2>2. Reads(b, w \o raw)
    BY BlockReads
  <2> HIDE DEF b, x
  <2>3. QED  BY <2>1, <2>2, StackReads
<1>7. QED  BY <1>2, <1>3, <1>4, <1>5, <1>6

\* A start tag inside of a protected element.
LEMMA NestedReads ==
    ASSUME NEW q, NEW w, Reads(q, w), q.skip.on, NEW raw \in Text, NEW tag, NEW void
    PROVE  Reads(NestedStart(q, tag, raw, void), w \o raw)
<1> DEFINE b == Buffered(q, raw)
           s == b.skip
<1>1. Reads(b, w \o raw)
  BY BufferedReads
<1>2. IsMachine(b) /\ IsSkip(s)
  BY <1>1 DEF Reads, Good
<1> DEFINE d == WithDepth(s, s.depth + 1)
           i == WithInner(s, Append(s.inner, tag))
<1>3. \/ NestedStart(q, tag, raw, void) = b
      \/ NestedStart(q, tag, raw, void) = [b EXCEPT !.skip = d]
      \/ NestedStart(q, tag, raw, void) = [b EXCEPT !.skip = i]
  BY <1>2 DEF NestedStart, WithDepth, WithInner
<1>4. IsSkip(d) /\ d.buffer = s.buffer /\ (d.on <=> s.on) /\ (d.to_run <=> s.to_run)
  BY <1>2, SkipUpdates
<1>5. IsSkip(i) /\ i.buffer = s.buffer /\ (i.on <=> s.on) /\ (i.to_run <=> s.to_run)
  BY <1>2, SkipUpdates
<1> HIDE DEF b, d, i
<1>6. Reads([b EXCEPT !.skip = d], w \o raw)
  BY <1>1, <1>4, SkipReads
<1>7. Reads([b EXCEPT !.skip = i], w \o raw)
  BY <1>1, <1>5, SkipReads
<1>8. QED  BY <1>1, <1>3, <1>6, <1>7

\* handle_starttag and handle_startendtag.
LEMMA StartReads ==
    ASSUME NEW q, NEW w, Reads(q, w), NEW raw \in Text, NEW e, e.tag \in TagNames, NEW void
    PROVE  Reads(_start(q, e, raw, void), w \o raw)
<1>1. CASE ~q.skip.on
  <2> DEFINE r == Rooted(q, e.lang)
  <2>1. _start(q, e, raw, void) = StartOutside(r, e, raw, void)
    BY <1>1 DEF _start
  <2>2. Reads(r, w) /\ r.skip = q.skip
    BY RootedReads
  <2> HIDE DEF r
  <2>3. ~r.skip.on
    BY <1>1, <2>2
  <2>4. QED  BY <2>1, <2>2, <2>3, StartOutsideReads
<1>2. CASE q.skip.on /\ LeavesSkip(q, e.tag)
  <2> DEFINE x == _end_skip(q)
             r == Rooted(x, e.lang)
  <2>1. _start(q, e, raw, void) = StartOutside(r, e, raw, void)
    BY <1>2 DEF _start
  <2>2. Reads(x, w) /\ ~x.skip.on
    BY <1>2, EndSkipReads
  <2> HIDE DEF x
  <2>3. Reads(r, w) /\ r.skip = x.skip
    BY <2>2, RootedReads
  <2> HIDE DEF r
  <2>4. ~r.skip.on
    BY <2>2, <2>3
  <2>5. QED  BY <2>1, <2>3, <2>4, StartOutsideReads
<1>3. CASE q.skip.on /\ ~LeavesSkip(q, e.tag)
  <2>1. _start(q, e, raw, void) = NestedStart(q, e.tag, raw, void)
    BY <1>3 DEF _start
  <2>2. QED  BY <1>3, <2>1, NestedReads
<1>4. QED  BY <1>1, <1>2, <1>3

\* An end tag outside of a protected element.
LEMMA EndOutsideReads ==
    ASSUME NEW q, NEW w, Reads(q, w), ~q.skip.on, NEW raw \in Text, NEW tag \in TagNames
    PROVE  Reads(EndOutside(q, tag, raw), w \o raw)
<1>1. CASE tag \in INLINE_TAGS
  <2> DEFINE t == Tok("tag", raw, tag, TRUE)
  <2>1. EndOutside(q, tag, raw) = _append(q, t)
    BY <1>1 DEF EndOutside
  <2>2. t \in Token /\ t.raw = raw
    BY TokTag
  <2> HIDE DEF t
  <2>3. Reads(_append(q, t), w \o t.raw)
    BY <2>2, AppendReads
  <2>4. QED  BY <2>1, <2>2, <2>3
<1>2. CASE tag \notin INLINE_TAGS
  <2> DEFINE r == Part(_flush(q), raw)
             at0 == SelectLastInSeq(r.stack, LAMBDA f : f.tag = tag)
             x == SubSeq(r.stack, 1, at0 - 1)
  <2>1. Reads(r, w \o raw)
    BY BlockReads
  <2>2. IsMachine(r)
    BY <2>1 DEF Reads, Good
  <2>3. EndOutside(q, tag, raw) = r \/ EndOutside(q, tag, raw) = [r EXCEPT !.stack = x]
    BY <1>2, <2>2 DEF EndOutside
  <2> HIDE DEF r, x
  <2>4. Reads([r EXCEPT !.stack = x], w \o raw)
    BY <2>1, StackReads
  <2>5. QED  BY <2>1, <2>3, <2>4
<1>3. QED  BY <1>1, <1>2

(*******************************************************************************)
(* End tags and the end of the document.                                       *)
(*******************************************************************************)
\* handle_endtag: outside, inside of, or at the end of a protected element.
LEMMA EndReads ==
    ASSUME NEW q, NEW w, Reads(q, w), NEW raw \in Text, NEW tag \in TagNames
    PROVE  Reads(_end(q, tag, raw), w \o raw)
<1> DEFINE s == q.skip
           inner == SelectLastInSeq(s.inner, LAMBDA t : t = tag)
           r == _end(q, tag, raw)
           b == Buffered(q, raw)
<1>1. CASE ~s.on
  <2>1. r = EndOutside(q, tag, raw)
    BY <1>1 DEF _end
  <2>2. QED  BY <1>1, <2>1, EndOutsideReads
<1>2. CASE s.on
  <2>1. Reads(b, w \o raw) /\ b.skip.on
    BY <1>2, BufferedReads
  <2> DEFINE z == b.skip
             d == WithDepth(z, z.depth - 1)
             i == WithInner(z, RemoveAt(z.inner, inner))
             x == [b EXCEPT !.skip = d]
             y == [b EXCEPT !.skip = i]
  <2>2. IsMachine(b) /\ IsSkip(z)
    BY <2>1 DEF Reads, Good
  <2>3. IsSkip(d) /\ d.buffer = z.buffer /\ (d.on <=> z.on) /\ (d.to_run <=> z.to_run)
    BY <2>2, SkipUpdates
  <2>4. IsSkip(i) /\ i.buffer = z.buffer /\ (i.on <=> z.on) /\ (i.to_run <=> z.to_run)
    BY <2>2, SkipUpdates
  <2>5. \/ r = y
        \/ r = _end_skip(x)
        \/ r = x
        \/ r = b
        \/ r = EndOutside(_end_skip(q), tag, raw)
    <3> HIDE DEF inner
    <3>1. CASE inner > 0
      <4>1. r = [b EXCEPT !.skip.inner = RemoveAt(@, inner)]
        BY <1>2, <3>1 DEF _end, inner
      <4> HIDE DEF b, r
      <4>2. r = y
        BY <2>2, <4>1 DEF WithInner
      <4>3. QED  BY <4>2
    <3>2. CASE ~(inner > 0) /\ inner = 0 /\ tag = s.name
      <4> DEFINE v == [b EXCEPT !.skip.depth = @ - 1]
      <4>1. r = _end_skip(v) \/ r = v
        BY <1>2, <3>2 DEF _end, inner
      <4> HIDE DEF b, r
      <4>2. v = x
        BY <2>2 DEF WithDepth
      <4>3. QED  BY <4>1, <4>2
    <3>3. CASE ~(inner > 0) /\ inner = 0 /\ tag # s.name /\ ~ClosesSkip(s, tag)
      <4>1. r = b
        BY <1>2, <3>3 DEF _end, inner
      <4>2. QED  BY <4>1
    <3>4. CASE /\ ~(inner > 0) /\ ~(inner = 0 /\ tag = s.name)
               /\ ~(inner = 0 /\ tag # s.name /\ ~ClosesSkip(s, tag))
      <4>1. r = EndOutside(_end_skip(q), tag, raw)
        BY <1>2, <3>4 DEF _end, inner
      <4>2. QED  BY <4>1
    <3>5. QED  BY <3>1, <3>2, <3>3, <3>4
  <2> HIDE DEF b, d, i, r
  <2>6. Reads(x, w \o raw) /\ x.skip = d
    BY <2>1, <2>3, SkipReads
  <2>7. Reads(y, w \o raw)
    BY <2>1, <2>4, SkipReads
  <2>8. x.skip.on
    BY <2>1, <2>3, <2>6
  <2> HIDE DEF x, y
  <2>9. Reads(_end_skip(x), w \o raw)
    BY <2>6, <2>8, EndSkipReads
  <2>10. Reads(EndOutside(_end_skip(q), tag, raw), w \o raw)
    <3> DEFINE u == _end_skip(q)
    <3>1. Reads(u, w) /\ ~u.skip.on
      BY <1>2, EndSkipReads
    <3> HIDE DEF u
    <3>2. Reads(EndOutside(u, tag, raw), w \o raw)
      BY <3>1, EndOutsideReads
    <3>3. QED  BY <3>2 DEF u
  <2>11. QED  BY <2>1, <2>5, <2>6, <2>7, <2>9, <2>10 DEF r
<1>3. QED  BY <1>1, <1>2

\* close(): the document has all that was read, and reassembles to it.
LEMMA CloseReads ==
    ASSUME NEW w, Reads(p, w)
    PROVE  reassemble(Closed, Original(Closed)) = w
<1> DEFINE q == IF p.skip.on THEN [_end_skip(p) EXCEPT !.unterminated = TRUE] ELSE p
           r == _flush(q)
<1>1. Reads(q, w) /\ ~q.skip.on
  <2>1. CASE p.skip.on
    <3>0. PICK yes \in BOOLEAN : yes = TRUE
      BY Zenon
    <3> DEFINE x == _end_skip(p)
               y == [x EXCEPT !.unterminated = yes]
    <3>1. Reads(x, w) /\ ~x.skip.on
      BY <2>1, EndSkipReads
    <3>2. q = y
      BY <2>1, <3>0
    <3> HIDE DEF x, q
    <3>3. IsMachine(x)
      BY <3>1 DEF Reads, Good
    <3>4. /\ IsMachine(y) /\ y.skip = x.skip /\ y.parts = x.parts /\ y.segments = x.segments /\ y.run = x.run
          /\ y.context = x.context
      BY <3>3 DEF IsMachine
    <3> HIDE DEF y
    <3>5. Reads(y, w)
      BY <3>1, <3>4, OtherFields
    <3>6. QED  BY <3>1, <3>2, <3>4, <3>5
  <2>2. CASE ~p.skip.on
    BY <2>2
  <2>3. QED  BY <2>1, <2>2
<1>2. Closed = r
  BY DEF Closed
<1> HIDE DEF q
<1>3. Reads(r, w) /\ r.run = <<>> /\ r.skip = q.skip
  BY <1>1, FlushReads
<1> HIDE DEF r
<1>4. Good(r) /\ ~r.skip.on /\ Whole(r) = w
  BY <1>1, <1>3 DEF Reads
<1>5. Whole(r) = Out(r) \o Raw(r.run)
  BY <1>4, WholeOutside
<1>6. Raw(r.run) = <<>> /\ Out(r) \in Text
  BY <1>3, <1>4, NoTokens, WholeText
<1>7. w = Out(r)
  BY <1>4, <1>5, <1>6, TextEmpty
<1>8. PICK L : IsDoc(r.parts, r.segments, L)
  BY <1>4 DEF Good
<1>9. reassemble(r, Original(r)) = OutOf(r.parts, r.segments)
  BY <1>8, Reassembled
<1>10. QED  BY <1>2, <1>7, <1>9 DEF Out

(*******************************************************************************)
(* The source: the events so far.                                              *)
(*******************************************************************************)
\* The atoms of one event, and of all.
AtomsOf(e, i) == IF e.type = "text" THEN [j \in DOMAIN e.text |-> <<i, j>>] ELSE << <<i, 1>> >>
AtomsOfEach(s) == [i \in DOMAIN s |-> AtomsOf(s[i], i)]

\* The events so far are a list, whose atoms are texts.
IsSource(s) == (\E X : s \in Seq(X)) /\ AtomsOfEach(s) \in Seq(Text)

\* A tag is a text, and so is a text that arrives.
LEMMA RawOfEvent ==
    ASSUME NEW n \in Nat
    PROVE  /\ << <<n, 1>> >> \in Text
           /\ \A t \in Texts : [j \in DOMAIN t |-> <<n, j>>] \in Text
<1>1. <<n, 1>> \in AtomSet
  BY DEF AtomSet
<1>2. << <<n, 1>> >> \in Text
  BY <1>1, TextAppend, TextEmpty
<1>3. ASSUME NEW t \in Texts
      PROVE  [j \in DOMAIN t |-> <<n, j>>] \in Text
  <2>1. t \in Seq(TextKinds)
    BY TextsAssumption
  <2> DEFINE m == Len(t)
             u == [j \in 1 .. m |-> <<n, j>>]
  <2>2. m \in Nat /\ DOMAIN t = 1 .. m
    BY <2>1
  <2> HIDE DEF m
  <2>3. \A j \in 1 .. m : <<n, j>> \in AtomSet
    BY <2>2 DEF AtomSet
  <2>4. u \in Seq(AtomSet)
    BY <2>2, <2>3
  <2>5. QED  BY <2>2, <2>4 DEF Text
<1>4. QED  BY <1>2, <1>3

\* One more event is one more piece of source.
LEMMA OneMoreEvent ==
    ASSUME NEW s, IsSource(s), NEW e, NEW raw \in Text, AtomsOf(e, Len(s) + 1) = raw
    PROVE  /\ IsSource(Append(s, e)) /\ Len(s) \in Nat
           /\ FlattenSeq(AtomsOfEach(Append(s, e))) = FlattenSeq(AtomsOfEach(s)) \o raw
<1>1. PICK X : s \in Seq(X)
  BY DEF IsSource
<1> DEFINE n == Len(s)
           r == Append(s, e)
           a == AtomsOfEach(s)
           b == AtomsOfEach(r)
<1>2. s \in Seq(X \cup {e}) /\ n \in Nat
  BY <1>1
<1>3. /\ r \in Seq(X \cup {e}) /\ DOMAIN r = 1 .. (n + 1) /\ DOMAIN s = 1 .. n
      /\ r[n + 1] = e /\ \A i \in 1 .. n : r[i] = s[i]
  BY <1>2
<1>4. a \in Seq(Text)
  BY DEF IsSource
<1> HIDE DEF r
<1>5. DOMAIN a = 1 .. n /\ \A i \in 1 .. n : a[i] = AtomsOf(s[i], i)
  BY <1>3 DEF AtomsOfEach
<1>6. DOMAIN b = 1 .. (n + 1) /\ \A i \in 1 .. (n + 1) : b[i] = AtomsOf(r[i], i)
  BY <1>3 DEF AtomsOfEach
<1>7. b = [i \in 1 .. (n + 1) |-> AtomsOf(r[i], i)]
  BY <1>3 DEF AtomsOfEach
<1>8. b = Append(a, raw)
  <2> HIDE DEF a
  <2>1. Len(a) = n
    BY <1>2, <1>4, <1>5
  <2> DEFINE c == Append(a, raw)
  <2>2. c \in Seq(Text) /\ Len(c) = n + 1 /\ c[n + 1] = raw /\ \A i \in 1 .. n : c[i] = a[i]
    BY <1>2, <1>4, <2>1
  <2> HIDE DEF b, c
  <2>3. \A i \in 1 .. (n + 1) : AtomsOf(r[i], i) = c[i]
    <3> SUFFICES ASSUME NEW i \in 1 .. (n + 1)
                 PROVE  AtomsOf(r[i], i) = c[i]
      OBVIOUS
    <3>1. CASE i = n + 1
      BY <1>3, <2>2, <3>1
    <3>2. CASE i # n + 1
      <4>1. i \in 1 .. n
        BY <1>2, <3>2
      <4>2. QED  BY <1>3, <1>5, <2>2, <4>1
    <3>3. QED  BY <3>1, <3>2
  <2>4. n + 1 \in Nat /\ \A i \in 1 .. (n + 1) : c[i] \in Text
    BY <1>2, <2>2
  <2>5. b \in Seq(Text) /\ Len(b) = n + 1 /\ \A i \in 1 .. (n + 1) : b[i] = c[i]
    BY <1>6, <1>7, <2>3, <2>4
  <2>6. b = c
    BY <2>2, <2>5, SeqEqual
  <2>7. QED  BY <2>6 DEF c
<1> HIDE DEF a, b
<1>9. b \in Seq(Text) /\ FlattenSeq(b) = FlattenSeq(a) \o raw
  BY <1>4, <1>8, FlattenMore
<1>10. QED  BY <1>2, <1>3, <1>9 DEF IsSource, a, b, r

(*******************************************************************************)
(* RoundTrip.                                                                  *)
(*******************************************************************************)
\* The source is in the machine while it is read, and in the document from then on.
ParseInv ==
    /\ IsSource(src)
    /\ at = "parse" => Reads(p, Atoms)
    /\ at # "parse" => reassemble(doc, Original(doc)) = Atoms

\* Nothing has been read at first.
LEMMA StartsEmpty == ASSUME SegmenterInit PROVE IsSource(src) /\ Reads(p, Atoms)
<1> DEFINE e == <<>>
<1>1. src = e /\ Len(e) = 0 /\ DOMAIN e = {}
  BY DEF SegmenterInit
<1>2. p = [parts |-> e, segments |-> e, stack |-> e, run |-> e, context |-> "none", skip |-> NoSkip,
           root_lang |-> "none", top_level |-> 0, unterminated |-> FALSE]
  BY DEF SegmenterInit
<1>3. AtomsOfEach(e) = e
  BY DEF AtomsOfEach
<1>4. IsSource(src) /\ Atoms = e
  <2>1. e \in Seq(Text) /\ FlattenSeq(e) = e
    BY FlattenEmpty
  <2>2. Atoms = FlattenSeq(AtomsOfEach(src))
    BY DEF Atoms, AtomsOfEach, AtomsOf
  <2> HIDE DEF e
  <2>3. QED  BY <1>1, <1>3, <2>1, <2>2 DEF IsSource
<1>5. IsSkip(NoSkip) /\ NoSkip.buffer = e /\ ~NoSkip.on /\ NoSkip.buffer \in Text
  BY TextEmpty DEF IsSkip, NoSkip
<1>6. PICK no \in BOOLEAN : no = FALSE
  BY Zenon
<1>7. IsMachine(p)
  <2>1. p = [parts |-> e, segments |-> e, stack |-> e, run |-> e, context |-> "none", skip |-> NoSkip,
             root_lang |-> "none", top_level |-> 0, unterminated |-> no]
    BY <1>2, <1>6
  <2>2. QED  BY <2>1 DEF IsMachine
<1>8. p.parts = e /\ p.segments = e /\ p.run = e /\ p.context = "none" /\ p.skip = NoSkip
  BY <1>2
<1>9. IsDoc(e, e, {"none"}) /\ OutOf(e, e) = e
  <2>1. Pieces(e, e) = e /\ FlattenSeq(e) = e
    BY FlattenEmpty DEF Pieces
  <2>2. e \in Seq(Segment({"none"})) /\ e \in Seq(PartSet(Len(e)))
    BY <1>1
  <2> HIDE DEF e
  <2>3. QED  BY <1>1, <2>1, <2>2 DEF IsDoc, OutOf
<1>10. e \in TokenList /\ Raw(e) = e
  BY NoTokens
<1>11. Good(p)
  <2> HIDE DEF e
  <2>1. p.context \in {"none"} /\ IsDoc(p.parts, p.segments, {"none"})
    BY <1>8, <1>9
  <2>2. QED  BY <1>5, <1>7, <1>8, <1>10, <2>1 DEF Good, e
<1>12. Whole(p) = e
  <2>1. e \in Text /\ e \o e = e
    BY TextEmpty
  <2> HIDE DEF e
  <2>2. QED  BY <1>5, <1>8, <1>9, <1>10, <2>1 DEF Whole, Out
<1>13. QED  BY <1>4, <1>11, <1>12 DEF Reads

\* An event is read to its end: its text, and nothing else, is added to what was read.
LEMMA FeedReads ==
    ASSUME IsSource(src), Reads(p, Atoms), Feed
    PROVE  IsSource(src') /\ Reads(p', Atoms')
<1> DEFINE n == Len(src) + 1
<1>1. Atoms = FlattenSeq(AtomsOfEach(src)) /\ Atoms' = FlattenSeq(AtomsOfEach(src'))
  BY DEF Atoms, AtomsOfEach, AtomsOf
<1>2. n \in Nat
  BY DEF IsSource
<1>3. ASSUME NEW e, NEW raw \in Text, src' = Append(src, e), AtomsOf(e, n) = raw, Reads(p', Atoms \o raw)
      PROVE  IsSource(src') /\ Reads(p', Atoms')
  <2> HIDE DEF n
  <2>1. /\ IsSource(Append(src, e))
        /\ FlattenSeq(AtomsOfEach(Append(src, e))) = FlattenSeq(AtomsOfEach(src)) \o raw
    BY <1>3, OneMoreEvent DEF n
  <2>2. QED  BY <1>1, <1>3, <2>1
<1>4. Tag1 = << <<n, 1>> >> /\ Tag1 \in Text
  BY <1>2, RawOfEvent DEF Tag1
<1>5. ASSUME NEW e \in Starts, handle_starttag(e)
      PROVE  IsSource(src') /\ Reads(p', Atoms')
  <2> DEFINE x == [type |-> "start", tag |-> e.tag, no |-> e.no, lang |-> e.lang]
  <2>1. src' = Append(src, x) /\ p' = _start(p, e, Tag1, e.tag \in VOID_TAGS)
    BY <1>5 DEF handle_starttag, Event
  <2>2. AtomsOf(x, n) = Tag1
    BY <1>4 DEF AtomsOf
  <2>3. e.tag \in TagNames
    BY DEF TagNames
  <2>4. Reads(p', Atoms \o Tag1)
    BY <1>4, <2>1, <2>3, StartReads
  <2> HIDE DEF x, n
  <2>5. QED  BY <1>3, <1>4, <2>1, <2>2, <2>4
<1>6. ASSUME NEW e \in Empties, handle_startendtag(e)
      PROVE  IsSource(src') /\ Reads(p', Atoms')
  <2> DEFINE x == [type |-> "empty", tag |-> e.tag, no |-> e.no, lang |-> e.lang]
  <2>1. src' = Append(src, x) /\ p' = _start(p, e, Tag1, TRUE)
    BY <1>6 DEF handle_startendtag, Event
  <2>2. AtomsOf(x, n) = Tag1
    BY <1>4 DEF AtomsOf
  <2>3. e.tag \in TagNames
    BY DEF TagNames
  <2>4. Reads(p', Atoms \o Tag1)
    BY <1>4, <2>1, <2>3, StartReads
  <2> HIDE DEF x, n
  <2>5. QED  BY <1>3, <1>4, <2>1, <2>2, <2>4
<1>7. ASSUME NEW t \in Ends, handle_endtag(t)
      PROVE  IsSource(src') /\ Reads(p', Atoms')
  <2> DEFINE x == [type |-> "end", tag |-> t]
  <2>1. src' = Append(src, x) /\ p' = _end(p, t, Tag1)
    BY <1>7 DEF handle_endtag, Event
  <2>2. AtomsOf(x, n) = Tag1
    BY <1>4 DEF AtomsOf
  <2>3. t \in TagNames
    BY DEF TagNames
  <2>4. Reads(p', Atoms \o Tag1)
    BY <1>4, <2>1, <2>3, EndReads
  <2> HIDE DEF x, n
  <2>5. QED  BY <1>3, <1>4, <2>1, <2>2, <2>4
<1>8. ASSUME NEW t \in Texts, handle_data(t)
      PROVE  IsSource(src') /\ Reads(p', Atoms')
  <2> DEFINE x == [type |-> "text", text |-> t]
             raw == [i \in DOMAIN t |-> <<n, i>>]
  <2>1. src' = Append(src, x) /\ p' = _text(p, raw)
    BY <1>8 DEF handle_data, Event
  <2>2. AtomsOf(x, n) = raw
    BY DEF AtomsOf
  <2>3. raw \in Text
    BY <1>2, RawOfEvent
  <2> HIDE DEF x, n, raw
  <2>4. Reads(p', Atoms \o raw)
    BY <2>1, <2>3, TextReads
  <2>5. QED  BY <1>3, <2>1, <2>2, <2>3, <2>4
<1>9. ASSUME handle_comment
      PROVE  IsSource(src') /\ Reads(p', Atoms')
  <2> DEFINE x == [type |-> "comment"]
  <2>1. src' = Append(src, x) /\ p' = _opaque(p, Tag1)
    BY <1>9 DEF handle_comment, Event
  <2>2. AtomsOf(x, n) = Tag1
    BY <1>4 DEF AtomsOf
  <2>3. Reads(p', Atoms \o Tag1)
    BY <1>4, <2>1, OpaqueReads
  <2> HIDE DEF x, n
  <2>4. QED  BY <1>3, <1>4, <2>1, <2>2, <2>3
<1>10. QED  BY <1>5, <1>6, <1>7, <1>8, <1>9 DEF Feed

\* ParseInv is inductive.
THEOREM ParseInvariance == Spec => []ParseInv
<1>1. Init => ParseInv
  BY StartsEmpty DEF Init, ParseInv
<1>2. ParseInv /\ [Next]_vars => ParseInv'
  <2> SUFFICES ASSUME ParseInv, [Next]_vars
               PROVE  ParseInv'
    OBVIOUS
  <2>1. CASE at = "parse" /\ Feed /\ at' = at
    <3>1. IsSource(src') /\ Reads(p', Atoms')
      BY <2>1, FeedReads DEF ParseInv
    <3>2. QED  BY <2>1, <3>1 DEF ParseInv
  <2>2. CASE close
    <3>1. at = "parse" /\ at' = "plan" /\ doc' = Closed /\ UNCHANGED src
      BY <2>2 DEF close
    <3>2. reassemble(Closed, Original(Closed)) = Atoms
      BY <3>1, CloseReads DEF ParseInv
    <3>3. Atoms' = Atoms
      BY <3>1 DEF Atoms
    <3>4. reassemble(doc', Original(doc')) = Atoms'
      BY <3>1, <3>2, <3>3
    <3>5. QED  BY <3>1, <3>4 DEF ParseInv
  <2>3. CASE UNCHANGED <<src, p, doc>> /\ ((at' = "parse") <=> (at = "parse"))
    BY <2>3 DEF ParseInv, Atoms
  <2>4. \/ at = "parse" /\ Feed /\ at' = at
        \/ close
        \/ UNCHANGED <<src, p, doc>> /\ ((at' = "parse") <=> (at = "parse"))
    BY DEF Next, vars, plan_article_translation, get_many, translate, store, raises, other_article_stores, planVars
  <2>5. QED  BY <2>1, <2>2, <2>3, <2>4
<1>3. QED  BY <1>1, <1>2, PTL DEF Spec

\* A document reassembles to its source, whatever events arrive in whatever order: every
\* piece once and in its place (segmenter.reassemble, _flush, _chunks, _emit).
THEOREM EveryDocumentRoundTrips == Spec => []RoundTrip
<1>1. ParseInv => RoundTrip
  BY DEF ParseInv, RoundTrip
<1>2. QED  BY <1>1, ParseInvariance, PTL

(*******************************************************************************)
(* NothingLeftForeign.                                                         *)
(*******************************************************************************)
\* What the plan does with a segment depends on its language alone.
LEMMA ActionOfLanguage ==
    ASSUME NEW l
    PROVE  /\ _action(l) \in {"keep", "translate", "unsupported"}
           /\ _action(l) = "keep" => l = TARGET_LANGUAGE
<1>1. TARGET_LANGUAGE \notin supported_source_languages
  BY ExtraAssumption DEF parse_extra_source_languages, supported_source_languages, TARGET_LANGUAGE,
     CORE_SOURCE_LANGUAGES
<1>2. CASE l = TARGET_LANGUAGE
  <2>1. _action(l) = "keep"
    BY <1>1, <1>2 DEF _action
  <2>2. QED  BY <1>2, <2>1
<1>3. CASE l \in supported_source_languages
  <2>1. _action(l) = "translate"
    BY <1>1, <1>3 DEF _action
  <2>2. QED  BY <2>1
<1>4. CASE l # TARGET_LANGUAGE /\ l \notin supported_source_languages
  <2>1. _action(l) = "unsupported"
    BY <1>4 DEF _action
  <2>2. QED  BY <2>1
<1>5. QED  BY <1>2, <1>3, <1>4

\* What a finished article has: a text that was validated for every segment to translate,
\* and nothing of a language that is not supported.
PublishedInv ==
    at = "done" =>
        /\ \A k \in Segs : language[k] = TARGET_LANGUAGE \/ k \in DOMAIN outcome.finals
        /\ required => \A k \in DOMAIN outcome.finals : k \in Jobs /\ validate_preservation(k, outcome.finals[k])

\* What depends only on the source and the document.
LEMMA DocumentSame ==
    ASSUME UNCHANGED <<src, doc>>, NEW k
    PROVE  Placeholders(k)' = Placeholders(k) /\ tag_pairs(k)' = tag_pairs(k)
<1>1. src' = src /\ doc' = doc
  OBVIOUS
<1>2. \A raw : MaskText(raw)' = MaskText(raw)
  BY <1>1 DEF MaskText, KindOfAtom
<1>3. Items(k)' = Items(k)
  BY <1>1, <1>2, Zenon DEF Items
<1>4. Placeholders(k)' = Placeholders(k)
  BY <1>3, Zenon DEF Placeholders
<1>5. \A i : IdOf(k, i)' = IdOf(k, i)
  BY <1>4, Zenon DEF IdOf
<1>6. tag_pairs(k)' = tag_pairs(k)
  BY <1>1, <1>5, Zenon DEF tag_pairs
<1>7. QED  BY <1>4, <1>6

\* What is true of a finished article stays true of it.
LEMMA PublishedSame ==
    ASSUME PublishedInv, UNCHANGED <<src, doc, language, required, outcome>>, at = "done"
    PROVE  PublishedInv'
<1>1. /\ src' = src /\ doc' = doc /\ language' = language /\ outcome' = outcome
      /\ (required' <=> required)
  OBVIOUS
<1>2. Segs' = Segs
  BY <1>1 DEF Segs
<1>3. Jobs' = Jobs
  BY <1>1, <1>2 DEF Jobs
<1>4. /\ \A k \in Segs : language[k] = TARGET_LANGUAGE \/ k \in DOMAIN outcome.finals
      /\ required => \A k \in DOMAIN outcome.finals : k \in Jobs /\ validate_preservation(k, outcome.finals[k])
  BY DEF PublishedInv
<1>5. \A k : validate_preservation(k, outcome.finals[k])' <=> validate_preservation(k, outcome.finals[k])
  <2> SUFFICES ASSUME NEW k
               PROVE  validate_preservation(k, outcome.finals[k])' <=> validate_preservation(k, outcome.finals[k])
    OBVIOUS
  <2> DEFINE found == outcome.finals[k]
  <2>1. Placeholders(k)' = Placeholders(k) /\ tag_pairs(k)' = tag_pairs(k)
    BY <1>1, DocumentSame
  <2>2. found' = found
    BY <1>1
  <2> HIDE DEF found
  <2>3. validate_preservation(k, found)' <=> validate_preservation(k, found)
    BY <2>1, <2>2, Zenon DEF validate_preservation
  <2>4. QED  BY <2>3 DEF found
<1>6. QED  BY <1>1, <1>2, <1>3, <1>4, <1>5 DEF PublishedInv

\* An article that needs no translation has only segments to keep.
LEMMA PlanPublishes ==
    ASSUME NEW declared, NEW verdict, NEW of, plan_article_translation(declared, verdict, of)
    PROVE  PublishedInv'
<1> SUFFICES ASSUME at' = "done"
             PROVE  /\ \A k \in Segs' : language'[k] = TARGET_LANGUAGE
                    /\ ~required'
  BY DEF PublishedInv
<1> DEFINE article == detect_article_language(declared, doc.root_lang, Segs = {}, verdict)
<1>1. /\ required' = ~not_required(article, language')
      /\ at' = IF required' THEN "lookup" ELSE "done"
      /\ Segs' = Segs
  BY DEF plan_article_translation, Segs
<1>2. ~required'
  BY <1>1
<1>3. not_required(article, language')
  BY <1>1, <1>2
<1>4. \A k \in Segs : _action(language'[k]) = "keep"
  BY <1>3 DEF not_required
<1>5. QED  BY <1>1, <1>2, <1>4, ActionOfLanguage

\* An execution that is complete has a validated text for every segment to translate.
LEMMA StorePublishes ==
    ASSUME store
    PROVE  PublishedInv'
<1> SUFFICES ASSUME at' = "done"
             PROVE  /\ \A k \in Segs' : language'[k] = TARGET_LANGUAGE \/ k \in DOMAIN outcome'.finals
                    /\ \A k \in DOMAIN outcome'.finals :
                          k \in Jobs' /\ validate_preservation(k, outcome.finals[k])'
  BY DEF PublishedInv
<1> DEFINE final == {k \in Jobs : Accepted(k)}
<1>1. /\ Complete(final) /\ outcome' = [complete |-> TRUE, finals |-> [k \in final |-> Translated(k)]]
      /\ src' = src /\ doc' = doc /\ language' = language
  BY DEF store, planVars
<1>2. final = Jobs /\ ~language_unsupported
  BY <1>1 DEF Complete
<1>3. DOMAIN outcome'.finals = final /\ \A k \in final : outcome'.finals[k] = Translated(k)
  BY <1>1
<1> HIDE DEF final
<1>4. Segs' = Segs
  BY <1>1 DEF Segs
<1>5. Jobs' = Jobs
  BY <1>1, <1>4 DEF Jobs
<1>6. ASSUME NEW k \in Segs
      PROVE  language[k] = TARGET_LANGUAGE \/ k \in final
  <2>1. _action(language[k]) # "unsupported"
    BY <1>2 DEF language_unsupported
  <2>2. QED  BY <1>2, <2>1, ActionOfLanguage DEF Jobs
<1>7. ASSUME NEW k \in final
      PROVE  k \in Jobs' /\ validate_preservation(k, outcome.finals[k])'
  <2>1. k \in Jobs /\ validate_preservation(k, Translated(k))
    BY DEF final, Accepted
  <2>2. Placeholders(k)' = Placeholders(k) /\ tag_pairs(k)' = tag_pairs(k)
    BY <1>1, DocumentSame
  <2>3. outcome'.finals[k] = Translated(k)
    BY <1>3
  <2> DEFINE found == outcome.finals[k]
  <2>4. found' = Translated(k)
    BY <2>3
  <2> HIDE DEF found
  <2>5. validate_preservation(k, found)'
    BY <2>1, <2>2, <2>4, Zenon DEF validate_preservation
  <2>6. QED  BY <1>5, <2>1, <2>5 DEF found
<1>8. QED  BY <1>1, <1>3, <1>4, <1>6, <1>7

\* PublishedInv is inductive.
THEOREM PublishedInvariance == Spec => []PublishedInv
<1>1. Init => PublishedInv
  BY DEF Init, PublishedInv
<1>2. PublishedInv /\ [Next]_vars => PublishedInv'
  <2> SUFFICES ASSUME PublishedInv, [Next]_vars
               PROVE  PublishedInv'
    OBVIOUS
  <2>1. ASSUME at' # "done"
        PROVE  PublishedInv'
    BY <2>1 DEF PublishedInv
  <2>2. CASE \E d \in Declared, v \in Verdicts, of \in [Segs -> Verdicts] : plan_article_translation(d, v, of)
    BY <2>2, PlanPublishes
  <2>3. CASE store
    BY <2>3, StorePublishes
  <2>4. \/ at' # "done"
        \/ \E d \in Declared, v \in Verdicts, of \in [Segs -> Verdicts] : plan_article_translation(d, v, of)
        \/ store
        \/ at = "done" /\ UNCHANGED <<src, doc, language, required, outcome>>
    BY DEF Next, vars, close, get_many, translate, raises, other_article_stores
  <2>5. QED  BY <2>1, <2>2, <2>3, <2>4, PublishedSame
<1>3. QED  BY <1>1, <1>2, PTL DEF Spec

\* A version that is published leaves no segment in a language other than Ukrainian,
\* whatever languages are configured, declared and detected, and however often the
\* execution failed before (pipeline.execute_plan, planner.not_required).
THEOREM NoForeignSegment == Spec => []NothingLeftForeign
<1>1. PublishedInv => NothingLeftForeign
  BY DEF PublishedInv, NothingLeftForeign
<1>2. QED  BY <1>1, PublishedInvariance, PTL

\* Every text of a published version was validated against the segment it stands in, also
\* one that another article had written to the memory (pipeline.execute_plan).
THEOREM PublishedIsValidated ==
    Spec => [](at = "done" /\ required =>
                 \A k \in DOMAIN outcome.finals : k \in Jobs /\ validate_preservation(k, outcome.finals[k]))
<1>1. PublishedInv => (at = "done" /\ required =>
                 \A k \in DOMAIN outcome.finals : k \in Jobs /\ validate_preservation(k, outcome.finals[k]))
  BY DEF PublishedInv
<1>2. QED  BY <1>1, PublishedInvariance, PTL

(*******************************************************************************)
(* What a list has: some element in a set.                                     *)
(*******************************************************************************)
\* Some element of the list is in Q.
Meets(s, Q) == \E i \in DOMAIN s : s[i] \in Q

\* One more element.
LEMMA MeetsAppend ==
    ASSUME NEW X, NEW s \in Seq(X), NEW x, NEW Q
    PROVE  Meets(Append(s, x), Q) <=> Meets(s, Q) \/ x \in Q
<1> DEFINE n == Len(s)
           a == Append(s, x)
<1>1. n \in Nat /\ DOMAIN s = 1 .. n /\ s \in Seq(X \cup {x})
  OBVIOUS
<1>2. DOMAIN a = 1 .. (n + 1) /\ a[n + 1] = x /\ \A i \in 1 .. n : a[i] = s[i]
  BY <1>1
<1>3. \A i \in 1 .. (n + 1) : i = n + 1 \/ i \in 1 .. n
  BY <1>1
<1>4. n + 1 \in 1 .. (n + 1) /\ \A i \in 1 .. n : i \in 1 .. (n + 1)
  BY <1>1
<1> HIDE DEF a, n
<1>5. QED  BY <1>1, <1>2, <1>3, <1>4 DEF Meets, a

\* Two lists in one.
LEMMA MeetsConcat ==
    ASSUME NEW X, NEW s \in Seq(X), NEW t \in Seq(X), NEW Q
    PROVE  Meets(s \o t, Q) <=> Meets(s, Q) \/ Meets(t, Q)
<1> DEFINE n == Len(s)
           m == Len(t)
           a == s \o t
<1>1. n \in Nat /\ m \in Nat /\ DOMAIN s = 1 .. n /\ DOMAIN t = 1 .. m
  OBVIOUS
<1>2. /\ a \in Seq(X) /\ Len(a) = n + m
      /\ \A i \in 1 .. (n + m) : a[i] = IF i <= n THEN s[i] ELSE t[i - n]
  BY ConcatProperties
<1>3. DOMAIN a = 1 .. (n + m)
  BY <1>1, <1>2
<1> HIDE DEF a, n, m
<1>4. ASSUME NEW i \in 1 .. n
      PROVE  i \in 1 .. (n + m) /\ a[i] = s[i]
  BY <1>1, <1>2
<1>5. ASSUME NEW i \in 1 .. m
      PROVE  i + n \in 1 .. (n + m) /\ a[i + n] = t[i]
  <2>1. i + n \in 1 .. (n + m) /\ ~(i + n <= n) /\ (i + n) - n = i
    BY <1>1
  <2>2. QED  BY <1>2, <2>1
<1>6. ASSUME NEW i \in 1 .. (n + m)
      PROVE  (i \in 1 .. n /\ a[i] = s[i]) \/ (i - n \in 1 .. m /\ a[i] = t[i - n])
  BY <1>1, <1>2
<1>7. QED  BY <1>1, <1>3, <1>4, <1>5, <1>6 DEF Meets, a

\* A list of one.
LEMMA MeetsOne == \A x, Q : Meets(<<x>>, Q) <=> x \in Q
<1> SUFFICES ASSUME NEW x, NEW Q PROVE Meets(<<x>>, Q) <=> x \in Q
  OBVIOUS
<1>1. DOMAIN <<x>> = 1 .. 1 /\ <<x>>[1] = x
  OBVIOUS
<1>2. QED  BY <1>1 DEF Meets

\* Nothing is in the empty list.
LEMMA MeetsNothing == \A Q : ~Meets(<<>>, Q)
BY DEF Meets

\* Lists of lists: the ones with an element in Q.
Having(X, Q) == {s \in Seq(X) : Meets(s, Q)}

\* One more element in the last of the lists.
LEMMA MeetsAddToLast ==
    ASSUME NEW X, NEW u \in Seq(Seq(X)) \ {<<>>}, NEW x \in X, NEW Q
    PROVE  Meets(AddToLast(u, x), Having(X, Q)) <=> Meets(u, Having(X, Q)) \/ x \in Q
<1> DEFINE a == Front(u)
           b == Last(u)
           c == Append(b, x)
           H == Having(X, Q)
           Y == Seq(X)
<1>1. a \in Seq(Y) /\ b \in Y /\ u = Append(a, b)
  BY FrontAndLast
<1>2. AddToLast(u, x) = Append(a, c)
  BY DEF AddToLast
<1> HIDE DEF a, b
<1>3. c \in Y
  BY <1>1
<1>4. Meets(c, Q) <=> Meets(b, Q) \/ x \in Q
  BY <1>1, MeetsAppend
<1>5. (c \in H <=> Meets(c, Q)) /\ (b \in H <=> Meets(b, Q))
  BY <1>1, <1>3 DEF Having
<1> HIDE DEF c, H, Y
<1>6. (Meets(Append(a, c), H) <=> Meets(a, H) \/ c \in H) /\ (Meets(Append(a, b), H) <=> Meets(a, H) \/ b \in H)
  BY <1>1, <1>3, MeetsAppend
<1>7. QED  BY <1>1, <1>2, <1>4, <1>5, <1>6 DEF H

\* What is gathered on the way was there at the start or is in one of the steps.
LEMMA Gathered ==
    ASSUME NEW n \in Nat, NEW T, NEW S, S \subseteq 1 .. n, \A i \in 1 .. n : i \in T <=> i - 1 \in T \/ i \in S
    PROVE  n \in T <=> 0 \in T \/ S # {}
<1>1. ASSUME 0 \in T
      PROVE  n \in T
  <2>1. \A i \in 0 .. n : i \in T
    BY <1>1, Induct
  <2>2. QED  BY <2>1
<1>2. ASSUME NEW k \in S
      PROVE  n \in T
  <2> DEFINE G == {i \in 0 .. n : i >= k => i \in T}
  <2>1. 0 \in G
    OBVIOUS
  <2>2. ASSUME NEW i \in 1 .. n, i - 1 \in G
        PROVE  i \in G
    <3>1. i \in T <=> i - 1 \in T \/ i \in S
      OBVIOUS
    <3>2. i \in 0 .. n /\ (i = k \/ i < k \/ i - 1 >= k)
      OBVIOUS
    <3>3. QED  BY <1>2, <2>2, <3>1, <3>2
  <2>3. \A i \in 0 .. n : i \in G
    <3> HIDE DEF G
    <3>1. QED  BY <2>1, <2>2, Induct
  <2>4. QED  BY <1>2, <2>3
<1>3. ASSUME 0 \notin T, S = {}
      PROVE  n \notin T
  <2> DEFINE G == {i \in 0 .. n : i \notin T}
  <2>1. 0 \in G
    BY <1>3
  <2>2. ASSUME NEW i \in 1 .. n, i - 1 \in G
        PROVE  i \in G
    BY <1>3, <2>2
  <2>3. \A i \in 0 .. n : i \in G
    <3> HIDE DEF G
    <3>1. QED  BY <2>1, <2>2, Induct
  <2>4. QED  BY <2>3
<1>4. QED  BY <1>1, <1>2, <1>3

\* The same for a list that is worked through.
LEMMA GatheredList ==
    ASSUME NEW X, NEW s \in Seq(X), NEW Q, NEW T, \A i \in 1 .. Len(s) : i \in T <=> i - 1 \in T \/ s[i] \in Q
    PROVE  Len(s) \in T <=> 0 \in T \/ Meets(s, Q)
<1> DEFINE n == Len(s)
           S == {i \in 1 .. n : s[i] \in Q}
<1>1. n \in Nat /\ DOMAIN s = 1 .. n
  OBVIOUS
<1>2. S # {} <=> Meets(s, Q)
  BY <1>1 DEF Meets
<1>3. S \subseteq 1 .. n /\ \A i \in 1 .. n : i \in T <=> i - 1 \in T \/ i \in S
  OBVIOUS
<1> HIDE DEF S, n
<1>4. n \in T <=> 0 \in T \/ S # {}
  BY <1>1, <1>3, Gathered
<1>5. QED  BY <1>2, <1>4 DEF n

\* What was gathered by the end and was not there at the start is in one of the steps.
LEMMA GatheredAtMost ==
    ASSUME NEW X, NEW s \in Seq(X), NEW Q, NEW T, \A i \in 1 .. Len(s) : i \in T => i - 1 \in T \/ s[i] \in Q,
           Len(s) \in T
    PROVE  0 \in T \/ Meets(s, Q)
<1> SUFFICES ASSUME 0 \notin T, ~Meets(s, Q) PROVE FALSE
  OBVIOUS
<1> DEFINE n == Len(s)
           G == {i \in 0 .. n : i \notin T}
<1>1. n \in Nat /\ DOMAIN s = 1 .. n
  OBVIOUS
<1>2. 0 \in G
  BY <1>1
<1>3. ASSUME NEW i \in 1 .. n, i - 1 \in G
      PROVE  i \in G
  <2>1. s[i] \notin Q
    BY <1>1 DEF Meets
  <2>2. i \in 0 .. n
    BY <1>1
  <2>3. QED  BY <1>3, <2>1, <2>2
<1>4. \A i \in 0 .. n : i \in G
  <2> HIDE DEF G, n
  <2>1. QED  BY <1>1, <1>2, <1>3, Induct
<1>5. QED  BY <1>1, <1>4

(*******************************************************************************)
(* However a run is cut into chunks, the atom a is text of one of them exactly *)
(* if it is text of the run.                                                   *)
(*******************************************************************************)
\* The texts, text tokens and token lists in which the atom a is text.
RawWith(a) == Having(AtomSet, {a})
TokWith(a) == {t \in Token : t.kind = "text" /\ t.raw \in RawWith(a)}
ListWith(a) == Having(Token, TokWith(a))

\* What a text has, one of its sentences has.
LEMMA SentencesWith ==
    ASSUME NEW a, NEW raw \in Text
    PROVE  Meets(Sentences(raw), RawWith(a)) <=> raw \in RawWith(a)
<1> DEFINE n == Len(raw)
<1>1. PICK h : /\ Sentences(raw) = h[n] /\ h[0] = << <<>> >>
               /\ \A i \in 0 .. n : h[i] \in Seq(Text) \ {<<>>}
               /\ \A i \in 1 .. n : h[i] = AddAtom(h[i - 1], raw, i)
  BY SentencesFold
<1> DEFINE T == {i \in 0 .. n : Meets(h[i], RawWith(a))}
<1>2. n \in Nat /\ n \in 0 .. n /\ 0 \in 0 .. n /\ raw \in Seq(AtomSet)
  BY DEF Text
<1>3. 0 \notin T
  <2> DEFINE e == <<>>
  <2>1. e \in Text /\ ~Meets(e, {a})
    BY TextEmpty, MeetsNothing
  <2>2. h[0] = <<e>>
    BY <1>1
  <2> HIDE DEF e
  <2>3. Meets(h[0], RawWith(a)) <=> e \in RawWith(a)
    BY <2>2, MeetsOne
  <2>4. QED  BY <2>1, <2>3 DEF RawWith, Having
<1>4. ASSUME NEW i \in 1 .. n
      PROVE  i \in T <=> i - 1 \in T \/ raw[i] \in {a}
  <2> DEFINE x == raw[i]
             u == h[i - 1]
  <2>1. i \in 0 .. n /\ i - 1 \in 0 .. n /\ x \in AtomSet
    BY <1>2
  <2>2. u \in Seq(Text) \ {<<>>} /\ h[i] = AddAtom(u, raw, i)
    BY <1>1, <2>1
  <2>3. h[i] = AddToLast(u, x) \/ h[i] = Append(u, <<x>>)
    BY <2>2 DEF AddAtom
  <2> HIDE DEF x, u, n
  <2>4. Meets(AddToLast(u, x), RawWith(a)) <=> Meets(u, RawWith(a)) \/ x \in {a}
    BY <2>1, <2>2, MeetsAddToLast DEF RawWith, Text
  <2>5. Meets(Append(u, <<x>>), RawWith(a)) <=> Meets(u, RawWith(a)) \/ x \in {a}
    <3> DEFINE r == <<x>>
    <3>1. r \in Text /\ u \in Seq(Text)
      BY <2>1, <2>2 DEF Text
    <3>2. Meets(r, {a}) <=> x \in {a}
      BY MeetsOne
    <3> HIDE DEF r
    <3>3. r \in RawWith(a) <=> x \in {a}
      BY <3>1, <3>2 DEF RawWith, Having, Text
    <3>4. Meets(Append(u, r), RawWith(a)) <=> Meets(u, RawWith(a)) \/ r \in RawWith(a)
      BY <3>1, MeetsAppend
    <3>5. QED  BY <3>3, <3>4 DEF r
  <2>6. QED  BY <2>1, <2>3, <2>4, <2>5 DEF x, u
<1> HIDE DEF T
<1>5. n \in T <=> 0 \in T \/ Meets(raw, {a})
  BY <1>2, <1>4, GatheredList
<1>6. n \in T <=> Meets(Sentences(raw), RawWith(a))
  BY <1>1, <1>2 DEF T
<1>7. raw \in RawWith(a) <=> Meets(raw, {a})
  BY <1>2 DEF RawWith, Having
<1>8. QED  BY <1>3, <1>5, <1>6, <1>7

\* One sentence is one more text.
LEMMA AddSentenceWith ==
    ASSUME NEW a, NEW u \in UnitList, NEW raw \in Text
    PROVE  Meets(AddSentence(u, raw), ListWith(a)) <=> Meets(u, ListWith(a)) \/ raw \in RawWith(a)
<1> DEFINE t == Tok("text", raw, "", FALSE)
           v == AddToLast(u, t)
           e == <<>>
<1>1. t \in Token /\ t.raw = raw /\ t.kind = "text"
  BY TokText DEF Tok
<1>2. t \in TokWith(a) <=> raw \in RawWith(a)
  BY <1>1 DEF TokWith
<1>3. AddSentence(u, raw) = v \/ AddSentence(u, raw) = Append(v, e)
  BY DEF AddSentence
<1> HIDE DEF t
<1>4. v \in UnitList /\ e \in TokenList
  BY <1>1, AddTokenToLast, NoTokens
<1>5. Meets(v, ListWith(a)) <=> Meets(u, ListWith(a)) \/ t \in TokWith(a)
  BY <1>1, MeetsAddToLast DEF ListWith, UnitList, TokenList
<1>6. ~(e \in ListWith(a))
  BY MeetsNothing DEF ListWith, Having
<1> HIDE DEF v, e
<1>7. v \in Seq(TokenList)
  BY <1>4 DEF UnitList
<1>8. Meets(Append(v, e), ListWith(a)) <=> Meets(v, ListWith(a)) \/ e \in ListWith(a)
  BY <1>4, <1>7, MeetsAppend
<1>9. QED  BY <1>2, <1>3, <1>5, <1>6, <1>8

\* All sentences.
LEMMA AddSentencesWith ==
    ASSUME NEW a, NEW u \in UnitList, NEW sentences \in Seq(Text)
    PROVE  Meets(AddSentences(u, sentences), ListWith(a)) <=> Meets(u, ListWith(a)) \/ Meets(sentences, RawWith(a))
<1> DEFINE n == Len(sentences)
<1>1. PICK h : /\ AddSentences(u, sentences) = h[n] /\ h[0] = u
               /\ \A i \in 0 .. n : h[i] \in UnitList
               /\ \A i \in 1 .. n : h[i] = AddSentence(h[i - 1], sentences[i])
  BY AddSentencesFold
<1> DEFINE T == {i \in 0 .. n : Meets(h[i], ListWith(a))}
<1>2. n \in Nat /\ n \in 0 .. n /\ 0 \in 0 .. n
  OBVIOUS
<1>3. ASSUME NEW i \in 1 .. n
      PROVE  i \in T <=> i - 1 \in T \/ sentences[i] \in RawWith(a)
  <2>1. sentences[i] \in Text
    OBVIOUS
  <2> HIDE DEF n
  <2>2. i \in 0 .. n /\ i - 1 \in 0 .. n
    BY <1>2
  <2>3. h[i - 1] \in UnitList /\ h[i] = AddSentence(h[i - 1], sentences[i])
    BY <1>1, <2>2
  <2>4. Meets(h[i], ListWith(a)) <=> Meets(h[i - 1], ListWith(a)) \/ sentences[i] \in RawWith(a)
    BY <2>1, <2>3, AddSentenceWith
  <2>5. QED  BY <2>2, <2>4
<1> HIDE DEF T
<1>4. n \in T <=> 0 \in T \/ Meets(sentences, RawWith(a))
  BY <1>3, GatheredList
<1>5. (n \in T <=> Meets(h[n], ListWith(a))) /\ (0 \in T <=> Meets(u, ListWith(a)))
  BY <1>1, <1>2 DEF T
<1>6. QED  BY <1>1, <1>4, <1>5

\* One token of a run.
LEMMA AddTokenWith ==
    ASSUME NEW a, NEW tokens \in TokenList, NEW u \in UnitList, NEW i \in 1 .. Len(tokens)
    PROVE  Meets(AddToken(u, tokens, i), ListWith(a)) <=> Meets(u, ListWith(a)) \/ tokens[i] \in TokWith(a)
<1> DEFINE t == tokens[i]
           ss == Sentences(t.raw)
<1>1. t \in Token
  BY DEF TokenList
<1> HIDE DEF t
<1>2. ss \in Seq(Text) /\ t.raw \in Text
  BY <1>1, TokenRaw, SentencesText
<1>3. \/ AddToken(u, tokens, i) = AddToLast(u, t)
      \/ t.kind = "text" /\ AddToken(u, tokens, i) = AddSentences(u, ss)
  BY DEF AddToken, t
<1>4. Meets(AddToLast(u, t), ListWith(a)) <=> Meets(u, ListWith(a)) \/ t \in TokWith(a)
  BY <1>1, MeetsAddToLast DEF ListWith, UnitList, TokenList
<1>5. Meets(ss, RawWith(a)) <=> t.raw \in RawWith(a)
  BY <1>2, SentencesWith
<1> HIDE DEF ss
<1>6. Meets(AddSentences(u, ss), ListWith(a)) <=> Meets(u, ListWith(a)) \/ Meets(ss, RawWith(a))
  BY <1>2, AddSentencesWith
<1>7. t.kind = "text" => (t \in TokWith(a) <=> t.raw \in RawWith(a))
  BY <1>1 DEF TokWith
<1>8. QED  BY <1>3, <1>4, <1>5, <1>6, <1>7 DEF t

\* The units of a run.
LEMMA UnitsWith ==
    ASSUME NEW a, NEW tokens \in TokenList
    PROVE  Meets(Units(tokens), ListWith(a)) <=> tokens \in ListWith(a)
<1> DEFINE n == Len(tokens)
<1>1. PICK h : /\ Units(tokens) = h[n] /\ h[0] = << <<>> >>
               /\ \A i \in 0 .. n : h[i] \in UnitList
               /\ \A i \in 1 .. n : h[i] = AddToken(h[i - 1], tokens, i)
  BY UnitsFold
<1> DEFINE T == {i \in 0 .. n : Meets(h[i], ListWith(a))}
<1>2. n \in Nat /\ n \in 0 .. n /\ 0 \in 0 .. n /\ tokens \in Seq(Token)
  BY DEF TokenList
<1>3. 0 \notin T
  <2> DEFINE e == <<>>
  <2>1. e \in TokenList /\ e \notin ListWith(a)
    BY NoTokens, MeetsNothing DEF ListWith, Having
  <2>2. h[0] = <<e>>
    BY <1>1
  <2> HIDE DEF e
  <2>3. Meets(h[0], ListWith(a)) <=> e \in ListWith(a)
    BY <2>2, MeetsOne
  <2>4. QED  BY <2>1, <2>3
<1>4. ASSUME NEW i \in 1 .. n
      PROVE  i \in T <=> i - 1 \in T \/ tokens[i] \in TokWith(a)
  <2>1. i \in 0 .. n /\ i - 1 \in 0 .. n
    <3> HIDE DEF n
    <3>1. QED  BY <1>2
  <2>2. h[i - 1] \in UnitList /\ h[i] = AddToken(h[i - 1], tokens, i)
    BY <1>1, <2>1
  <2>3. Meets(h[i], ListWith(a)) <=> Meets(h[i - 1], ListWith(a)) \/ tokens[i] \in TokWith(a)
    BY <2>2, AddTokenWith
  <2> HIDE DEF n
  <2>4. QED  BY <2>1, <2>3
<1> HIDE DEF T
<1>5. n \in T <=> 0 \in T \/ Meets(tokens, TokWith(a))
  BY <1>2, <1>4, GatheredList
<1>6. n \in T <=> Meets(Units(tokens), ListWith(a))
  BY <1>1, <1>2 DEF T
<1>7. tokens \in ListWith(a) <=> Meets(tokens, TokWith(a))
  BY <1>2 DEF ListWith, Having
<1>8. QED  BY <1>3, <1>5, <1>6, <1>7

\* Joining one more unit.
LEMMA JoinWith ==
    ASSUME NEW a, NEW chunks \in Seq(TokenList), NEW unit \in TokenList
    PROVE  Meets(Join(chunks, unit), ListWith(a)) <=> Meets(chunks, ListWith(a)) \/ unit \in ListWith(a)
<1> DEFINE b == Front(chunks)
           c == Last(chunks)
           d == c \o unit
<1>1. CASE chunks # <<>> /\ Join(chunks, unit) = Append(b, d)
  <2>1. b \in Seq(TokenList) /\ c \in TokenList /\ chunks = Append(b, c)
    BY <1>1, FrontAndLast
  <2> HIDE DEF b, c
  <2>2. d \in TokenList
    BY <2>1, RawBoth DEF TokenList
  <2>3. Meets(d, TokWith(a)) <=> Meets(c, TokWith(a)) \/ Meets(unit, TokWith(a))
    BY <2>1, MeetsConcat DEF TokenList
  <2> HIDE DEF d
  <2>4. d \in ListWith(a) <=> c \in ListWith(a) \/ unit \in ListWith(a)
    BY <2>1, <2>2, <2>3 DEF ListWith, Having, TokenList
  <2>5. /\ Meets(Append(b, d), ListWith(a)) <=> Meets(b, ListWith(a)) \/ d \in ListWith(a)
        /\ Meets(chunks, ListWith(a)) <=> Meets(b, ListWith(a)) \/ c \in ListWith(a)
    BY <2>1, <2>2, MeetsAppend
  <2>6. QED  BY <1>1, <2>4, <2>5
<1>2. CASE Join(chunks, unit) = Append(chunks, unit)
  BY <1>2, MeetsAppend
<1>3. CASE unit = <<>> /\ Join(chunks, unit) = chunks
  BY <1>3, MeetsNothing DEF ListWith, Having
<1>4. QED  BY <1>1, <1>2, <1>3 DEF Join

\* All units, joined.
LEMMA JoinedWith ==
    ASSUME NEW a, NEW units \in Seq(TokenList)
    PROVE  Meets(Joined(units), ListWith(a)) <=> Meets(units, ListWith(a))
<1> DEFINE n == Len(units)
<1>1. PICK h : /\ Joined(units) = h[n] /\ h[0] = <<>>
               /\ \A i \in 0 .. n : h[i] \in Seq(TokenList)
               /\ \A i \in 1 .. n : h[i] = Join(h[i - 1], units[i])
  BY JoinedFold
<1> DEFINE T == {i \in 0 .. n : Meets(h[i], ListWith(a))}
<1>2. n \in Nat /\ n \in 0 .. n /\ 0 \in 0 .. n
  OBVIOUS
<1>3. 0 \notin T
  BY <1>1, MeetsNothing
<1>4. ASSUME NEW i \in 1 .. n
      PROVE  i \in T <=> i - 1 \in T \/ units[i] \in ListWith(a)
  <2>1. units[i] \in TokenList
    OBVIOUS
  <2> HIDE DEF n
  <2>2. i \in 0 .. n /\ i - 1 \in 0 .. n
    BY <1>2
  <2>3. h[i - 1] \in Seq(TokenList) /\ h[i] = Join(h[i - 1], units[i])
    BY <1>1, <2>2
  <2>4. Meets(h[i], ListWith(a)) <=> Meets(h[i - 1], ListWith(a)) \/ units[i] \in ListWith(a)
    BY <2>1, <2>3, JoinWith
  <2>5. QED  BY <2>2, <2>4
<1> HIDE DEF T
<1>5. n \in T <=> 0 \in T \/ Meets(units, ListWith(a))
  BY <1>4, GatheredList
<1>6. n \in T <=> Meets(h[n], ListWith(a))
  BY <1>2 DEF T
<1>7. QED  BY <1>1, <1>3, <1>5, <1>6

\* _chunks.
LEMMA ChunksWith ==
    ASSUME NEW a, NEW tokens \in TokenList
    PROVE  Meets(_chunks(tokens), ListWith(a)) <=> tokens \in ListWith(a)
<1> DEFINE u == Units(tokens)
<1>1. u \in Seq(TokenList) /\ (Meets(u, ListWith(a)) <=> tokens \in ListWith(a))
  BY UnitsText, UnitsWith DEF UnitList
<1>2. _chunks(tokens) = <<tokens>> \/ _chunks(tokens) = Joined(u)
  BY DEF _chunks
<1> HIDE DEF u
<1>3. Meets(Joined(u), ListWith(a)) <=> Meets(u, ListWith(a))
  BY <1>1, JoinedWith
<1>4. Meets(<<tokens>>, ListWith(a)) <=> tokens \in ListWith(a)
  BY MeetsOne
<1>5. QED  BY <1>1, <1>2, <1>3, <1>4

\* Tokens without text have no atom.
LEMMA NonEmptyWith ==
    ASSUME NEW a, NEW tokens \in TokenList
    PROVE  NonEmpty(tokens) \in ListWith(a) <=> tokens \in ListWith(a)
<1> DEFINE n == Len(tokens)
<1>1. PICK h : /\ NonEmpty(tokens) = h[n] /\ h[0] = <<>>
               /\ \A i \in 0 .. n : h[i] \in TokenList
               /\ \A i \in 1 .. n : h[i] = KeepToken(h[i - 1], tokens[i])
  BY NonEmptyFold
<1> DEFINE T == {i \in 0 .. n : Meets(h[i], TokWith(a))}
<1>2. n \in Nat /\ n \in 0 .. n /\ 0 \in 0 .. n /\ tokens \in Seq(Token)
  BY DEF TokenList
<1>3. 0 \notin T
  BY <1>1, MeetsNothing
<1>4. ASSUME NEW i \in 1 .. n
      PROVE  i \in T <=> i - 1 \in T \/ tokens[i] \in TokWith(a)
  <2> DEFINE t == tokens[i]
             u == h[i - 1]
  <2>1. t \in Token
    BY <1>2
  <2> HIDE DEF n
  <2>2. i \in 0 .. n /\ i - 1 \in 0 .. n
    BY <1>2
  <2>3. u \in Seq(Token) /\ h[i] = KeepToken(u, t)
    BY <1>1, <2>2 DEF TokenList
  <2>4. t.raw = <<>> => t \notin TokWith(a)
    BY MeetsNothing DEF TokWith, RawWith, Having
  <2>5. h[i] = IF t.raw = <<>> THEN u ELSE Append(u, t)
    BY <2>3 DEF KeepToken
  <2> HIDE DEF t, u
  <2>6. Meets(Append(u, t), TokWith(a)) <=> Meets(u, TokWith(a)) \/ t \in TokWith(a)
    BY <2>1, <2>3, MeetsAppend
  <2>7. QED  BY <2>2, <2>4, <2>5, <2>6 DEF t, u
<1> HIDE DEF T
<1>5. n \in T <=> 0 \in T \/ Meets(tokens, TokWith(a))
  BY <1>2, <1>4, GatheredList
<1>6. (n \in T <=> Meets(h[n], TokWith(a))) /\ h[n] \in TokenList
  BY <1>1, <1>2 DEF T
<1>7. QED  BY <1>1, <1>2, <1>3, <1>5, <1>6 DEF ListWith, Having, TokenList

(*******************************************************************************)
(* _emit: text that is not white space stays in the segments.                  *)
(*******************************************************************************)
\* The atom a is text of one of the segments.
InDoc(a, segments) == \E k \in DOMAIN segments : segments[k].tokens \in ListWith(a)

\* One more segment.
LEMMA InDocAppend ==
    ASSUME NEW a, NEW X, NEW segments \in Seq(X), NEW s \in X
    PROVE  InDoc(a, Append(segments, s)) <=> InDoc(a, segments) \/ s.tokens \in ListWith(a)
<1> DEFINE n == Len(segments)
           b == Append(segments, s)
<1>1. n \in Nat /\ DOMAIN segments = 1 .. n
  OBVIOUS
<1>2. DOMAIN b = 1 .. (n + 1) /\ b[n + 1] = s /\ \A i \in 1 .. n : b[i] = segments[i]
  OBVIOUS
<1>3. \A i \in 1 .. (n + 1) : i = n + 1 \/ i \in 1 .. n
  BY <1>1
<1>4. n + 1 \in 1 .. (n + 1) /\ \A i \in 1 .. n : i \in 1 .. (n + 1)
  BY <1>1
<1> HIDE DEF b, n
<1>5. QED  BY <1>1, <1>2, <1>3, <1>4 DEF InDoc, b

\* What strip() takes away is white space.
LEMMA StripWith ==
    ASSUME NEW a, NEW raw \in Text
    PROVE  /\ SubSeq(raw, LStrip(raw) + 1, Len(raw)) \in RawWith(a) => raw \in RawWith(a)
           /\ SubSeq(raw, 1, RStrip(raw)) \in RawWith(a) => raw \in RawWith(a)
           /\ KindOfAtom(a) # "ws" /\ raw \in RawWith(a) =>
                 /\ SubSeq(raw, LStrip(raw) + 1, Len(raw)) \in RawWith(a)
                 /\ SubSeq(raw, 1, RStrip(raw)) \in RawWith(a)
<1> DEFINE n == Len(raw)
           W == Words(raw)
           lo == LStrip(raw)
           hi == RStrip(raw)
           H == SubSeq(raw, 1, lo)
           R == SubSeq(raw, lo + 1, n)
           B == SubSeq(raw, 1, hi)
           T == SubSeq(raw, hi + 1, n)
<1>1. raw \in Seq(AtomSet) /\ n \in Nat /\ W \subseteq 1 .. n /\ lo \in 0 .. n /\ hi \in 0 .. n /\ DOMAIN raw = 1 .. n
  BY StripBounds DEF Words, Text
<1>2. H \in Text /\ R \in Text /\ H \o R = raw /\ B \in Text /\ T \in Text /\ B \o T = raw
  BY <1>1, TextCut
<1>3. ASSUME KindOfAtom(a) # "ws", NEW j \in 1 .. n, raw[j] = a
      PROVE  lo < j /\ j <= hi
  <2>1. j \in W
    BY <1>1, <1>3 DEF Words
  <2>2. W # {} /\ W \subseteq Nat /\ W \subseteq 0 .. n
    BY <1>1, <2>1
  <2>3. lo = (CHOOSE i \in W : \A k \in W : i <= k) - 1 /\ hi = CHOOSE i \in W : \A k \in W : i >= k
    BY <2>2 DEF LStrip, RStrip
  <2> HIDE DEF W, lo, hi, n
  <2>4. \E i \in W : \A k \in W : i <= k
    BY <2>2, LeastNumber
  <2>5. \E i \in W : \A k \in W : i >= k
    BY <1>1, <2>2, GreatestNumber
  <2>6. PICK x \in W : lo = x - 1 /\ \A k \in W : x <= k
    BY <2>3, <2>4
  <2>7. PICK y \in W : hi = y /\ \A k \in W : y >= k
    BY <2>3, <2>5
  <2>8. QED  BY <2>1, <2>2, <2>6, <2>7
<1> HIDE DEF lo, hi, n
<1>4. KindOfAtom(a) # "ws" => ~Meets(H, {a})
  <2>1. DOMAIN H = 1 .. lo /\ \A j \in 1 .. lo : H[j] = raw[j] /\ j \in 1 .. n
    BY <1>1 DEF n
  <2>2. QED  BY <1>1, <1>3, <2>1 DEF Meets
<1>5. KindOfAtom(a) # "ws" => ~Meets(T, {a})
  <2>1. DOMAIN T = 1 .. (n - hi) /\ \A j \in 1 .. (n - hi) : T[j] = raw[hi + j] /\ hi + j \in 1 .. n /\ ~(hi + j <= hi)
    <3>1. raw \in Seq(AtomSet) /\ n \in Nat /\ hi \in Nat /\ hi <= n
      BY <1>1
    <3>2. T \in Seq(AtomSet) /\ Len(T) = n - hi /\ \A j \in 1 .. (n - hi) : T[j] = raw[hi + j]
      BY <3>1 DEF n
    <3>3. DOMAIN T = 1 .. (n - hi)
      BY <3>1, <3>2
    <3>4. \A j \in 1 .. (n - hi) : hi + j \in 1 .. n /\ ~(hi + j <= hi)
      BY <3>1
    <3> HIDE DEF T
    <3>5. QED  BY <3>2, <3>3, <3>4
  <2>2. QED  BY <1>1, <1>3, <2>1 DEF Meets
<1> HIDE DEF H, R, B, T
<1>6. (Meets(raw, {a}) <=> Meets(H, {a}) \/ Meets(R, {a})) /\ (Meets(raw, {a}) <=> Meets(B, {a}) \/ Meets(T, {a}))
  <2>1. Meets(H \o R, {a}) <=> Meets(H, {a}) \/ Meets(R, {a})
    BY <1>2, MeetsConcat DEF Text
  <2>2. Meets(B \o T, {a}) <=> Meets(B, {a}) \/ Meets(T, {a})
    BY <1>2, MeetsConcat DEF Text
  <2>3. QED  BY <1>2, <2>1, <2>2
<1>7. \A x \in Text : x \in RawWith(a) <=> Meets(x, {a})
  BY DEF RawWith, Having, Text
<1>8. QED  BY <1>2, <1>4, <1>5, <1>6, <1>7 DEF R, B, n, lo, hi

\* A token with another text that has the atom only if, or also if, the old one has it.
LEMMA OtherRawWith ==
    ASSUME NEW a, NEW s \in TokenList, NEW i \in 1 .. Len(s), NEW r \in Text
    PROVE  /\ (s[i].kind = "text" /\ r \in RawWith(a) => s[i].raw \in RawWith(a)) =>
                 ([s EXCEPT ![i].raw = r] \in ListWith(a) => s \in ListWith(a))
           /\ (s[i].kind = "text" /\ s[i].raw \in RawWith(a) => r \in RawWith(a)) =>
                 (s \in ListWith(a) => [s EXCEPT ![i].raw = r] \in ListWith(a))
<1> DEFINE n == Len(s)
           t == s[i]
           c == [t EXCEPT !.raw = r]
           v == [s EXCEPT ![i].raw = r]
<1>1. s \in Seq(Token) /\ n \in Nat /\ DOMAIN s = 1 .. n /\ t \in Token
  BY DEF TokenList
<1>2. c \in Token /\ c.raw = r /\ c.kind = t.kind
  BY <1>1 DEF Token
<1>3. v = [s EXCEPT ![i] = c]
  BY <1>1
<1>4. /\ (t.kind = "text" /\ r \in RawWith(a) => t.raw \in RawWith(a)) => (c \in TokWith(a) => t \in TokWith(a))
      /\ (t.kind = "text" /\ t.raw \in RawWith(a) => r \in RawWith(a)) => (t \in TokWith(a) => c \in TokWith(a))
  BY <1>1, <1>2 DEF TokWith
<1> HIDE DEF v, c
<1>5. v \in Seq(Token) /\ DOMAIN v = 1 .. n /\ v[i] = c /\ \A j \in 1 .. n : j # i => v[j] = s[j]
  BY <1>1, <1>2, <1>3
<1>6. /\ (c \in TokWith(a) => t \in TokWith(a)) => (Meets(v, TokWith(a)) => Meets(s, TokWith(a)))
      /\ (t \in TokWith(a) => c \in TokWith(a)) => (Meets(s, TokWith(a)) => Meets(v, TokWith(a)))
  <2> HIDE DEF n
  <2>1. i \in 1 .. n
    BY DEF n
  <2>2. \A j \in 1 .. n : (j = i /\ v[j] = c /\ s[j] = t) \/ v[j] = s[j]
    BY <1>5, <2>1
  <2> HIDE DEF t
  <2>3. QED  BY <1>1, <1>5, <2>1, <2>2 DEF Meets
<1>7. /\ v \in ListWith(a) <=> Meets(v, TokWith(a))
      /\ s \in ListWith(a) <=> Meets(s, TokWith(a))
  BY <1>1, <1>5 DEF ListWith, Having
<1>8. QED  BY <1>4, <1>6, <1>7 DEF v

\* _emit: what is not white space is in the new segment.
LEMMA EmitWith ==
    ASSUME NEW a, NEW q0, NEW L, q0.context \in L, NEW q \in DocSet(q0, L), NEW all \in TokenList
    PROVE  /\ InDoc(a, _emit(q, all).segments) => InDoc(a, q.segments) \/ all \in ListWith(a)
           /\ KindOfAtom(a) # "ws" /\ (InDoc(a, q.segments) \/ all \in ListWith(a)) =>
                 InDoc(a, _emit(q, all).segments)
<1> DEFINE tokens == NonEmpty(all)
           n == Len(tokens)
           visible == \E i \in 1 .. n : tokens[i].kind = "text" /\ Visible(tokens[i].raw)
           parts == q.parts
           segments == q.segments
<1>1. tokens \in TokenList /\ (tokens \in ListWith(a) <=> all \in ListWith(a))
  BY NonEmptyText, NonEmptyWith
<1>2. segments \in Seq(Segment(L)) /\ Len(segments) \in Nat /\ q.context \in L
  BY DEF DocSet, IsDoc, Machine
<1>3. n \in Nat /\ DOMAIN tokens = 1 .. n /\ \A i \in 1 .. n : tokens[i] \in Token
  BY <1>1 DEF TokenList
<1>4. IsMachine(q)
  BY DEF DocSet, Machine, IsMachine
<1>5. CASE ~visible
  <2> DEFINE x == parts \o Unchanged([i \in 1 .. n |-> tokens[i].raw])
  <2>1. _emit(q, all) = [q EXCEPT !.parts = x]
    BY <1>5 DEF _emit
  <2> HIDE DEF x
  <2>2. _emit(q, all).segments = segments
    BY <1>4, <2>1 DEF IsMachine
  <2>3. KindOfAtom(a) # "ws" => tokens \notin ListWith(a)
    <3> SUFFICES ASSUME KindOfAtom(a) # "ws", tokens \in ListWith(a) PROVE FALSE
      OBVIOUS
    <3> HIDE DEF tokens, n
    <3>1. PICK i \in 1 .. n : tokens[i] \in TokWith(a)
      BY <1>3 DEF ListWith, Having, Meets
    <3>2. tokens[i].kind = "text" /\ Visible(tokens[i].raw)
      BY <3>1 DEF TokWith, RawWith, Having, Meets, Visible
    <3>3. QED  BY <1>5, <3>2 DEF n
  <2>4. QED  BY <1>1, <2>2, <2>3
<1>6. CASE visible
  <2>1. n # 0 /\ 1 \in 1 .. n /\ n \in 1 .. n
    BY <1>3, <1>6
  <2>2. tokens # <<>>
    BY <2>1
  <2> DEFINE raw1 == tokens[1].raw
             head == IF tokens[1].kind = "text" THEN LStrip(raw1) ELSE 0
             H == SubSeq(raw1, 1, head)
             R == SubSeq(raw1, head + 1, Len(raw1))
             first == [tokens EXCEPT ![1].raw = R]
             rawn == first[n].raw
             tail == IF first[n].kind = "text" THEN RStrip(rawn) ELSE Len(rawn)
             B == SubSeq(rawn, 1, tail)
             T == SubSeq(rawn, tail + 1, Len(rawn))
             both == [first EXCEPT ![n].raw = B]
             k == Len(segments) + 1
             s == [tokens |-> NonEmpty(both), lang |-> q.context]
             new == << [slot |-> 0, raw |-> H], [slot |-> k, raw |-> <<>>], [slot |-> 0, raw |-> T] >>
             segs == Append(segments, s)
  <2>3. raw1 \in Text /\ Len(raw1) \in Nat
    BY <1>3, <2>1, TokenRaw DEF Text
  <2>4. head \in 0 .. Len(raw1)
    BY <2>3, StripBounds
  <2>5. H \in Text /\ R \in Text /\ H \o R = raw1
    <3> HIDE DEF head, raw1
    <3>1. QED  BY <2>3, <2>4, TextCut
  <2>6. /\ tokens[1].kind = "text" /\ R \in RawWith(a) => raw1 \in RawWith(a)
        /\ KindOfAtom(a) # "ws" => (tokens[1].kind = "text" /\ raw1 \in RawWith(a) => R \in RawWith(a))
    <3> HIDE DEF raw1
    <3>1. QED  BY <2>3, StripWith
  <2>7. first \in TokenList /\ Len(first) = n
    <3> HIDE DEF H, R, tokens
    <3>1. H \o R = tokens[1].raw
      BY <2>5 DEF raw1
    <3>2. QED  BY <1>1, <2>2, <2>5, <3>1, CutFirst
  <2>8. /\ first \in ListWith(a) => tokens \in ListWith(a)
        /\ KindOfAtom(a) # "ws" => (tokens \in ListWith(a) => first \in ListWith(a))
    <3> HIDE DEF R, tokens
    <3>1. /\ tokens[1].kind = "text" /\ R \in RawWith(a) => tokens[1].raw \in RawWith(a)
          /\ KindOfAtom(a) # "ws" => (tokens[1].kind = "text" /\ tokens[1].raw \in RawWith(a) => R \in RawWith(a))
      BY <2>6 DEF raw1
    <3>2. QED  BY <1>1, <2>1, <2>5, <3>1, OtherRawWith
  <2>9. _emit(q, all) = [q EXCEPT !.segments = segs, !.parts = parts \o new]
    BY <1>6 DEF _emit
  <2> HIDE DEF H, R
  <2>10. first # <<>> /\ first[n] \in Token /\ n \in 1 .. Len(first)
    BY <2>1, <2>7 DEF TokenList
  <2>11. rawn \in Text /\ Len(rawn) \in Nat
    <3> HIDE DEF first
    <3>1. QED  BY <2>10, TokenRaw DEF Text
  <2>12. tail \in 0 .. Len(rawn)
    <3> HIDE DEF first, rawn
    <3>1. QED  BY <2>11, StripBounds
  <2>13. B \in Text /\ T \in Text /\ B \o T = rawn
    <3> HIDE DEF tail, rawn
    <3>1. QED  BY <2>11, <2>12, TextCut
  <2>14. /\ first[n].kind = "text" /\ B \in RawWith(a) => first[n].raw \in RawWith(a)
         /\ KindOfAtom(a) # "ws" => (first[n].kind = "text" /\ first[n].raw \in RawWith(a) => B \in RawWith(a))
    <3> HIDE DEF first
    <3>1. QED  BY <2>11, StripWith
  <2>15. both \in TokenList
    <3> HIDE DEF B, T, first, n
    <3>1. B \o T = first[Len(first)].raw /\ both = [first EXCEPT ![Len(first)].raw = B]
      BY <2>7, <2>13 DEF rawn
    <3>2. QED  BY <2>7, <2>10, <2>13, <3>1, CutLast
  <2>16. /\ both \in ListWith(a) => first \in ListWith(a)
         /\ KindOfAtom(a) # "ws" => (first \in ListWith(a) => both \in ListWith(a))
    <3> HIDE DEF B, first, n
    <3>1. QED  BY <2>7, <2>10, <2>13, <2>14, OtherRawWith
  <2> HIDE DEF both, first, new
  <2>17. s \in Segment(L) /\ (s.tokens \in ListWith(a) <=> both \in ListWith(a))
    BY <1>2, <2>15, NonEmptyText, NonEmptyWith DEF Segment
  <2> HIDE DEF s
  <2>18. InDoc(a, segs) <=> InDoc(a, segments) \/ s.tokens \in ListWith(a)
    BY <1>2, <2>17, InDocAppend
  <2> HIDE DEF segs
  <2>19. _emit(q, all).segments = segs
    BY <1>4, <2>9 DEF IsMachine
  <2>20. QED  BY <1>1, <2>8, <2>16, <2>17, <2>18, <2>19
<1>7. QED  BY <1>5, <1>6

\* All chunks.
LEMMA EmitAllWith ==
    ASSUME NEW a, NEW L, NEW q, q.context \in L, q \in DocSet(q, L), NEW chunks \in Seq(TokenList)
    PROVE  /\ InDoc(a, EmitAll(q, chunks).segments) => InDoc(a, q.segments) \/ Meets(chunks, ListWith(a))
           /\ KindOfAtom(a) # "ws" /\ (InDoc(a, q.segments) \/ Meets(chunks, ListWith(a))) =>
                 InDoc(a, EmitAll(q, chunks).segments)
<1> DEFINE n == Len(chunks)
<1>1. PICK h : /\ EmitAll(q, chunks) = h[n] /\ h[0] = q
               /\ \A i \in 0 .. n : h[i] \in DocSet(q, L)
               /\ \A i \in 1 .. n : h[i] = _emit(h[i - 1], chunks[i])
  BY EmitAllFold
<1> DEFINE T == {i \in 0 .. n : InDoc(a, h[i].segments)}
<1>2. n \in Nat /\ n \in 0 .. n /\ 0 \in 0 .. n
  OBVIOUS
<1>3. ASSUME NEW i \in 1 .. n
      PROVE  /\ i \in T => i - 1 \in T \/ chunks[i] \in ListWith(a)
             /\ KindOfAtom(a) # "ws" => (i \in T <=> i - 1 \in T \/ chunks[i] \in ListWith(a))
  <2>1. chunks[i] \in TokenList
    OBVIOUS
  <2> HIDE DEF n
  <2>2. i \in 0 .. n /\ i - 1 \in 0 .. n
    BY <1>2
  <2>3. h[i - 1] \in DocSet(q, L) /\ h[i] = _emit(h[i - 1], chunks[i])
    BY <1>1, <2>2
  <2>4. /\ InDoc(a, h[i].segments) => InDoc(a, h[i - 1].segments) \/ chunks[i] \in ListWith(a)
        /\ KindOfAtom(a) # "ws" /\ (InDoc(a, h[i - 1].segments) \/ chunks[i] \in ListWith(a)) =>
              InDoc(a, h[i].segments)
    BY <2>1, <2>3, EmitWith
  <2>5. QED  BY <2>2, <2>4
<1> HIDE DEF T
<1>4. /\ n \in T => 0 \in T \/ Meets(chunks, ListWith(a))
      /\ KindOfAtom(a) # "ws" => (n \in T <=> 0 \in T \/ Meets(chunks, ListWith(a)))
  BY <1>3, GatheredList, GatheredAtMost
<1>5. (n \in T <=> InDoc(a, h[n].segments)) /\ (0 \in T <=> InDoc(a, q.segments))
  BY <1>1, <1>2 DEF T
<1>6. QED  BY <1>1, <1>4, <1>5

(*******************************************************************************)
(* _flush: what is offered for translation moves from the run to the segments. *)
(*******************************************************************************)
\* Text outside of the segments adds no segment.
LEMMA WithTextSegments ==
    ASSUME NEW q, IsMachine(q), NEW raws
    PROVE  WithText(q, raws).segments = q.segments
<1> DEFINE x == q.parts \o Unchanged(raws)
<1>1. WithText(q, raws) = [q EXCEPT !.parts = x]
  BY DEF WithText
<1> HIDE DEF x
<1>2. QED  BY <1>1 DEF IsMachine

\* _flush: the text of the run that is not white space is in segments.
LEMMA FlushWith ==
    ASSUME NEW a, NEW q, NEW L, q.context \in L, q \in DocSet(q, L), q.run \in TokenList
    PROVE  /\ InDoc(a, _flush(q).segments) => InDoc(a, q.segments) \/ q.run \in ListWith(a)
           /\ KindOfAtom(a) # "ws" /\ (InDoc(a, q.segments) \/ q.run \in ListWith(a)) =>
                 InDoc(a, _flush(q).segments)
<1> DEFINE run == q.run
           n == Len(run)
           q1 == [q EXCEPT !.run = <<>>]
<1>1. q1 \in DocSet(q1, L) /\ q1.context \in L /\ q1.segments = q.segments
  BY DocSetEmptied
<1>2. CASE run = <<>>
  <2>1. _flush(q) = q
    BY <1>2 DEF _flush
  <2>2. run \notin ListWith(a)
    BY <1>2, MeetsNothing DEF ListWith, Having
  <2>3. QED  BY <2>1, <2>2
<1>3. CASE run # <<>>
  <2> DEFINE matched == UNION {{pair[1], pair[2]} : pair \in matched_tag_pairs(run)}
             Edge(i) == run[i].kind = "tag" /\ i \notin matched
             inside  == {i \in DOMAIN run : ~Edge(i)}
             start   == IF inside = {} THEN Len(run) + 1 ELSE CHOOSE i \in inside : \A j \in inside : i <= j
             end     == IF inside = {} THEN Len(run) ELSE CHOOSE i \in inside : \A j \in inside : i >= j
             A == RawsFrom(run, 1, start - 1)
             C == RawsFrom(run, end + 1, Len(run))
             middle == SubSeq(run, start, end)
             before == WithText(q1, A)
             emitted == IF start > end THEN before ELSE EmitAll(before, _chunks(middle))
             after == WithText(emitted, C)
  <2>1. _flush(q) = after
    BY <1>3 DEF _flush, RawsFrom, WithText
  <2>2. n \in Nat /\ n # 0 /\ inside \subseteq 1 .. n /\ run \in Seq(Token) /\ DOMAIN run = 1 .. n
    BY <1>3 DEF TokenList
  <2>3. \A i \in 1 .. n : run[i] \in TokWith(a) => i \in inside
    BY <2>2 DEF TokWith
  <2> HIDE DEF inside
  <2>4. \/ inside = {} /\ start = n + 1 /\ end = n
        \/ start \in 1 .. n /\ end \in start .. n /\ \A j \in inside : start <= j /\ j <= end
    <3>1. CASE inside = {}
      BY <3>1
    <3>2. CASE inside # {}
      <4>1. inside \subseteq Nat /\ inside \subseteq 0 .. n
        BY <2>2
      <4>2. \E i \in inside : \A j \in inside : i <= j
        BY <3>2, <4>1, LeastNumber
      <4>3. \E i \in inside : \A j \in inside : i >= j
        BY <2>2, <3>2, <4>1, GreatestNumber
      <4>4. start \in inside /\ end \in inside /\ \A j \in inside : start <= j /\ end >= j
        BY <3>2, <4>2, <4>3
      <4> HIDE DEF start, end
      <4>5. start \in 1 .. n /\ end \in 1 .. n /\ start <= end
        BY <2>2, <4>4
      <4>6. \A j \in inside : start <= j /\ j <= end
        BY <2>2, <4>4, <4>5
      <4>7. QED  BY <2>2, <4>5, <4>6
    <3>3. QED  BY <3>1, <3>2
  <2> HIDE DEF start, end, q1
  <2>5. start \in 1 .. (n + 1) /\ end \in Nat /\ end <= n /\ start - 1 <= end /\ 1 <= end + 1
    BY <2>2, <2>4
  <2>6. A \in Seq(Text)
    <3>1. 1 \in 1 .. (Len(run) + 1) /\ start - 1 \in (1 - 1) .. Len(run)
      BY <2>2, <2>5
    <3>2. QED  BY <3>1, RawsFromText
  <2> HIDE DEF A, C
  <2>7. before \in DocSet(q1, L) /\ before.segments = q.segments
    <3>1. IsMachine(q1)
      BY <1>1, MachineDoc
    <3>2. QED  BY <1>1, <2>6, <3>1, DocSetText, WithTextSegments
  <2>8. before \in DocSet(before, L) /\ before.context \in L
    BY <1>1, <2>7, DocSetSelf
  <2> HIDE DEF before
  <2>9. CASE start \in 1 .. n /\ end \in start .. n /\ \A j \in inside : start <= j /\ j <= end
    <3>1. middle \in TokenList
      BY <2>9, ThreeRuns
    <3>2. middle \in ListWith(a) <=> run \in ListWith(a)
      <4> DEFINE m == end - start + 1
      <4>1. start \in Nat /\ 1 <= start /\ start <= end /\ m \in Nat
        BY <2>2, <2>9
      <4>2. run \in Seq(Token) /\ n \in Nat /\ start \in Nat /\ end \in Nat /\ 1 <= start /\ start <= end /\ end <= n
        BY <2>2, <2>5, <4>1
      <4>3. Len(middle) = m /\ \A i \in 1 .. m : middle[i] = run[start + i - 1]
        BY <4>2
      <4>4. DOMAIN middle = 1 .. m
        <5> HIDE DEF middle, m
        <5>1. QED  BY <3>1, <4>1, <4>3 DEF TokenList
      <4> HIDE DEF middle
      <4>5. \A i \in 1 .. m : start + i - 1 \in 1 .. n
        BY <4>2
      <4>6. ASSUME NEW j \in 1 .. n, run[j] \in TokWith(a)
            PROVE  (j - start) + 1 \in 1 .. m /\ middle[(j - start) + 1] = run[j]
        <5>1. start <= j /\ j <= end
          BY <2>3, <2>9, <4>6
        <5>2. (j - start) + 1 \in 1 .. m /\ start + ((j - start) + 1) - 1 = j
          BY <4>2, <5>1
        <5> HIDE DEF m
        <5>3. QED  BY <4>3, <5>2
      <4> HIDE DEF m
      <4>7. Meets(middle, TokWith(a)) <=> Meets(run, TokWith(a))
        <5> HIDE DEF n
        <5>1. ASSUME NEW i \in 1 .. m, middle[i] \in TokWith(a)
              PROVE  Meets(run, TokWith(a))
          <6>1. start + i - 1 \in DOMAIN run /\ run[start + i - 1] \in TokWith(a)
            BY <2>2, <4>3, <4>5, <5>1
          <6>2. QED  BY <6>1 DEF Meets
        <5>2. ASSUME NEW j \in 1 .. n, run[j] \in TokWith(a)
              PROVE  Meets(middle, TokWith(a))
          <6>1. (j - start) + 1 \in DOMAIN middle /\ middle[(j - start) + 1] \in TokWith(a)
            BY <4>4, <4>6, <5>2
          <6>2. QED  BY <6>1 DEF Meets
        <5>3. QED  BY <2>2, <4>4, <5>1, <5>2 DEF Meets
      <4>8. QED  BY <3>1, <4>7 DEF ListWith, Having, TokenList
    <3> HIDE DEF middle
    <3> DEFINE ch == _chunks(middle)
    <3>3. ch \in Seq(TokenList) /\ (Meets(ch, ListWith(a)) <=> middle \in ListWith(a))
      BY <3>1, ChunksText, ChunksWith
    <3> HIDE DEF ch
    <3>4. /\ EmitAll(before, ch) \in DocSet(before, L)
          /\ InDoc(a, EmitAll(before, ch).segments) => InDoc(a, before.segments) \/ Meets(ch, ListWith(a))
          /\ KindOfAtom(a) # "ws" /\ (InDoc(a, before.segments) \/ Meets(ch, ListWith(a))) =>
                InDoc(a, EmitAll(before, ch).segments)
      BY <2>8, <3>3, EmitAllText, EmitAllWith
    <3>5. ~(start > end)
      BY <2>2, <2>9
    <3>6. emitted = EmitAll(before, ch)
      BY <3>5 DEF ch
    <3> HIDE DEF emitted
    <3>7. IsMachine(emitted)
      <4>1. emitted \in DocSet(emitted, L)
        BY <3>4, <3>6, DocSetSelf
      <4>2. QED  BY <4>1, MachineDoc
    <3>8. after.segments = emitted.segments
      BY <3>7, WithTextSegments
    <3> HIDE DEF after
    <3>9. QED  BY <2>1, <2>7, <3>2, <3>3, <3>4, <3>6, <3>8
  <2>10. CASE inside = {} /\ start = n + 1 /\ end = n
    <3>1. start > end /\ emitted = before
      BY <2>2, <2>10
    <3> HIDE DEF emitted
    <3>2. IsMachine(before)
      BY <2>8, MachineDoc
    <3>3. after.segments = q.segments
      BY <2>7, <3>1, <3>2, WithTextSegments
    <3> HIDE DEF after
    <3>4. run \notin ListWith(a)
      BY <2>2, <2>3, <2>10 DEF ListWith, Having, Meets
    <3>5. QED  BY <2>1, <3>3, <3>4
  <2>11. QED  BY <2>4, <2>9, <2>10
<1>4. QED  BY <1>2, <1>3

(*******************************************************************************)
(* What is offered for translation, step by step.                              *)
(*******************************************************************************)
\* The atom a is text of a segment or of the run.
Offered(a, q) == InDoc(a, q.segments) \/ q.run \in ListWith(a)

\* r offers nothing that q did not, and all but white space.
Offers(a, r, q) ==
    /\ Offered(a, r) => Offered(a, q)
    /\ KindOfAtom(a) # "ws" /\ Offered(a, q) => Offered(a, r)

\* Steps that leave the segments and the run alone.
LEMMA SameOffers ==
    ASSUME NEW a, NEW q, NEW r, r.segments = q.segments, r.run = q.run
    PROVE  Offered(a, r) <=> Offered(a, q)
BY DEF Offered

\* One more token in the run.
LEMMA AppendOffers ==
    ASSUME NEW a, NEW q, Good(q), NEW t \in Token
    PROVE  Offered(a, _append(q, t)) <=> Offered(a, q) \/ t \in TokWith(a)
<1> DEFINE r == _append(q, t)
           c == IF q.run = <<>> THEN _context(q) ELSE q.context
           u == Append(q.run, t)
<1>1. IsMachine(q) /\ q.run \in Seq(Token)
  BY DEF Good, TokenList
<1>2. r = [q EXCEPT !.context = c, !.run = u]
  BY <1>1 DEF _append
<1>3. u \in Seq(Token) /\ (Meets(u, TokWith(a)) <=> Meets(q.run, TokWith(a)) \/ t \in TokWith(a))
  BY <1>1, MeetsAppend
<1> HIDE DEF c, u, r
<1>4. r.segments = q.segments /\ r.run = u
  BY <1>1, <1>2 DEF IsMachine
<1>5. QED  BY <1>1, <1>3, <1>4 DEF Offered, ListWith, Having, r

\* Tags and protected blocks are no text.
LEMMA OtherTokens == \A a, t : t.kind # "text" => t \notin TokWith(a)
BY DEF TokWith

\* Parts are no text to translate,
LEMMA PartOffers ==
    ASSUME NEW a, NEW q, Good(q), NEW raw
    PROVE  Offered(a, Part(q, raw)) <=> Offered(a, q)
<1> DEFINE x == Append(q.parts, [slot |-> 0, raw |-> raw])
<1>1. Part(q, raw) = [q EXCEPT !.parts = x]
  BY DEF Part, Good
<1> HIDE DEF x
<1>2. Part(q, raw).segments = q.segments /\ Part(q, raw).run = q.run
  BY <1>1 DEF Good, IsMachine
<1>3. QED  BY <1>2, SameOffers

\* nor is a new skip,
LEMMA SkipOffers ==
    ASSUME NEW a, NEW q, Good(q), NEW s
    PROVE  Offered(a, [q EXCEPT !.skip = s]) <=> Offered(a, q)
<1> DEFINE r == [q EXCEPT !.skip = s]
<1>1. r.segments = q.segments /\ r.run = q.run
  BY DEF Good, IsMachine
<1> HIDE DEF r
<1>2. Offered(a, r) <=> Offered(a, q)
  BY <1>1, SameOffers
<1>3. QED  BY <1>2 DEF r

\* nor the buffer of a protected element.
LEMMA BufferedOffers ==
    ASSUME NEW a, NEW q, Good(q), NEW raw
    PROVE  Offered(a, Buffered(q, raw)) <=> Offered(a, q)
<1> DEFINE s == [q.skip EXCEPT !.buffer = q.skip.buffer \o raw]
<1>1. Buffered(q, raw) = [q EXCEPT !.skip = s]
  BY DEF Buffered, Good
<1> HIDE DEF s
<1>2. QED  BY <1>1, SkipOffers

\* _flush moves what is offered.
LEMMA FlushOffers ==
    ASSUME NEW a, NEW q, NEW w, Reads(q, w), ~q.skip.on
    PROVE  Offers(a, _flush(q), q)
<1>1. IsMachine(q) /\ q.run \in TokenList
  BY DEF Reads, Good
<1>2. PICK L : q.context \in L /\ IsDoc(q.parts, q.segments, L)
  BY DEF Reads, Good
<1>3. q \in DocSet(q, L)
  BY <1>1, <1>2, MachineDoc
<1>4. /\ InDoc(a, _flush(q).segments) => InDoc(a, q.segments) \/ q.run \in ListWith(a)
      /\ KindOfAtom(a) # "ws" /\ (InDoc(a, q.segments) \/ q.run \in ListWith(a)) => InDoc(a, _flush(q).segments)
  BY <1>1, <1>2, <1>3, FlushWith
<1>5. _flush(q).run = <<>>
  BY FlushReads
<1>6. <<>> \notin ListWith(a)
  BY MeetsNothing DEF ListWith, Having
<1>7. QED  BY <1>4, <1>5, <1>6 DEF Offered, Offers

(*******************************************************************************)
(* Text, comments and protected elements, and what they offer.                 *)
(*******************************************************************************)
\* Two skips that differ in the buffer and the closers at most.
SameSkip(r, s) ==
    /\ r.on <=> s.on
    /\ r.to_run <=> s.to_run
    /\ r.name = s.name /\ r.depth = s.depth /\ r.inner = s.inner

\* More text in the buffer.
LEMMA BufferedSkip ==
    ASSUME NEW q, Good(q), NEW raw
    PROVE  SameSkip(Buffered(q, raw).skip, q.skip)
<1> DEFINE c == q.skip.buffer \o raw
           s == [q.skip EXCEPT !.buffer = c]
<1>1. IsMachine(q) /\ IsSkip(q.skip)
  BY DEF Good
<1>2. Buffered(q, raw) = [q EXCEPT !.skip = s]
  BY <1>1 DEF Buffered
<1> HIDE DEF c
<1>3. SameSkip(s, q.skip)
  <2>1. /\ s.on = q.skip.on /\ s.to_run = q.skip.to_run
        /\ s.name = q.skip.name /\ s.depth = q.skip.depth /\ s.inner = q.skip.inner
    BY <1>1 DEF IsSkip
  <2> HIDE DEF s
  <2>2. QED  BY <2>1 DEF SameSkip
<1> HIDE DEF s
<1>4. Buffered(q, raw).skip = s
  BY <1>1, <1>2 DEF IsMachine
<1>5. QED  BY <1>3, <1>4

\* More text in the last token of the run.
LEMMA GrowLastWith ==
    ASSUME NEW a, NEW s \in TokenList, s # <<>>, s[Len(s)].kind = "text", NEW raw \in Text
    PROVE  LET v == [s EXCEPT ![Len(s)].raw = s[Len(s)].raw \o raw]
           IN  v \in ListWith(a) <=> s \in ListWith(a) \/ raw \in RawWith(a)
<1> DEFINE n == Len(s)
           t == s[n]
           old == t.raw
           c == old \o raw
           u == [t EXCEPT !.raw = c]
           v == [s EXCEPT ![n].raw = c]
<1>1. s \in Seq(Token) /\ n \in Nat /\ DOMAIN s = 1 .. n /\ n \in 1 .. n /\ t \in Token /\ t.kind = "text"
  BY DEF TokenList
<1>2. old \in Text /\ c \in Text
  BY <1>1, TokenRaw, TextConcat
<1>3. Meets(c, {a}) <=> Meets(old, {a}) \/ Meets(raw, {a})
  <2> HIDE DEF old
  <2>1. QED  BY <1>2, MeetsConcat DEF Text
<1>4. c \in RawWith(a) <=> old \in RawWith(a) \/ raw \in RawWith(a)
  <2> HIDE DEF c, old
  <2>1. QED  BY <1>2, <1>3 DEF RawWith, Having, Text
<1> HIDE DEF c, t
<1>5. u \in Token /\ u.raw = c /\ u.kind = "text"
  BY <1>1, <1>2 DEF Token
<1>6. v = [s EXCEPT ![n] = u]
  BY <1>1 DEF t
<1>7. u \in TokWith(a) <=> t \in TokWith(a) \/ raw \in RawWith(a)
  <2> HIDE DEF u
  <2>1. QED  BY <1>1, <1>4, <1>5 DEF TokWith
<1> HIDE DEF u, v
<1>8. v \in Seq(Token) /\ DOMAIN v = 1 .. n /\ v[n] = u /\ \A i \in 1 .. n : i # n => v[i] = s[i]
  <2>1. PICK k \in 1 .. n : k = n
    BY <1>1
  <2>2. v = [s EXCEPT ![k] = u]
    BY <1>6, <2>1
  <2>3. v \in Seq(Token) /\ DOMAIN v = 1 .. n /\ v[k] = u /\ \A i \in 1 .. n : i # k => v[i] = s[i]
    BY <1>1, <1>5, <2>2
  <2>4. QED  BY <2>1, <2>3
<1>9. Meets(v, TokWith(a)) <=> Meets(s, TokWith(a)) \/ raw \in RawWith(a)
  <2> HIDE DEF n
  <2>1. s[n] = t
    BY DEF t
  <2>2. QED  BY <1>1, <1>7, <1>8, <2>1 DEF Meets
<1>10. v \in ListWith(a) <=> s \in ListWith(a) \/ raw \in RawWith(a)
  BY <1>1, <1>8, <1>9 DEF ListWith, Having
<1>11. QED  BY <1>10 DEF v, c, t

\* _text: offered unless a protected element is open.
LEMMA TextOffers ==
    ASSUME NEW a, NEW q, NEW w, Reads(q, w), NEW raw \in Text
    PROVE  /\ Offered(a, _text(q, raw)) <=> Offered(a, q) \/ (~q.skip.on /\ raw \in RawWith(a))
           /\ SameSkip(_text(q, raw).skip, q.skip)
<1>0. Good(q) /\ SameSkip(q.skip, q.skip)
  BY DEF Reads, SameSkip
<1>1. CASE q.skip.on
  <2>1. _text(q, raw) = Buffered(q, raw)
    BY <1>1 DEF _text
  <2>2. QED  BY <1>0, <1>1, <2>1, BufferedOffers, BufferedSkip
<1>2. CASE ~q.skip.on /\ q.run # <<>> /\ Last(q.run).kind = "text"
  <2> DEFINE run == q.run
             v == [run EXCEPT ![Len(run)].raw = run[Len(run)].raw \o raw]
             r == [q EXCEPT !.run = v]
  <2>1. IsMachine(q) /\ run \in TokenList
    BY <1>0 DEF Good
  <2>2. _text(q, raw) = r
    BY <1>2, <2>1 DEF _text, IsMachine
  <2>3. v \in ListWith(a) <=> run \in ListWith(a) \/ raw \in RawWith(a)
    <3>1. run[Len(run)].kind = "text"
      BY <1>2 DEF Last
    <3>2. QED  BY <1>2, <2>1, <3>1, GrowLastWith
  <2> HIDE DEF v
  <2>4. r.skip = q.skip /\ r.segments = q.segments /\ r.run = v
    BY <2>1 DEF IsMachine
  <2> HIDE DEF r
  <2>5. QED  BY <1>0, <1>2, <2>2, <2>3, <2>4 DEF Offered
<1>3. CASE ~q.skip.on /\ ~(q.run # <<>> /\ Last(q.run).kind = "text")
  <2> DEFINE t == Tok("text", raw, "", FALSE)
  <2>1. t \in Token /\ t.raw = raw /\ t.kind = "text"
    BY TokText DEF Tok
  <2>2. _text(q, raw) = _append(q, t)
    BY <1>3 DEF _text
  <2>3. t \in TokWith(a) <=> raw \in RawWith(a)
    BY <2>1 DEF TokWith
  <2> HIDE DEF t
  <2>4. _append(q, t).skip = q.skip
    BY <1>3, <2>1, AppendReads
  <2>5. Offered(a, _append(q, t)) <=> Offered(a, q) \/ t \in TokWith(a)
    BY <1>0, <2>1, AppendOffers
  <2>6. QED  BY <1>0, <1>3, <2>2, <2>3, <2>4, <2>5
<1>4. QED  BY <1>1, <1>2, <1>3

\* A protected block is not offered.
LEMMA ProtectedOffers ==
    ASSUME NEW a, NEW q, Good(q), NEW raw \in Text
    PROVE  Offered(a, _append(q, Tok("protected", raw, "", FALSE))) <=> Offered(a, q)
<1> DEFINE t == Tok("protected", raw, "", FALSE)
<1>1. t \in Token /\ t.kind # "text"
  BY TokProtected DEF Tok
<1> HIDE DEF t
<1>2. Offered(a, _append(q, t)) <=> Offered(a, q)
  BY <1>1, AppendOffers, OtherTokens
<1>3. QED  BY <1>2 DEF t

\* _opaque: a comment is not offered.
LEMMA OpaqueOffers ==
    ASSUME NEW a, NEW q, NEW w, Reads(q, w), NEW raw \in Text
    PROVE  /\ Offered(a, _opaque(q, raw)) <=> Offered(a, q)
           /\ SameSkip(_opaque(q, raw).skip, q.skip)
<1>0. Good(q) /\ SameSkip(q.skip, q.skip)
  BY DEF Reads, SameSkip
<1>1. CASE q.skip.on
  <2>1. _opaque(q, raw) = Buffered(q, raw)
    BY <1>1 DEF _opaque
  <2>2. QED  BY <1>0, <1>1, <2>1, BufferedOffers, BufferedSkip
<1>2. CASE ~q.skip.on /\ q.run # <<>>
  <2> DEFINE t == Tok("protected", raw, "", FALSE)
  <2>1. t \in Token
    BY TokProtected
  <2>2. _opaque(q, raw) = _append(q, t)
    BY <1>2 DEF _opaque
  <2>3. Offered(a, _append(q, t)) <=> Offered(a, q)
    BY <1>0, ProtectedOffers
  <2> HIDE DEF t
  <2>4. _append(q, t).skip = q.skip
    BY <1>2, <2>1, AppendReads
  <2>5. QED  BY <1>0, <2>2, <2>3, <2>4
<1>3. CASE ~q.skip.on /\ q.run = <<>>
  <2>1. _opaque(q, raw) = Part(q, raw)
    BY <1>3 DEF _opaque
  <2>2. Part(q, raw).skip = q.skip
    BY <1>3, PartReads
  <2>3. QED  BY <1>0, <2>1, <2>2, PartOffers
<1>4. QED  BY <1>1, <1>2, <1>3

\* _end_skip: the buffer is not offered.
LEMMA EndSkipOffers ==
    ASSUME NEW a, NEW q, NEW w, Reads(q, w), q.skip.on
    PROVE  Offered(a, _end_skip(q)) <=> Offered(a, q)
<1> DEFINE s == q.skip
           b == s.buffer
           r == [q EXCEPT !.skip = NoSkip]
<1>1. IsMachine(q) /\ b \in Text /\ Good(q)
  BY DEF Reads, Good
<1>2. /\ IsMachine(r) /\ r.skip = NoSkip /\ r.parts = q.parts /\ r.segments = q.segments /\ r.run = q.run
      /\ r.context = q.context
  BY <1>1 DEF IsMachine
<1>3. IsSkip(NoSkip) /\ NoSkip.buffer = <<>> /\ ~NoSkip.on /\ NoSkip.buffer \in Text
  BY TextEmpty DEF IsSkip, NoSkip
<1>4. _end_skip(q) = IF s.to_run THEN _append(r, Tok("protected", b, "", FALSE)) ELSE Part(r, b)
  BY DEF _end_skip
<1>5. Offered(a, r) <=> Offered(a, q)
  BY <1>1, SkipOffers
<1> HIDE DEF r, b
<1>6. Good(r)
  BY <1>1, <1>2, <1>3 DEF Good
<1>7. Offered(a, Part(r, b)) <=> Offered(a, r)
  BY <1>6, PartOffers
<1>8. Offered(a, _append(r, Tok("protected", b, "", FALSE))) <=> Offered(a, r)
  BY <1>1, <1>6, ProtectedOffers
<1>9. QED  BY <1>4, <1>5, <1>7, <1>8

(*******************************************************************************)
(* Start tags outside of a protected element.                                  *)
(*******************************************************************************)
Inline == INLINE_TAGS \cup PROTECTED_INLINE_TAGS
Protected(e) == e.tag \in SKIPPED_TAGS \cup PROTECTED_INLINE_TAGS \/ e.no

\* The protected element that a tag has just opened.
JustOpened(s, tag) ==
    /\ s.on /\ s.name = tag /\ s.depth = 1 /\ s.inner = <<>>
    /\ s.to_run <=> tag \in Inline

\* A start tag outside of a protected element opens one exactly if it is protected.
LEMMA StartOutsideOffers ==
    ASSUME NEW a, NEW q, NEW w, Reads(q, w), ~q.skip.on, NEW raw \in Text,
           NEW e, e.tag \in TagNames, NEW void
    PROVE  LET r == StartOutside(q, e, raw, void)
           IN  /\ Offers(a, r, q)
               /\ Protected(e) /\ ~void => JustOpened(r.skip, e.tag)
               /\ ~(Protected(e) /\ ~void) => ~r.skip.on
<1> DEFINE tag == e.tag
           inline == tag \in INLINE_TAGS \cup PROTECTED_INLINE_TAGS
           protect == tag \in SKIPPED_TAGS \cup PROTECTED_INLINE_TAGS \/ e.no
           opened == [on |-> TRUE, name |-> tag, to_run |-> inline, buffer |-> raw,
                      depth |-> 1, inner |-> <<>>, closers |-> OpenAncestors(q)]
           closed == [opened EXCEPT !.closers = Ancestors(q.stack)]
           r == StartOutside(q, e, raw, void)
           Goal == /\ Offers(a, r, q)
                   /\ Protected(e) /\ ~void => JustOpened(r.skip, e.tag)
                   /\ ~(Protected(e) /\ ~void) => ~r.skip.on
<1>0. Good(q) /\ IsMachine(q)
  BY DEF Reads, Good
<1>1. JustOpened(opened, tag) /\ JustOpened(closed, tag)
  <2> HIDE DEF inline, tag
  <2>1. PICK yes : yes = TRUE
    OBVIOUS
  <2>2. PICK run : run = inline
    OBVIOUS
  <2> DEFINE o == [on |-> yes, name |-> tag, to_run |-> run, buffer |-> raw,
                   depth |-> 1, inner |-> <<>>, closers |-> OpenAncestors(q)]
             c == [o EXCEPT !.closers = Ancestors(q.stack)]
  <2>3. /\ o.on = yes /\ o.name = tag /\ o.depth = 1 /\ o.inner = <<>> /\ o.to_run = run
        /\ c.on = yes /\ c.name = tag /\ c.depth = 1 /\ c.inner = <<>> /\ c.to_run = run
    OBVIOUS
  <2>4. opened = o /\ closed = c
    BY <2>1, <2>2
  <2> HIDE DEF o, c
  <2>5. inline <=> tag \in Inline
    BY DEF inline, Inline
  <2>6. QED  BY <2>1, <2>2, <2>3, <2>4, <2>5 DEF JustOpened
<1>2. protect <=> Protected(e)
  BY DEF Protected
<1>3. CASE protect /\ void /\ inline
  <2>1. r = _opaque(q, raw)
    BY <1>3 DEF StartOutside
  <2>2. (Offered(a, r) <=> Offered(a, q)) /\ SameSkip(r.skip, q.skip)
    BY <2>1, OpaqueOffers
  <2>3. ~r.skip.on
    BY <2>2 DEF SameSkip
  <2> HIDE DEF r
  <2>4. Goal
    BY <1>2, <1>3, <2>2, <2>3 DEF Offers
  <2>5. QED  BY <2>4 DEF r
<1>4. CASE protect /\ ~void /\ inline
  <2>1. r = [q EXCEPT !.skip = opened]
    BY <1>4 DEF StartOutside
  <2> HIDE DEF opened, r
  <2>2. Offered(a, r) <=> Offered(a, q)
    BY <1>0, <2>1, SkipOffers
  <2>3. r.skip = opened
    BY <1>0, <2>1 DEF IsMachine
  <2>4. Goal
    BY <1>1, <1>2, <1>4, <2>2, <2>3 DEF Offers
  <2>5. QED  BY <2>4 DEF r
<1>5. CASE protect /\ ~void /\ ~inline
  <2> DEFINE f == _flush(q)
  <2>1. r = [f EXCEPT !.skip = closed]
    BY <1>5 DEF StartOutside
  <2>2. Reads(f, w)
    BY FlushReads
  <2>3. Good(f) /\ IsMachine(f)
    BY <2>2 DEF Reads, Good
  <2>4. Offers(a, f, q)
    BY FlushOffers
  <2> HIDE DEF f, closed, r
  <2>5. Offered(a, r) <=> Offered(a, f)
    BY <2>1, <2>3, SkipOffers
  <2>6. r.skip = closed
    BY <2>1, <2>3 DEF IsMachine
  <2>7. Goal
    BY <1>1, <1>2, <1>5, <2>4, <2>5, <2>6 DEF Offers
  <2>8. QED  BY <2>7 DEF r
<1>6. CASE tag \in INLINE_TAGS /\ ~protect
  <2> DEFINE t == Tok("tag", raw, tag, FALSE)
  <2>1. r = _append(q, t)
    BY <1>6 DEF StartOutside
  <2>2. t \in Token /\ t.kind # "text"
    BY TokTag DEF Tok
  <2> HIDE DEF t, r
  <2>3. Offered(a, r) <=> Offered(a, q)
    BY <1>0, <2>1, <2>2, AppendOffers, OtherTokens
  <2>4. r.skip = q.skip
    BY <2>1, <2>2, AppendReads
  <2>5. Goal
    BY <1>2, <1>6, <2>3, <2>4 DEF Offers
  <2>6. QED  BY <2>5 DEF r
<1>7. CASE /\ ~(protect /\ void /\ inline) /\ ~(protect /\ ~void /\ inline)
           /\ ~(protect /\ ~void /\ ~inline) /\ ~(tag \in INLINE_TAGS /\ ~protect)
  <2> DEFINE stack == Closes(WithoutP(q.stack), IMPLIED_END(tag))
             frame == [tag |-> tag, lang |-> IF e.lang = "none" THEN ContextOf(stack) ELSE e.lang]
             x == IF void THEN stack ELSE Append(stack, frame)
             f == _flush(q)
             b == Part(f, raw)
  <2>1. r = [b EXCEPT !.stack = x]
    <3>1. r = _block_start(q, tag, raw, e.lang, void)
      BY <1>7 DEF StartOutside
    <3>2. QED  BY <3>1 DEF _block_start
  <2>2. Reads(b, w \o raw) /\ b.skip = q.skip
    BY BlockReads
  <2>3. Reads(f, w) /\ Offers(a, f, q)
    BY FlushReads, FlushOffers
  <2> HIDE DEF f
  <2>4. Offered(a, b) <=> Offered(a, f)
    BY <2>3, PartOffers DEF Reads
  <2> HIDE DEF b, x, r
  <2>5. IsMachine(b)
    BY <2>2 DEF Reads, Good
  <2>6. r.skip = b.skip /\ r.segments = b.segments /\ r.run = b.run
    BY <2>1, <2>5 DEF IsMachine
  <2>7. Offered(a, r) <=> Offered(a, b)
    BY <2>6, SameOffers
  <2>8. ~(Protected(e) /\ ~void)
    BY <1>2, <1>7
  <2>9. Goal
    BY <2>2, <2>3, <2>4, <2>6, <2>7, <2>8 DEF Offers
  <2>10. QED  BY <2>9 DEF r
<1>8. QED  BY <1>3, <1>4, <1>5, <1>6, <1>7

(*******************************************************************************)
(* How often a tag is in a list.                                               *)
(*******************************************************************************)
\* Where x is in a list, and how often.
PlacesOf(s, x) == {j \in DOMAIN s : s[j] = x}
Times(s, x) == Cardinality(PlacesOf(s, x))

\* The places are a finite set.
LEMMA PlacesFinite ==
    ASSUME NEW X, NEW s \in Seq(X), NEW x
    PROVE  /\ IsFiniteSet(PlacesOf(s, x)) /\ Times(s, x) \in Nat
           /\ Times(s, x) = 0 <=> PlacesOf(s, x) = {}
<1>1. Len(s) \in Nat /\ DOMAIN s = 1 .. Len(s)
  OBVIOUS
<1>2. IsFiniteSet(1 .. Len(s)) /\ PlacesOf(s, x) \in SUBSET (1 .. Len(s))
  BY <1>1, FS_Interval DEF PlacesOf
<1>3. IsFiniteSet(PlacesOf(s, x))
  BY <1>2, FS_Subset
<1>4. QED  BY <1>3, FS_CardinalityType, FS_EmptySet DEF Times

\* One more x.
LEMMA TimesAppend ==
    ASSUME NEW X, NEW s \in Seq(X), NEW x \in X
    PROVE  Times(Append(s, x), x) = Times(s, x) + 1
<1> DEFINE n == Len(s)
           r == Append(s, x)
<1>1. n \in Nat /\ DOMAIN s = 1 .. n
  OBVIOUS
<1>2. DOMAIN r = 1 .. (n + 1) /\ r[n + 1] = x /\ \A i \in 1 .. n : r[i] = s[i]
  OBVIOUS
<1> HIDE DEF r, n
<1>3. PlacesOf(r, x) = PlacesOf(s, x) \cup {n + 1} /\ n + 1 \notin PlacesOf(s, x)
  <2>1. \A i : i \in 1 .. (n + 1) <=> i \in 1 .. n \/ i = n + 1
    BY <1>1
  <2>2. n + 1 \notin 1 .. n
    BY <1>1
  <2>3. QED  BY <1>1, <1>2, <2>1, <2>2 DEF PlacesOf
<1>4. Cardinality(PlacesOf(s, x) \cup {n + 1}) = Cardinality(PlacesOf(s, x)) + 1
  BY <1>3, PlacesFinite, FS_AddElement
<1>5. QED  BY <1>3, <1>4 DEF Times, r

\* The last x, as _end looks for it.
LastOf(s, x) == SelectLastInSeq(s, LAMBDA t : t = x)

\* SelectLastInSeq finds the last x.
LEMMA LastOfProperties ==
    ASSUME NEW X, NEW s \in Seq(X), NEW x
    PROVE  /\ LastOf(s, x) \in 0 .. Len(s)
           /\ LastOf(s, x) = 0 <=> PlacesOf(s, x) = {}
           /\ LastOf(s, x) # 0 => LastOf(s, x) \in PlacesOf(s, x) /\ \A j \in PlacesOf(s, x) : j <= LastOf(s, x)
<1> DEFINE n == Len(s)
           I == PlacesOf(s, x)
<1>1. n \in Nat /\ DOMAIN s = 1 .. n
  OBVIOUS
<1>2. LastOf(s, x) = IF I # {} THEN CHOOSE i \in I : \A j \in I : i >= j ELSE 0
  BY <1>1 DEF LastOf, SelectLastInSeq, Max, PlacesOf
<1>3. I \subseteq 1 .. n
  BY <1>1 DEF PlacesOf
<1> HIDE DEF I, n
<1>4. CASE I = {}
  BY <1>1, <1>2, <1>4 DEF I, n
<1>5. CASE I # {}
  <2>1. I \subseteq 0 .. n
    BY <1>1, <1>3
  <2>2. \E i \in I : \A j \in I : i >= j
    BY <1>1, <1>5, <2>1, GreatestNumber
  <2>3. LastOf(s, x) \in I /\ \A j \in I : LastOf(s, x) >= j
    BY <1>2, <1>5, <2>2
  <2>4. LastOf(s, x) \in 1 .. n /\ \A j \in I : j \in 1 .. n
    BY <1>3, <2>3
  <2>5. QED  BY <1>1, <1>5, <2>3, <2>4 DEF I, n
<1>6. QED  BY <1>4, <1>5

\* RemoveAt closes the gap.
LEMMA RemoveAtProperties ==
    ASSUME NEW X, NEW s \in Seq(X), NEW k \in 1 .. Len(s)
    PROVE  LET r == RemoveAt(s, k)
           IN  /\ r \in Seq(X) /\ DOMAIN r = 1 .. (Len(s) - 1)
               /\ \A j \in 1 .. (Len(s) - 1) : r[j] = IF j < k THEN s[j] ELSE s[j + 1]
<1> DEFINE n == Len(s)
           b == SubSeq(s, 1, k - 1)
           c == SubSeq(s, k + 1, n)
           r == RemoveAt(s, k)
<1>1. s \in Seq(X) /\ n \in Nat /\ k \in Nat /\ 1 <= k /\ k <= n
  OBVIOUS
<1>2. b \in Seq(X) /\ Len(b) = k - 1 /\ \A j \in 1 .. (k - 1) : b[j] = s[j]
  BY <1>1
<1>3. c \in Seq(X) /\ Len(c) = n - k /\ \A j \in 1 .. (n - k) : c[j] = s[k + j]
  BY <1>1
<1>4. r = b \o c
  BY DEF RemoveAt
<1> HIDE DEF b, c, n, r
<1>5. /\ r \in Seq(X) /\ Len(r) = (k - 1) + (n - k)
      /\ \A j \in 1 .. ((k - 1) + (n - k)) : r[j] = IF j <= k - 1 THEN b[j] ELSE c[j - (k - 1)]
  <2>1. b \in Seq(X) /\ c \in Seq(X)
    BY <1>2, <1>3
  <2>2. /\ b \o c \in Seq(X) /\ Len(b \o c) = Len(b) + Len(c)
        /\ \A j \in 1 .. (Len(b) + Len(c)) : (b \o c)[j] = IF j <= Len(b) THEN b[j] ELSE c[j - Len(b)]
    BY <2>1, ConcatProperties
  <2>3. QED  BY <1>2, <1>3, <1>4, <2>2
<1>6. (k - 1) + (n - k) = n - 1
  BY <1>1
<1>7. DOMAIN r = 1 .. (n - 1)
  BY <1>1, <1>5, <1>6
<1>8. ASSUME NEW j \in 1 .. (n - 1)
      PROVE  r[j] = IF j < k THEN s[j] ELSE s[j + 1]
  <2>1. CASE j < k
    <3>1. j \in 1 .. (k - 1) /\ j <= k - 1
      BY <1>1, <2>1
    <3>2. QED  BY <1>2, <1>5, <1>6, <2>1, <3>1
  <2>2. CASE ~(j < k)
    <3>1. ~(j <= k - 1) /\ j - (k - 1) \in 1 .. (n - k) /\ k + (j - (k - 1)) = j + 1
      BY <1>1, <2>2
    <3>2. QED  BY <1>3, <1>5, <1>6, <2>2, <3>1
  <2>3. QED  BY <2>1, <2>2
<1>9. QED  BY <1>5, <1>7, <1>8 DEF r, n

\* Without the last x.
LEMMA TimesRemove ==
    ASSUME NEW X, NEW s \in Seq(X), NEW x, LastOf(s, x) # 0
    PROVE  LET r == RemoveAt(s, LastOf(s, x))
           IN  /\ r \in Seq(X) /\ Times(r, x) = Times(s, x) - 1
               /\ \A j \in DOMAIN r : \E i \in DOMAIN s : r[j] = s[i]
<1> DEFINE n == Len(s)
           k == LastOf(s, x)
           r == RemoveAt(s, k)
<1>1. n \in Nat /\ DOMAIN s = 1 .. n /\ k \in 1 .. n /\ s[k] = x /\ \A j \in 1 .. n : s[j] = x => j <= k
  <2>1. k \in PlacesOf(s, x) /\ \A j \in PlacesOf(s, x) : j <= k
    BY LastOfProperties
  <2>2. QED  BY <2>1 DEF PlacesOf
<1> HIDE DEF k
<1>2. /\ r \in Seq(X) /\ DOMAIN r = 1 .. (n - 1)
      /\ \A j \in 1 .. (n - 1) : r[j] = IF j < k THEN s[j] ELSE s[j + 1]
  BY <1>1, RemoveAtProperties
<1> HIDE DEF r, n
<1>3. PlacesOf(r, x) = PlacesOf(s, x) \ {k}
  <2>1. ASSUME NEW j \in PlacesOf(r, x)
        PROVE  j \in PlacesOf(s, x) \ {k}
    <3>1. j \in 1 .. (n - 1) /\ r[j] = x
      BY <1>2 DEF PlacesOf
    <3>2. j < k
      <4> SUFFICES ASSUME ~(j < k) PROVE FALSE
        OBVIOUS
      <4>1. s[j + 1] = x /\ j + 1 \in 1 .. n /\ ~(j + 1 <= k)
        BY <1>1, <1>2, <3>1
      <4>2. QED  BY <1>1, <4>1
    <3>3. j \in 1 .. n /\ j # k /\ s[j] = x
      BY <1>1, <1>2, <3>1, <3>2
    <3>4. QED  BY <1>1, <3>3 DEF PlacesOf
  <2>2. ASSUME NEW j \in PlacesOf(s, x), j # k
        PROVE  j \in PlacesOf(r, x)
    <3>1. j \in 1 .. n /\ s[j] = x
      BY <1>1 DEF PlacesOf
    <3>2. j < k /\ j \in 1 .. (n - 1)
      BY <1>1, <2>2, <3>1
    <3>3. QED  BY <1>2, <3>1, <3>2 DEF PlacesOf
  <2>3. QED  BY <2>1, <2>2
<1>4. Cardinality(PlacesOf(s, x) \ {k}) = Cardinality(PlacesOf(s, x)) - 1
  <2>1. k \in PlacesOf(s, x)
    BY <1>1 DEF PlacesOf
  <2>2. QED  BY <2>1, PlacesFinite, FS_RemoveElement
<1>5. \A j \in DOMAIN r : \E i \in DOMAIN s : r[j] = s[i]
  <2> SUFFICES ASSUME NEW j \in 1 .. (n - 1)
               PROVE  \E i \in 1 .. n : r[j] = s[i]
    BY <1>1, <1>2
  <2>1. j \in 1 .. n /\ j + 1 \in 1 .. n
    BY <1>1
  <2>2. QED  BY <1>2, <2>1
<1>6. QED  BY <1>2, <1>3, <1>4, <1>5 DEF Times, r, k

(*******************************************************************************)
(* Start tags: how often each element is open.                                 *)
(*******************************************************************************)
\* A protected element is open at least once, apart from the tags inside of it, and an
\* inline one has only inline tags inside.
SkipOK(s) ==
    s.on => /\ s.depth \in Nat /\ s.depth # 0 /\ s.name \in TagNames /\ s.inner \in Seq(TagNames)
            /\ \A j \in DOMAIN s.inner : s.inner[j] # s.name
            /\ s.to_run => s.name \in Inline /\ \A j \in DOMAIN s.inner : s.inner[j] \in Inline

\* The tag is open at least m times.
Holds(s, tag, m) == s.on /\ IF s.name = tag THEN s.depth >= m ELSE Times(s.inner, tag) >= m

\* Both depend on the fields that SameSkip compares.
LEMMA SameSkipHolds ==
    ASSUME NEW r, NEW s, SameSkip(r, s)
    PROVE  /\ SkipOK(s) => SkipOK(r)
           /\ \A tag, m : Holds(s, tag, m) => Holds(r, tag, m)
BY DEF SameSkip, SkipOK, Holds

\* The other fields of a skip.
LEMMA SkipFields ==
    ASSUME NEW s, IsSkip(s), NEW c
    PROVE  /\ WithDepth(s, c).depth = c /\ WithDepth(s, c).name = s.name /\ WithDepth(s, c).inner = s.inner
           /\ WithInner(s, c).depth = s.depth /\ WithInner(s, c).name = s.name /\ WithInner(s, c).inner = c
BY DEF IsSkip, WithDepth, WithInner

\* A tag of a list is one of its elements.
LEMMA TimesSome ==
    ASSUME NEW X, NEW s \in Seq(X), NEW x, NEW m \in Nat \ {0}, Times(s, x) >= m
    PROVE  \E j \in DOMAIN s : s[j] = x
<1>1. Times(s, x) # 0 /\ Times(s, x) \in Nat
  BY PlacesFinite
<1>2. PlacesOf(s, x) # {}
  BY <1>1, PlacesFinite
<1>3. QED  BY <1>2 DEF PlacesOf

\* A start tag inside of a protected element opens it, or a tag inside, once more.
LEMMA NestedHolds ==
    ASSUME NEW q, NEW w, Reads(q, w), q.skip.on, SkipOK(q.skip), NEW raw \in Text, NEW tag \in TagNames, NEW void,
           ~LeavesSkip(q, tag)
    PROVE  LET s == NestedStart(q, tag, raw, void).skip
           IN  /\ SkipOK(s) /\ s.on
               /\ ~void => Holds(s, tag, 1)
               /\ \A m \in Nat \ {0} : Holds(q.skip, tag, m) => Holds(s, tag, IF void THEN m ELSE m + 1)
<1> DEFINE b == Buffered(q, raw)
           z == b.skip
           d == WithDepth(z, z.depth + 1)
           i == WithInner(z, Append(z.inner, tag))
           r == NestedStart(q, tag, raw, void)
<1>0. Good(q)
  BY DEF Reads
<1>1. Reads(b, w \o raw)
  BY BufferedReads
<1>2. IsMachine(b) /\ IsSkip(z) /\ SameSkip(z, q.skip)
  BY <1>0, <1>1, BufferedSkip DEF Reads, Good
<1>3. /\ void => r = b
      /\ ~void /\ tag = z.name => r = [b EXCEPT !.skip = d]
      /\ ~void /\ tag # z.name => r = [b EXCEPT !.skip = i]
  BY <1>2 DEF NestedStart, WithDepth, WithInner, SameSkip
<1>4. /\ IsSkip(d) /\ d.buffer = z.buffer /\ (d.on <=> z.on) /\ (d.to_run <=> z.to_run)
      /\ d.depth = z.depth + 1 /\ d.name = z.name /\ d.inner = z.inner
  BY <1>2, SkipUpdates, SkipFields
<1>5. /\ IsSkip(i) /\ i.buffer = z.buffer /\ (i.on <=> z.on) /\ (i.to_run <=> z.to_run)
      /\ i.depth = z.depth /\ i.name = z.name /\ i.inner = Append(z.inner, tag)
  <2> DEFINE c == Append(z.inner, tag)
  <2> HIDE DEF c, z
  <2>1. /\ IsSkip(WithInner(z, c)) /\ WithInner(z, c).buffer = z.buffer
        /\ (WithInner(z, c).on <=> z.on) /\ (WithInner(z, c).to_run <=> z.to_run)
    BY <1>2, SkipUpdates
  <2>2. WithInner(z, c).depth = z.depth /\ WithInner(z, c).name = z.name /\ WithInner(z, c).inner = c
    BY <1>2, SkipFields
  <2>3. QED  BY <2>1, <2>2 DEF c
<1>6. z.on /\ SkipOK(z) /\ \A m : Holds(q.skip, tag, m) => Holds(z, tag, m)
  BY <1>2, SameSkipHolds DEF SameSkip
<1>7. z.to_run => tag \in Inline
  BY <1>2 DEF LeavesSkip, Inline, SameSkip
<1> HIDE DEF b, d, i
<1>8. [b EXCEPT !.skip = d].skip = d /\ [b EXCEPT !.skip = i].skip = i
  BY <1>1, <1>4, <1>5, SkipReads
<1> HIDE DEF r, z
<1>9. CASE void
  <2>1. r.skip = z
    BY <1>3, <1>9 DEF z
  <2>2. QED  BY <1>6, <1>9, <2>1 DEF r
<1>10. CASE ~void /\ tag = z.name
  <2>1. r.skip = d
    BY <1>3, <1>8, <1>10
  <2>2. z.depth \in Nat /\ z.depth # 0
    BY <1>6 DEF SkipOK
  <2>3. SkipOK(d) /\ d.on
    BY <1>4, <1>6, <2>2 DEF SkipOK
  <2>4. Holds(d, tag, 1)
    BY <1>4, <1>10, <2>2, <2>3 DEF Holds
  <2>5. ASSUME NEW m \in Nat \ {0}, Holds(z, tag, m)
        PROVE  Holds(d, tag, m + 1)
    BY <1>4, <1>10, <2>2, <2>3, <2>5 DEF Holds
  <2>6. QED  BY <1>6, <1>10, <2>1, <2>3, <2>4, <2>5 DEF r
<1>11. CASE ~void /\ tag # z.name
  <2>1. r.skip = i
    BY <1>3, <1>8, <1>11
  <2> DEFINE l == z.inner
             u == Append(l, tag)
  <2>2. l \in Seq(TagNames) /\ \A j \in DOMAIN l : l[j] # z.name /\ (z.to_run => l[j] \in Inline)
    BY <1>6 DEF SkipOK
  <2>3. u \in Seq(TagNames) /\ \A j \in DOMAIN u : u[j] = tag \/ \E k \in DOMAIN l : u[j] = l[k]
    <3> HIDE DEF l
    <3>1. u \in Seq(TagNames) /\ DOMAIN u = 1 .. (Len(l) + 1) /\ DOMAIN l = 1 .. Len(l) /\ Len(l) \in Nat
      BY <2>2
    <3>2. u[Len(l) + 1] = tag /\ \A j \in 1 .. Len(l) : u[j] = l[j]
      BY <2>2
    <3>3. \A j \in 1 .. (Len(l) + 1) : j = Len(l) + 1 \/ j \in 1 .. Len(l)
      BY <3>1
    <3>4. QED  BY <3>1, <3>2, <3>3
  <2>4. Times(u, tag) = Times(l, tag) + 1 /\ Times(l, tag) \in Nat
    BY <2>2, TimesAppend, PlacesFinite
  <2>5. i.inner = u
    BY <1>5
  <2> HIDE DEF u, l
  <2>6. SkipOK(i) /\ i.on
    <3>1. /\ i.on /\ i.depth \in Nat /\ i.depth # 0 /\ i.name \in TagNames /\ i.name = z.name
          /\ i.to_run => z.to_run /\ z.name \in Inline
      BY <1>5, <1>6 DEF SkipOK
    <3>2. \A j \in DOMAIN u : u[j] # z.name /\ (z.to_run => u[j] \in Inline)
      BY <1>7, <1>11, <2>2, <2>3
    <3>3. QED  BY <2>3, <2>5, <3>1, <3>2 DEF SkipOK
  <2>7. Times(u, tag) >= 1
    BY <2>4
  <2>8. Holds(i, tag, 1)
    BY <1>5, <1>11, <2>5, <2>6, <2>7 DEF Holds
  <2>9. ASSUME NEW m \in Nat \ {0}, Holds(z, tag, m)
        PROVE  Holds(i, tag, m + 1)
    <3>1. Times(l, tag) >= m
      BY <1>11, <2>9 DEF Holds, l
    <3>2. Times(u, tag) >= m + 1
      BY <2>4, <3>1
    <3>3. QED  BY <1>5, <1>11, <2>5, <2>6, <3>2 DEF Holds
  <2>10. QED  BY <1>6, <1>11, <2>1, <2>6, <2>8, <2>9 DEF r
<1>12. QED  BY <1>9, <1>10, <1>11

\* A protected element that was just opened.
LEMMA OpenedHolds ==
    ASSUME NEW s, NEW tag \in TagNames, JustOpened(s, tag)
    PROVE  SkipOK(s) /\ Holds(s, tag, 1)
<1>1. <<>> \in Seq(TagNames) /\ DOMAIN <<>> = {}
  OBVIOUS
<1> DEFINE e == <<>>
<1> HIDE DEF e
<1>2. s.on /\ s.name = tag /\ s.depth = 1 /\ s.inner = e /\ (s.to_run => tag \in Inline)
  BY DEF JustOpened, e
<1>3. e \in Seq(TagNames) /\ DOMAIN e = {}
  BY <1>1 DEF e
<1>4. SkipOK(s)
  BY <1>2, <1>3 DEF SkipOK
<1>5. QED  BY <1>2, <1>4 DEF Holds

\* Rooted moves nothing.
LEMMA RootedOffers ==
    ASSUME NEW a, NEW q, Good(q), NEW lang
    PROVE  Offered(a, Rooted(q, lang)) <=> Offered(a, q)
<1> DEFINE x == q.top_level + 1
           y == IF q.top_level = 0 THEN lang ELSE "none"
           r == [q EXCEPT !.top_level = x, !.root_lang = y]
<1>1. Rooted(q, lang) = q \/ Rooted(q, lang) = r
  BY DEF Rooted
<1> HIDE DEF x, y
<1>2. r.segments = q.segments /\ r.run = q.run
  BY DEF Good, IsMachine
<1> HIDE DEF r
<1>3. QED  BY <1>1, <1>2, SameOffers

\* A start tag: what it opens, and that it offers nothing.
LEMMA StartHolds ==
    ASSUME NEW a, NEW q, NEW w, Reads(q, w), SkipOK(q.skip), NEW raw \in Text, NEW e, e.tag \in TagNames, NEW void
    PROVE  LET r == _start(q, e, raw, void)
           IN  /\ Offers(a, r, q)
               /\ SkipOK(r.skip)
               /\ r.skip.on => q.skip.on \/ (Protected(e) /\ ~void)
               /\ Protected(e) /\ ~void => Holds(r.skip, e.tag, 1)
               /\ \A m \in Nat \ {0} : Holds(q.skip, e.tag, m) => Holds(r.skip, e.tag, IF void THEN m ELSE m + 1)
<1> DEFINE tag == e.tag
           r == _start(q, e, raw, void)
           Opens == Protected(e) /\ ~void
           Goal == /\ Offers(a, r, q)
                   /\ SkipOK(r.skip)
                   /\ r.skip.on => q.skip.on \/ Opens
                   /\ Opens => Holds(r.skip, e.tag, 1)
                   /\ \A m \in Nat \ {0} : Holds(q.skip, e.tag, m) => Holds(r.skip, e.tag, IF void THEN m ELSE m + 1)
<1>0. Good(q)
  BY DEF Reads
<1>1. ASSUME NEW x, Reads(x, w), ~x.skip.on, r = StartOutside(Rooted(x, e.lang), e, raw, void)
      PROVE  /\ Offers(a, r, x) /\ SkipOK(r.skip) /\ (r.skip.on => Opens)
             /\ Opens => Holds(r.skip, tag, 1)
  <2> DEFINE y == Rooted(x, e.lang)
  <2>1. Reads(y, w) /\ y.skip = x.skip /\ (Offered(a, y) <=> Offered(a, x))
    BY <1>1, RootedReads, RootedOffers DEF Reads
  <2> HIDE DEF y
  <2>2. ~y.skip.on /\ r = StartOutside(y, e, raw, void)
    BY <1>1, <2>1 DEF y
  <2>3. /\ Offers(a, r, y)
        /\ Opens => JustOpened(r.skip, tag)
        /\ ~Opens => ~r.skip.on
    BY <2>1, <2>2, StartOutsideOffers
  <2> HIDE DEF r, Opens
  <2>4. Offers(a, r, x)
    BY <2>1, <2>3 DEF Offers
  <2>5. Opens => SkipOK(r.skip) /\ Holds(r.skip, tag, 1)
    BY <2>3, OpenedHolds
  <2>6. ~Opens => SkipOK(r.skip)
    BY <2>3 DEF SkipOK
  <2>7. QED  BY <2>3, <2>4, <2>5, <2>6
<1>2. CASE ~q.skip.on
  <2>1. r = StartOutside(Rooted(q, e.lang), e, raw, void)
    BY <1>2 DEF _start
  <2>2. \A m : ~Holds(q.skip, tag, m)
    BY <1>2 DEF Holds
  <2> HIDE DEF r, Opens
  <2>3. Goal
    BY <1>1, <1>2, <2>1, <2>2
  <2>4. QED  BY <2>3 DEF r, Opens
<1>3. CASE q.skip.on /\ LeavesSkip(q, tag)
  <2> DEFINE x == _end_skip(q)
  <2>1. r = StartOutside(Rooted(x, e.lang), e, raw, void)
    BY <1>3 DEF _start
  <2>2. Reads(x, w) /\ ~x.skip.on /\ (Offered(a, x) <=> Offered(a, q))
    BY <1>3, EndSkipReads, EndSkipOffers
  <2>3. ASSUME NEW m \in Nat \ {0}, Holds(q.skip, tag, m)
        PROVE  FALSE
    <3>1. q.skip.to_run /\ tag \notin Inline
      BY <1>3 DEF LeavesSkip, Inline
    <3>2. q.skip.inner \in Seq(TagNames) /\ q.skip.name # tag /\ \A j \in DOMAIN q.skip.inner : q.skip.inner[j] # tag
      BY <1>3, <3>1 DEF SkipOK
    <3>3. Times(q.skip.inner, tag) >= m
      BY <2>3, <3>2 DEF Holds
    <3>4. QED  BY <3>2, <3>3, TimesSome
  <2> HIDE DEF r, x, Opens
  <2>4. Offers(a, r, x) /\ SkipOK(r.skip) /\ (r.skip.on => Opens) /\ (Opens => Holds(r.skip, tag, 1))
    BY <1>1, <2>1, <2>2
  <2>5. Offers(a, r, q)
    BY <2>2, <2>4 DEF Offers
  <2>6. Goal
    BY <2>3, <2>4, <2>5
  <2>7. QED  BY <2>6 DEF r, Opens
<1>4. CASE q.skip.on /\ ~LeavesSkip(q, tag)
  <2>1. r = NestedStart(q, tag, raw, void)
    BY <1>4 DEF _start
  <2>2. /\ SkipOK(r.skip) /\ r.skip.on
        /\ ~void => Holds(r.skip, tag, 1)
        /\ \A m \in Nat \ {0} : Holds(q.skip, tag, m) => Holds(r.skip, tag, IF void THEN m ELSE m + 1)
    BY <1>4, <2>1, NestedHolds
  <2>3. Offered(a, r) <=> Offered(a, q)
    <3> DEFINE b == Buffered(q, raw)
               z == b.skip
               d == WithDepth(z, z.depth + 1)
               i == WithInner(z, Append(z.inner, tag))
    <3>1. Good(b) /\ (Offered(a, b) <=> Offered(a, q))
      BY <1>0, <1>4, BufferedReads, BufferedOffers DEF Reads
    <3>2. IsMachine(b) /\ IsSkip(z)
      BY <3>1 DEF Good
    <3>3. r = b \/ r = [b EXCEPT !.skip = d] \/ r = [b EXCEPT !.skip = i]
      BY <2>1, <3>2 DEF NestedStart, WithDepth, WithInner
    <3> HIDE DEF b, d, i, r
    <3>4. QED  BY <3>1, <3>3, SkipOffers
  <2> HIDE DEF r
  <2>4. Offers(a, r, q)
    BY <2>3 DEF Offers
  <2>5. Goal
    BY <1>4, <2>2, <2>4
  <2>6. QED  BY <2>5 DEF r
<1>5. QED  BY <1>2, <1>3, <1>4

(*******************************************************************************)
(* End tags: how often each element is still open.                             *)
(*******************************************************************************)
\* An end tag outside of a protected element.
LEMMA EndOutsideOffers ==
    ASSUME NEW a, NEW q, NEW w, Reads(q, w), ~q.skip.on, NEW raw \in Text, NEW tag \in TagNames
    PROVE  LET r == EndOutside(q, tag, raw)
           IN  Offers(a, r, q) /\ ~r.skip.on
<1> DEFINE r == EndOutside(q, tag, raw)
<1>0. Good(q)
  BY DEF Reads
<1>1. CASE tag \in INLINE_TAGS
  <2> DEFINE t == Tok("tag", raw, tag, TRUE)
  <2>1. r = _append(q, t)
    BY <1>1 DEF EndOutside
  <2>2. t \in Token /\ t.kind # "text"
    BY TokTag DEF Tok
  <2> HIDE DEF t, r
  <2>3. Offered(a, r) <=> Offered(a, q)
    BY <1>0, <2>1, <2>2, AppendOffers, OtherTokens
  <2>4. r.skip = q.skip
    BY <2>1, <2>2, AppendReads
  <2>5. Offers(a, r, q) /\ ~r.skip.on
    BY <2>3, <2>4 DEF Offers
  <2>6. QED  BY <2>5 DEF r
<1>2. CASE tag \notin INLINE_TAGS
  <2> DEFINE f == _flush(q)
             b == Part(f, raw)
             at0 == SelectLastInSeq(b.stack, LAMBDA v : v.tag = tag)
             x == SubSeq(b.stack, 1, at0 - 1)
             c == [b EXCEPT !.stack = x]
  <2>1. Reads(b, w \o raw) /\ b.skip = q.skip
    BY BlockReads
  <2>2. IsMachine(b)
    BY <2>1 DEF Reads, Good
  <2>3. r = b \/ r = c
    BY <1>2, <2>2 DEF EndOutside
  <2>4. Reads(f, w) /\ Offers(a, f, q)
    BY FlushReads, FlushOffers
  <2> HIDE DEF f
  <2>5. Offered(a, b) <=> Offered(a, f)
    BY <2>4, PartOffers DEF Reads
  <2> HIDE DEF b, x, r
  <2>6. c.skip = b.skip /\ c.segments = b.segments /\ c.run = b.run
    BY <2>2 DEF IsMachine
  <2> HIDE DEF c
  <2>7. (Offered(a, r) <=> Offered(a, b)) /\ r.skip = b.skip
    BY <2>3, <2>6, SameOffers
  <2>8. Offers(a, r, q) /\ ~r.skip.on
    BY <2>1, <2>4, <2>5, <2>7 DEF Offers
  <2>9. QED  BY <2>8 DEF r
<1>3. QED  BY <1>1, <1>2

\* The five ways an end tag goes inside of a protected element.
LEMMA EndCases ==
    ASSUME NEW q, NEW w, Reads(q, w), q.skip.on, SkipOK(q.skip), NEW raw \in Text, NEW tag \in TagNames
    PROVE  LET r == _end(q, tag, raw)
               b == Buffered(q, raw)
               z == b.skip
               k == LastOf(z.inner, tag)
               x == [b EXCEPT !.skip = WithDepth(z, z.depth - 1)]
               y == [b EXCEPT !.skip = WithInner(z, RemoveAt(z.inner, k))]
           IN  /\ k # 0 => r = y
               /\ k = 0 /\ tag = z.name => r = IF z.depth = 1 THEN _end_skip(x) ELSE x
               /\ k = 0 /\ tag # z.name => (r = b /\ ~ClosesSkip(q.skip, tag)) \/ r = EndOutside(_end_skip(q), tag, raw)
<1> DEFINE s == q.skip
           inner == SelectLastInSeq(s.inner, LAMBDA t : t = tag)
           r == _end(q, tag, raw)
           b == Buffered(q, raw)
           z == b.skip
           k == LastOf(z.inner, tag)
           x == [b EXCEPT !.skip = WithDepth(z, z.depth - 1)]
           y == [b EXCEPT !.skip = WithInner(z, RemoveAt(z.inner, k))]
<1>0. Good(q)
  BY DEF Reads
<1>1. Reads(b, w \o raw)
  BY BufferedReads
<1>2. IsMachine(b) /\ IsSkip(z) /\ SameSkip(z, s)
  BY <1>0, <1>1, BufferedSkip DEF Reads, Good
<1>3. z.inner = s.inner /\ z.name = s.name /\ z.depth = s.depth
  BY <1>2 DEF SameSkip
<1>4. k = inner /\ (inner = 0 \/ inner > 0)
  <2>1. k = inner
    BY <1>3 DEF LastOf
  <2>2. k \in 0 .. Len(z.inner) /\ z.inner \in Seq(TagNames)
    BY <1>3, LastOfProperties DEF SkipOK
  <2> HIDE DEF k, inner
  <2>3. QED  BY <2>1, <2>2
<1> HIDE DEF k, inner
<1>5. CASE k # 0
  <2>1. r = [b EXCEPT !.skip.inner = RemoveAt(@, inner)]
    BY <1>4, <1>5 DEF _end, inner
  <2> HIDE DEF b, r
  <2>2. r = y
    BY <1>2, <1>4, <2>1 DEF WithInner
  <2>3. QED  BY <1>5, <2>2 DEF r, b, k
<1>6. CASE k = 0 /\ tag = z.name
  <2> DEFINE v == [b EXCEPT !.skip.depth = @ - 1]
  <2>1. r = IF s.depth = 1 THEN _end_skip(v) ELSE v
    <3>1. ~(inner > 0) /\ inner = 0 /\ tag = s.name
      BY <1>3, <1>4, <1>6
    <3>2. QED  BY <3>1 DEF _end, inner
  <2> HIDE DEF b, r
  <2>2. v = x
    BY <1>2 DEF WithDepth
  <2> HIDE DEF v, x
  <2>3. r = IF z.depth = 1 THEN _end_skip(x) ELSE x
    BY <1>3, <2>1, <2>2
  <2>4. QED  BY <1>6, <2>3 DEF r, b, k, x
<1>7. CASE k = 0 /\ tag # z.name
  <2>1. ~(inner > 0) /\ inner = 0 /\ tag # s.name
    BY <1>3, <1>4, <1>7
  <2>2. (r = b /\ ~ClosesSkip(q.skip, tag)) \/ r = EndOutside(_end_skip(q), tag, raw)
    BY <2>1 DEF _end, inner
  <2> HIDE DEF b, r
  <2>3. QED  BY <1>7, <2>2 DEF r, b, k
<1>8. QED  BY <1>5, <1>6, <1>7 DEF k

\* An end tag: what stays open, and that it offers nothing.
LEMMA EndHolds ==
    ASSUME NEW a, NEW q, NEW w, Reads(q, w), SkipOK(q.skip), NEW raw \in Text, NEW tag \in TagNames
    PROVE  LET r == _end(q, tag, raw)
           IN  /\ Offers(a, r, q)
               /\ SkipOK(r.skip)
               /\ r.skip.on => q.skip.on
               /\ \A m \in Nat \ {0} : Holds(q.skip, tag, m + 1) => Holds(r.skip, tag, m)
<1> DEFINE r == _end(q, tag, raw)
           Goal == /\ Offers(a, r, q)
                   /\ SkipOK(r.skip)
                   /\ r.skip.on => q.skip.on
                   /\ \A m \in Nat \ {0} : Holds(q.skip, tag, m + 1) => Holds(r.skip, tag, m)
<1>0. Good(q)
  BY DEF Reads
<1>1. CASE ~q.skip.on
  <2>1. r = EndOutside(q, tag, raw)
    BY <1>1 DEF _end
  <2>2. Offers(a, r, q) /\ ~r.skip.on
    BY <1>1, <2>1, EndOutsideOffers
  <2> HIDE DEF r
  <2>3. Goal
    BY <1>1, <2>2 DEF Holds, SkipOK
  <2>4. QED  BY <2>3 DEF r
<1>2. CASE q.skip.on
  <2> DEFINE b == Buffered(q, raw)
             z == b.skip
             k == LastOf(z.inner, tag)
             d == WithDepth(z, z.depth - 1)
             i == WithInner(z, RemoveAt(z.inner, k))
             x == [b EXCEPT !.skip = d]
             y == [b EXCEPT !.skip = i]
             u == _end_skip(q)
  <2>1. /\ k # 0 => r = y
        /\ k = 0 /\ tag = z.name => r = IF z.depth = 1 THEN _end_skip(x) ELSE x
        /\ k = 0 /\ tag # z.name => r = b \/ r = EndOutside(u, tag, raw)
    BY <1>2, EndCases
  <2>2. Reads(b, w \o raw) /\ (Offered(a, b) <=> Offered(a, q))
    BY <1>0, <1>2, BufferedReads, BufferedOffers
  <2>3. SameSkip(z, q.skip)
    BY <1>0, BufferedSkip
  <2> HIDE DEF b, r
  <2>4. Good(b) /\ IsMachine(b) /\ IsSkip(z)
    BY <2>2 DEF Reads, Good
  <2>5. z.on /\ SkipOK(z) /\ \A m : Holds(q.skip, tag, m) => Holds(z, tag, m)
    BY <1>2, <2>3, SameSkipHolds DEF SameSkip
  <2> HIDE DEF z
  <2>6. /\ IsSkip(d) /\ d.buffer = z.buffer /\ (d.on <=> z.on) /\ (d.to_run <=> z.to_run)
        /\ d.depth = z.depth - 1 /\ d.name = z.name /\ d.inner = z.inner
    BY <2>4, SkipUpdates, SkipFields
  <2>7. /\ IsSkip(i) /\ i.buffer = z.buffer /\ (i.on <=> z.on) /\ (i.to_run <=> z.to_run)
        /\ i.depth = z.depth /\ i.name = z.name /\ i.inner = RemoveAt(z.inner, k)
    <3> DEFINE c == RemoveAt(z.inner, k)
    <3> HIDE DEF c
    <3>1. /\ IsSkip(WithInner(z, c)) /\ WithInner(z, c).buffer = z.buffer
          /\ (WithInner(z, c).on <=> z.on) /\ (WithInner(z, c).to_run <=> z.to_run)
      BY <2>4, SkipUpdates
    <3>2. WithInner(z, c).depth = z.depth /\ WithInner(z, c).name = z.name /\ WithInner(z, c).inner = c
      BY <2>4, SkipFields
    <3>3. QED  BY <3>1, <3>2 DEF c
  <2> HIDE DEF d, i
  <2>8. /\ Reads(x, w \o raw) /\ x.skip = d /\ (Offered(a, x) <=> Offered(a, q))
        /\ y.skip = i /\ (Offered(a, y) <=> Offered(a, q))
    <3>1. Reads(x, w \o raw) /\ x.skip = d
      BY <2>2, <2>6, SkipReads DEF z
    <3>2. y.skip = i
      BY <2>2, <2>7, SkipReads DEF z
    <3>3. (Offered(a, x) <=> Offered(a, b)) /\ (Offered(a, y) <=> Offered(a, b))
      BY <2>4, SkipOffers
    <3>4. QED  BY <2>2, <3>1, <3>2, <3>3
  <2> HIDE DEF x, y
  <2>9. /\ z.depth \in Nat /\ z.depth # 0 /\ z.name \in TagNames /\ z.inner \in Seq(TagNames)
        /\ \A j \in DOMAIN z.inner : z.inner[j] # z.name /\ (z.to_run => z.inner[j] \in Inline)
        /\ z.to_run => z.name \in Inline
    BY <2>5 DEF SkipOK
  <2>10. CASE k # 0
    <3> DEFINE l == z.inner
               v == RemoveAt(l, k)
    <3>1. /\ v \in Seq(TagNames) /\ Times(v, tag) = Times(l, tag) - 1 /\ Times(l, tag) \in Nat
          /\ \A j \in DOMAIN v : \E h \in DOMAIN l : v[j] = l[h]
      BY <2>9, <2>10, TimesRemove, PlacesFinite
    <3>2. r.skip = i /\ (Offered(a, r) <=> Offered(a, q))
      BY <2>1, <2>8, <2>10
    <3>3. k \in DOMAIN l /\ l[k] = tag
      BY <2>9, <2>10, LastOfProperties DEF PlacesOf
    <3>4. i.inner = v /\ tag # z.name
      BY <2>7, <2>9, <3>3
    <3> HIDE DEF v, k
    <3>5. SkipOK(i) /\ i.on
      <4>1. \A j \in DOMAIN v : v[j] # z.name /\ (z.to_run => v[j] \in Inline)
        BY <2>9, <3>1
      <4>2. QED  BY <2>5, <2>7, <2>9, <3>1, <3>4, <4>1 DEF SkipOK
    <3>6. ASSUME NEW m \in Nat \ {0}, Holds(z, tag, m + 1)
          PROVE  Holds(i, tag, m)
      <4>1. Times(l, tag) >= m + 1
        BY <3>4, <3>6 DEF Holds
      <4>2. Times(v, tag) >= m
        BY <3>1, <4>1
      <4>3. QED  BY <2>7, <3>4, <3>5, <4>2 DEF Holds
    <3>7. Goal
      BY <1>2, <2>5, <3>2, <3>5, <3>6 DEF Offers
    <3>8. QED  BY <3>7 DEF r
  <2>11. CASE k = 0 /\ tag = z.name /\ z.depth # 1
    <3>1. r.skip = d /\ (Offered(a, r) <=> Offered(a, q))
      BY <2>1, <2>8, <2>11
    <3>2. d.depth \in Nat /\ d.depth # 0
      BY <2>6, <2>9, <2>11
    <3>3. SkipOK(d) /\ d.on
      BY <2>5, <2>6, <2>9, <3>2 DEF SkipOK
    <3>4. ASSUME NEW m \in Nat \ {0}, Holds(z, tag, m + 1)
          PROVE  Holds(d, tag, m)
      <4>1. z.depth >= m + 1
        BY <2>11, <3>4 DEF Holds
      <4>2. d.depth >= m
        BY <2>6, <2>9, <4>1
      <4>3. QED  BY <2>6, <2>11, <3>3, <4>2 DEF Holds
    <3>5. Goal
      BY <1>2, <2>5, <3>1, <3>3, <3>4 DEF Offers
    <3>6. QED  BY <3>5 DEF r
  <2>12. CASE k = 0 /\ tag = z.name /\ z.depth = 1
    <3>1. x.skip.on
      BY <2>5, <2>6, <2>8
    <3>2. r = _end_skip(x)
      BY <2>1, <2>12
    <3>3. ~r.skip.on /\ (Offered(a, r) <=> Offered(a, q))
      BY <2>8, <3>1, <3>2, EndSkipReads, EndSkipOffers
    <3>4. ASSUME NEW m \in Nat \ {0}
          PROVE  ~Holds(z, tag, m + 1)
      BY <2>12 DEF Holds
    <3>5. Goal
      BY <2>5, <3>3, <3>4 DEF Offers, SkipOK
    <3>6. QED  BY <3>5 DEF r
  <2>13. CASE k = 0 /\ tag # z.name
    <3>1. ASSUME NEW m \in Nat \ {0}
          PROVE  ~Holds(z, tag, m + 1)
      <4>1. PlacesOf(z.inner, tag) = {}
        BY <2>9, <2>13, LastOfProperties
      <4>2. Times(z.inner, tag) = 0
        BY <2>9, <4>1, PlacesFinite
      <4>3. QED  BY <2>13, <4>2 DEF Holds
    <3>2. CASE r = b
      <4>1. r.skip = z
        BY <3>2 DEF z
      <4>2. Goal
        BY <1>2, <2>2, <2>5, <3>1, <3>2, <4>1 DEF Offers
      <4>3. QED  BY <4>2 DEF r
    <3>3. CASE r = EndOutside(u, tag, raw)
      <4>1. Reads(u, w) /\ ~u.skip.on /\ (Offered(a, u) <=> Offered(a, q))
        BY <1>2, EndSkipReads, EndSkipOffers
      <4> HIDE DEF u
      <4>2. Offers(a, r, u) /\ ~r.skip.on
        BY <3>3, <4>1, EndOutsideOffers
      <4>3. Goal
        BY <2>5, <3>1, <4>1, <4>2 DEF Offers, SkipOK
      <4>4. QED  BY <4>3 DEF r
    <3>4. QED  BY <2>1, <2>13, <3>2, <3>3
  <2>14. QED  BY <2>10, <2>11, <2>12, <2>13
<1>3. QED  BY <1>1, <1>2

(*******************************************************************************)
(* The inline tags that are open in the run.                                   *)
(*******************************************************************************)
\* One more token.
LEMMA NextOpenProperties ==
    ASSUME NEW open \in Seq(TagNames), NEW t \in Token
    PROVE  NextOpen(open, t) \in Seq(TagNames)
<1>1. t.name \in TagNames
  BY DEF Token
<1>2. Append(open, t.name) \in Seq(TagNames)
  BY <1>1
<1>3. open # <<>> => Front(open) \in Seq(TagNames)
  BY FrontAndLast
<1>4. QED  BY <1>2, <1>3 DEF NextOpen

\* OpenInline counts through the tokens.
LEMMA OpenInlineFold ==
    ASSUME NEW tokens \in TokenList
    PROVE  \E h : /\ OpenInline(tokens) = h[Len(tokens)] /\ h[0] = <<>>
                  /\ \A i \in 0 .. Len(tokens) : h[i] \in Seq(TagNames)
                  /\ \A i \in 1 .. Len(tokens) : h[i] = NextOpen(h[i - 1], tokens[i])
<1> DEFINE n == Len(tokens)
           A == Seq(TagNames)
           F == [x \in A \X (1 .. n) |-> NextOpen(x[1], tokens[x[2]])]
           Is(f) == f = [i \in 0 .. Len(tokens) |-> IF i = 0 THEN <<>> ELSE NextOpen(f[i - 1], tokens[i])]
           h == CHOOSE f : Is(f)
<1>1. n \in Nat
  BY DEF TokenList
<1>2. ASSUME NEW a \in A, NEW i \in 1 .. n
      PROVE  NextOpen(a, tokens[i]) \in A
  <2>1. tokens[i] \in Token
    BY DEF TokenList
  <2>2. QED  BY <2>1, NextOpenProperties
<1>3. IsStep(F, A, n)
  BY <1>2 DEF IsStep
<1>4. PICK base \in A : base = <<>>
  <2>1. <<>> \in Seq(TagNames)
    OBVIOUS
  <2>2. QED  BY <2>1
<1>5. PICK g : IsFold(g, A, n, base, F)
  <2> HIDE DEF F, n, A
  <2>1. QED  BY <1>1, <1>3, Recursion
<1>6. g \in [0 .. n -> A] /\ g[0] = <<>> /\ \A i \in 1 .. n : g[i] = F[<<g[i - 1], i>>]
  BY <1>4, <1>5 DEF IsFold
<1>7. \A i \in 1 .. n : g[i] = NextOpen(g[i - 1], tokens[i])
  <2> SUFFICES ASSUME NEW i \in 1 .. n
               PROVE  g[i] = NextOpen(g[i - 1], tokens[i])
    OBVIOUS
  <2>1. i - 1 \in 0 .. n
    BY <1>1
  <2>2. g[i] = F[<<g[i - 1], i>>] /\ <<g[i - 1], i>> \in A \X (1 .. n)
    <3> HIDE DEF F, n, A
    <3>1. QED  BY <1>6, <2>1
  <2> HIDE DEF n, A
  <2>3. QED  BY <2>2
<1>8. Is(g)
  <2>1. \A i \in 0 .. n : g[i] = IF i = 0 THEN <<>> ELSE NextOpen(g[i - 1], tokens[i])
    <3> SUFFICES ASSUME NEW i \in 0 .. n
                 PROVE  g[i] = IF i = 0 THEN <<>> ELSE NextOpen(g[i - 1], tokens[i])
      OBVIOUS
    <3>1. i = 0 \/ i \in 1 .. n
      BY <1>1
    <3>2. QED  BY <1>6, <1>7, <3>1
  <2>2. g = [i \in 0 .. n |-> g[i]]
    <3> HIDE DEF F, A, n
    <3>1. QED  BY <1>6
  <2> HIDE DEF A
  <2>3. QED  BY <2>1, <2>2
<1>9. Is(h)
  <2> HIDE DEF Is
  <2>1. QED  BY <1>8
<1>10. OpenInline(tokens) = h[Len(tokens)]
  BY DEF OpenInline
<1> HIDE DEF h
<1>11. h[0] = <<>> /\ \A i \in 1 .. n : h[i] = NextOpen(h[i - 1], tokens[i])
  <2>1. 0 \in 0 .. n /\ \A i \in 1 .. n : i \in 0 .. n /\ i # 0
    BY <1>1
  <2>2. QED  BY <1>9, <2>1
<1>12. h[0] \in A /\ \A i \in 1 .. n : h[i - 1] \in A => h[i] \in A
  <2> HIDE DEF n, A
  <2>1. QED  BY <1>2, <1>4, <1>11
<1>13. \A i \in 0 .. n : h[i] \in A
  <2> HIDE DEF n, A
  <2>1. QED  BY <1>1, <1>12, StaysIn
<1>14. QED  BY <1>10, <1>11, <1>13

\* What is open after one more token.
LEMMA OpenInlineAppend ==
    ASSUME NEW s \in TokenList, NEW t \in Token
    PROVE  /\ OpenInline(s) \in Seq(TagNames)
           /\ OpenInline(Append(s, t)) = NextOpen(OpenInline(s), t)
<1> DEFINE n == Len(s)
           v == Append(s, t)
<1>1. n \in Nat /\ v \in TokenList /\ Len(v) = n + 1 /\ v[n + 1] = t /\ \A i \in 1 .. n : v[i] = s[i]
  BY DEF TokenList
<1>2. PICK g : /\ OpenInline(s) = g[n] /\ g[0] = <<>>
               /\ \A i \in 0 .. n : g[i] \in Seq(TagNames)
               /\ \A i \in 1 .. n : g[i] = NextOpen(g[i - 1], s[i])
  BY OpenInlineFold
<1>3. PICK h : /\ OpenInline(v) = h[n + 1] /\ h[0] = <<>>
               /\ \A i \in 1 .. (n + 1) : h[i] = NextOpen(h[i - 1], v[i])
  <2>1. \E h : /\ OpenInline(v) = h[Len(v)] /\ h[0] = <<>>
               /\ \A i \in 1 .. Len(v) : h[i] = NextOpen(h[i - 1], v[i])
    BY <1>1, OpenInlineFold
  <2>2. QED  BY <1>1, <2>1
<1> HIDE DEF n, v
<1>4. h[n] = g[n]
  <2> DEFINE G == {i \in 0 .. n : h[i] = g[i]}
  <2>1. 0 \in G
    BY <1>1, <1>2, <1>3
  <2>2. ASSUME NEW i \in 1 .. n, i - 1 \in G
        PROVE  i \in G
    <3>1. i \in 0 .. n /\ i \in 1 .. (n + 1) /\ h[i - 1] = g[i - 1]
      BY <1>1, <2>2
    <3>2. h[i] = NextOpen(h[i - 1], s[i]) /\ g[i] = NextOpen(g[i - 1], s[i])
      BY <1>1, <1>2, <1>3, <3>1
    <3>3. QED  BY <3>1, <3>2
  <2> HIDE DEF G
  <2>3. \A i \in 0 .. n : i \in G
    BY <1>1, <2>1, <2>2, Induct
  <2>4. n \in 0 .. n
    BY <1>1
  <2>5. QED  BY <2>3, <2>4 DEF G
<1>5. n + 1 \in 1 .. (n + 1) /\ (n + 1) - 1 = n /\ n \in 0 .. n
  BY <1>1
<1>6. h[n + 1] = NextOpen(h[n], t)
  BY <1>1, <1>3, <1>5
<1>7. QED  BY <1>2, <1>3, <1>4, <1>5, <1>6 DEF v

\* A token that is no tag opens nothing, and neither does another in its place.
LEMMA OpenInlineOther ==
    ASSUME NEW s \in TokenList, s # <<>>, NEW t \in Token, ~IsTag(s[Len(s)]), ~IsTag(t)
    PROVE  OpenInline([s EXCEPT ![Len(s)] = t]) = OpenInline(s)
<1> DEFINE n == Len(s)
           f == Front(s)
           u == Last(s)
           v == [s EXCEPT ![n] = t]
<1>1. s \in Seq(Token) /\ n \in Nat /\ n \in 1 .. n /\ u = s[n]
  BY DEF TokenList, Last
<1>2. f \in Seq(Token) /\ u \in Token /\ s = Append(f, u)
  BY <1>1, FrontAndLast
<1>3. v \in Seq(Token) /\ Len(v) = n /\ v[n] = t /\ \A i \in 1 .. (n - 1) : v[i] = s[i]
  BY <1>1
<1> HIDE DEF f, v, u
<1>4. Len(f) = n - 1 /\ \A i \in 1 .. (n - 1) : f[i] = s[i]
  BY <1>1, <1>2
<1>5. v = Append(f, t)
  <2> DEFINE z == Append(f, t)
  <2>1. z \in Seq(Token) /\ Len(z) = Len(v) /\ \A i \in 1 .. Len(v) : z[i] = v[i]
    BY <1>1, <1>2, <1>3, <1>4
  <2> HIDE DEF z
  <2>2. z = v
    BY <1>3, <2>1, SeqEqual
  <2>3. QED  BY <2>2 DEF z
<1>6. OpenInline(s) = NextOpen(OpenInline(f), u) /\ OpenInline(v) = NextOpen(OpenInline(f), t)
  <2>1. f \in TokenList
    BY <1>2 DEF TokenList
  <2>2. OpenInline(Append(f, u)) = NextOpen(OpenInline(f), u) /\ OpenInline(Append(f, t)) = NextOpen(OpenInline(f), t)
    BY <1>2, <2>1, OpenInlineAppend
  <2>3. QED  BY <1>2, <1>5, <2>2
<1>7. ~IsTag(u)
  BY <1>1
<1>8. QED  BY <1>6, <1>7 DEF NextOpen, v

(*******************************************************************************)
(* What each event does to the skip and to the open tags.                      *)
(*******************************************************************************)
\* The same skip, apart from its buffer and from the tags inside of it.
Stays(r, s) ==
    /\ r.on /\ r.name = s.name /\ r.closers = s.closers
    /\ r.to_run <=> s.to_run
\* The skip and the open tags are as they were.
Quiet(r, q) ==
    /\ SameSkip(r.skip, q.skip) /\ r.skip.closers = q.skip.closers
    /\ r.stack = q.stack
    /\ ~q.skip.on => OpenInline(r.run) = OpenInline(q.run)

\* No update of a skip changes what closes it.
LEMMA SkipCloses ==
    ASSUME NEW s, IsSkip(s), NEW c
    PROVE  /\ WithBuffer(s, c).closers = s.closers
           /\ WithDepth(s, c).closers = s.closers
           /\ WithInner(s, c).closers = s.closers
BY DEF IsSkip, WithBuffer, WithDepth, WithInner

\* More text in the buffer.
LEMMA BufferedCloses ==
    ASSUME NEW q, Good(q), NEW raw
    PROVE  Buffered(q, raw).skip.closers = q.skip.closers
<1> DEFINE c == q.skip.buffer \o raw
           s == WithBuffer(q.skip, c)
<1>1. IsMachine(q) /\ IsSkip(q.skip)
  BY DEF Good
<1>2. Buffered(q, raw) = [q EXCEPT !.skip = s]
  BY <1>1 DEF Buffered, WithBuffer
<1> HIDE DEF c
<1>3. s.closers = q.skip.closers
  BY <1>1, SkipCloses
<1> HIDE DEF s
<1>4. Buffered(q, raw).skip = s
  BY <1>1, <1>2 DEF IsMachine
<1>5. QED  BY <1>3, <1>4

\* Inside of a protected element, everything is.
LEMMA BufferedQuiet ==
    ASSUME NEW q, NEW w, Reads(q, w), q.skip.on, NEW raw \in Text
    PROVE  Quiet(Buffered(q, raw), q)
<1>1. Buffered(q, raw).stack = q.stack
  BY BufferedReads
<1>2. SameSkip(Buffered(q, raw).skip, q.skip) /\ Buffered(q, raw).skip.closers = q.skip.closers
  BY BufferedSkip, BufferedCloses DEF Reads
<1>3. QED  BY <1>1, <1>2 DEF Quiet

\* The run after one more token.
LEMMA AppendRun ==
    ASSUME NEW q, IsMachine(q), NEW t
    PROVE  _append(q, t).run = Append(q.run, t) /\ _append(q, t).stack = q.stack /\ _append(q, t).skip = q.skip
<1> DEFINE c == IF q.run = <<>> THEN _context(q) ELSE q.context
           u == Append(q.run, t)
<1>1. _append(q, t) = [q EXCEPT !.context = c, !.run = u]
  BY DEF _append
<1> HIDE DEF c, u
<1>2. [q EXCEPT !.context = c, !.run = u].run = u /\ [q EXCEPT !.context = c, !.run = u].stack = q.stack /\ [q EXCEPT !.context = c, !.run = u].skip = q.skip
  BY DEF IsMachine
<1>3. QED  BY <1>1, <1>2 DEF u

\* A token of another kind.
LEMMA AppendQuiet ==
    ASSUME NEW q, Good(q), NEW t \in Token, t.kind # "tag"
    PROVE  Quiet(_append(q, t), q)
<1>1. IsMachine(q) /\ q.run \in TokenList
  BY DEF Good
<1>2. _append(q, t).run = Append(q.run, t) /\ _append(q, t).stack = q.stack /\ _append(q, t).skip = q.skip
  BY <1>1, AppendRun
<1>3. OpenInline(Append(q.run, t)) = OpenInline(q.run)
  <2>1. OpenInline(Append(q.run, t)) = NextOpen(OpenInline(q.run), t)
    BY <1>1, OpenInlineAppend
  <2>2. QED  BY <2>1 DEF NextOpen, IsTag
<1>4. QED  BY <1>2, <1>3 DEF Quiet, SameSkip

\* _text.
LEMMA TextQuiet ==
    ASSUME NEW q, NEW w, Reads(q, w), NEW raw \in Text
    PROVE  Quiet(_text(q, raw), q)
<1>0. Good(q) /\ IsMachine(q) /\ q.run \in TokenList
  BY DEF Reads, Good
<1>1. CASE q.skip.on
  <2>1. _text(q, raw) = Buffered(q, raw)
    BY <1>1 DEF _text
  <2>2. QED  BY <1>1, <2>1, BufferedQuiet
<1>2. CASE ~q.skip.on /\ q.run # <<>> /\ Last(q.run).kind = "text"
  <2> DEFINE run == q.run
             n == Len(run)
             c == run[n].raw \o raw
             v == [run EXCEPT ![n].raw = c]
             t == [run[n] EXCEPT !.raw = c]
             r == [q EXCEPT !.run = v]
  <2>1. _text(q, raw) = r
    BY <1>0, <1>2 DEF _text, IsMachine
  <2>2. run \in Seq(Token) /\ n \in 1 .. n /\ run[n] \in Token /\ run[n].kind = "text"
    BY <1>0, <1>2 DEF TokenList, Last
  <2>3. c \in Text
    BY <2>2, TokenRaw, TextConcat
  <2> HIDE DEF c
  <2>4. t \in Token /\ t.kind = "text"
    BY <2>2, <2>3 DEF Token
  <2>5. v = [run EXCEPT ![n] = t]
    BY <2>2
  <2>6. r.run = v /\ r.stack = q.stack /\ r.skip = q.skip
    <3> HIDE DEF v
    <3>1. QED  BY <1>0 DEF IsMachine
  <2> HIDE DEF r, v, t
  <2>7. OpenInline(v) = OpenInline(run)
    BY <1>0, <1>2, <2>2, <2>4, <2>5, OpenInlineOther DEF IsTag
  <2>8. QED  BY <2>1, <2>6, <2>7 DEF Quiet, SameSkip
<1>3. CASE ~q.skip.on /\ ~(q.run # <<>> /\ Last(q.run).kind = "text")
  <2> DEFINE t == Tok("text", raw, "", FALSE)
  <2>1. t \in Token
    BY TokText
  <2>2. _text(q, raw) = _append(q, t) /\ t.kind = "text"
    BY <1>3 DEF _text, Tok
  <2> HIDE DEF t
  <2>3. QED  BY <1>0, <2>1, <2>2, AppendQuiet
<1>4. QED  BY <1>1, <1>2, <1>3

\* _opaque, as for a comment.
LEMMA OpaqueQuiet ==
    ASSUME NEW q, NEW w, Reads(q, w), NEW raw \in Text
    PROVE  Quiet(_opaque(q, raw), q)
<1>0. Good(q) /\ IsMachine(q)
  BY DEF Reads, Good
<1>1. CASE q.skip.on
  <2>1. _opaque(q, raw) = Buffered(q, raw)
    BY <1>1 DEF _opaque
  <2>2. QED  BY <1>1, <2>1, BufferedQuiet
<1>2. CASE ~q.skip.on /\ q.run # <<>>
  <2> DEFINE t == Tok("protected", raw, "", FALSE)
  <2>1. _opaque(q, raw) = _append(q, t) /\ t.kind = "protected" /\ t \in Token
    BY <1>2, TokProtected DEF _opaque, Tok
  <2> HIDE DEF t
  <2>2. QED  BY <1>0, <2>1, AppendQuiet
<1>3. CASE ~q.skip.on /\ q.run = <<>>
  <2>1. _opaque(q, raw) = Part(q, raw)
    BY <1>3 DEF _opaque
  <2>2. Part(q, raw).run = q.run /\ Part(q, raw).skip = q.skip /\ Part(q, raw).stack = q.stack
    BY <1>3, PartReads
  <2>3. QED  BY <2>1, <2>2 DEF Quiet, SameSkip
<1>4. QED  BY <1>1, <1>2, <1>3

\* _end_skip leaves the block stack alone.
LEMMA EndSkipStack ==
    ASSUME NEW q, Good(q)
    PROVE  _end_skip(q).stack = q.stack
<1> DEFINE r == [q EXCEPT !.skip = NoSkip]
           b == q.skip.buffer
           t == Tok("protected", b, "", FALSE)
           x == Append(r.parts, [slot |-> 0, raw |-> b])
<1>1. IsMachine(q)
  BY DEF Good
<1>2. IsMachine(r) /\ r.stack = q.stack
  <2> DEFINE s == NoSkip
  <2> HIDE DEF s
  <2>1. QED  BY <1>1 DEF IsMachine, s
<1>3. _end_skip(q) = _append(r, t) \/ _end_skip(q) = Part(r, b)
  BY DEF _end_skip
<1> HIDE DEF r, t
<1>4. _append(r, t).stack = r.stack
  BY <1>2, AppendRun
<1>5. Part(r, b) = [r EXCEPT !.parts = x]
  BY DEF Part
<1> HIDE DEF x
<1>6. Part(r, b).stack = r.stack
  BY <1>2, <1>5 DEF IsMachine
<1>7. QED  BY <1>2, <1>3, <1>4, <1>6

\* Rooted leaves the open tags alone.
LEMMA RootedOpen ==
    ASSUME NEW q, Good(q), NEW lang
    PROVE  Rooted(q, lang).stack = q.stack /\ Rooted(q, lang).run = q.run
<1> DEFINE x == q.top_level + 1
           y == IF q.top_level = 0 THEN lang ELSE "none"
           r == [q EXCEPT !.top_level = x, !.root_lang = y]
<1>1. Rooted(q, lang) = q \/ Rooted(q, lang) = r
  BY DEF Rooted
<1> HIDE DEF x, y
<1>2. r.stack = q.stack /\ r.run = q.run
  BY DEF Good, IsMachine
<1> HIDE DEF r
<1>3. QED  BY <1>1, <1>2

\* The block stack is a list.
IsList(s) == \E X : s \in Seq(X)

\* The last of some places in a list.
LEMMA LastWithin ==
    ASSUME NEW n \in Nat, NEW I, I \subseteq 1 .. n
    PROVE  (IF I # {} THEN Max(I) ELSE 0) \in 0 .. n
<1>1. CASE I = {}
  BY <1>1
<1>2. CASE I # {}
  <2>1. I \subseteq 0 .. n
    OBVIOUS
  <2>2. \E i \in I : \A j \in I : i >= j
    BY <1>2, <2>1, GreatestNumber
  <2>3. Max(I) = CHOOSE i \in I : \A j \in I : i >= j
    BY DEF Max
  <2>4. Max(I) \in I
    BY <2>2, <2>3
  <2>5. QED  BY <1>2, <2>1, <2>4
<1>3. QED  BY <1>1, <1>2

\* The beginning of a list, and one more element.
LEMMA ListCut ==
    ASSUME NEW s, IsList(s)
    PROVE  /\ \A m \in 0 .. Len(s) : IsList(SubSeq(s, 1, m))
           /\ \A x : IsList(Append(s, x)) /\ x \in ToSet(Append(s, x))
           /\ s # <<>> => IsList(Front(s))
           /\ Len(s) \in Nat
<1>1. PICK X : s \in Seq(X)
  BY DEF IsList
<1>2. Len(s) \in Nat
  BY <1>1
<1>3. ASSUME NEW m \in 0 .. Len(s)
      PROVE  IsList(SubSeq(s, 1, m))
  <2>1. SubSeq(s, 1, m) \in Seq(X)
    BY <1>1, <1>2
  <2>2. QED  BY <2>1 DEF IsList
<1>4. ASSUME NEW x
      PROVE  IsList(Append(s, x)) /\ x \in ToSet(Append(s, x))
  <2> DEFINE Y == X \cup {x}
             u == Append(s, x)
  <2>1. s \in Seq(Y) /\ x \in Y
    BY <1>1
  <2> HIDE DEF Y
  <2>2. u \in Seq(Y) /\ Len(s) + 1 \in DOMAIN u /\ u[Len(s) + 1] = x
    BY <2>1
  <2> HIDE DEF u
  <2>3. QED  BY <2>2 DEF IsList, ToSet, u
<1>5. s # <<>> => IsList(Front(s))
  BY <1>1, FrontAndLast DEF IsList
<1>6. QED  BY <1>2, <1>3, <1>4, <1>5

\* The stack at a block.
LEMMA BlockStack ==
    ASSUME NEW s, IsList(s), NEW tag
    PROVE  IsList(Closes(WithoutP(s), IMPLIED_END(tag)))
<1> DEFINE v == WithoutP(s)
           e == IMPLIED_END(tag)
           I == {i \in 1 .. Len(v) : v[i].tag \in e.closes \cup e.boundary}
           k == IF I # {} THEN Max(I) ELSE 0
<1>1. IsList(v)
  BY ListCut DEF WithoutP
<1> HIDE DEF v, e
<1>2. Closes(v, e) = v \/ (k > 0 /\ Closes(v, e) = SubSeq(v, 1, k - 1))
  BY DEF Closes, SelectLastInSeq
<1>3. Len(v) \in Nat /\ I \subseteq 1 .. Len(v)
  BY <1>1, ListCut
<1> HIDE DEF I
<1>4. k \in 0 .. Len(v)
  BY <1>3, LastWithin
<1> HIDE DEF k
<1>5. k > 0 => k - 1 \in 0 .. Len(v)
  BY <1>3, <1>4
<1>6. IsList(Closes(v, e))
  BY <1>1, <1>2, <1>5, ListCut
<1>7. QED  BY <1>6 DEF v, e

\* A start tag outside of a protected element: what closes the one that it opens, and that a
\* tag that it leaves open is known.
LEMMA StartOutsideOpens ==
    ASSUME NEW q, NEW w, Reads(q, w), ~q.skip.on, IsList(q.stack), NEW raw \in Text,
           NEW e, e.tag \in TagNames, NEW void
    PROVE  LET r == StartOutside(q, e, raw, void)
           IN  /\ IsList(r.stack)
               /\ Protected(e) /\ ~void =>
                     r.skip.closers = IF e.tag \in Inline THEN OpenAncestors(q) ELSE Ancestors(q.stack)
               /\ ~Protected(e) /\ ~void /\ e.tag \notin VOID_TAGS =>
                     IF e.tag \in Inline THEN e.tag \in OpenAncestors(r) ELSE e.tag \in Ancestors(r.stack)
<1> DEFINE tag == e.tag
           inline == tag \in INLINE_TAGS \cup PROTECTED_INLINE_TAGS
           protect == tag \in SKIPPED_TAGS \cup PROTECTED_INLINE_TAGS \/ e.no
           opened == [on |-> TRUE, name |-> tag, to_run |-> inline, buffer |-> raw,
                      depth |-> 1, inner |-> <<>>, closers |-> OpenAncestors(q)]
           closed == [opened EXCEPT !.closers = Ancestors(q.stack)]
           r == StartOutside(q, e, raw, void)
           Goal == /\ IsList(r.stack)
                   /\ Protected(e) /\ ~void =>
                         r.skip.closers = IF tag \in Inline THEN OpenAncestors(q) ELSE Ancestors(q.stack)
                   /\ ~Protected(e) /\ ~void /\ tag \notin VOID_TAGS =>
                         IF tag \in Inline THEN tag \in OpenAncestors(r) ELSE tag \in Ancestors(r.stack)
<1>0. Good(q) /\ IsMachine(q) /\ q.run \in TokenList
  BY DEF Reads, Good
<1>1. opened.closers = OpenAncestors(q) /\ closed.closers = Ancestors(q.stack)
  <2> DEFINE o == OpenAncestors(q)
             a == Ancestors(q.stack)
  <2>1. PICK yes : yes = TRUE
    OBVIOUS
  <2>2. PICK run : run = inline
    OBVIOUS
  <2> HIDE DEF o, a, inline, tag
  <2>3. /\ [on |-> yes, name |-> tag, to_run |-> run, buffer |-> raw, depth |-> 1, inner |-> <<>>, closers |-> o].closers = o
        /\ [[on |-> yes, name |-> tag, to_run |-> run, buffer |-> raw, depth |-> 1, inner |-> <<>>, closers |-> o]
              EXCEPT !.closers = a].closers = a
    OBVIOUS
  <2>4. QED  BY <2>1, <2>2, <2>3 DEF o, a
<1>2. (protect <=> Protected(e)) /\ (inline <=> tag \in Inline)
  BY DEF Protected, Inline
<1>3. CASE protect /\ void /\ inline
  <2>1. r = _opaque(q, raw)
    BY <1>3 DEF StartOutside
  <2>2. r.stack = q.stack
    BY <2>1, OpaqueQuiet DEF Quiet
  <2> HIDE DEF r
  <2>3. Goal
    BY <1>2, <1>3, <2>2
  <2>4. QED  BY <2>3 DEF r
<1>4. CASE protect /\ ~void /\ inline
  <2>1. r = [q EXCEPT !.skip = opened]
    BY <1>4 DEF StartOutside
  <2> HIDE DEF opened, r
  <2>2. r.skip = opened /\ r.stack = q.stack
    BY <1>0, <2>1 DEF IsMachine
  <2>3. Goal
    BY <1>1, <1>2, <1>4, <2>2
  <2>4. QED  BY <2>3 DEF r
<1>5. CASE protect /\ ~void /\ ~inline
  <2> DEFINE f == _flush(q)
  <2>1. r = [f EXCEPT !.skip = closed]
    BY <1>5 DEF StartOutside
  <2>2. IsMachine(f) /\ f.stack = q.stack
    BY FlushReads DEF Reads, Good
  <2> HIDE DEF f, closed, r
  <2>3. r.skip = closed /\ r.stack = q.stack
    BY <2>1, <2>2 DEF IsMachine
  <2>4. Goal
    BY <1>1, <1>2, <1>5, <2>3
  <2>5. QED  BY <2>4 DEF r
<1>6. CASE tag \in INLINE_TAGS /\ ~protect
  <2> DEFINE t == Tok("tag", raw, tag, FALSE)
  <2>1. r = _append(q, t)
    BY <1>6 DEF StartOutside
  <2>2. t \in Token /\ t.kind = "tag" /\ t.name = tag /\ ~t.closing
    BY TokTag DEF Tok
  <2> HIDE DEF t, r
  <2>3. r.run = Append(q.run, t) /\ r.stack = q.stack
    BY <1>0, <2>1, AppendRun
  <2>4. tag \notin VOID_TAGS => tag \in OpenAncestors(r)
    <3> SUFFICES ASSUME tag \notin VOID_TAGS PROVE tag \in ToSet(OpenInline(r.run))
      BY DEF OpenAncestors
    <3>1. OpenInline(q.run) \in Seq(TagNames) /\ OpenInline(r.run) = NextOpen(OpenInline(q.run), t)
      BY <1>0, <2>2, <2>3, OpenInlineAppend
    <3>2. OpenInline(r.run) = Append(OpenInline(q.run), tag)
      BY <2>2, <3>1 DEF NextOpen, IsTag
    <3>3. IsList(OpenInline(q.run))
      BY <3>1 DEF IsList
    <3>4. QED  BY <3>2, <3>3, ListCut
  <2>5. tag \in Inline
    BY <1>6 DEF Inline
  <2>6. Goal
    BY <1>2, <1>6, <2>3, <2>4, <2>5
  <2>7. QED  BY <2>6 DEF r
<1>7. CASE /\ ~(protect /\ void /\ inline) /\ ~(protect /\ ~void /\ inline)
           /\ ~(protect /\ ~void /\ ~inline) /\ ~(tag \in INLINE_TAGS /\ ~protect)
  <2> DEFINE stack == Closes(WithoutP(q.stack), IMPLIED_END(tag))
             frame == [tag |-> tag, lang |-> IF e.lang = "none" THEN ContextOf(stack) ELSE e.lang]
             x == IF void THEN stack ELSE Append(stack, frame)
             b == Part(_flush(q), raw)
  <2>1. r = [b EXCEPT !.stack = x]
    <3>1. r = _block_start(q, tag, raw, e.lang, void)
      BY <1>7 DEF StartOutside
    <3>2. QED  BY <3>1 DEF _block_start
  <2>2. IsMachine(b)
    BY BlockReads DEF Reads, Good
  <2>3. IsList(stack) /\ frame.tag = tag
    BY BlockStack
  <2> HIDE DEF stack, frame
  <2>4. IsList(x) /\ (~void => frame \in ToSet(x))
    BY <2>3, ListCut
  <2> HIDE DEF b, x, r
  <2>5. r.stack = x
    BY <2>1, <2>2 DEF IsMachine
  <2>6. ~void => tag \in Ancestors(x)
    BY <2>3, <2>4 DEF Ancestors, ToSet
  <2>7. ~void => ~protect /\ ~inline
    BY <1>7
  <2> HIDE DEF protect, inline, tag
  <2>8. Goal
    BY <1>2, <2>4, <2>5, <2>6, <2>7
  <2>9. QED  BY <2>8 DEF r, tag
<1>8. QED  BY <1>3, <1>4, <1>5, <1>6, <1>7

\* An end tag outside of one.
LEMMA EndOutsideStack ==
    ASSUME NEW q, NEW w, Reads(q, w), ~q.skip.on, IsList(q.stack), NEW raw \in Text, NEW tag \in TagNames
    PROVE  IsList(EndOutside(q, tag, raw).stack)
<1> DEFINE r == EndOutside(q, tag, raw)
<1>0. Good(q) /\ IsMachine(q)
  BY DEF Reads, Good
<1>1. CASE tag \in INLINE_TAGS
  <2> DEFINE t == Tok("tag", raw, tag, TRUE)
  <2>1. r = _append(q, t)
    BY <1>1 DEF EndOutside
  <2> HIDE DEF t, r
  <2>2. r.stack = q.stack
    BY <1>0, <2>1, AppendRun
  <2>3. QED  BY <2>2 DEF r
<1>2. CASE tag \notin INLINE_TAGS
  <2> DEFINE f == _flush(q)
             b == Part(f, raw)
             I == {i \in 1 .. Len(b.stack) : b.stack[i].tag = tag}
             k == IF I # {} THEN Max(I) ELSE 0
             x == SubSeq(b.stack, 1, k - 1)
             c == [b EXCEPT !.stack = x]
  <2>1. Reads(f, w) /\ f.run = <<>> /\ f.skip = q.skip /\ f.stack = q.stack
    BY FlushReads
  <2>2. Reads(b, w \o raw) /\ b.stack = q.stack
    <3> HIDE DEF f
    <3>1. QED  BY <2>1, PartReads
  <2>3. IsMachine(b)
    BY <2>2 DEF Reads, Good
  <2>4. r = b \/ (k # 0 /\ r = c)
    BY <1>2, <2>3 DEF EndOutside, SelectLastInSeq
  <2>5. IsList(b.stack) /\ Len(b.stack) \in Nat
    BY <2>2, ListCut
  <2> HIDE DEF b, r
  <2>6. I \subseteq 1 .. Len(b.stack)
    OBVIOUS
  <2> HIDE DEF I
  <2>7. k \in 0 .. Len(b.stack)
    BY <2>5, <2>6, LastWithin
  <2> HIDE DEF k
  <2>8. k # 0 => k - 1 \in 0 .. Len(b.stack)
    BY <2>5, <2>7
  <2>9. k # 0 => IsList(x)
    BY <2>5, <2>8, ListCut
  <2> HIDE DEF x
  <2>10. c.stack = x
    BY <2>3 DEF IsMachine
  <2>11. QED  BY <2>4, <2>5, <2>9, <2>10 DEF r
<1>3. QED  BY <1>1, <1>2

\* A start tag stays inside of the protected element ...
Nests(r, q, tag, void) ==
    /\ q.skip.on /\ ~LeavesSkip(q, tag) /\ Stays(r.skip, q.skip)
    /\ void => r.skip.depth = q.skip.depth /\ r.skip.inner = q.skip.inner
    /\ ~void /\ tag = q.skip.name => r.skip.depth = q.skip.depth + 1 /\ r.skip.inner = q.skip.inner
\* ... or is outside, and opens one exactly if it is protected.
Opens(r, q, e, void) ==
    /\ ~q.skip.on \/ LeavesSkip(q, e.tag)
    /\ Protected(e) /\ ~void =>
          /\ JustOpened(r.skip, e.tag)
          /\ r.skip.closers = IF e.tag \in Inline THEN OpenAncestors(q) ELSE Ancestors(q.stack)
    /\ ~(Protected(e) /\ ~void) => ~r.skip.on
    /\ ~Protected(e) /\ ~void /\ e.tag \notin VOID_TAGS =>
          IF e.tag \in Inline THEN e.tag \in OpenAncestors(r) ELSE e.tag \in Ancestors(r.stack)

\* A start tag inside of a protected element.
LEMMA NestedStays ==
    ASSUME NEW q, NEW w, Reads(q, w), q.skip.on, NEW raw \in Text, NEW tag, NEW void, ~LeavesSkip(q, tag)
    PROVE  LET r == NestedStart(q, tag, raw, void)
           IN  Nests(r, q, tag, void) /\ r.stack = q.stack
<1> DEFINE b == Buffered(q, raw)
           z == b.skip
           d == WithDepth(z, z.depth + 1)
           c == Append(z.inner, tag)
           i == WithInner(z, c)
           r == NestedStart(q, tag, raw, void)
<1>1. Reads(b, w \o raw) /\ b.stack = q.stack /\ Quiet(b, q)
  BY BufferedReads, BufferedQuiet
<1>2. IsMachine(b) /\ IsSkip(z) /\ SameSkip(z, q.skip) /\ z.closers = q.skip.closers
  BY <1>1 DEF Reads, Good, Quiet
<1>3. /\ void => r = b
      /\ ~void /\ tag = q.skip.name => r = [b EXCEPT !.skip = d]
      /\ ~void /\ tag # q.skip.name => r = [b EXCEPT !.skip = i]
  BY <1>2 DEF NestedStart, WithDepth, WithInner
<1> HIDE DEF b, r, z, c
<1>4. /\ (d.on <=> z.on) /\ (d.to_run <=> z.to_run) /\ d.closers = z.closers
      /\ d.depth = z.depth + 1 /\ d.name = z.name /\ d.inner = z.inner
  BY <1>2, SkipUpdates, SkipFields, SkipCloses
<1>5. (i.on <=> z.on) /\ (i.to_run <=> z.to_run) /\ i.closers = z.closers /\ i.name = z.name
  BY <1>2, SkipUpdates, SkipFields, SkipCloses
<1> HIDE DEF d, i
<1>6. /\ [b EXCEPT !.skip = d].skip = d /\ [b EXCEPT !.skip = d].stack = b.stack
      /\ [b EXCEPT !.skip = i].skip = i /\ [b EXCEPT !.skip = i].stack = b.stack
  BY <1>2 DEF IsMachine
<1>7. /\ void => r.skip = z
      /\ ~void /\ tag = q.skip.name => r.skip = d
      /\ ~void /\ tag # q.skip.name => r.skip = i
      /\ r.stack = q.stack
  BY <1>1, <1>3, <1>6 DEF z
<1>8. Nests(r, q, tag, void)
  BY <1>2, <1>4, <1>5, <1>7 DEF Nests, Stays, SameSkip
<1>9. QED  BY <1>7, <1>8 DEF r

\* _start.
LEMMA StartTracks ==
    ASSUME NEW q, NEW w, Reads(q, w), IsList(q.stack), NEW raw \in Text, NEW e, e.tag \in TagNames, NEW void
    PROVE  LET r == _start(q, e, raw, void)
           IN  /\ IsList(r.stack)
               /\ Nests(r, q, e.tag, void) \/ Opens(r, q, e, void)
<1> DEFINE tag == e.tag
           r == _start(q, e, raw, void)
           Goal == IsList(r.stack) /\ (Nests(r, q, e.tag, void) \/ Opens(r, q, e, void))
<1>0. Good(q)
  BY DEF Reads
<1>1. ASSUME NEW x, Reads(x, w), ~x.skip.on, x.stack = q.stack, ~q.skip.on => x = q,
             ~q.skip.on \/ LeavesSkip(q, tag), r = StartOutside(Rooted(x, e.lang), e, raw, void)
      PROVE  Goal
  <2> DEFINE y == Rooted(x, e.lang)
  <2>1. Reads(y, w) /\ y.skip = x.skip /\ y.stack = x.stack /\ y.run = x.run
    BY <1>1, RootedReads, RootedOpen DEF Reads
  <2> HIDE DEF y
  <2>2. ~y.skip.on /\ IsList(y.stack) /\ r = StartOutside(y, e, raw, void)
    BY <1>1, <2>1 DEF y
  <2>3. /\ Protected(e) /\ ~void => JustOpened(r.skip, tag)
        /\ ~(Protected(e) /\ ~void) => ~r.skip.on
    BY <2>1, <2>2, StartOutsideOffers
  <2>4. /\ IsList(r.stack)
        /\ Protected(e) /\ ~void =>
              r.skip.closers = IF tag \in Inline THEN OpenAncestors(y) ELSE Ancestors(y.stack)
        /\ ~Protected(e) /\ ~void /\ tag \notin VOID_TAGS =>
              IF tag \in Inline THEN tag \in OpenAncestors(r) ELSE tag \in Ancestors(r.stack)
    BY <2>1, <2>2, StartOutsideOpens
  <2>5. tag \in Inline => OpenAncestors(y) = OpenAncestors(q)
    <3> SUFFICES ASSUME tag \in Inline PROVE OpenAncestors(y) = OpenAncestors(q)
      OBVIOUS
    <3>1. ~LeavesSkip(q, tag)
      BY DEF LeavesSkip, Inline
    <3>2. y.stack = q.stack /\ y.run = q.run
      BY <1>1, <2>1, <3>1
    <3>3. QED  BY <3>2 DEF OpenAncestors
  <2>6. y.stack = q.stack
    BY <1>1, <2>1
  <2> HIDE DEF r, tag
  <2>7. Opens(r, q, e, void)
    BY <1>1, <2>3, <2>4, <2>5, <2>6 DEF Opens, tag
  <2>8. QED  BY <2>4, <2>7
<1>2. CASE ~q.skip.on
  <2>1. r = StartOutside(Rooted(q, e.lang), e, raw, void)
    BY <1>2 DEF _start
  <2> HIDE DEF r
  <2>2. Goal
    BY <1>1, <1>2, <2>1
  <2>3. QED  BY <2>2 DEF r
<1>3. CASE q.skip.on /\ LeavesSkip(q, tag)
  <2> DEFINE x == _end_skip(q)
  <2>1. r = StartOutside(Rooted(x, e.lang), e, raw, void)
    BY <1>3 DEF _start
  <2>2. Reads(x, w) /\ ~x.skip.on /\ x.stack = q.stack
    BY <1>0, <1>3, EndSkipReads, EndSkipStack
  <2> HIDE DEF r, x
  <2>3. Goal
    BY <1>1, <1>3, <2>1, <2>2
  <2>4. QED  BY <2>3 DEF r
<1>4. CASE q.skip.on /\ ~LeavesSkip(q, tag)
  <2>1. r = NestedStart(q, tag, raw, void)
    BY <1>4 DEF _start
  <2>2. Nests(r, q, tag, void) /\ r.stack = q.stack
    BY <1>4, <2>1, NestedStays
  <2> HIDE DEF r
  <2>3. Goal
    BY <2>2
  <2>4. QED  BY <2>3 DEF r
<1>5. QED  BY <1>2, <1>3, <1>4

\* _end: a protected element that is still open after an end tag.
EndsNone(r, q, tag) ==
    /\ q.skip.on /\ Stays(r.skip, q.skip)
    /\ q.skip.inner = <<>> /\ tag = q.skip.name =>
          q.skip.depth # 1 /\ r.skip.depth = q.skip.depth - 1 /\ r.skip.inner = <<>>
    /\ q.skip.inner = <<>> /\ tag # q.skip.name => tag \notin q.skip.closers

LEMMA EndTracks ==
    ASSUME NEW q, NEW w, Reads(q, w), SkipOK(q.skip), IsList(q.stack), NEW raw \in Text, NEW tag \in TagNames
    PROVE  LET r == _end(q, tag, raw)
           IN  IsList(r.stack) /\ (r.skip.on => EndsNone(r, q, tag))
<1> DEFINE r == _end(q, tag, raw)
           Goal == IsList(r.stack) /\ (r.skip.on => EndsNone(r, q, tag))
<1>0. Good(q)
  BY DEF Reads
<1>1. CASE ~q.skip.on
  <2>1. r = EndOutside(q, tag, raw)
    BY <1>1 DEF _end
  <2>2. IsList(r.stack) /\ ~r.skip.on
    BY <1>1, <2>1, EndOutsideStack, EndOutsideOffers
  <2> HIDE DEF r
  <2>3. Goal
    BY <2>2
  <2>4. QED  BY <2>3 DEF r
<1>2. CASE q.skip.on
  <2> DEFINE b == Buffered(q, raw)
             z == b.skip
             k == LastOf(z.inner, tag)
             d == WithDepth(z, z.depth - 1)
             m == RemoveAt(z.inner, k)
             i == WithInner(z, m)
             x == [b EXCEPT !.skip = d]
             y == [b EXCEPT !.skip = i]
             u == _end_skip(q)
  <2>1. /\ k # 0 => r = y
        /\ k = 0 /\ tag = z.name => r = IF z.depth = 1 THEN _end_skip(x) ELSE x
        /\ k = 0 /\ tag # z.name => (r = b /\ ~ClosesSkip(q.skip, tag)) \/ r = EndOutside(u, tag, raw)
    BY <1>2, EndCases
  <2>2. Reads(b, w \o raw) /\ b.stack = q.stack /\ Quiet(b, q)
    BY <1>2, BufferedReads, BufferedQuiet
  <2> HIDE DEF b, r
  <2>3. Good(b) /\ IsMachine(b) /\ IsSkip(z) /\ SameSkip(z, q.skip) /\ z.closers = q.skip.closers
    BY <2>2 DEF Reads, Good, Quiet
  <2>4. z.on /\ SkipOK(z)
    BY <1>2, <2>3, SameSkipHolds DEF SameSkip
  <2> HIDE DEF z, m
  <2>5. /\ IsSkip(d) /\ d.buffer = z.buffer /\ (d.on <=> z.on) /\ (d.to_run <=> z.to_run) /\ d.closers = z.closers
        /\ d.depth = z.depth - 1 /\ d.name = z.name /\ d.inner = z.inner
    BY <2>3, SkipUpdates, SkipFields, SkipCloses
  <2>6. (i.on <=> z.on) /\ (i.to_run <=> z.to_run) /\ i.closers = z.closers /\ i.name = z.name
    BY <2>3, SkipUpdates, SkipFields, SkipCloses
  <2> HIDE DEF d, i
  <2>7. x.skip = d /\ x.stack = b.stack /\ y.skip = i /\ y.stack = b.stack
    BY <2>3 DEF IsMachine
  <2>8. Reads(x, w \o raw)
    BY <2>2, <2>5, SkipReads DEF z
  <2> HIDE DEF x, y
  <2>9. q.skip.inner = <<>> => k = 0
    <3> SUFFICES ASSUME q.skip.inner = <<>> PROVE k = 0
      OBVIOUS
    <3>1. z.inner = <<>> /\ z.inner \in Seq(TagNames)
      BY <2>3, <2>4 DEF SameSkip, SkipOK
    <3>2. Len(z.inner) = 0
      BY <3>1
    <3>3. k \in 0 .. 0
      BY <3>1, <3>2, LastOfProperties
    <3> HIDE DEF k
    <3>4. QED  BY <3>3
  <2> HIDE DEF k
  <2>10. CASE k # 0
    <3>1. r.skip = i /\ r.stack = q.stack
      BY <2>1, <2>2, <2>7, <2>10
    <3>2. Goal
      BY <1>2, <2>3, <2>4, <2>6, <2>9, <2>10, <3>1 DEF EndsNone, Stays, SameSkip
    <3>3. QED  BY <3>2 DEF r
  <2>11. CASE k = 0 /\ tag = z.name /\ z.depth # 1
    <3>1. r.skip = d /\ r.stack = q.stack
      BY <2>1, <2>2, <2>7, <2>11
    <3>2. Goal
      BY <1>2, <2>3, <2>4, <2>5, <2>11, <3>1 DEF EndsNone, Stays, SameSkip
    <3>3. QED  BY <3>2 DEF r
  <2>12. CASE k = 0 /\ tag = z.name /\ z.depth = 1
    <3>1. r = _end_skip(x) /\ x.skip.on
      BY <2>1, <2>4, <2>5, <2>7, <2>12
    <3>2. ~r.skip.on /\ r.stack = x.stack
      BY <2>8, <3>1, EndSkipReads, EndSkipStack DEF Reads
    <3>3. Goal
      BY <2>2, <2>7, <3>2
    <3>4. QED  BY <3>3 DEF r
  <2>13. CASE k = 0 /\ tag # z.name
    <3>1. CASE r = b /\ ~ClosesSkip(q.skip, tag)
      <4>1. r.skip = z /\ r.stack = q.stack
        BY <2>2, <3>1 DEF z
      <4>2. Goal
        BY <1>2, <2>3, <2>4, <2>13, <3>1, <4>1 DEF EndsNone, Stays, SameSkip, ClosesSkip
      <4>3. QED  BY <4>2 DEF r
    <3>2. CASE r = EndOutside(u, tag, raw)
      <4>1. Reads(u, w) /\ ~u.skip.on /\ u.stack = q.stack
        BY <1>0, <1>2, EndSkipReads, EndSkipStack
      <4> HIDE DEF u
      <4>2. IsList(r.stack) /\ ~r.skip.on
        BY <3>2, <4>1, EndOutsideStack, EndOutsideOffers
      <4>3. Goal
        BY <4>2
      <4>4. QED  BY <4>3 DEF r
    <3>3. QED  BY <2>1, <2>13, <3>1, <3>2
  <2>14. QED  BY <2>10, <2>11, <2>12, <2>13
<1>3. QED  BY <1>1, <1>2

(*******************************************************************************)
(* The elements of the source that are open.                                   *)
(*******************************************************************************)
\* Protects, Same and StillOpen of the events s, and how often the element of start tag i is
\* open at n.
ProtectsIn(s, i) ==
    s[i].type = "start" /\ s[i].tag \notin VOID_TAGS
       /\ (s[i].no \/ s[i].tag \in SKIPPED_TAGS \cup PROTECTED_INLINE_TAGS)
SameIn(s, i, n, type) == {k \in i .. n : s[k].type = type /\ s[k].tag = s[i].tag}
DepthIn(s, i, n) == Cardinality(SameIn(s, i, n, "start")) - Cardinality(SameIn(s, i, n, "end"))
AloneIn(s, i, n) == \A k \in i .. n : s[k].type \in {"text", "comment"} \/ s[k].tag = s[i].tag
OpenIn(s, i, n) ==
    /\ ProtectsIn(s, i)
    /\ AloneIn(s, i, n)
    /\ \A k \in i .. n : Cardinality(SameIn(s, i, k, "start")) > Cardinality(SameIn(s, i, k, "end"))

\* Which is what Segmenter says of src.
LEMMA OfSource ==
    /\ \A i : Protects(i) <=> ProtectsIn(src, i)
    /\ \A i, n : StillOpen(i, n) <=> OpenIn(src, i, n)
<1>1. \A i : Protects(i) <=> ProtectsIn(src, i)
  BY DEF Protects, ProtectsIn
<1>2. \A i, n, type : Same(i, n, type) = SameIn(src, i, n, type)
  BY DEF Same, SameIn
<1>3. QED  BY <1>1, <1>2, Zenon DEF StillOpen, OpenIn, AloneIn

\* The events of a tag are finitely many.
LEMMA SameFinite ==
    ASSUME NEW s, NEW i \in Nat, NEW n \in Nat, NEW type
    PROVE  /\ IsFiniteSet(SameIn(s, i, n, type)) /\ Cardinality(SameIn(s, i, n, type)) \in Nat
           /\ SameIn(s, i, n, type) \subseteq i .. n
<1>1. IsFiniteSet(i .. n) /\ SameIn(s, i, n, type) \in SUBSET (i .. n)
  BY FS_Interval DEF SameIn
<1>2. IsFiniteSet(SameIn(s, i, n, type))
  BY <1>1, FS_Subset
<1>3. QED  BY <1>1, <1>2, FS_CardinalityType

\* One more event changes nothing of what is before it.
LEMMA SamePast ==
    ASSUME NEW X, NEW s \in Seq(X), NEW e \in X, NEW i \in 1 .. Len(s), NEW k \in 1 .. Len(s)
    PROVE  LET r == Append(s, e)
           IN  /\ ProtectsIn(r, i) <=> ProtectsIn(s, i)
               /\ OpenIn(r, i, k) <=> OpenIn(s, i, k)
               /\ \A type : SameIn(r, i, k, type) = SameIn(s, i, k, type)
<1> DEFINE n == Len(s)
           r == Append(s, e)
<1>1. n \in Nat /\ i \in 1 .. n /\ k \in 1 .. n
  OBVIOUS
<1>2. \A j \in 1 .. n : r[j] = s[j]
  OBVIOUS
<1> HIDE DEF r, n
<1>3. r[i] = s[i] /\ \A h \in 1 .. n : \A j \in i .. h : r[j] = s[j]
  BY <1>1, <1>2
<1>4. \A h \in 1 .. n : \A type : SameIn(r, i, h, type) = SameIn(s, i, h, type)
  BY <1>3 DEF SameIn
<1>5. ProtectsIn(r, i) <=> ProtectsIn(s, i)
  BY <1>3 DEF ProtectsIn
<1>6. AloneIn(r, i, k) <=> AloneIn(s, i, k)
  BY <1>1, <1>3 DEF AloneIn
<1>7. \A h \in i .. k : h \in 1 .. n
  BY <1>1
<1>8. OpenIn(r, i, k) <=> OpenIn(s, i, k)
  BY <1>4, <1>5, <1>6, <1>7 DEF OpenIn
<1>9. QED  BY <1>1, <1>4, <1>5, <1>8 DEF r

\* How an event changes the depth of its own element.
Turn(e) == IF e.type = "start" THEN 1 ELSE IF e.type = "end" THEN -1 ELSE 0

\* The events of a tag, with one more event.
LEMMA SameMore ==
    ASSUME NEW X, NEW s \in Seq(X), NEW e \in X, NEW i \in 1 .. Len(s), NEW type
    PROVE  LET n == Len(s)
               more == e.type = type /\ e.tag = s[i].tag
           IN  Cardinality(SameIn(Append(s, e), i, n + 1, type)) =
                  Cardinality(SameIn(s, i, n, type)) + (IF more THEN 1 ELSE 0)
<1> DEFINE n == Len(s)
           r == Append(s, e)
           more == e.type = type /\ e.tag = s[i].tag
           A == SameIn(s, i, n, type)
           B == SameIn(r, i, n + 1, type)
<1>1. n \in Nat /\ i \in 1 .. n /\ i \in Nat
  OBVIOUS
<1>2. r[n + 1] = e /\ \A j \in 1 .. n : r[j] = s[j]
  OBVIOUS
<1> HIDE DEF r, n
<1>3. /\ \A j : j \in i .. (n + 1) <=> j \in i .. n \/ j = n + 1
      /\ \A j \in i .. n : j \in 1 .. n
      /\ n + 1 \notin i .. n
  BY <1>1
<1>4. IsFiniteSet(A) /\ Cardinality(A) \in Nat /\ A \subseteq i .. n
  BY <1>1, SameFinite
<1>5. n + 1 \notin A
  BY <1>3, <1>4
<1>6. CASE more
  <2>1. B = A \cup {n + 1}
    BY <1>1, <1>2, <1>3, <1>6 DEF SameIn
  <2>2. Cardinality(B) = Cardinality(A) + 1
    <3> HIDE DEF A, B
    <3>1. QED  BY <1>4, <1>5, <2>1, FS_AddElement
  <2> HIDE DEF A, B
  <2>3. Cardinality(B) = Cardinality(A) + (IF more THEN 1 ELSE 0)
    BY <1>6, <2>2
  <2>4. QED  BY <2>3 DEF A, B, r, n
<1>7. CASE ~more
  <2>1. B = A
    BY <1>1, <1>2, <1>3, <1>7 DEF SameIn
  <2> HIDE DEF A, B
  <2>2. Cardinality(B) = Cardinality(A) + (IF more THEN 1 ELSE 0)
    BY <1>4, <1>7, <2>1
  <2>3. QED  BY <2>2 DEF A, B, r, n
<1>8. QED  BY <1>6, <1>7

\* An element that is open after one more event was open before it.
LEMMA OpenMore ==
    ASSUME NEW X, NEW s \in Seq(X), NEW e \in X, NEW i \in 1 .. Len(s), OpenIn(Append(s, e), i, Len(s) + 1)
    PROVE  LET n == Len(s)
               now == DepthIn(Append(s, e), i, n + 1)
               old == DepthIn(s, i, n)
           IN  /\ OpenIn(s, i, n) /\ s[i].tag \notin VOID_TAGS
               /\ e.type \in {"text", "comment"} \/ e.tag = s[i].tag
               /\ old \in Nat \ {0} /\ now \in Nat \ {0} /\ now = old + Turn(e)
<1> DEFINE n == Len(s)
           r == Append(s, e)
           a == Cardinality(SameIn(s, i, n, "start"))
           b == Cardinality(SameIn(s, i, n, "end"))
           c == Cardinality(SameIn(r, i, n + 1, "start"))
           d == Cardinality(SameIn(r, i, n + 1, "end"))
<1>1. n \in Nat /\ i \in 1 .. n /\ n \in 1 .. n /\ i \in Nat /\ n + 1 \in Nat
  OBVIOUS
<1>2. r[n + 1] = e /\ r[i] = s[i]
  OBVIOUS
<1>3. /\ c = a + (IF e.type = "start" /\ e.tag = s[i].tag THEN 1 ELSE 0)
      /\ d = b + (IF e.type = "end" /\ e.tag = s[i].tag THEN 1 ELSE 0)
  BY SameMore
<1>4. /\ OpenIn(r, i, n) <=> OpenIn(s, i, n)
      /\ ProtectsIn(r, i) <=> ProtectsIn(s, i)
  BY <1>1, SamePast
<1>5. OpenIn(r, i, n + 1)
  OBVIOUS
<1> HIDE DEF r, n
<1>6. (\A k \in i .. n : k \in i .. (n + 1)) /\ n + 1 \in i .. (n + 1) /\ n \in i .. n
  BY <1>1
<1>7. OpenIn(r, i, n) /\ ProtectsIn(r, i)
  BY <1>5, <1>6 DEF OpenIn, AloneIn
<1>8. e.type \in {"text", "comment"} \/ e.tag = s[i].tag
  BY <1>2, <1>5, <1>6 DEF OpenIn, AloneIn
<1>9. a \in Nat /\ b \in Nat /\ c \in Nat /\ d \in Nat
  BY <1>1, SameFinite
<1>10. a > b /\ c > d
  BY <1>4, <1>5, <1>6, <1>7 DEF OpenIn
<1>11. s[i].tag \notin VOID_TAGS
  BY <1>4, <1>7 DEF ProtectsIn
<1> HIDE DEF a, b, c, d
<1>12. c - d = (a - b) + Turn(e)
  BY <1>3, <1>8, <1>9 DEF Turn
<1>13. a - b \in Nat \ {0} /\ c - d \in Nat \ {0}
  BY <1>9, <1>10
<1>14. DepthIn(r, i, n + 1) = c - d /\ DepthIn(s, i, n) = a - b
  BY DEF DepthIn, a, b, c, d
<1>15. QED  BY <1>4, <1>7, <1>8, <1>11, <1>12, <1>13, <1>14 DEF r, n

\* An element whose start tag is the event is open once.
LEMMA OpenNew ==
    ASSUME NEW X, NEW s \in Seq(X), NEW e \in X, OpenIn(Append(s, e), Len(s) + 1, Len(s) + 1)
    PROVE  LET n == Len(s)
           IN  ProtectsIn(Append(s, e), n + 1) /\ DepthIn(Append(s, e), n + 1, n + 1) = 1
<1> DEFINE n == Len(s)
           r == Append(s, e)
           m == n + 1
<1>1. n \in Nat /\ r[m] = e
  OBVIOUS
<1>2. ProtectsIn(r, m)
  BY DEF OpenIn
<1> HIDE DEF r, n
<1>3. m .. m = {m}
  BY <1>1
<1>4. r[m].type = "start"
  BY <1>2 DEF ProtectsIn
<1> HIDE DEF m
<1>5. SameIn(r, m, m, "start") = {m} /\ SameIn(r, m, m, "end") = {}
  BY <1>3, <1>4 DEF SameIn
<1>6. Cardinality({m}) = 1 /\ Cardinality({}) = 0
  BY FS_Singleton, FS_EmptySet
<1>7. DepthIn(r, m, m) = 1
  <2> DEFINE c == Cardinality(SameIn(r, m, m, "start"))
             d == Cardinality(SameIn(r, m, m, "end"))
  <2>1. c = 1 /\ d = 0
    BY <1>5, <1>6, Zenon
  <2>2. DepthIn(r, m, m) = c - d
    BY DEF DepthIn
  <2> HIDE DEF c, d
  <2>3. QED  BY <2>1, <2>2
<1>8. QED  BY <1>2, <1>7 DEF r, n, m

(*******************************************************************************)
(* The protected elements of the source that have ended.                       *)
(*******************************************************************************)
\* Parent, EndsAt and Ended of the events s.
ParentIn(s, h, i) ==
    /\ s[h].type = "start" /\ s[h].tag \notin VOID_TAGS /\ ~ProtectsIn(s, h)
    /\ \A k \in h + 1 .. i - 1 : s[k].type \in {"text", "comment"}
    /\ s[h].tag \in Inline => s[i].tag \in Inline
EndsIn(s, i, j) ==
    /\ OpenIn(s, i, j - 1)
    /\ \/ /\ s[j].type = "end" /\ s[j].tag = s[i].tag
          /\ Cardinality(SameIn(s, i, j, "start")) = Cardinality(SameIn(s, i, j, "end"))
       \/ /\ s[j].type = "end" /\ s[j].tag # s[i].tag
          /\ \E h \in 1 .. i - 1 : ParentIn(s, h, i) /\ s[h].tag = s[j].tag
       \/ /\ s[j].type \in {"start", "empty"}
          /\ s[i].tag \in Inline /\ s[j].tag \notin Inline
EndedIn(s, k, n) == \E i \in 1 .. k, j \in k + 1 .. n : EndsIn(s, i, j)

\* Which is what Segmenter says of src.
LEMMA EndedOfSource == \A k, n : Ended(k, n) <=> EndedIn(src, k, n)
<1>1. \A h, i : Parent(h, i) <=> ParentIn(src, h, i)
  BY OfSource, Zenon DEF Parent, ParentIn, IsInline, Inline
<1>2. \A i, n, type : Same(i, n, type) = SameIn(src, i, n, type)
  BY DEF Same, SameIn
<1>3. \A i, j : EndsAt(i, j) <=> EndsIn(src, i, j)
  BY <1>1, <1>2, OfSource, Zenon DEF EndsAt, EndsIn, IsInline, Inline
<1>4. QED  BY <1>3, Zenon DEF Ended, EndedIn

\* An element that is open was open before.
LEMMA OpenBefore ==
    ASSUME NEW s, NEW i \in Nat, NEW n \in Nat, NEW k \in i .. n, OpenIn(s, i, n)
    PROVE  OpenIn(s, i, k)
<1>1. \A j \in i .. k : j \in i .. n
  OBVIOUS
<1>2. QED  BY <1>1 DEF OpenIn, AloneIn

\* One more event changes nothing of what is before it.
LEMMA EndedPast ==
    ASSUME NEW X, NEW s \in Seq(X), NEW e \in X, NEW i \in 1 .. Len(s)
    PROVE  LET t == Append(s, e)
           IN  /\ \A h \in 1 .. Len(s) : ParentIn(t, h, i) <=> ParentIn(s, h, i)
               /\ \A m \in 1 .. Len(s) : EndedIn(t, i, m) <=> EndedIn(s, i, m)
<1> DEFINE n == Len(s)
           t == Append(s, e)
<1>1. n \in Nat /\ i \in 1 .. n /\ \A k \in 1 .. n : t[k] = s[k]
  OBVIOUS
<1>2. \A h, k \in 1 .. n : /\ ProtectsIn(t, h) <=> ProtectsIn(s, h)
                           /\ OpenIn(t, h, k) <=> OpenIn(s, h, k)
                           /\ \A type : SameIn(t, h, k, type) = SameIn(s, h, k, type)
  BY SamePast
<1> HIDE DEF n, t
<1>3. ASSUME NEW g \in 1 .. n, NEW h \in 1 .. n
      PROVE  ParentIn(t, h, g) <=> ParentIn(s, h, g)
  <2>1. \A k \in h + 1 .. g - 1 : k \in 1 .. n
    BY <1>1
  <2>2. QED  BY <1>1, <1>2, <2>1 DEF ParentIn
<1>4. ASSUME NEW g \in 1 .. i, NEW j \in i + 1 .. n
      PROVE  EndsIn(t, g, j) <=> EndsIn(s, g, j)
  <2>1. g \in 1 .. n /\ j \in 1 .. n /\ j - 1 \in 1 .. n /\ \A h \in 1 .. g - 1 : h \in 1 .. n
    BY <1>1
  <2>2. \A h \in 1 .. g - 1 : (ParentIn(t, h, g) <=> ParentIn(s, h, g)) /\ t[h] = s[h]
    BY <1>1, <1>3, <2>1
  <2>3. t[j] = s[j] /\ t[g] = s[g] /\ (OpenIn(t, g, j - 1) <=> OpenIn(s, g, j - 1))
    BY <1>1, <1>2, <2>1
  <2>4. \A type : SameIn(t, g, j, type) = SameIn(s, g, j, type)
    BY <1>2, <2>1
  <2>5. (\E h \in 1 .. g - 1 : ParentIn(t, h, g) /\ t[h].tag = t[j].tag) <=>
            \E h \in 1 .. g - 1 : ParentIn(s, h, g) /\ s[h].tag = s[j].tag
    BY <2>2, <2>3
  <2>6. QED  BY <2>3, <2>4, <2>5 DEF EndsIn
<1>5. ASSUME NEW m \in 1 .. n
      PROVE  EndedIn(t, i, m) <=> EndedIn(s, i, m)
  <2>1. \A j \in i + 1 .. m : j \in i + 1 .. n
    BY <1>1
  <2>2. QED  BY <1>4, <2>1, Zenon DEF EndedIn
<1>6. QED  BY <1>1, <1>3, <1>5 DEF n, t

(*******************************************************************************)
(* The machine follows the source.                                             *)
(*******************************************************************************)
\* What the skip knows of the events s: every element that is open in them is open in it, at
\* least as often; it is on only after a protected tag; and what is offered is in s.
Follows(s, q) ==
    /\ SkipOK(q.skip)
    /\ q.skip.on => \E i \in DOMAIN s : ProtectsIn(s, i)
    /\ \A i \in DOMAIN s : OpenIn(s, i, Len(s)) => Holds(q.skip, s[i].tag, DepthIn(s, i, Len(s)))
    /\ \A a : Offered(a, q) => a[1] \in DOMAIN s

\* The text of event k is offered as its protected elements say.
AccountedAt(s, q, k) ==
    \A j \in DOMAIN s[k].text : s[k].text[j] # "ws" =>
        /\ (\E i \in 1 .. k : OpenIn(s, i, k)) => ~Offered(<<k, j>>, q)
        /\ (\A i \in 1 .. k : ProtectsIn(s, i) => EndedIn(s, i, k)) => Offered(<<k, j>>, q)
Accounts(s, q) == \A k \in DOMAIN s : s[k].type = "text" => AccountedAt(s, q, k)

\* The skip follows one more event.
LEMMA FollowsMore ==
    ASSUME NEW X, NEW s \in Seq(X), NEW e \in X, NEW q, NEW r, Follows(s, q), SkipOK(r.skip),
           r.skip.on => q.skip.on \/ ProtectsIn(Append(s, e), Len(s) + 1),
           ProtectsIn(Append(s, e), Len(s) + 1) => Holds(r.skip, e.tag, 1),
           \A a : Offered(a, r) => Offered(a, q) \/ a[1] = Len(s) + 1,
           \A tag : \A m \in Nat \ {0} :
               /\ Holds(q.skip, tag, m) /\ m + Turn(e) \in Nat \ {0} /\ tag \notin VOID_TAGS
               /\ e.type \in {"text", "comment"} \/ e.tag = tag
               => Holds(r.skip, tag, m + Turn(e))
    PROVE  Follows(Append(s, e), r)
<1> DEFINE n == Len(s)
           t == Append(s, e)
<1>1. n \in Nat /\ DOMAIN s = 1 .. n /\ DOMAIN t = 1 .. (n + 1) /\ Len(t) = n + 1
  OBVIOUS
<1>2. t[n + 1] = e /\ \A j \in 1 .. n : t[j] = s[j]
  OBVIOUS
<1>3. /\ \A i \in 1 .. n : i \in 1 .. (n + 1)
      /\ \A i \in 1 .. (n + 1) : i \in 1 .. n \/ i = n + 1
      /\ n + 1 \in 1 .. (n + 1)
  BY <1>1
<1>4. r.skip.on => \E i \in DOMAIN t : ProtectsIn(t, i)
  <2>1. CASE q.skip.on
    <3>1. PICK i \in 1 .. n : ProtectsIn(s, i)
      BY <1>1, <2>1 DEF Follows
    <3>2. ProtectsIn(t, i)
      BY <3>1, SamePast
    <3> HIDE DEF t, n
    <3>3. QED  BY <1>1, <1>3, <3>2
  <2>2. CASE ~q.skip.on
    <3> HIDE DEF t, n
    <3>1. QED  BY <1>1, <1>3, <2>2 DEF t, n
  <2>3. QED  BY <2>1, <2>2
<1>5. ASSUME NEW i \in 1 .. (n + 1), OpenIn(t, i, n + 1)
      PROVE  Holds(r.skip, t[i].tag, DepthIn(t, i, n + 1))
  <2>1. CASE i = n + 1
    <3>1. ProtectsIn(t, n + 1) /\ DepthIn(t, n + 1, n + 1) = 1
      BY <1>5, <2>1, OpenNew
    <3>2. Holds(r.skip, e.tag, 1)
      BY <3>1
    <3> HIDE DEF t, n
    <3>3. QED  BY <1>2, <2>1, <3>1, <3>2
  <2>2. CASE i \in 1 .. n
    <3> DEFINE now == DepthIn(t, i, n + 1)
               old == DepthIn(s, i, n)
               tag == s[i].tag
    <3>1. /\ OpenIn(s, i, n) /\ tag \notin VOID_TAGS
          /\ e.type \in {"text", "comment"} \/ e.tag = tag
          /\ old \in Nat \ {0} /\ now \in Nat \ {0} /\ now = old + Turn(e)
      BY <1>5, <2>2, OpenMore
    <3>2. Holds(q.skip, tag, old)
      BY <1>1, <2>2, <3>1 DEF Follows
    <3> HIDE DEF now, old
    <3>3. Holds(r.skip, tag, now)
      BY <3>1, <3>2
    <3>4. t[i].tag = tag
      BY <1>2, <2>2
    <3>5. QED  BY <3>3, <3>4 DEF now
  <2>3. QED  BY <1>3, <2>1, <2>2
<1>6. ASSUME NEW a, Offered(a, r)
      PROVE  a[1] \in DOMAIN t
  <2>1. Offered(a, q) \/ a[1] = n + 1
    BY <1>6
  <2>2. Offered(a, q) => a[1] \in 1 .. n
    BY <1>1 DEF Follows
  <2> HIDE DEF t, n
  <2>3. QED  BY <1>1, <1>3, <2>1, <2>2
<1> HIDE DEF t, n
<1>7. Follows(t, r)
  BY <1>1, <1>4, <1>5, <1>6 DEF Follows
<1>8. QED  BY <1>7 DEF t

\* The texts that came before are accounted for as they were.
LEMMA AccountsMore ==
    ASSUME NEW X, NEW s \in Seq(X), NEW e \in X, NEW q, NEW r, Accounts(s, q),
           \A k \in DOMAIN s : s[k].type = "text" =>
               \A j \in DOMAIN s[k].text : s[k].text[j] # "ws" => (Offered(<<k, j>>, r) <=> Offered(<<k, j>>, q)),
           e.type = "text" => AccountedAt(Append(s, e), r, Len(s) + 1)
    PROVE  Accounts(Append(s, e), r)
<1> DEFINE n == Len(s)
           t == Append(s, e)
<1>1. n \in Nat /\ DOMAIN s = 1 .. n /\ DOMAIN t = 1 .. (n + 1)
  OBVIOUS
<1>2. t[n + 1] = e /\ \A j \in 1 .. n : t[j] = s[j]
  OBVIOUS
<1>3. ASSUME NEW k \in 1 .. n, t[k].type = "text"
      PROVE  AccountedAt(t, r, k)
  <2>1. \A i \in 1 .. k : /\ ProtectsIn(t, i) <=> ProtectsIn(s, i)
                          /\ OpenIn(t, i, k) <=> OpenIn(s, i, k)
                          /\ EndedIn(t, i, k) <=> EndedIn(s, i, k)
    <3> SUFFICES ASSUME NEW i \in 1 .. k
                 PROVE  /\ ProtectsIn(t, i) <=> ProtectsIn(s, i)
                        /\ OpenIn(t, i, k) <=> OpenIn(s, i, k)
                        /\ EndedIn(t, i, k) <=> EndedIn(s, i, k)
      OBVIOUS
    <3>1. i \in 1 .. n
      BY <1>1
    <3>2. QED  BY <3>1, SamePast, EndedPast
  <2>2. t[k] = s[k]
    BY <1>2
  <2>3. AccountedAt(s, q, k)
    BY <1>1, <1>3, <2>2 DEF Accounts
  <2>4. \A j \in DOMAIN s[k].text : s[k].text[j] # "ws" => (Offered(<<k, j>>, r) <=> Offered(<<k, j>>, q))
    BY <1>1, <1>3, <2>2
  <2> HIDE DEF t, n
  <2>5. QED  BY <2>1, <2>2, <2>3, <2>4 DEF AccountedAt
<1>4. t[n + 1].type = "text" => AccountedAt(t, r, n + 1)
  BY <1>2
<1>5. \A k \in 1 .. (n + 1) : k \in 1 .. n \/ k = n + 1
  BY <1>1
<1> HIDE DEF t, n
<1>6. Accounts(t, r)
  BY <1>1, <1>3, <1>4, <1>5 DEF Accounts
<1>7. QED  BY <1>6 DEF t

\* The atoms of a text that arrives.
LEMMA RawOfText ==
    ASSUME NEW m \in Nat, NEW t \in Seq(TextKinds)
    PROVE  LET raw == [j \in DOMAIN t |-> <<m, j>>]
           IN  /\ raw \in Text
               /\ \A a : raw \in RawWith(a) => a[1] = m
               /\ \A j \in DOMAIN t : raw \in RawWith(<<m, j>>)
<1> DEFINE l == Len(t)
           raw == [j \in 1 .. l |-> <<m, j>>]
<1>1. l \in Nat /\ DOMAIN t = 1 .. l
  OBVIOUS
<1> HIDE DEF l
<1>2. \A j \in 1 .. l : <<m, j>> \in AtomSet
  BY <1>1 DEF AtomSet
<1>3. raw \in Seq(AtomSet)
  BY <1>1, <1>2
<1>4. DOMAIN raw = 1 .. l /\ \A j \in 1 .. l : raw[j] = <<m, j>>
  OBVIOUS
<1> HIDE DEF raw
<1>5. \A a : raw \in RawWith(a) => a[1] = m
  <2> SUFFICES ASSUME NEW a, raw \in RawWith(a) PROVE a[1] = m
    OBVIOUS
  <2>1. PICK j \in 1 .. l : raw[j] = a
    BY <1>4 DEF RawWith, Having, Meets
  <2>2. a = <<m, j>>
    BY <1>4, <2>1
  <2>3. QED  BY <2>2
<1>6. \A j \in 1 .. l : raw \in RawWith(<<m, j>>)
  BY <1>3, <1>4 DEF RawWith, Having, Meets
<1>7. QED  BY <1>1, <1>3, <1>5, <1>6 DEF Text, raw

(*******************************************************************************)
(* The machine tracks the source.                                              *)
(*******************************************************************************)
\* The start tag h, with only text after it, is the parent of the next element.
Waits(s, h) ==
    /\ s[h].type = "start" /\ s[h].tag \notin VOID_TAGS /\ ~ProtectsIn(s, h)
    /\ \A k \in h + 1 .. Len(s) : s[k].type \in {"text", "comment"}
\* The tag is known to be open, or is inside of a protected element.
KnownOpen(q, tag) ==
    IF tag \in Inline THEN q.skip.on \/ tag \in OpenAncestors(q)
    ELSE (q.skip.on /\ ~q.skip.to_run) \/ tag \in Ancestors(q.stack)
\* The skip is that of the element of start tag i: it counts it exactly, as long as there is
\* nothing else in it, knows the tags that close it, and the element has not ended.
Since(s, q, i) ==
    /\ ProtectsIn(s, i)
    /\ q.skip.name = s[i].tag /\ (q.skip.to_run <=> s[i].tag \in Inline)
    /\ \A h \in 1 .. i - 1 : ParentIn(s, h, i) => s[h].tag \in q.skip.closers
    /\ OpenIn(s, i, Len(s)) => q.skip.depth = DepthIn(s, i, Len(s)) /\ q.skip.inner = <<>>
    /\ \A h \in 1 .. i - 1 : ~OpenIn(s, h, i)
    /\ ~EndedIn(s, i, Len(s))
Tracks(s, q) ==
    /\ IsList(q.stack)
    /\ q.skip.on => \E i \in DOMAIN s : Since(s, q, i)
    /\ \A h \in DOMAIN s : Waits(s, h) => KnownOpen(q, s[h].tag)

\* The skip after an event in the same element.
LEMMA SinceMore ==
    ASSUME NEW X, NEW s \in Seq(X), NEW e \in X, NEW q, NEW r, NEW i \in 1 .. Len(s), Since(s, q, i),
           Stays(r.skip, q.skip), ~EndsIn(Append(s, e), i, Len(s) + 1),
           OpenIn(Append(s, e), i, Len(s) + 1) => r.skip.depth = q.skip.depth + Turn(e) /\ r.skip.inner = <<>>
    PROVE  Since(Append(s, e), r, i)
<1> DEFINE n == Len(s)
           t == Append(s, e)
<1>1. n \in Nat /\ i \in 1 .. n /\ i \in Nat /\ Len(t) = n + 1 /\ \A k \in 1 .. n : t[k] = s[k]
  OBVIOUS
<1>2. ProtectsIn(t, i)
  BY SamePast DEF Since
<1>3. ASSUME NEW h \in 1 .. i - 1
      PROVE  /\ h \in 1 .. n /\ t[h] = s[h]
             /\ ParentIn(t, h, i) <=> ParentIn(s, h, i)
             /\ OpenIn(t, h, i) <=> OpenIn(s, h, i)
  <2>1. h \in 1 .. n
    BY <1>1
  <2>2. QED  BY <1>1, <2>1, SamePast, EndedPast
<1>4. OpenIn(t, i, n + 1) => r.skip.depth = DepthIn(t, i, n + 1) /\ r.skip.inner = <<>>
  <2> SUFFICES ASSUME OpenIn(t, i, n + 1)
               PROVE  r.skip.depth = DepthIn(t, i, n + 1) /\ r.skip.inner = <<>>
    OBVIOUS
  <2>1. OpenIn(s, i, n) /\ DepthIn(t, i, n + 1) = DepthIn(s, i, n) + Turn(e)
    BY OpenMore
  <2>2. q.skip.depth = DepthIn(s, i, n)
    BY <2>1 DEF Since
  <2>3. QED  BY <2>1, <2>2
<1>5. ~EndedIn(t, i, n + 1)
  <2> SUFFICES ASSUME NEW g \in 1 .. i, NEW j \in i + 1 .. n + 1, EndsIn(t, g, j)
               PROVE  FALSE
    BY Zenon DEF EndedIn
  <2>1. ~EndedIn(t, i, n)
    <3>1. n \in 1 .. n
      BY <1>1
    <3>2. QED  BY <3>1, EndedPast DEF Since
  <2> HIDE DEF n, t
  <2>2. CASE j \in i + 1 .. n
    BY <2>1, <2>2 DEF EndedIn
  <2>3. CASE j = n + 1 /\ g = i
    BY <2>3 DEF n, t
  <2>4. CASE j = n + 1 /\ g \in 1 .. i - 1
    <3>1. OpenIn(t, g, n)
      <4>1. j - 1 = n
        BY <1>1, <2>4
      <4>2. QED  BY <4>1 DEF EndsIn
    <3>2. g \in Nat /\ i \in g .. n
      BY <1>1, <2>4
    <3>3. OpenIn(t, g, i)
      BY <1>1, <3>1, <3>2, OpenBefore
    <3>4. QED  BY <1>3, <2>4, <3>3 DEF Since
  <2>5. j \in i + 1 .. n \/ j = n + 1
    BY <1>1
  <2>6. g = i \/ g \in 1 .. i - 1
    BY <1>1
  <2>7. QED  BY <2>2, <2>3, <2>4, <2>5, <2>6
<1> HIDE DEF n, t
<1>6. Since(t, r, i)
  BY <1>1, <1>2, <1>3, <1>4, <1>5 DEF Since, Stays
<1>7. QED  BY <1>6 DEF t

\* The skip that the event has opened.
LEMMA SinceNew ==
    ASSUME NEW X, NEW s \in Seq(X), NEW e \in X, NEW r, Follows(Append(s, e), r),
           ProtectsIn(Append(s, e), Len(s) + 1), JustOpened(r.skip, e.tag),
           \A h \in DOMAIN s : ParentIn(Append(s, e), h, Len(s) + 1) => s[h].tag \in r.skip.closers
    PROVE  Since(Append(s, e), r, Len(s) + 1)
<1> DEFINE n == Len(s)
           t == Append(s, e)
           m == n + 1
<1>1. /\ n \in Nat /\ DOMAIN s = 1 .. n /\ Len(t) = m /\ DOMAIN t = 1 .. m /\ t[m] = e /\ m - 1 = n
      /\ \A k \in 1 .. n : t[k] = s[k]
  OBVIOUS
<1>2. OpenIn(t, m, m) => DepthIn(t, m, m) = 1
  BY OpenNew
<1>3. ASSUME NEW h \in 1 .. n, OpenIn(t, h, m)
      PROVE  FALSE
  <2> DEFINE now == DepthIn(t, h, m)
             old == DepthIn(s, h, n)
  <2>1. /\ e.type \in {"text", "comment"} \/ e.tag = s[h].tag
        /\ old \in Nat \ {0} /\ now = old + Turn(e)
    BY <1>3, OpenMore
  <2>2. e.type = "start"
    BY <1>1 DEF ProtectsIn
  <2>3. e.tag = s[h].tag /\ Turn(e) = 1
    BY <2>1, <2>2 DEF Turn
  <2>4. h \in 1 .. m
    BY <1>1
  <2> HIDE DEF now, old, t, n, m
  <2>5. Holds(r.skip, e.tag, now)
    BY <1>1, <1>3, <2>3, <2>4 DEF Follows, now, t, n, m
  <2>6. r.skip.depth >= now /\ r.skip.depth = 1
    BY <2>5 DEF Holds, JustOpened
  <2>7. QED  BY <2>1, <2>3, <2>6
<1>4. ~EndedIn(t, m, m)
  <2>1. m + 1 .. m = {}
    BY <1>1
  <2>2. QED  BY <2>1 DEF EndedIn
<1>5. ProtectsIn(t, m) /\ \A h \in 1 .. n : ParentIn(t, h, m) => t[h].tag \in r.skip.closers
  BY <1>1
<1> HIDE DEF n, t, m
<1>6. Since(t, r, m)
  BY <1>1, <1>2, <1>3, <1>4, <1>5 DEF Since, JustOpened
<1>7. QED  BY <1>6 DEF n, t, m

\* A tag that waits after an event is the event, or was waiting and the event is text.
LEMMA WaitsMore ==
    ASSUME NEW X, NEW s \in Seq(X), NEW e \in X
    PROVE  LET n == Len(s)
               t == Append(s, e)
           IN  /\ \A h \in DOMAIN t : Waits(t, h) =>
                     \/ h = n + 1 /\ e.type = "start" /\ e.tag \notin VOID_TAGS /\ ~ProtectsIn(t, n + 1)
                     \/ h \in DOMAIN s /\ Waits(s, h) /\ e.type \in {"text", "comment"}
               /\ \A h \in DOMAIN s : ParentIn(t, h, n + 1) =>
                     Waits(s, h) /\ (s[h].tag \in Inline => e.tag \in Inline)
<1> DEFINE n == Len(s)
           t == Append(s, e)
<1>1. /\ n \in Nat /\ DOMAIN s = 1 .. n /\ Len(t) = n + 1 /\ DOMAIN t = 1 .. (n + 1) /\ t[n + 1] = e
      /\ \A k \in 1 .. n : t[k] = s[k]
  OBVIOUS
<1>2. \A h \in 1 .. n : ProtectsIn(t, h) <=> ProtectsIn(s, h)
  BY SamePast
<1> HIDE DEF n, t
<1>3. ASSUME NEW h \in 1 .. n
      PROVE  /\ \A k \in h + 1 .. n : k \in h + 1 .. Len(t) /\ k \in 1 .. n
             /\ n + 1 \in h + 1 .. Len(t) /\ (n + 1) - 1 = n
  BY <1>1
<1>4. ASSUME NEW h \in 1 .. n, Waits(t, h)
      PROVE  Waits(s, h) /\ e.type \in {"text", "comment"}
  <2>1. e.type \in {"text", "comment"}
    BY <1>1, <1>3, <1>4 DEF Waits
  <2>2. \A k \in h + 1 .. n : s[k].type \in {"text", "comment"}
    BY <1>1, <1>3, <1>4 DEF Waits
  <2>3. QED  BY <1>1, <1>2, <1>4, <2>1, <2>2 DEF Waits, n
<1>5. ASSUME NEW h \in 1 .. n, ParentIn(t, h, n + 1)
      PROVE  Waits(s, h) /\ (s[h].tag \in Inline => e.tag \in Inline)
  <2>1. \A k \in h + 1 .. n : s[k].type \in {"text", "comment"}
    BY <1>1, <1>3, <1>5 DEF ParentIn
  <2>2. QED  BY <1>1, <1>2, <1>5, <2>1 DEF Waits, ParentIn, n
<1>6. \A h \in 1 .. (n + 1) : h \in 1 .. n \/ h = n + 1
  BY <1>1
<1>7. Waits(t, n + 1) => e.type = "start" /\ e.tag \notin VOID_TAGS /\ ~ProtectsIn(t, n + 1)
  BY <1>1 DEF Waits
<1>8. \A h \in DOMAIN t : Waits(t, h) =>
                     \/ h = n + 1 /\ e.type = "start" /\ e.tag \notin VOID_TAGS /\ ~ProtectsIn(t, n + 1)
                     \/ h \in DOMAIN s /\ Waits(s, h) /\ e.type \in {"text", "comment"}
  BY <1>1, <1>4, <1>6, <1>7
<1>9. QED  BY <1>1, <1>5, <1>8 DEF n, t

\* Text and comments.
LEMMA TracksText ==
    ASSUME NEW X, NEW s \in Seq(X), NEW e \in X, NEW q, NEW r, Tracks(s, q), Quiet(r, q),
           e.type \in {"text", "comment"}
    PROVE  Tracks(Append(s, e), r)
<1> DEFINE n == Len(s)
           t == Append(s, e)
<1>1. n \in Nat /\ DOMAIN s = 1 .. n /\ DOMAIN t = 1 .. (n + 1) /\ t[n + 1] = e /\ \A k \in 1 .. n : t[k] = s[k]
  OBVIOUS
<1>2. ASSUME r.skip.on
      PROVE  \E i \in DOMAIN t : Since(t, r, i)
  <2>1. q.skip.on /\ Stays(r.skip, q.skip)
    BY <1>2 DEF Quiet, SameSkip, Stays
  <2>2. PICK i \in 1 .. n : Since(s, q, i)
    BY <1>1, <2>1 DEF Tracks
  <2>3. ~EndsIn(t, i, n + 1)
    BY <1>1 DEF EndsIn
  <2>4. OpenIn(t, i, n + 1) => r.skip.depth = q.skip.depth + Turn(e) /\ r.skip.inner = <<>>
    <3> SUFFICES ASSUME OpenIn(t, i, n + 1)
                 PROVE  r.skip.depth = q.skip.depth + Turn(e) /\ r.skip.inner = <<>>
      OBVIOUS
    <3>1. OpenIn(s, i, n) /\ DepthIn(s, i, n) \in Nat
      BY OpenMore
    <3>2. q.skip.depth \in Nat /\ q.skip.inner = <<>>
      BY <2>2, <3>1 DEF Since
    <3>3. Turn(e) = 0
      BY DEF Turn
    <3>4. QED  BY <3>2, <3>3 DEF Quiet, SameSkip
  <2>5. Since(t, r, i)
    BY <2>1, <2>2, <2>3, <2>4, SinceMore
  <2>6. i \in DOMAIN t
    BY <1>1
  <2>7. QED  BY <2>5, <2>6
<1>3. ASSUME NEW h \in DOMAIN t, Waits(t, h)
      PROVE  KnownOpen(r, t[h].tag)
  <2>1. h \in 1 .. n /\ Waits(s, h)
    BY <1>1, <1>3, WaitsMore
  <2>2. KnownOpen(q, t[h].tag)
    BY <1>1, <2>1 DEF Tracks
  <2>3. ~q.skip.on => OpenAncestors(r) = OpenAncestors(q)
    BY DEF Quiet, OpenAncestors
  <2>4. QED  BY <2>2, <2>3 DEF KnownOpen, Quiet, SameSkip
<1>4. IsList(r.stack)
  BY DEF Tracks, Quiet
<1> HIDE DEF t
<1>5. Tracks(t, r)
  BY <1>2, <1>3, <1>4 DEF Tracks
<1>6. QED  BY <1>5 DEF t

\* Start tags.
LEMMA TracksStart ==
    ASSUME NEW X, NEW s \in Seq(X), NEW x \in X, NEW q, NEW r, Tracks(s, q), Follows(Append(s, x), r), IsList(r.stack),
           x.type \in {"start", "empty"}, NEW e, x.tag = e.tag, NEW void,
           void <=> x.type = "empty" \/ x.tag \in VOID_TAGS,
           ProtectsIn(Append(s, x), Len(s) + 1) <=> Protected(e) /\ ~void,
           Nests(r, q, e.tag, void) \/ Opens(r, q, e, void)
    PROVE  Tracks(Append(s, x), r)
<1> DEFINE n == Len(s)
           t == Append(s, x)
           tag == e.tag
<1>1. n \in Nat /\ DOMAIN s = 1 .. n /\ DOMAIN t = 1 .. (n + 1) /\ t[n + 1] = x /\ \A k \in 1 .. n : t[k] = s[k]
  OBVIOUS
<1>2. ASSUME NEW h \in DOMAIN t, Waits(t, h)
      PROVE  t[h].tag = tag /\ ~void /\ ~Protected(e) /\ tag \notin VOID_TAGS
  <2>1. h = n + 1 /\ x.type = "start" /\ x.tag \notin VOID_TAGS /\ ~ProtectsIn(t, n + 1)
    BY <1>2, WaitsMore
  <2>2. QED  BY <1>1, <2>1
<1>3. CASE Nests(r, q, tag, void)
  <2>1. q.skip.on /\ ~LeavesSkip(q, tag) /\ Stays(r.skip, q.skip)
    BY <1>3 DEF Nests
  <2>2. PICK i \in 1 .. n : Since(s, q, i)
    BY <1>1, <2>1 DEF Tracks
  <2>3. ~EndsIn(t, i, n + 1)
    <3>1. ~(s[i].tag \in Inline /\ x.tag \notin Inline)
      BY <2>1, <2>2 DEF Since, LeavesSkip, Inline
    <3>2. t[i] = s[i] /\ x.type # "end"
      BY <1>1
    <3>3. QED  BY <1>1, <3>1, <3>2 DEF EndsIn
  <2>4. OpenIn(t, i, n + 1) => r.skip.depth = q.skip.depth + Turn(x) /\ r.skip.inner = <<>>
    <3> SUFFICES ASSUME OpenIn(t, i, n + 1)
                 PROVE  r.skip.depth = q.skip.depth + Turn(x) /\ r.skip.inner = <<>>
      OBVIOUS
    <3>1. OpenIn(s, i, n) /\ DepthIn(s, i, n) \in Nat /\ x.tag = s[i].tag /\ x.tag \notin VOID_TAGS
      BY OpenMore
    <3>2. q.skip.depth \in Nat /\ q.skip.inner = <<>> /\ q.skip.name = tag
      BY <2>2, <3>1 DEF Since
    <3>3. CASE x.type = "start"
      <4>1. Turn(x) = 1 /\ ~void
        BY <3>1, <3>3 DEF Turn
      <4>2. QED  BY <1>3, <3>2, <4>1 DEF Nests
    <3>4. CASE x.type = "empty"
      <4>1. Turn(x) = 0 /\ void
        BY <3>4 DEF Turn
      <4>2. QED  BY <1>3, <3>2, <4>1 DEF Nests
    <3>5. QED  BY <3>3, <3>4
  <2>5. Since(t, r, i)
    BY <2>1, <2>2, <2>3, <2>4, SinceMore
  <2>6. i \in DOMAIN t
    BY <1>1
  <2>7. KnownOpen(r, tag)
    BY <2>1 DEF KnownOpen, Stays, LeavesSkip, Inline
  <2> HIDE DEF t
  <2>8. Tracks(t, r)
    BY <1>2, <2>5, <2>6, <2>7 DEF Tracks
  <2>9. QED  BY <2>8 DEF t
<1>4. CASE Opens(r, q, e, void)
  <2>1. ASSUME r.skip.on
        PROVE  Since(t, r, n + 1)
    <3>1. Protected(e) /\ ~void /\ ProtectsIn(t, n + 1)
      BY <1>4, <2>1 DEF Opens
    <3>2. /\ JustOpened(r.skip, x.tag)
          /\ r.skip.closers = IF tag \in Inline THEN OpenAncestors(q) ELSE Ancestors(q.stack)
          /\ ~q.skip.on \/ LeavesSkip(q, tag)
      BY <1>4, <3>1 DEF Opens
    <3>3. ASSUME NEW h \in DOMAIN s, ParentIn(t, h, n + 1)
          PROVE  s[h].tag \in r.skip.closers
      <4>1. Waits(s, h) /\ (s[h].tag \in Inline => tag \in Inline)
        BY <3>3, WaitsMore
      <4>2. KnownOpen(q, s[h].tag)
        BY <4>1 DEF Tracks
      <4>3. CASE s[h].tag \in Inline
        <5>1. ~q.skip.on
          BY <3>2, <4>1, <4>3 DEF LeavesSkip, Inline
        <5>2. QED  BY <3>2, <4>1, <4>2, <4>3, <5>1 DEF KnownOpen
      <4>4. CASE s[h].tag \notin Inline
        <5>1. ~(q.skip.on /\ ~q.skip.to_run)
          BY <3>2 DEF LeavesSkip
        <5>2. s[h].tag \in Ancestors(q.stack)
          BY <4>2, <4>4, <5>1 DEF KnownOpen
        <5>3. QED  BY <3>2, <5>2 DEF OpenAncestors
      <4>5. QED  BY <4>3, <4>4
    <3>4. QED  BY <3>1, <3>2, <3>3, SinceNew
  <2>2. ~void /\ ~Protected(e) /\ tag \notin VOID_TAGS => KnownOpen(r, tag)
    BY <1>4 DEF Opens, KnownOpen
  <2>3. n + 1 \in DOMAIN t
    BY <1>1
  <2> HIDE DEF t
  <2>4. Tracks(t, r)
    BY <1>2, <2>1, <2>2, <2>3 DEF Tracks
  <2>5. QED  BY <2>4 DEF t
<1>5. QED  BY <1>3, <1>4

\* End tags.
LEMMA TracksEnd ==
    ASSUME NEW X, NEW s \in Seq(X), NEW x \in X, NEW q, NEW r, Tracks(s, q), IsList(r.stack),
           x.type = "end", r.skip.on => EndsNone(r, q, x.tag)
    PROVE  Tracks(Append(s, x), r)
<1> DEFINE n == Len(s)
           t == Append(s, x)
<1>1. n \in Nat /\ DOMAIN s = 1 .. n /\ DOMAIN t = 1 .. (n + 1) /\ t[n + 1] = x /\ \A k \in 1 .. n : t[k] = s[k]
  OBVIOUS
<1>2. ASSUME NEW h \in DOMAIN t, Waits(t, h)
      PROVE  FALSE
  BY <1>2, WaitsMore
<1>3. ASSUME r.skip.on
      PROVE  \E i \in DOMAIN t : Since(t, r, i)
  <2>1. q.skip.on /\ Stays(r.skip, q.skip) /\ EndsNone(r, q, x.tag)
    BY <1>3 DEF EndsNone
  <2>2. PICK i \in 1 .. n : Since(s, q, i)
    BY <1>1, <2>1 DEF Tracks
  <2>3. ASSUME EndsIn(t, i, n + 1)
        PROVE  FALSE
    <3>0. (n + 1) - 1 = n /\ n \in 1 .. n /\ t[i] = s[i] /\ i \in Nat
      BY <1>1
    <3>1. OpenIn(t, i, n)
      BY <2>3, <3>0 DEF EndsIn
    <3>2. OpenIn(s, i, n)
      BY <3>0, <3>1, SamePast
    <3>3. q.skip.depth = DepthIn(s, i, n) /\ q.skip.inner = <<>> /\ q.skip.name = s[i].tag
      BY <2>2, <3>2 DEF Since
    <3> DEFINE a == Cardinality(SameIn(s, i, n, "start"))
               b == Cardinality(SameIn(s, i, n, "end"))
               c == Cardinality(SameIn(t, i, n + 1, "start"))
               d == Cardinality(SameIn(t, i, n + 1, "end"))
    <3>4. CASE x.tag = s[i].tag
      <4>1. c = a + 0 /\ d = b + 1
        BY <3>4, SameMore
      <4>2. a \in Nat /\ b \in Nat
        BY <1>1, <3>0, SameFinite
      <4>3. c = d
        BY <1>1, <2>3, <3>0, <3>4 DEF EndsIn
      <4>4. q.skip.depth = a - b
        BY <3>3 DEF DepthIn
      <4> HIDE DEF a, b, c, d
      <4>5. q.skip.depth = 1
        BY <4>1, <4>2, <4>3, <4>4
      <4>6. QED  BY <2>1, <3>3, <3>4, <4>5 DEF EndsNone
    <3>5. CASE x.tag # s[i].tag
      <4>1. PICK h \in 1 .. i - 1 : ParentIn(t, h, i) /\ t[h].tag = x.tag
        BY <1>1, <2>3, <3>0, <3>5 DEF EndsIn
      <4>2. h \in 1 .. n /\ t[h] = s[h]
        BY <1>1
      <4>3. ParentIn(s, h, i)
        BY <4>1, <4>2, EndedPast
      <4>4. x.tag \in q.skip.closers
        BY <2>2, <4>1, <4>2, <4>3 DEF Since
      <4>5. QED  BY <2>1, <3>3, <3>5, <4>4 DEF EndsNone
    <3>6. QED  BY <3>4, <3>5
  <2>4. OpenIn(t, i, n + 1) => r.skip.depth = q.skip.depth + Turn(x) /\ r.skip.inner = <<>>
    <3> SUFFICES ASSUME OpenIn(t, i, n + 1)
                 PROVE  r.skip.depth = q.skip.depth + Turn(x) /\ r.skip.inner = <<>>
      OBVIOUS
    <3>1. OpenIn(s, i, n) /\ DepthIn(s, i, n) \in Nat /\ x.tag = s[i].tag
      BY OpenMore
    <3>2. q.skip.depth \in Nat /\ q.skip.inner = <<>> /\ q.skip.name = x.tag
      BY <2>2, <3>1 DEF Since
    <3>3. Turn(x) = -1
      BY DEF Turn
    <3>4. QED  BY <2>1, <3>2, <3>3 DEF EndsNone
  <2>5. Since(t, r, i)
    BY <2>1, <2>2, <2>3, <2>4, SinceMore
  <2>6. i \in DOMAIN t
    BY <1>1
  <2>7. QED  BY <2>5, <2>6
<1> HIDE DEF t
<1>4. Tracks(t, r)
  BY <1>2, <1>3 DEF Tracks
<1>5. QED  BY <1>4 DEF t

(*******************************************************************************)
(* Text and markup, as they arrive.                                            *)
(*******************************************************************************)
\* Nothing has been read at first.
LEMMA FollowsNothing ==
    ASSUME SegmenterInit
    PROVE  Follows(src, p) /\ Accounts(src, p)
<1> DEFINE e == <<>>
<1>1. DOMAIN e = {} /\ \A a : e \notin ListWith(a)
  BY MeetsNothing DEF ListWith, Having
<1>2. src = e /\ p.segments = e /\ p.run = e /\ p.skip = NoSkip
  BY DEF SegmenterInit
<1> HIDE DEF e
<1>3. ~NoSkip.on
  BY DEF NoSkip
<1>4. \A a : ~Offered(a, p)
  BY <1>1, <1>2 DEF Offered, InDoc
<1>5. Follows(src, p)
  BY <1>1, <1>2, <1>3, <1>4 DEF Follows, SkipOK
<1>6. QED  BY <1>1, <1>2, <1>5 DEF Accounts

\* Nothing has been read at first.
LEMMA TracksNothing ==
    ASSUME SegmenterInit
    PROVE  Tracks(src, p)
<1> DEFINE e == <<>>
<1>1. DOMAIN e = {} /\ IsList(e)
  BY DEF IsList
<1>2. src = e /\ p.stack = e /\ p.skip = NoSkip
  BY DEF SegmenterInit
<1> HIDE DEF e
<1>3. ~NoSkip.on
  BY DEF NoSkip
<1>4. QED  BY <1>1, <1>2, <1>3 DEF Tracks

\* An event of markup.
LEMMA FollowsMarkup ==
    ASSUME IsSource(src), Follows(src, p), Accounts(src, p), NEW e, e.type # "text", src' = Append(src, e),
           SkipOK(p'.skip), \A a : Offers(a, p', p),
           p'.skip.on => p.skip.on \/ ProtectsIn(Append(src, e), Len(src) + 1),
           ProtectsIn(Append(src, e), Len(src) + 1) => Holds(p'.skip, e.tag, 1),
           \A tag : \A m \in Nat \ {0} :
               /\ Holds(p.skip, tag, m) /\ m + Turn(e) \in Nat \ {0} /\ tag \notin VOID_TAGS
               /\ e.type = "comment" \/ e.tag = tag
               => Holds(p'.skip, tag, m + Turn(e))
    PROVE  Follows(src', p') /\ Accounts(src', p')
<1>1. PICK Y : src \in Seq(Y)
  BY DEF IsSource
<1> DEFINE X == Y \cup {e}
<1>2. src \in Seq(X) /\ e \in X
  BY <1>1
<1> HIDE DEF X
<1>3. \A a : Offered(a, p') => Offered(a, p)
  BY DEF Offers
<1>4. Follows(Append(src, e), p')
  <2>1. \A tag : \A m \in Nat \ {0} :
               /\ Holds(p.skip, tag, m) /\ m + Turn(e) \in Nat \ {0} /\ tag \notin VOID_TAGS
               /\ e.type \in {"text", "comment"} \/ e.tag = tag
               => Holds(p'.skip, tag, m + Turn(e))
    OBVIOUS
  <2>2. QED  BY <1>2, <1>3, <2>1, FollowsMore
<1>5. ASSUME NEW k \in DOMAIN src, src[k].type = "text", NEW j \in DOMAIN src[k].text, src[k].text[j] # "ws"
      PROVE  Offered(<<k, j>>, p') <=> Offered(<<k, j>>, p)
  <2>1. KindOfAtom(<<k, j>>) # "ws"
    BY <1>5 DEF KindOfAtom
  <2>2. Offers(<<k, j>>, p', p)
    OBVIOUS
  <2>3. QED  BY <2>1, <2>2 DEF Offers
<1>6. Accounts(Append(src, e), p')
  BY <1>2, <1>5, AccountsMore
<1>7. QED  BY <1>4, <1>6

\* An event of text: it is offered exactly outside of a protected element.
LEMMA FollowsText ==
    ASSUME IsSource(src), Reads(p, Atoms), Follows(src, p), Tracks(src, p), Accounts(src, p), NEW t \in Texts, handle_data(t)
    PROVE  Follows(src', p') /\ Accounts(src', p')
<1> DEFINE n == Len(src)
           m == n + 1
           e == [type |-> "text", text |-> t]
           raw == [j \in DOMAIN t |-> <<m, j>>]
           s == Append(src, e)
<1>1. PICK Y : src \in Seq(Y)
  BY DEF IsSource
<1> DEFINE X == Y \cup {e}
<1>2. src \in Seq(X) /\ e \in X /\ n \in Nat /\ DOMAIN src = 1 .. n /\ m \in Nat
  BY <1>1
<1>3. src' = s /\ p' = _text(p, raw)
  BY DEF handle_data, Event
<1>4. t \in Seq(TextKinds)
  BY TextsAssumption
<1>5. raw \in Text /\ (\A a : raw \in RawWith(a) => a[1] = m) /\ \A j \in DOMAIN t : raw \in RawWith(<<m, j>>)
  BY <1>2, <1>4, RawOfText
<1> HIDE DEF raw
<1>6. /\ \A a : Offered(a, p') <=> Offered(a, p) \/ (~p.skip.on /\ raw \in RawWith(a))
      /\ SameSkip(p'.skip, p.skip)
  BY <1>3, <1>5, TextOffers
<1>7. SkipOK(p'.skip) /\ (p'.skip.on <=> p.skip.on) /\ \A tag, k : Holds(p.skip, tag, k) => Holds(p'.skip, tag, k)
  BY <1>6, SameSkipHolds DEF SameSkip, Follows
<1>8. s[m] = e /\ e.type = "text" /\ e.text = t /\ Turn(e) = 0
  BY <1>2 DEF Turn
<1> HIDE DEF e, X, s, m
<1>9. ~ProtectsIn(s, m)
  BY <1>8 DEF ProtectsIn
<1>10. \A a : Offered(a, p') => Offered(a, p) \/ a[1] = m
  BY <1>5, <1>6
<1>11. Follows(s, p')
  <2>1. \A tag : \A k \in Nat \ {0} : Holds(p.skip, tag, k) => Holds(p'.skip, tag, k + Turn(e))
    BY <1>7, <1>8
  <2>2. QED  BY <1>2, <1>7, <1>9, <1>10, <2>1, FollowsMore DEF s, m
<1>12. ASSUME NEW k \in DOMAIN src, src[k].type = "text", NEW j \in DOMAIN src[k].text, src[k].text[j] # "ws"
       PROVE  Offered(<<k, j>>, p') <=> Offered(<<k, j>>, p)
  <2>1. raw \notin RawWith(<<k, j>>)
    <3>1. <<k, j>>[1] = k /\ k # m
      BY <1>2 DEF m
    <3>2. QED  BY <1>5, <3>1
  <2>2. QED  BY <1>6, <2>1
<1>13. AccountedAt(s, p', m)
  <2> SUFFICES ASSUME NEW j \in DOMAIN t
               PROVE  /\ (\E i \in 1 .. m : OpenIn(s, i, m)) => ~Offered(<<m, j>>, p')
                      /\ (\A i \in 1 .. m : ProtectsIn(s, i) => EndedIn(s, i, m)) => Offered(<<m, j>>, p')
    BY <1>8 DEF AccountedAt
  <2>1. ~Offered(<<m, j>>, p)
    <3>1. <<m, j>>[1] = m /\ m \notin DOMAIN src
      BY <1>2 DEF m
    <3>2. QED  BY <3>1 DEF Follows
  <2>2. Offered(<<m, j>>, p') <=> ~p.skip.on
    BY <1>5, <1>6, <2>1
  <2>3. ASSUME NEW i \in 1 .. m, OpenIn(s, i, m)
        PROVE  p.skip.on
    <3>1. i # m
      BY <1>9, <2>3 DEF OpenIn
    <3>2. i \in 1 .. n
      BY <1>2, <3>1 DEF m
    <3>3. OpenIn(src, i, n)
      BY <1>2, <2>3, <3>2, OpenMore DEF s, m
    <3>4. QED  BY <1>2, <3>2, <3>3 DEF Follows, Holds
  <2>4. ASSUME p.skip.on
        PROVE  \E i \in 1 .. m : ProtectsIn(s, i) /\ ~EndedIn(s, i, m)
    <3>1. Quiet(p', p)
      BY <1>3, <1>5, TextQuiet
    <3>2. Tracks(s, p')
      BY <1>2, <1>8, <3>1, TracksText DEF s
    <3>3. PICK i \in DOMAIN s : Since(s, p', i)
      BY <1>7, <2>4, <3>2 DEF Tracks
    <3>4. DOMAIN s = 1 .. m /\ Len(s) = m
      BY <1>2 DEF s, m
    <3>5. QED  BY <3>3, <3>4 DEF Since
  <2>5. QED  BY <2>2, <2>3, <2>4
<1>14. Accounts(s, p')
  BY <1>2, <1>12, <1>13, AccountsMore DEF s, m
<1>15. QED  BY <1>3, <1>11, <1>14

(*******************************************************************************)
(* Every event, and the end of the document.                                   *)
(*******************************************************************************)
\* Every event of html.parser.
LEMMA FeedFollows ==
    ASSUME IsSource(src), Reads(p, Atoms), Follows(src, p), Tracks(src, p), Accounts(src, p), Feed
    PROVE  Follows(src', p') /\ Accounts(src', p')
<1> DEFINE n == Len(src) + 1
           Goal == Follows(src', p') /\ Accounts(src', p')
<1>1. PICK Y : src \in Seq(Y)
  BY DEF IsSource
<1>2. n \in Nat /\ \A e : Append(src, e)[n] = e
  BY <1>1
<1>3. Tag1 \in Text /\ SkipOK(p.skip)
  BY <1>2, RawOfEvent DEF Tag1, Follows
<1>4. ASSUME NEW e \in Starts, handle_starttag(e)
      PROVE  Goal
  <2> DEFINE x == [type |-> "start", tag |-> e.tag, no |-> e.no, lang |-> e.lang]
             void == e.tag \in VOID_TAGS
  <2>1. src' = Append(src, x) /\ p' = _start(p, e, Tag1, void)
    BY <1>4 DEF handle_starttag, Event
  <2>2. x.type = "start" /\ x.tag = e.tag /\ x.no = e.no /\ Append(src, x)[n] = x /\ e.tag \in TagNames
    BY <1>2 DEF TagNames
  <2> HIDE DEF x
  <2>3. ProtectsIn(Append(src, x), n) <=> Protected(e) /\ ~void
    BY <2>2 DEF ProtectsIn, Protected
  <2>4. /\ SkipOK(p'.skip) /\ (p'.skip.on => p.skip.on \/ (Protected(e) /\ ~void))
        /\ Protected(e) /\ ~void => Holds(p'.skip, e.tag, 1)
        /\ \A m \in Nat \ {0} : Holds(p.skip, e.tag, m) => Holds(p'.skip, e.tag, IF void THEN m ELSE m + 1)
        /\ \A a : Offers(a, p', p)
    BY <1>3, <2>1, <2>2, StartHolds
  <2>5. Turn(x) = 1
    BY <2>2 DEF Turn
  <2>6. ASSUME NEW m \in Nat \ {0}, Holds(p.skip, e.tag, m), ~void
        PROVE  Holds(p'.skip, e.tag, m + Turn(x))
    BY <2>4, <2>5, <2>6
  <2> HIDE DEF n
  <2>7. QED  BY <2>1, <2>2, <2>3, <2>4, <2>6, FollowsMarkup DEF n
<1>5. ASSUME NEW e \in Empties, handle_startendtag(e)
      PROVE  Goal
  <2> DEFINE x == [type |-> "empty", tag |-> e.tag, no |-> e.no, lang |-> e.lang]
  <2>1. src' = Append(src, x) /\ p' = _start(p, e, Tag1, TRUE)
    BY <1>5 DEF handle_startendtag, Event
  <2>2. x.type = "empty" /\ x.tag = e.tag /\ Append(src, x)[n] = x /\ e.tag \in TagNames
    BY <1>2 DEF TagNames
  <2> HIDE DEF x
  <2>3. ~ProtectsIn(Append(src, x), n)
    BY <2>2 DEF ProtectsIn
  <2>4. PICK void : void = TRUE
    OBVIOUS
  <2>5. /\ SkipOK(p'.skip) /\ (p'.skip.on => p.skip.on \/ (Protected(e) /\ ~void))
        /\ \A m \in Nat \ {0} : Holds(p.skip, e.tag, m) => Holds(p'.skip, e.tag, IF void THEN m ELSE m + 1)
        /\ \A a : Offers(a, p', p)
    BY <1>3, <2>1, <2>2, <2>4, StartHolds
  <2>6. Turn(x) = 0
    BY <2>2 DEF Turn
  <2>7. ASSUME NEW m \in Nat \ {0}, Holds(p.skip, e.tag, m)
        PROVE  Holds(p'.skip, e.tag, m + Turn(x))
    <3>1. Holds(p'.skip, e.tag, m) /\ m + Turn(x) = m
      BY <2>4, <2>5, <2>6, <2>7
    <3>2. QED  BY <3>1
  <2>8. p'.skip.on => p.skip.on
    BY <2>4, <2>5
  <2>9. SkipOK(p'.skip) /\ \A a : Offers(a, p', p)
    BY <2>5
  <2> HIDE DEF n
  <2>10. src' = Append(src, x)
    BY <2>1
  <2>11. QED  BY <2>2, <2>3, <2>7, <2>8, <2>9, <2>10, FollowsMarkup DEF n
<1>6. ASSUME NEW t \in Ends, handle_endtag(t)
      PROVE  Goal
  <2> DEFINE x == [type |-> "end", tag |-> t]
  <2>1. src' = Append(src, x) /\ p' = _end(p, t, Tag1)
    BY <1>6 DEF handle_endtag, Event
  <2>2. x.type = "end" /\ x.tag = t /\ Append(src, x)[n] = x /\ t \in TagNames
    BY <1>2 DEF TagNames
  <2> HIDE DEF x
  <2>3. ~ProtectsIn(Append(src, x), n)
    BY <2>2 DEF ProtectsIn
  <2>4. /\ SkipOK(p'.skip) /\ (p'.skip.on => p.skip.on)
        /\ \A m \in Nat \ {0} : Holds(p.skip, t, m + 1) => Holds(p'.skip, t, m)
        /\ \A a : Offers(a, p', p)
    BY <1>3, <2>1, <2>2, EndHolds
  <2>5. Turn(x) = -1
    BY <2>2 DEF Turn
  <2>6. ASSUME NEW m \in Nat \ {0}, Holds(p.skip, t, m), m + Turn(x) \in Nat \ {0}
        PROVE  Holds(p'.skip, t, m + Turn(x))
    <3>1. PICK h \in Nat \ {0} : h = m + Turn(x)
      BY <2>6
    <3>2. m = h + 1
      BY <2>5, <3>1
    <3>3. Holds(p'.skip, t, h)
      BY <2>4, <2>6, <3>2
    <3>4. QED  BY <3>1, <3>3
  <2> HIDE DEF n
  <2>7. QED  BY <2>1, <2>2, <2>3, <2>4, <2>6, FollowsMarkup DEF n
<1>7. ASSUME NEW t \in Texts, handle_data(t)
      PROVE  Goal
  BY <1>7, FollowsText
<1>8. ASSUME handle_comment
      PROVE  Goal
  <2> DEFINE x == [type |-> "comment"]
  <2>1. src' = Append(src, x) /\ p' = _opaque(p, Tag1)
    BY <1>8 DEF handle_comment, Event
  <2>2. x.type = "comment" /\ Append(src, x)[n] = x
    BY <1>2
  <2> HIDE DEF x
  <2>3. ~ProtectsIn(Append(src, x), n)
    BY <2>2 DEF ProtectsIn
  <2>4. SameSkip(p'.skip, p.skip) /\ \A a : Offered(a, p') <=> Offered(a, p)
    BY <1>3, <2>1, OpaqueOffers
  <2>5. SkipOK(p'.skip) /\ (p'.skip.on <=> p.skip.on) /\ \A tag, m : Holds(p.skip, tag, m) => Holds(p'.skip, tag, m)
    BY <1>3, <2>4, SameSkipHolds DEF SameSkip
  <2>6. \A a : Offers(a, p', p)
    BY <2>4 DEF Offers
  <2>7. Turn(x) = 0
    BY <2>2 DEF Turn
  <2>8. ASSUME NEW tag, NEW m \in Nat \ {0}, Holds(p.skip, tag, m)
        PROVE  Holds(p'.skip, tag, m + Turn(x))
    <3>1. m + Turn(x) = m
      BY <2>7
    <3>2. QED  BY <2>5, <2>8, <3>1
  <2> HIDE DEF n
  <2>9. QED  BY <2>1, <2>2, <2>3, <2>5, <2>6, <2>8, FollowsMarkup DEF n
<1>9. QED  BY <1>4, <1>5, <1>6, <1>7, <1>8 DEF Feed

\* Every event is tracked.
LEMMA FeedTracks ==
    ASSUME IsSource(src), Reads(p, Atoms), Follows(src, p), Tracks(src, p), Feed, Follows(src', p')
    PROVE  Tracks(src', p')
<1> DEFINE n == Len(src) + 1
<1>1. PICK Y : src \in Seq(Y)
  BY DEF IsSource
<1>2. n \in Nat /\ \A e : Append(src, e)[n] = e
  BY <1>1
<1>3. Tag1 \in Text /\ SkipOK(p.skip) /\ IsList(p.stack)
  BY <1>2, RawOfEvent DEF Tag1, Follows, Tracks
<1>4. \A x : src \in Seq(Y \cup {x}) /\ x \in Y \cup {x}
  BY <1>1
<1>5. ASSUME NEW e \in Starts, handle_starttag(e)
      PROVE  Tracks(src', p')
  <2> DEFINE x == [type |-> "start", tag |-> e.tag, no |-> e.no, lang |-> e.lang]
             void == e.tag \in VOID_TAGS
  <2>1. src' = Append(src, x) /\ p' = _start(p, e, Tag1, void)
    BY <1>5 DEF handle_starttag, Event
  <2>2. x.type = "start" /\ x.tag = e.tag /\ x.no = e.no /\ Append(src, x)[n] = x /\ e.tag \in TagNames
    BY <1>2 DEF TagNames
  <2> HIDE DEF x
  <2>3. ProtectsIn(Append(src, x), n) <=> Protected(e) /\ ~void
    BY <2>2 DEF ProtectsIn, Protected
  <2>4. IsList(p'.stack) /\ (Nests(p', p, e.tag, void) \/ Opens(p', p, e, void))
    BY <1>3, <2>1, <2>2, StartTracks
  <2>5. void <=> x.type = "empty" \/ x.tag \in VOID_TAGS
    BY <2>2
  <2> HIDE DEF void
  <2>6. QED  BY <1>4, <2>1, <2>2, <2>3, <2>4, <2>5, TracksStart
<1>6. ASSUME NEW e \in Empties, handle_startendtag(e)
      PROVE  Tracks(src', p')
  <2> DEFINE x == [type |-> "empty", tag |-> e.tag, no |-> e.no, lang |-> e.lang]
  <2>1. PICK void : void = TRUE
    OBVIOUS
  <2>2. src' = Append(src, x) /\ p' = _start(p, e, Tag1, void)
    BY <1>6, <2>1 DEF handle_startendtag, Event
  <2>3. x.type = "empty" /\ x.tag = e.tag /\ Append(src, x)[n] = x /\ e.tag \in TagNames
    BY <1>2 DEF TagNames
  <2> HIDE DEF x
  <2>4. ProtectsIn(Append(src, x), n) <=> Protected(e) /\ ~void
    BY <2>1, <2>3 DEF ProtectsIn
  <2>5. IsList(p'.stack) /\ (Nests(p', p, e.tag, void) \/ Opens(p', p, e, void))
    BY <1>3, <2>2, <2>3, StartTracks
  <2>6. void <=> x.type = "empty" \/ x.tag \in VOID_TAGS
    BY <2>1, <2>3
  <2>7. QED  BY <1>4, <2>2, <2>3, <2>4, <2>5, <2>6, TracksStart
<1>7. ASSUME NEW t \in Ends, handle_endtag(t)
      PROVE  Tracks(src', p')
  <2> DEFINE x == [type |-> "end", tag |-> t]
  <2>1. src' = Append(src, x) /\ p' = _end(p, t, Tag1)
    BY <1>7 DEF handle_endtag, Event
  <2>2. x.type = "end" /\ x.tag = t /\ t \in TagNames
    BY DEF TagNames
  <2> HIDE DEF x
  <2>3. IsList(p'.stack) /\ (p'.skip.on => EndsNone(p', p, t))
    BY <1>3, <2>1, <2>2, EndTracks
  <2>4. QED  BY <1>4, <2>1, <2>2, <2>3, TracksEnd
<1>8. ASSUME NEW t \in Texts, handle_data(t)
      PROVE  Tracks(src', p')
  <2> DEFINE x == [type |-> "text", text |-> t]
             raw == [j \in DOMAIN t |-> <<n, j>>]
  <2>1. src' = Append(src, x) /\ p' = _text(p, raw)
    BY <1>8 DEF handle_data, Event
  <2>2. x.type = "text"
    OBVIOUS
  <2>3. t \in Seq(TextKinds)
    BY TextsAssumption
  <2>4. raw \in Text
    BY <1>2, <2>3, RawOfText
  <2> HIDE DEF x, raw
  <2>5. Quiet(p', p)
    BY <2>1, <2>4, TextQuiet
  <2>6. QED  BY <1>4, <2>1, <2>2, <2>5, TracksText
<1>9. ASSUME handle_comment
      PROVE  Tracks(src', p')
  <2> DEFINE x == [type |-> "comment"]
  <2>1. src' = Append(src, x) /\ p' = _opaque(p, Tag1)
    BY <1>9 DEF handle_comment, Event
  <2>2. x.type = "comment"
    OBVIOUS
  <2> HIDE DEF x
  <2>3. Quiet(p', p)
    BY <1>3, <2>1, OpaqueQuiet
  <2>4. QED  BY <1>4, <2>1, <2>2, <2>3, TracksText
<1>10. QED  BY <1>5, <1>6, <1>7, <1>8, <1>9 DEF Feed

\* _flush leaves the mark alone.
LEMMA FlushMark ==
    ASSUME NEW q, NEW w, Reads(q, w)
    PROVE  _flush(q).unterminated = q.unterminated
<1> DEFINE e == [q EXCEPT !.run = <<>>]
           r == _flush(q)
<1>1. IsMachine(q) /\ q.run \in TokenList
  BY DEF Reads, Good
<1>2. PICK L : q.context \in L /\ IsDoc(q.parts, q.segments, L)
  BY DEF Reads, Good
<1>3. q \in DocSet(q, L)
  BY <1>1, <1>2, MachineDoc
<1>4. r \in DocSet(e, L)
  BY <1>1, <1>2, <1>3, FlushText
<1>5. e.unterminated = q.unterminated
  BY <1>1 DEF IsMachine
<1> HIDE DEF e, r
<1>6. r.unterminated = e.unterminated
  BY <1>4 DEF DocSet, Machine
<1>7. QED  BY <1>5, <1>6 DEF r

\* close(): the document offers what the machine did, and is marked if an element is open.
LEMMA CloseAccounts ==
    ASSUME IsSource(src), Reads(p, Atoms), Follows(src, p), Accounts(src, p)
    PROVE  /\ Accounts(src, Closed) /\ Closed.run = <<>> /\ \E L : Closed.segments \in Seq(Segment(L))
           /\ (\E i \in DOMAIN src : OpenIn(src, i, Len(src))) => Closed.unterminated
<1> DEFINE q == IF p.skip.on THEN [_end_skip(p) EXCEPT !.unterminated = TRUE] ELSE p
           r == _flush(q)
<1>1. /\ Reads(q, Atoms) /\ ~q.skip.on /\ (p.skip.on => q.unterminated)
      /\ \A a : Offered(a, q) <=> Offered(a, p)
  <2>1. CASE p.skip.on
    <3>0. PICK yes \in BOOLEAN : yes = TRUE
      BY Zenon
    <3> DEFINE x == _end_skip(p)
               y == [x EXCEPT !.unterminated = yes]
    <3>1. Reads(x, Atoms) /\ ~x.skip.on /\ \A a : Offered(a, x) <=> Offered(a, p)
      BY <2>1, EndSkipReads, EndSkipOffers
    <3>2. q = y
      BY <2>1, <3>0
    <3> HIDE DEF x, q
    <3>3. IsMachine(x)
      BY <3>1 DEF Reads, Good
    <3>4. /\ IsMachine(y) /\ y.skip = x.skip /\ y.parts = x.parts /\ y.segments = x.segments /\ y.run = x.run
          /\ y.context = x.context /\ y.unterminated = yes
      BY <3>3 DEF IsMachine
    <3> HIDE DEF y
    <3>5. Reads(y, Atoms)
      BY <3>1, <3>4, OtherFields
    <3>6. \A a : Offered(a, y) <=> Offered(a, p)
      BY <3>1, <3>4, SameOffers
    <3>7. QED  BY <3>0, <3>1, <3>2, <3>4, <3>5, <3>6
  <2>2. CASE ~p.skip.on
    BY <2>2
  <2>3. QED  BY <2>1, <2>2
<1>2. Closed = r
  BY DEF Closed
<1> HIDE DEF q
<1>3. Reads(r, Atoms) /\ r.run = <<>> /\ (\A a : Offers(a, r, q)) /\ r.unterminated = q.unterminated
  <2>1. Reads(r, Atoms) /\ r.run = <<>>
    BY <1>1, FlushReads
  <2>2. \A a : Offers(a, r, q)
    BY <1>1, FlushOffers
  <2>3. r.unterminated = q.unterminated
    BY <1>1, FlushMark
  <2>4. QED  BY <2>1, <2>2, <2>3
<1> HIDE DEF r
<1>4. Accounts(src, r)
  <2> SUFFICES ASSUME NEW k \in DOMAIN src, src[k].type = "text", NEW j \in DOMAIN src[k].text, src[k].text[j] # "ws"
               PROVE  Offered(<<k, j>>, r) <=> Offered(<<k, j>>, p)
    BY DEF Accounts, AccountedAt
  <2>1. KindOfAtom(<<k, j>>) # "ws"
    BY DEF KindOfAtom
  <2>2. Offers(<<k, j>>, r, q)
    BY <1>3
  <2>3. QED  BY <1>1, <2>1, <2>2 DEF Offers
<1>5. \E L : r.segments \in Seq(Segment(L))
  BY <1>3 DEF Reads, Good, IsDoc
<1>6. (\E i \in DOMAIN src : OpenIn(src, i, Len(src))) => r.unterminated
  <2>1. (\E i \in DOMAIN src : OpenIn(src, i, Len(src))) => p.skip.on
    BY DEF Follows, Holds
  <2>2. QED  BY <1>1, <1>3, <2>1
<1>7. QED  BY <1>2, <1>3, <1>4, <1>5, <1>6

(*******************************************************************************)
(* TextAccounted.                                                              *)
(*******************************************************************************)
\* What is in the texts of a list is in one of them.
LEMMA FlattenFrom ==
    ASSUME NEW s \in Seq(Text), NEW a, a \in ToSet(FlattenSeq(s))
    PROVE  \E i \in DOMAIN s : Meets(s[i], {a})
<1> DEFINE n == Len(s)
           Q == {x \in Text : Meets(x, {a})}
<1>1. n \in Nat /\ DOMAIN s = 1 .. n /\ s \in Seq(Seq(AtomSet))
  BY DEF Text
<1>2. PICK g \in [0 .. n -> Seq(AtomSet)] : /\ FlattenSeq(s) = g[n] /\ g[0] = <<>>
                                          /\ \A i \in 1 .. n : g[i] = g[i - 1] \o s[i]
  BY <1>1, FlattenRecursion
<1> DEFINE T == {i \in 0 .. n : Meets(g[i], {a})}
<1>3. ASSUME NEW i \in 1 .. n
      PROVE  i \in T => i - 1 \in T \/ s[i] \in Q
  <2>1. i \in 0 .. n /\ i - 1 \in 0 .. n
    BY <1>1
  <2>2. s[i] \in Seq(AtomSet) /\ s[i] \in Text /\ g[i - 1] \in Seq(AtomSet)
    <3>1. s[i] \in Text
      BY <1>1
    <3>2. QED  BY <2>1, <3>1 DEF Text
  <2>3. Meets(g[i], {a}) <=> Meets(g[i - 1], {a}) \/ Meets(s[i], {a})
    <3>1. g[i] = g[i - 1] \o s[i]
      BY <1>2
    <3> DEFINE x == g[i - 1]
               y == s[i]
    <3>2. x \in Seq(AtomSet) /\ y \in Seq(AtomSet) /\ g[i] = x \o y
      BY <2>2, <3>1
    <3> HIDE DEF x, y
    <3>3. Meets(x \o y, {a}) <=> Meets(x, {a}) \/ Meets(y, {a})
      BY <3>2, MeetsConcat
    <3>4. QED  BY <3>2, <3>3 DEF x, y
  <2>4. QED  BY <2>1, <2>2, <2>3
<1>4. n \in T
  BY <1>1, <1>2 DEF ToSet, Meets
<1>5. 0 \notin T
  BY <1>2, MeetsNothing
<1> HIDE DEF T
<1>6. Meets(s, Q)
  BY <1>3, <1>4, <1>5, GatheredAtMost
<1>7. QED  BY <1>6 DEF Meets

\* A visible atom of the source is one of a text.
LEMMA VisibleAtom ==
    ASSUME IsSource(src), NEW a \in ToSet(Atoms), KindOfAtom(a) # "markup"
    PROVE  \E k \in DOMAIN src : /\ src[k].type = "text"
                                 /\ \E j \in DOMAIN src[k].text : a = <<k, j>> /\ KindOfAtom(a) = src[k].text[j]
<1> DEFINE l == AtomsOfEach(src)
<1>1. Atoms = FlattenSeq(l) /\ l \in Seq(Text) /\ DOMAIN l = DOMAIN src
  BY DEF Atoms, AtomsOfEach, AtomsOf, IsSource
<1>2. \A i \in DOMAIN src : l[i] = AtomsOf(src[i], i)
  BY DEF AtomsOfEach
<1> HIDE DEF l
<1>3. PICK k \in DOMAIN src : Meets(l[k], {a})
  BY <1>1, FlattenFrom
<1>4. CASE src[k].type = "text"
  <2>1. l[k] = [j \in DOMAIN src[k].text |-> <<k, j>>]
    BY <1>2, <1>4 DEF AtomsOf
  <2>2. PICK j \in DOMAIN src[k].text : a = <<k, j>>
    BY <1>3, <2>1 DEF Meets
  <2>3. KindOfAtom(a) = src[k].text[j]
    BY <1>4, <2>2 DEF KindOfAtom
  <2>4. QED  BY <1>4, <2>2, <2>3
<1>5. CASE src[k].type # "text"
  <2>1. l[k] = << <<k, 1>> >>
    BY <1>2, <1>5 DEF AtomsOf
  <2>2. a = <<k, 1>>
    BY <1>3, <2>1, MeetsOne
  <2>3. KindOfAtom(a) = "markup"
    BY <1>5, <2>2 DEF KindOfAtom
  <2>4. QED  BY <2>3
<1>6. QED  BY <1>4, <1>5

\* The text of a document is what its segments have.
LEMMA TextOfDocument ==
    ASSUME NEW d, NEW L, d.segments \in Seq(Segment(L)), NEW a
    PROVE  a \in TextOf(d) <=> InDoc(a, d.segments)
<1> DEFINE S == d.segments
           Has(t) == t.kind = "text" /\ a \in ToSet(t.raw)
<1>1. \A k \in DOMAIN S : S[k].tokens \in Seq(Token)
  <2> SUFFICES ASSUME NEW k \in DOMAIN S PROVE S[k].tokens \in Seq(Token)
    OBVIOUS
  <2>1. S[k] \in Segment(L)
    OBVIOUS
  <2> HIDE DEF S
  <2>2. QED  BY <2>1 DEF Segment, TokenList
<1> HIDE DEF S
<1>2. \A t \in Token : t \in TokWith(a) <=> Has(t)
  <2> SUFFICES ASSUME NEW t \in Token PROVE t \in TokWith(a) <=> Has(t)
    OBVIOUS
  <2>1. t.raw \in Seq(AtomSet)
    BY TokenRaw DEF Text
  <2>2. QED  BY <2>1 DEF TokWith, RawWith, Having, Meets, ToSet
<1>3. a \in TextOf(d) <=> \E k \in DOMAIN S : \E t \in ToSet(S[k].tokens) : Has(t)
  BY DEF TextOf, S
<1> HIDE DEF Has
<1>4. ASSUME NEW k \in DOMAIN S
      PROVE  S[k].tokens \in ListWith(a) <=> \E t \in ToSet(S[k].tokens) : Has(t)
  <2> DEFINE l == S[k].tokens
  <2>1. l \in Seq(Token) /\ \A j \in DOMAIN l : l[j] \in Token
    BY <1>1
  <2> HIDE DEF l
  <2>2. l \in ListWith(a) <=> \E j \in DOMAIN l : l[j] \in TokWith(a)
    BY <2>1 DEF ListWith, Having, Meets
  <2>3. (\E t \in ToSet(l) : Has(t)) <=> \E j \in DOMAIN l : Has(l[j])
    BY DEF ToSet
  <2>4. QED  BY <1>2, <2>1, <2>2, <2>3 DEF l
<1>5. QED  BY <1>3, <1>4 DEF InDoc, S

\* The text of the source is accounted for while it is read, and in the document.
TextInv ==
    /\ at = "parse" => Follows(src, p) /\ Tracks(src, p) /\ Accounts(src, p)
    /\ at # "parse" =>
          /\ Accounts(src, doc) /\ doc.run = <<>> /\ \E L : doc.segments \in Seq(Segment(L))
          /\ (\E i \in DOMAIN src : OpenIn(src, i, Len(src))) => doc.unterminated

\* TextInv is inductive, with ParseInv.
THEOREM TextInvariance == Spec => []TextInv
<1>1. Init => TextInv
  BY FollowsNothing, TracksNothing DEF Init, TextInv
<1>2. TextInv /\ ParseInv /\ [Next]_vars => TextInv'
  <2> SUFFICES ASSUME TextInv, ParseInv, [Next]_vars
               PROVE  TextInv'
    OBVIOUS
  <2>1. CASE at = "parse" /\ Feed /\ at' = at
    <3>1. Follows(src', p') /\ Accounts(src', p')
      BY <2>1, FeedFollows DEF ParseInv, TextInv
    <3>2. Tracks(src', p')
      BY <2>1, <3>1, FeedTracks DEF ParseInv, TextInv
    <3>3. QED  BY <2>1, <3>1, <3>2 DEF TextInv
  <2>2. CASE close
    <3>1. at = "parse" /\ at' = "plan" /\ doc' = Closed /\ src' = src
      BY <2>2 DEF close
    <3>2. /\ Accounts(src, Closed) /\ Closed.run = <<>> /\ \E L : Closed.segments \in Seq(Segment(L))
          /\ (\E i \in DOMAIN src : OpenIn(src, i, Len(src))) => Closed.unterminated
      BY <3>1, CloseAccounts DEF ParseInv, TextInv
    <3>3. QED  BY <3>1, <3>2 DEF TextInv
  <2>3. CASE UNCHANGED <<src, p, doc>> /\ ((at' = "parse") <=> (at = "parse"))
    BY <2>3 DEF TextInv
  <2>4. \/ at = "parse" /\ Feed /\ at' = at
        \/ close
        \/ UNCHANGED <<src, p, doc>> /\ ((at' = "parse") <=> (at = "parse"))
    BY DEF Next, vars, plan_article_translation, get_many, translate, store, raises, other_article_stores, planVars
  <2>5. QED  BY <2>1, <2>2, <2>3, <2>4
<1>3. QED  BY <1>1, <1>2, ParseInvariance, PTL DEF Spec

\* Visible text is not sent for translation while a protected element with only text and its
\* own tags in it is open; it is sent once every protected element before it has ended, by its
\* own end tag, its parent's, or a block in an inline element; and an element without an end
\* marks the document, for every document: however its elements nest and whatever is left
\* open (segmenter._start, handle_endtag, close).
THEOREM TextIsAccounted == Spec => []TextAccounted
<1>1. TextInv /\ ParseInv => TextAccounted
  <2> SUFFICES ASSUME TextInv, ParseInv, at = "plan", NEW a \in ToSet(Atoms), KindOfAtom(a) \notin {"markup", "ws"}
               PROVE  /\ (\E i \in 1 .. a[1] : StillOpen(i, a[1])) => a \notin TextOf(doc)
                      /\ (\A i \in 1 .. a[1] : Protects(i) => Ended(i, a[1])) => a \in TextOf(doc)
                      /\ (\E i \in 1 .. a[1] : StillOpen(i, Len(src))) => doc.unterminated
    BY DEF TextAccounted
  <2>1. PICK k \in DOMAIN src : /\ src[k].type = "text"
                                /\ \E j \in DOMAIN src[k].text : a = <<k, j>> /\ KindOfAtom(a) = src[k].text[j]
    BY VisibleAtom DEF ParseInv
  <2>2. PICK j \in DOMAIN src[k].text : a = <<k, j>> /\ src[k].text[j] # "ws"
    BY <2>1
  <2>3. a[1] = k
    BY <2>2
  <2>4. /\ Accounts(src, doc) /\ doc.run = <<>> /\ \E L : doc.segments \in Seq(Segment(L))
        /\ (\E i \in DOMAIN src : OpenIn(src, i, Len(src))) => doc.unterminated
    BY DEF TextInv
  <2>5. a \in TextOf(doc) <=> Offered(a, doc)
    <3>1. <<>> \notin ListWith(a)
      BY MeetsNothing DEF ListWith, Having
    <3>2. a \in TextOf(doc) <=> InDoc(a, doc.segments)
      BY <2>4, TextOfDocument
    <3>3. QED  BY <2>4, <3>1, <3>2 DEF Offered
  <2>6. /\ (\E i \in 1 .. k : OpenIn(src, i, k)) => ~Offered(a, doc)
        /\ (\A i \in 1 .. k : ProtectsIn(src, i) => EndedIn(src, i, k)) => Offered(a, doc)
    BY <2>1, <2>2, <2>4 DEF Accounts, AccountedAt
  <2>7. \A i \in 1 .. k : i \in DOMAIN src
    <3>1. PICK X : src \in Seq(X)
      BY DEF ParseInv, IsSource
    <3>2. DOMAIN src = 1 .. Len(src) /\ Len(src) \in Nat
      BY <3>1
    <3>3. QED  BY <3>2
  <2>8. QED  BY <2>3, <2>4, <2>5, <2>6, <2>7, OfSource, EndedOfSource
<1>2. QED  BY <1>1, TextInvariance, ParseInvariance, PTL

==================================================================================
