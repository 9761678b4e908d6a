---------------------------- MODULE SequenceLemmas ----------------------------
(* What the community modules' FlattenSeq gives for a sequence of any length. *)
(* The induction is by the least counterexample: the library's induction      *)
(* theorems take an operator, a set of counterexamples is one less.           *)
EXTENDS Integers, Sequences, SequencesExt, SequenceTheorems, WellFoundedInduction, TLAPS

\* Every set of naturals has a least element.
LEMMA LeastFact ==
    ASSUME NEW T \in SUBSET Nat, T # {}
    PROVE  \E x \in T : \A y \in T : x <= y
<1> DEFINE R == {ss \in Nat \X Nat : ss[1] < ss[2]}
<1>1. IsWellFoundedOn(R, Nat) BY NatLessThanWellFounded DEF OpToRel
<1> HIDE DEF R
<1>2. PICK x \in T : \A y \in T : ~ (<<y, x>> \in R)
  <2>1. T \subseteq Nat OBVIOUS
  <2> QED BY <1>1, <2>1, WFMin
<1>3. ASSUME NEW y \in T PROVE x <= y
  <2>1. x \in Nat /\ y \in Nat /\ <<y, x>> \notin R BY <1>2
  <2> QED BY <2>1 DEF R
<1> QED BY <1>2, <1>3
-----------------------------------------------------------------------------
\* The recursive function of FlattenSeq, for the first n sequences.
Flattens(F, ss, n) ==
    F = [i \in 1..n |-> IF i = 1 THEN ss[i] ELSE F[i - 1] \o ss[i]]

\* There is such a function, and there is one only.
LEMMA FlattensExists ==
    ASSUME NEW ss, NEW n \in Nat
    PROVE  \E F : Flattens(F, ss, n)
<1> DEFINE T == {k \in Nat : ~ \E F : Flattens(F, ss, k)}
<1>1. SUFFICES ASSUME T # {} PROVE FALSE
  OBVIOUS
<1>2. PICK k \in T : \A l \in T : k <= l
  BY <1>1, LeastFact
<1>3. k # 0
  <2>1. Flattens([i \in {} |-> 0], ss, 0)
    BY DEF Flattens
  <2> QED BY <2>1, <1>2
<1>4. PICK F : Flattens(F, ss, k - 1)
  BY <1>2, <1>3
<1> DEFINE G == [i \in 1..k |-> IF i = 1 THEN ss[i] ELSE F[i - 1] \o ss[i]]
<1>5. \A i \in 1..(k - 1) : G[i] = F[i]
  <2>1. k \in Nat /\ k # 0
    BY <1>2, <1>3
  <2>2. TAKE i \in 1..(k - 1)
  <2>3. i \in 1..k
    BY <2>1
  <2>4. F[i] = IF i = 1 THEN ss[i] ELSE F[i - 1] \o ss[i]
    BY <1>4 DEF Flattens
  <2>5. G[i] = IF i = 1 THEN ss[i] ELSE F[i - 1] \o ss[i]
    BY <2>3
  <2> QED BY <2>4, <2>5
<1>6. \A i \in 1..k : i # 1 => G[i - 1] = F[i - 1]
  <2>1. k \in Nat
    BY <1>2
  <2> HIDE DEF G
  <2> QED BY <1>5, <2>1
<1>7. Flattens(G, ss, k)
  BY <1>6 DEF Flattens
<1> QED BY <1>2, <1>7

LEMMA FlattensAgree ==
    ASSUME NEW ss, NEW tt, NEW m \in Nat, NEW n \in Nat, m <= n,
           NEW F, Flattens(F, ss, m), NEW G, Flattens(G, tt, n),
           \A i \in 1..m : ss[i] = tt[i]
    PROVE  \A i \in 1..m : F[i] = G[i]
<1> DEFINE T == {i \in 1..m : F[i] # G[i]}
<1>1. SUFFICES ASSUME T # {} PROVE FALSE
  OBVIOUS
<1>2. PICK i \in T : \A j \in T : i <= j
  <2>1. T \in SUBSET Nat
    OBVIOUS
  <2> HIDE DEF T
  <2> QED BY <1>1, <2>1, LeastFact
<1>3. i # 1 => F[i - 1] = G[i - 1]
  BY <1>2
<1>4. /\ F[i] = IF i = 1 THEN ss[i] ELSE F[i - 1] \o ss[i]
      /\ G[i] = IF i = 1 THEN tt[i] ELSE G[i - 1] \o tt[i]
  <2>1. i \in 1..m /\ i \in 1..n
    BY <1>2
  <2> HIDE DEF T
  <2>2. F[i] = IF i = 1 THEN ss[i] ELSE F[i - 1] \o ss[i]
    BY <2>1 DEF Flattens
  <2>3. G[i] = IF i = 1 THEN tt[i] ELSE G[i - 1] \o tt[i]
    BY <2>1 DEF Flattens
  <2> QED BY <2>2, <2>3
<1>5. F[i] = G[i]
  BY <1>2, <1>3, <1>4
<1> QED BY <1>2, <1>5

LEMMA FlattensType ==
    ASSUME NEW S, NEW ss \in Seq(Seq(S)), NEW F, Flattens(F, ss, Len(ss))
    PROVE  \A i \in 1..Len(ss) : F[i] \in Seq(S)
<1> DEFINE n == Len(ss)
<1> DEFINE T == {i \in 1..n : F[i] \notin Seq(S)}
<1>1. SUFFICES ASSUME T # {} PROVE FALSE
  OBVIOUS
<1>2. n \in Nat /\ \A i \in 1..n : ss[i] \in Seq(S)
  OBVIOUS
<1> HIDE DEF n
<1>3. PICK i \in T : \A j \in T : i <= j
  <2>1. T \in SUBSET Nat
    BY <1>2
  <2> HIDE DEF T
  <2> QED BY <1>1, <2>1, LeastFact
<1>4. i # 1 => F[i - 1] \in Seq(S)
  BY <1>2, <1>3
<1>5. F[i] = IF i = 1 THEN ss[i] ELSE F[i - 1] \o ss[i]
  BY <1>3 DEF Flattens, n
<1>6. F[i] \in Seq(S)
  BY <1>2, <1>3, <1>4, <1>5
<1> QED BY <1>3, <1>6

\* FlattenSeq is its last value.
LEMMA FlattenIs ==
    ASSUME NEW ss, Len(ss) \in Nat
    PROVE  /\ Len(ss) = 0 => FlattenSeq(ss) = ss
           /\ Len(ss) # 0 => \E F : Flattens(F, ss, Len(ss)) /\ FlattenSeq(ss) = F[Len(ss)]
<1> DEFINE f == CHOOSE F : F = [i \in 1..Len(ss) |-> IF i = 1 THEN ss[i] ELSE F[i - 1] \o ss[i]]
<1>1. Flattens(f, ss, Len(ss))
  BY FlattensExists DEF Flattens
<1>2. Len(ss) # 0 => FlattenSeq(ss) = f[Len(ss)]
  BY DEF FlattenSeq
<1> QED BY <1>1, <1>2 DEF FlattenSeq

LEMMA FlattenEmpty == FlattenSeq(<<>>) = <<>>
BY DEF FlattenSeq

LEMMA FlattenType ==
    ASSUME NEW S, NEW ss \in Seq(Seq(S))
    PROVE  FlattenSeq(ss) \in Seq(S)
<1>1. Len(ss) \in Nat
  OBVIOUS
<1>2. CASE Len(ss) = 0
  <2>1. FlattenSeq(ss) = ss /\ ss = <<>>
    BY <1>1, <1>2, FlattenIs
  <2> QED BY <2>1
<1>3. CASE Len(ss) # 0
  <2>1. PICK F : Flattens(F, ss, Len(ss)) /\ FlattenSeq(ss) = F[Len(ss)]
    BY <1>1, <1>3, FlattenIs
  <2>2. \A i \in 1..Len(ss) : F[i] \in Seq(S)
    BY <2>1, FlattensType
  <2>3. Len(ss) \in 1..Len(ss)
    BY <1>1, <1>3
  <2> QED BY <2>1, <2>2, <2>3
<1> QED BY <1>2, <1>3

\* One more sequence at the end.
LEMMA FlattenAppend ==
    ASSUME NEW S, NEW ss \in Seq(Seq(S)), NEW x \in Seq(S)
    PROVE  FlattenSeq(Append(ss, x)) = FlattenSeq(ss) \o x
<1> DEFINE n == Len(ss)
           tt == Append(ss, x)
<1>1. /\ n \in Nat /\ Len(tt) = n + 1 /\ tt[n + 1] = x
      /\ \A i \in 1..n : ss[i] = tt[i]
      /\ n = 0 => ss = <<>>
  OBVIOUS
<1>2. PICK G : Flattens(G, tt, n + 1) /\ FlattenSeq(tt) = G[n + 1]
  <2>1. Len(tt) \in Nat /\ Len(tt) # 0
    BY <1>1
  <2> HIDE DEF tt
  <2>2. \E F : Flattens(F, tt, Len(tt)) /\ FlattenSeq(tt) = F[Len(tt)]
    BY <2>1, FlattenIs
  <2> QED BY <1>1, <2>2
<1>3. G[n + 1] = IF n + 1 = 1 THEN tt[n + 1] ELSE G[n + 1 - 1] \o tt[n + 1]
  <2> DEFINE k == n + 1
  <2>1. k \in 1..k
    BY <1>1
  <2>2. Flattens(G, tt, k)
    BY <1>2
  <2> HIDE DEF k, tt
  <2>3. G[k] = IF k = 1 THEN tt[k] ELSE G[k - 1] \o tt[k]
    BY <2>1, <2>2 DEF Flattens
  <2> QED BY <2>3 DEF k
<1> HIDE DEF tt
<1>4. CASE n = 0
  <2>1. FlattenSeq(ss) = <<>>
    BY <1>1, <1>4, FlattenEmpty
  <2>2. FlattenSeq(tt) = x
    BY <1>1, <1>2, <1>3, <1>4
  <2> QED BY <2>1, <2>2 DEF tt
<1>5. CASE n # 0
  <2>1. PICK F : Flattens(F, ss, n) /\ FlattenSeq(ss) = F[n]
    BY <1>1, <1>5, FlattenIs
  <2>2. \A i \in 1..n : F[i] = G[i]
    <3>1. n \in Nat /\ n + 1 \in Nat /\ n <= n + 1
      BY <1>1
    <3>2. \A i \in 1..n : ss[i] = tt[i]
      BY <1>1
    <3>3. Flattens(F, ss, n) /\ Flattens(G, tt, n + 1)
      BY <1>2, <2>1
    <3> DEFINE k == n + 1
    <3>4. k \in Nat /\ n \in Nat /\ n <= k /\ Flattens(G, tt, k)
      BY <3>1, <3>3
    <3> HIDE DEF n, k
    <3> QED BY <3>2, <3>3, <3>4, FlattensAgree
  <2>3. n \in 1..n /\ n + 1 - 1 = n /\ n + 1 # 1
    BY <1>1, <1>5
  <2> HIDE DEF n
  <2>4. G[n + 1] = G[n] \o x
    BY <1>1, <1>3, <2>3
  <2>5. FlattenSeq(tt) = FlattenSeq(ss) \o x
    BY <1>2, <2>1, <2>2, <2>3, <2>4
  <2> QED BY <2>5 DEF tt
<1> QED BY <1>4, <1>5

\* The first sequence, and the rest.
LEMMA FlattenTail ==
    ASSUME NEW S, NEW ss \in Seq(Seq(S)), ss # <<>>
    PROVE  FlattenSeq(ss) = Head(ss) \o FlattenSeq(Tail(ss))
<1> DEFINE n == Len(ss)
           tt == Tail(ss)
<1>1. /\ n \in Nat \ {0} /\ Len(tt) = n - 1 /\ tt \in Seq(Seq(S))
      /\ \A i \in 1..(n - 1) : tt[i] = ss[i + 1]
      /\ \A i \in 1..n : ss[i] \in Seq(S)
      /\ Head(ss) = ss[1]
      /\ n = 1 => tt = <<>>
  <2>1. /\ n \in Nat \ {0} /\ Len(tt) = n - 1 /\ tt \in Seq(Seq(S))
        /\ Head(ss) = ss[1]
        /\ \A i \in 1..n : ss[i] \in Seq(S)
    OBVIOUS
  <2>2. \A i \in 1..(n - 1) : tt[i] = ss[i + 1]
    OBVIOUS
  <2>3. n = 1 => tt = <<>>
    <3> HIDE DEF n, tt
    <3> QED BY <2>1
  <2> QED BY <2>1, <2>2, <2>3
<1>2. PICK F : Flattens(F, ss, n) /\ FlattenSeq(ss) = F[n]
  BY <1>1, FlattenIs
<1>3. F[1] = ss[1]
  <2> HIDE DEF n
  <2> QED BY <1>1, <1>2 DEF Flattens
<1>4. CASE n = 1
  <2>1. FlattenSeq(tt) = <<>>
    <3> HIDE DEF tt
    <3> QED BY <1>1, <1>4, FlattenEmpty
  <2>2. ss[1] \in Seq(S)
    BY <1>1
  <2>3. ss[1] \o <<>> = ss[1]
    BY <2>2
  <2> HIDE DEF n, tt
  <2>4. FlattenSeq(ss) = Head(ss) \o FlattenSeq(tt)
    BY <1>1, <1>2, <1>3, <1>4, <2>1, <2>3
  <2> QED BY <2>4 DEF tt
<1>5. CASE n # 1
  <2>1. PICK G : Flattens(G, tt, n - 1) /\ FlattenSeq(tt) = G[n - 1]
    <3>1. Len(tt) \in Nat /\ Len(tt) # 0
      BY <1>1, <1>5
    <3> HIDE DEF tt
    <3>2. \E H : Flattens(H, tt, Len(tt)) /\ FlattenSeq(tt) = H[Len(tt)]
      BY <3>1, FlattenIs
    <3> QED BY <1>1, <3>2
  <2>2. \A i \in 1..(n - 1) : G[i] \in Seq(S)
    <3> HIDE DEF n, tt
    <3> QED BY <1>1, <2>1, FlattensType
  <2> DEFINE T == {i \in 1..(n - 1) : F[i + 1] # ss[1] \o G[i]}
  <2> HIDE DEF n, tt
  <2>3. T = {}
    <3>1. SUFFICES ASSUME T # {} PROVE FALSE
      OBVIOUS
    <3>a. T \subseteq Nat
      <4>1. T \subseteq 1..(n - 1)
        OBVIOUS
      <4> HIDE DEF T
      <4>2. \A j \in 1..(n - 1) : j \in Nat
        BY <1>1
      <4> QED BY <4>1, <4>2
    <3> HIDE DEF T
    <3>2. PICK i \in Nat : i \in T /\ \A j \in T : i <= j
      <4>1. T \in SUBSET Nat
        BY <3>a
      <4> QED BY <3>1, <4>1, LeastFact
    <3>3. /\ i \in 1..(n - 1) /\ i + 1 \in 1..n /\ i + 1 # 1 /\ i + 1 - 1 = i
          /\ F[i + 1] # ss[1] \o G[i]
      <4>1. i \in 1..(n - 1) /\ F[i + 1] # ss[1] \o G[i]
        BY <3>2 DEF T
      <4>2. n \in Nat
        BY <1>1
      <4>3. i + 1 \in 1..n /\ i + 1 # 1 /\ i + 1 - 1 = i
        BY <4>1, <4>2
      <4> QED BY <4>1, <4>3
    <3>4. F[i + 1] = F[i] \o tt[i]
      <4>1. F[i + 1] = IF i + 1 = 1 THEN ss[i + 1] ELSE F[i + 1 - 1] \o ss[i + 1]
        <5> DEFINE k == i + 1
        <5>1. k \in 1..n
          BY <3>3
        <5> HIDE DEF k
        <5>2. F[k] = IF k = 1 THEN ss[k] ELSE F[k - 1] \o ss[k]
          BY <5>1, <1>2 DEF Flattens
        <5> QED BY <5>2 DEF k
      <4> QED BY <4>1, <3>3, <1>1
    <3>5. G[i] = IF i = 1 THEN tt[i] ELSE G[i - 1] \o tt[i]
      BY <3>3, <2>1 DEF Flattens
    <3>6. CASE i = 1
      BY <3>3, <3>4, <3>5, <3>6, <1>3
    <3>7. CASE i # 1
      <4>1. i - 1 \in 1..(n - 1) /\ i - 1 < i /\ i - 1 + 1 = i
        BY <3>3, <3>7, <1>1
      <4>2. F[i] = ss[1] \o G[i - 1]
        <5>1. i - 1 \notin T
          <6>1. i \in Nat /\ i - 1 \in Nat /\ ~ (i <= i - 1)
            BY <3>3, <4>1, <1>1
          <6> QED BY <3>2, <6>1
        <5> QED BY <4>1, <5>1 DEF T
      <4>3. ss[1] \in Seq(S) /\ G[i - 1] \in Seq(S) /\ tt[i] \in Seq(S)
        BY <1>1, <2>2, <3>3, <4>1
      <4>4. (ss[1] \o G[i - 1]) \o tt[i] = ss[1] \o (G[i - 1] \o tt[i])
        <5> DEFINE a == ss[1]
                   b == G[i - 1]
                   c == tt[i]
        <5>1. a \in Seq(S) /\ b \in Seq(S) /\ c \in Seq(S)
          BY <4>3
        <5> HIDE DEF a, b, c
        <5>2. (a \o b) \o c = a \o (b \o c)
          BY <5>1
        <5> QED BY <5>2 DEF a, b, c
      <4> QED BY <3>3, <3>4, <3>5, <3>7, <4>2, <4>4
    <3> QED BY <3>6, <3>7
  <2>4. n - 1 \in 1..(n - 1) /\ n - 1 + 1 = n
    BY <1>1, <1>5
  <2>5. F[n] = ss[1] \o G[n - 1]
    BY <2>3, <2>4
  <2>6. FlattenSeq(ss) = Head(ss) \o FlattenSeq(tt)
    BY <1>1, <1>2, <2>1, <2>5
  <2> QED BY <2>6 DEF tt
<1> QED BY <1>4, <1>5

\* Flattening sequences of no element or one is picking, in order, those there are.
\* Of the first k of them, p has what was picked.
Picks(ss, k, p) ==
    /\ \A i \in 1..k : Len(ss[i]) = 1 => \E a \in 1..Len(p) : p[a] = ss[i][1]
    /\ \A a \in 1..Len(p) : \E i \in 1..k : Len(ss[i]) = 1 /\ p[a] = ss[i][1]
    /\ \A a, b \in 1..Len(p) : a # b =>
           \E i, j \in 1..k : /\ i # j /\ Len(ss[i]) = 1 /\ Len(ss[j]) = 1
                              /\ p[a] = ss[i][1] /\ p[b] = ss[j][1]

LEMMA PicksStep ==
    ASSUME NEW S, NEW ss, NEW k \in Nat, NEW p \in Seq(S), NEW x \in Seq(S),
           x = ss[k + 1], Len(x) <= 1, Picks(ss, k, p)
    PROVE  Picks(ss, k + 1, p \o x)
<1> DEFINE r == p \o x
           l == Len(p)
           m == Len(x)
<1>1. /\ l \in Nat /\ m \in {0, 1} /\ Len(r) = l + m
      /\ \A a \in 1..l : r[a] = p[a]
      /\ \A a \in 1..m : r[l + a] = x[a]
  <2>1. l \in Nat /\ m \in Nat /\ m <= 1
    OBVIOUS
  <2>2. Len(r) = l + m
    OBVIOUS
  <2>3. \A a \in 1..l : r[a] = p[a]
    OBVIOUS
  <2>4. \A a \in 1..m : r[l + a] = x[a]
    OBVIOUS
  <2> HIDE DEF m, l, r
  <2> QED BY <2>1, <2>2, <2>3, <2>4
<1>2. \A i \in 1..(k + 1) : i \in 1..k \/ i = k + 1
  OBVIOUS
<1>3. 1..k \subseteq 1..(k + 1) /\ k + 1 \in 1..(k + 1) /\ k + 1 \notin 1..k
  OBVIOUS
<1>4. /\ \A i \in 1..k : Len(ss[i]) = 1 => \E a \in 1..l : p[a] = ss[i][1]
      /\ \A a \in 1..l : \E i \in 1..k : Len(ss[i]) = 1 /\ p[a] = ss[i][1]
      /\ \A a, b \in 1..l : a # b =>
           \E i, j \in 1..k : /\ i # j /\ Len(ss[i]) = 1 /\ Len(ss[j]) = 1
                              /\ p[a] = ss[i][1] /\ p[b] = ss[j][1]
  BY DEF Picks
<1>5. CASE m = 0
  <2>1. r = p
    BY <1>5
  <2> HIDE DEF r, l, m
  <2>2. Len(ss[k + 1]) # 1
    BY <1>5 DEF m
  <2>3. \A i \in 1..(k + 1) : Len(ss[i]) = 1 => i \in 1..k
    BY <1>2, <2>2
  <2> QED BY <1>3, <1>4, <2>1, <2>3 DEF Picks, l, r
<1>6. CASE m = 1
  <2> HIDE DEF r, l
  <2>1. 1..Len(r) = 1..(l + 1) /\ l + 1 \in 1..(l + 1) /\ 1..l \subseteq 1..(l + 1)
    BY <1>1, <1>6
  <2>2. \A a \in 1..(l + 1) : a \in 1..l \/ a = l + 1
    BY <1>1
  <2>3. Len(ss[k + 1]) = 1 /\ r[l + 1] = ss[k + 1][1]
    BY <1>1, <1>6
  <2> HIDE DEF m
  <2>4. \A i \in 1..(k + 1) : Len(ss[i]) = 1 => \E a \in 1..(l + 1) : r[a] = ss[i][1]
    <3> TAKE i \in 1..(k + 1)
    <3>1. CASE i = k + 1
      BY <2>1, <2>3, <3>1
    <3>2. CASE i \in 1..k
      <4> SUFFICES ASSUME Len(ss[i]) = 1 PROVE \E a \in 1..(l + 1) : r[a] = ss[i][1]
        OBVIOUS
      <4>1. PICK a \in 1..l : p[a] = ss[i][1]
        BY <1>4, <3>2
      <4>2. a \in 1..(l + 1) /\ r[a] = ss[i][1]
        BY <1>1, <2>1, <4>1
      <4> QED BY <4>2
    <3> QED BY <1>2, <3>1, <3>2
  <2>5. \A a \in 1..(l + 1) : \E i \in 1..(k + 1) : Len(ss[i]) = 1 /\ r[a] = ss[i][1]
    <3> TAKE a \in 1..(l + 1)
    <3>1. CASE a = l + 1
      BY <1>3, <2>3, <3>1
    <3>2. CASE a \in 1..l
      <4>1. PICK i \in 1..k : Len(ss[i]) = 1 /\ p[a] = ss[i][1]
        BY <1>4, <3>2
      <4>2. i \in 1..(k + 1) /\ r[a] = ss[i][1]
        BY <1>1, <1>3, <3>2, <4>1
      <4> QED BY <4>1, <4>2
    <3> QED BY <2>2, <3>1, <3>2
  <2>6. ASSUME NEW a \in 1..(l + 1), NEW b \in 1..(l + 1), a # b
        PROVE  \E i, j \in 1..(k + 1) : /\ i # j /\ Len(ss[i]) = 1 /\ Len(ss[j]) = 1
                                        /\ r[a] = ss[i][1] /\ r[b] = ss[j][1]
    <3>1. CASE a \in 1..l /\ b \in 1..l
      <4>1. PICK i \in 1..k, j \in 1..k :
                /\ i # j /\ Len(ss[i]) = 1 /\ Len(ss[j]) = 1
                /\ p[a] = ss[i][1] /\ p[b] = ss[j][1]
        BY <1>4, <2>6, <3>1
      <4>2. i \in 1..(k + 1) /\ j \in 1..(k + 1) /\ r[a] = ss[i][1] /\ r[b] = ss[j][1]
        BY <1>1, <1>3, <3>1, <4>1
      <4> QED BY <4>1, <4>2
    <3>2. CASE a = l + 1
      <4>1. b \in 1..l
        BY <2>2, <2>6, <3>2
      <4>2. PICK j \in 1..k : Len(ss[j]) = 1 /\ p[b] = ss[j][1]
        BY <1>4, <4>1
      <4>3. j \in 1..(k + 1) /\ r[b] = ss[j][1] /\ j # k + 1
        BY <1>1, <1>3, <4>1, <4>2
      <4> QED BY <1>3, <2>3, <3>2, <4>2, <4>3
    <3>3. CASE b = l + 1
      <4>1. a \in 1..l
        BY <2>2, <2>6, <3>3
      <4>2. PICK i \in 1..k : Len(ss[i]) = 1 /\ p[a] = ss[i][1]
        BY <1>4, <4>1
      <4>3. i \in 1..(k + 1) /\ r[a] = ss[i][1] /\ i # k + 1
        BY <1>1, <1>3, <4>1, <4>2
      <4> QED BY <1>3, <2>3, <3>3, <4>2, <4>3
    <3> QED BY <2>2, <3>1, <3>2, <3>3
  <2>7. Picks(ss, k + 1, r)
    <3>1. \A i \in 1..(k + 1) : Len(ss[i]) = 1 => \E a \in 1..Len(r) : r[a] = ss[i][1]
      BY <2>1, <2>4
    <3>2. \A a \in 1..Len(r) : \E i \in 1..(k + 1) : Len(ss[i]) = 1 /\ r[a] = ss[i][1]
      BY <2>1, <2>5
    <3>3. \A a, b \in 1..Len(r) : a # b =>
            \E i, j \in 1..(k + 1) : /\ i # j /\ Len(ss[i]) = 1 /\ Len(ss[j]) = 1
                                     /\ r[a] = ss[i][1] /\ r[b] = ss[j][1]
      BY <2>1, <2>6
    <3> QED BY <3>1, <3>2, <3>3 DEF Picks
  <2> QED BY <2>7 DEF r
<1> QED BY <1>1, <1>5, <1>6

LEMMA FlattenPicks ==
    ASSUME NEW S, NEW ss \in Seq(Seq(S)), \A i \in 1..Len(ss) : Len(ss[i]) <= 1
    PROVE  FlattenSeq(ss) \in Seq(S) /\ Picks(ss, Len(ss), FlattenSeq(ss))
<1> DEFINE n == Len(ss)
<1>1. n \in Nat /\ FlattenSeq(ss) \in Seq(S) /\ \A i \in 1..n : ss[i] \in Seq(S)
  BY FlattenType
<1>2. CASE n = 0
  <2>1. FlattenSeq(ss) = <<>>
    BY <1>2, FlattenEmpty
  <2>2. Picks(ss, 0, <<>>)
    BY DEF Picks
  <2> QED BY <1>1, <1>2, <2>1, <2>2
<1>3. CASE n # 0
  <2>1. PICK F : Flattens(F, ss, n) /\ FlattenSeq(ss) = F[n]
    BY <1>1, <1>3, FlattenIs
  <2>2. \A i \in 1..n : F[i] \in Seq(S)
    BY <2>1, FlattensType
  <2> HIDE DEF n
  <2>3. \A i \in 1..n : F[i] = IF i = 1 THEN ss[i] ELSE F[i - 1] \o ss[i]
    <3> TAKE i \in 1..n
    <3> QED BY <2>1 DEF Flattens
  <2> DEFINE T == {i \in 1..n : ~ Picks(ss, i, F[i])}
  <2>4. T = {}
    <3>1. SUFFICES ASSUME T # {} PROVE FALSE
      OBVIOUS
    <3>2. PICK i \in T : \A j \in T : i <= j
      <4>1. T \in SUBSET Nat
        BY <1>1
      <4> HIDE DEF T
      <4> QED BY <3>1, <4>1, LeastFact
    <3>3. i \in 1..n /\ ~ Picks(ss, i, F[i]) /\ i \in Nat
      BY <1>1, <3>2
    <3>4. ss[i] \in Seq(S) /\ Len(ss[i]) <= 1
      BY <1>1, <3>3 DEF n
    <3>5. CASE i = 1
      <4>1. F[i] = <<>> \o ss[i]
        BY <2>3, <3>3, <3>4, <3>5
      <4>2. Picks(ss, 0, <<>>) /\ <<>> \in Seq(S)
        BY EmptySeq DEF Picks
      <4> DEFINE k == 0
                 e == <<>>
                 x == ss[i]
      <4>3. /\ k \in Nat /\ e \in Seq(S) /\ x \in Seq(S) /\ Len(x) <= 1
            /\ x = ss[k + 1] /\ Picks(ss, k, e)
        BY <3>4, <3>5, <4>2
      <4> HIDE DEF k, e, x
      <4>4. Picks(ss, k + 1, e \o x)
        BY <4>3, PicksStep
      <4>5. k + 1 = i
        BY <3>5 DEF k
      <4> QED BY <3>3, <4>1, <4>4, <4>5 DEF e, x
    <3>6. CASE i # 1
      <4> DEFINE k == i - 1
      <4>1. k \in 1..n /\ k \in Nat /\ k < i /\ i = k + 1
        BY <1>1, <3>3, <3>6
      <4>2. Picks(ss, k, F[k])
        BY <1>1, <3>2, <3>3, <4>1
      <4>3. F[i] = F[k] \o ss[i]
        BY <2>3, <3>3, <3>6
      <4>4. F[k] \in Seq(S)
        BY <2>2, <4>1
      <4> HIDE DEF k
      <4>5. Picks(ss, k + 1, F[k] \o ss[i])
        BY <3>4, <4>1, <4>2, <4>4, PicksStep
      <4> QED BY <3>3, <4>1, <4>3, <4>5
    <3> QED BY <3>5, <3>6
  <2>5. n \in 1..n
    BY <1>1, <1>3
  <2> QED BY <1>1, <2>1, <2>4, <2>5 DEF n
<1> QED BY <1>2, <1>3

\* Concatenation under a name the provers do not look into: what is long for
\* them over sequences is short over an associative operator.
Concat(s, t) == s \o t

LEMMA ConcatFact ==
    ASSUME NEW S
    PROVE  /\ \A a, b \in Seq(S) : Concat(a, b) \in Seq(S)
           /\ \A a, b, c \in Seq(S) : Concat(a, Concat(b, c)) = Concat(Concat(a, b), c)
<1>1. \A a, b \in Seq(S) : Concat(a, b) \in Seq(S)
  BY DEF Concat
<1>2. \A a, b, c \in Seq(S) : Concat(a, Concat(b, c)) = Concat(Concat(a, b), c)
  BY SMTT(30) DEF Concat
<1> QED BY <1>1, <1>2
=============================================================================
