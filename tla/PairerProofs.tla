---------------------------- MODULE PairerProofs ----------------------------
(***************************************************************************)
(* What the pairing functions and the parameter resolver compute, for      *)
(* every list of devices and every composition.  Their recursions are      *)
(* reasoned about with sets and functions: an induction is a set of        *)
(* indices that contains the first and with each one the next.             *)
(***************************************************************************)
EXTENDS DeviceParams, FiniteSetTheorems, NaturalsInduction, SequenceTheorems, TLAPS

----------------------------------------------------------------------------
(* Induction and recursion                                                 *)

LEMMA LeastNumber ==
  ASSUME NEW T \in SUBSET Nat, T # {}
  PROVE  \E x \in T : \A y \in T : x <= y
  <1> DEFINE R == OpToRel(<, Nat)
  <1>1. \A x, y \in Nat : y < x => <<y, x>> \in R
    BY DEF OpToRel
  <1>2. IsWellFoundedOn(R, Nat)
    BY NatLessThanWellFounded
  <1> HIDE DEF R
  <1>3. PICK x \in T : \A y \in T : ~ (<<y, x>> \in R)
    BY <1>2, WFMin
  <1>4. \A y \in T : ~ (y < x)
    BY <1>1, <1>3
  <1> QED BY <1>4

\* Indices up to n are all of a kind if the first is and the next one is.
LEMMA Steps ==
  ASSUME NEW n \in Nat, NEW G, 0 \in G, \A i \in 1 .. n : i - 1 \in G => i \in G
  PROVE  \A i \in 0 .. n : i \in G
  <1> DEFINE T == {i \in 0 .. n : i \notin G}
  <1> SUFFICES ASSUME T # {} PROVE FALSE
    OBVIOUS
  <1>0. T \in SUBSET Nat
    OBVIOUS
  <1>1. PICK x \in T : \A y \in T : x <= y
    <2> HIDE DEF T
    <2> QED BY <1>0, LeastNumber
  <1>2. x \in 0 .. n /\ x \notin G /\ x # 0
    BY <1>1
  <1>3. x \in 1 .. n /\ x - 1 \in 0 .. n /\ ~ (x <= x - 1)
    BY <1>2
  <1>4. x - 1 \in G
    BY <1>1, <1>3
  <1> QED BY <1>2, <1>3, <1>4

\* A recursive function over 0 .. n whose steps stay in a set exists.
LEMMA Recursion ==
  ASSUME NEW A, NEW base \in A, NEW n \in Nat, NEW step \in [1 .. n -> [A -> A]]
  PROVE  \E f \in [0 .. n -> A] : f[0] = base /\ \A i \in 1 .. n : f[i] = step[i][f[i - 1]]
  <1> DEFINE Upto(m) == \E f \in [0 .. m -> A] :
                          f[0] = base /\ \A i \in 1 .. m : f[i] = step[i][f[i - 1]]
             G == {m \in 0 .. n : Upto(m)}
  <1>1. 0 \in G
    <2> DEFINE f == [i \in 0 .. 0 |-> base]
    <2>1. f \in [0 .. 0 -> A] /\ f[0] = base /\ \A i \in 1 .. 0 : f[i] = step[i][f[i - 1]]
      OBVIOUS
    <2>2. Upto(0)
      BY <2>1
    <2> QED BY <2>2
  <1>2. ASSUME NEW m \in 1 .. n, m - 1 \in G PROVE m \in G
    <2>1. PICK f \in [0 .. m - 1 -> A] :
            f[0] = base /\ \A i \in 1 .. m - 1 : f[i] = step[i][f[i - 1]]
      BY <1>2
    <2> DEFINE g == [i \in 0 .. m |-> IF i = m THEN step[m][f[m - 1]] ELSE f[i]]
    <2>2. f[m - 1] \in A /\ step[m][f[m - 1]] \in A
      OBVIOUS
    <2>3. g \in [0 .. m -> A] /\ g[0] = base
      BY <2>1, <2>2
    <2>4. ASSUME NEW i \in 1 .. m PROVE g[i] = step[i][g[i - 1]]
      <3>1. i - 1 \in 0 .. m /\ i - 1 # m /\ g[i - 1] = f[i - 1]
        OBVIOUS
      <3>2. CASE i = m
        BY <3>1, <3>2
      <3>3. CASE i # m
        BY <2>1, <3>1, <3>3
      <3> QED BY <3>2, <3>3
    <2> HIDE DEF g
    <2>5. Upto(m)
      BY <2>3, <2>4
    <2>6. m \in 0 .. n
      OBVIOUS
    <2> QED BY <2>5, <2>6
  <1> HIDE DEF G
  <1>3. n \in 0 .. n
    OBVIOUS
  <1>4. n \in G
    BY <1>1, <1>2, <1>3, Steps
  <1> QED BY <1>4 DEF G

----------------------------------------------------------------------------
(* Sequences                                                               *)

LEMMA RangeConcat ==
  ASSUME NEW A, NEW s \in Seq(A), NEW t \in Seq(A)
  PROVE  s \o t \in Seq(A) /\ Range(s \o t) = Range(s) \cup Range(t)
  <1>1. /\ s \o t \in Seq(A) /\ DOMAIN (s \o t) = 1 .. Len(s) + Len(t)
        /\ \A i \in 1 .. Len(s) + Len(t) :
             (s \o t)[i] = IF i <= Len(s) THEN s[i] ELSE t[i - Len(s)]
        /\ Len(s) \in Nat /\ Len(t) \in Nat /\ DOMAIN s = 1 .. Len(s) /\ DOMAIN t = 1 .. Len(t)
    OBVIOUS
  <1>2. Range(s \o t) \subseteq Range(s) \cup Range(t)
    BY <1>1 DEF Range
  <1>3. Range(s) \subseteq Range(s \o t)
    BY <1>1 DEF Range
  <1>4. ASSUME NEW i \in 1 .. Len(t) PROVE t[i] \in Range(s \o t)
    <2>1. /\ Len(s) + i \in 1 .. Len(s) + Len(t) /\ ~ (Len(s) + i <= Len(s))
          /\ (Len(s) + i) - Len(s) = i
      BY <1>1
    <2>2. (s \o t)[Len(s) + i] = t[i]
      BY <1>1, <2>1
    <2> QED BY <1>1, <2>1, <2>2 DEF Range
  <1> QED BY <1>1, <1>2, <1>3, <1>4 DEF Range

\* FlattenSeq concatenates from the first sequence on.
LEMMA FlattenSteps ==
  ASSUME NEW A, NEW ss \in Seq(Seq(A))
  PROVE  \E f \in [0 .. Len(ss) -> Seq(A)] :
           /\ f[0] = <<>> /\ \A i \in 1 .. Len(ss) : f[i] = f[i - 1] \o ss[i]
           /\ FlattenSeq(ss) = f[Len(ss)]
  <1> DEFINE n    == Len(ss)
             B    == Seq(A)
             e    == <<>>
             step == [i \in 1 .. n |-> [x \in B |-> x \o ss[i]]]
             Rec(h) == [i \in 1 .. n |-> IF i = 1 THEN ss[i] ELSE h[i - 1] \o ss[i]]
             flatten == CHOOSE h : h = Rec(h)
  <1>1. n \in Nat /\ DOMAIN ss = 1 .. n /\ \A i \in 1 .. n : ss[i] \in Seq(A)
    OBVIOUS
  <1>2. step \in [1 .. n -> [B -> B]] /\ e \in B
    BY <1>1
  <1>3. PICK f \in [0 .. n -> B] : f[0] = e /\ \A i \in 1 .. n : f[i] = step[i][f[i - 1]]
    <2> HIDE DEF step, n, B, e
    <2>1. n \in Nat
      BY <1>1
    <2> QED BY ONLY <1>2, <2>1, Recursion, SMTT(30)
  <1>4. ASSUME NEW i \in 1 .. n PROVE f[i] = f[i - 1] \o ss[i]
    <2>1. i - 1 \in 0 .. n
      BY <1>1
    <2>2. f[i - 1] \in B
      BY <2>1
    <2> QED BY <1>3, <2>2
  <1>5. CASE n = 0
    <2>1. FlattenSeq(ss) = ss /\ ss = <<>>
      BY <1>5 DEF FlattenSeq
    <2> QED BY <1>3, <1>4, <1>5, <2>1
  <1>6. CASE n # 0
    <2> DEFINE g == [i \in 1 .. n |-> f[i]]
    <2>1. g = Rec(g)
      <3>1. ASSUME NEW i \in 1 .. n PROVE g[i] = IF i = 1 THEN ss[i] ELSE g[i - 1] \o ss[i]
        <4>1. CASE i = 1
          <5>1. <<>> \o ss[1] = ss[1]
            BY <1>1, <4>1
          <5>2. f[i] = f[i - 1] \o ss[i]
            BY <1>4
          <5>3. f[i - 1] = <<>>
            BY <1>3, <4>1
          <5> QED BY <4>1, <5>1, <5>2, <5>3
        <4>2. CASE i # 1
          <5>1. i - 1 \in 1 .. n
            BY <1>1, <4>2
          <5> QED BY <1>4, <4>2, <5>1
        <4> QED BY <4>1, <4>2
      <3> QED BY <3>1
    <2>2. flatten = Rec(flatten)
      <3> HIDE DEF g, Rec
      <3> QED BY <2>1
    <2>3. FlattenSeq(ss) = flatten[n]
      BY <1>6 DEF FlattenSeq
    <2> HIDE DEF flatten, g, step
    <2> DEFINE G == {i \in 0 .. n : i = 0 \/ flatten[i] = f[i]}
    <2>4. 0 \in G
      BY <1>1
    <2>5. ASSUME NEW i \in 1 .. n, i - 1 \in G PROVE i \in G
      <3>1. CASE i = 1
        <4>1. flatten[1] = ss[1] /\ f[1] = f[1 - 1] \o ss[1] /\ f[1 - 1] = <<>>
          BY <1>1, <1>3, <1>4, <2>2, <3>1
        <4>2. <<>> \o ss[1] = ss[1]
          BY <1>1, <3>1
        <4> QED BY <1>1, <3>1, <4>1, <4>2
      <3>2. CASE i # 1
        <4>1. flatten[i - 1] = f[i - 1]
          BY <1>1, <2>5, <3>2
        <4>2. flatten[i] = flatten[i - 1] \o ss[i]
          BY <2>2, <3>2
        <4>3. f[i] = f[i - 1] \o ss[i]
          BY <1>4
        <4>4. flatten[i] = f[i] /\ i \in 0 .. n
          BY <1>1, <4>1, <4>2, <4>3
        <4> QED BY <4>4
      <3> QED BY <3>1, <3>2
    <2> HIDE DEF G
    <2>6. n \in G
      <3> HIDE DEF n
      <3>1. n \in Nat /\ n \in 0 .. n
        BY <1>1
      <3> QED BY <2>4, <2>5, <3>1, Steps
    <2>7. FlattenSeq(ss) = f[n]
      BY <1>6, <2>3, <2>6 DEF G
    <2> HIDE DEF n
    <2> QED BY <1>3, <1>4, <2>7 DEF n
  <1> QED BY <1>5, <1>6

\* The concatenation of sequences has their elements.
LEMMA FlattenRange ==
  ASSUME NEW A, NEW ss \in Seq(Seq(A))
  PROVE  /\ FlattenSeq(ss) \in Seq(A)
         /\ Range(FlattenSeq(ss)) = UNION {Range(ss[i]) : i \in DOMAIN ss}
  <1> DEFINE n == Len(ss)
  <1>1. n \in Nat /\ DOMAIN ss = 1 .. n /\ \A i \in 1 .. n : ss[i] \in Seq(A)
    OBVIOUS
  <1>2. PICK f \in [0 .. n -> Seq(A)] :
          f[0] = <<>> /\ (\A i \in 1 .. n : f[i] = f[i - 1] \o ss[i]) /\ FlattenSeq(ss) = f[n]
    BY FlattenSteps
  <1> HIDE DEF n
  <1> DEFINE G == {i \in 0 .. n : Range(f[i]) = UNION {Range(ss[j]) : j \in 1 .. i}}
  <1>3. 0 \in G
    <2>1. Range(f[0]) = {} /\ 1 .. 0 = {}
      BY <1>2 DEF Range
    <2> QED BY <1>1, <2>1
  <1>4. ASSUME NEW i \in 1 .. n, i - 1 \in G PROVE i \in G
    <2>1. i - 1 \in 0 .. n /\ i \in 0 .. n
      BY <1>1
    <2>2. f[i] = f[i - 1] \o ss[i] /\ f[i - 1] \in Seq(A) /\ ss[i] \in Seq(A)
      BY <1>1, <1>2, <2>1
    <2>3. Range(f[i]) = Range(f[i - 1]) \cup Range(ss[i])
      BY <2>2, RangeConcat
    <2>4. 1 .. i = (1 .. i - 1) \cup {i}
      BY <1>1
    <2>5. Range(f[i - 1]) = UNION {Range(ss[j]) : j \in 1 .. i - 1}
      BY <1>4
    <2>6. Range(f[i]) = UNION {Range(ss[j]) : j \in 1 .. i}
      BY <2>3, <2>4, <2>5
    <2> QED BY <2>1, <2>6
  <1>5. n \in G
    <2> HIDE DEF G
    <2>1. n \in Nat /\ n \in 0 .. n
      BY <1>1
    <2> QED BY <1>3, <1>4, <2>1, Steps
  <1>6. f[n] \in Seq(A)
    BY <1>1
  <1> QED BY <1>1, <1>2, <1>5, <1>6

\* The positions of the elements of sequences.
Positions(ss) == UNION {{j} \X (1 .. Len(ss[j])) : j \in DOMAIN ss}

\* A concatenation has an element for each position.
LEMMA FlattenLen ==
  ASSUME NEW A, NEW ss \in Seq(Seq(A))
  PROVE  Len(FlattenSeq(ss)) = Cardinality(Positions(ss))
  <1> DEFINE n == Len(ss)
             At(j) == {j} \X (1 .. Len(ss[j]))
             P(i) == UNION {At(j) : j \in 1 .. i}
  <1>1. n \in Nat /\ DOMAIN ss = 1 .. n /\ \A i \in 1 .. n : ss[i] \in Seq(A)
    OBVIOUS
  <1>2. PICK f \in [0 .. n -> Seq(A)] :
          f[0] = <<>> /\ (\A i \in 1 .. n : f[i] = f[i - 1] \o ss[i]) /\ FlattenSeq(ss) = f[n]
    BY FlattenSteps
  <1>3. Positions(ss) = P(n)
    BY <1>1 DEF Positions
  <1>4. ASSUME NEW j \in 1 .. n
        PROVE  IsFiniteSet(At(j)) /\ Cardinality(At(j)) = Len(ss[j]) /\ \A x \in At(j) : x[1] = j
    <2>1. Len(ss[j]) \in Nat
      BY <1>1
    <2> DEFINE I == 1 .. Len(ss[j])
    <2>2. IsFiniteSet(I) /\ Cardinality(I) = Len(ss[j])
      <3> DEFINE l == Len(ss[j])
      <3> HIDE DEF l
      <3>1. l \in Nat
        BY <2>1 DEF l
      <3>2. \A a, b \in Int : IsFiniteSet(a .. b) /\ Cardinality(a .. b) = IF a > b THEN 0 ELSE b - a + 1
        BY FS_Interval
      <3>3. IsFiniteSet(1 .. l)
        BY <3>1, <3>2
      <3>4. Cardinality(1 .. l) = l
        BY <3>1, <3>2
      <3> QED BY <3>3, <3>4 DEF l
    <2>3. IsFiniteSet({j}) /\ Cardinality({j}) = 1
      BY FS_Singleton
    <2>4. \A x \in {j} \X I : x[1] = j
      OBVIOUS
    <2> HIDE DEF I
    <2>5. IsFiniteSet({j} \X I) /\ Cardinality({j} \X I) = Cardinality({j}) * Cardinality(I)
      BY <2>2, <2>3, FS_Product
    <2> QED BY <2>1, <2>2, <2>3, <2>4, <2>5 DEF I
  <1> HIDE DEF n, At
  <1> DEFINE G == {i \in 0 .. n : IsFiniteSet(P(i)) /\ Len(f[i]) = Cardinality(P(i))}
  <1>5. 0 \in G
    <2>1. P(0) = {} /\ Len(f[0]) = 0 /\ 0 \in 0 .. n
      BY <1>1, <1>2
    <2> QED BY <2>1, FS_EmptySet
  <1>6. ASSUME NEW i \in 1 .. n, i - 1 \in G PROVE i \in G
    <2>1. i - 1 \in 0 .. n /\ i \in 0 .. n
      BY <1>1
    <2>2. f[i] = f[i - 1] \o ss[i] /\ f[i - 1] \in Seq(A) /\ ss[i] \in Seq(A)
      BY <1>1, <1>2, <2>1
    <2>3. Len(f[i]) = Len(f[i - 1]) + Len(ss[i])
      BY <2>2
    <2>4. 1 .. i = (1 .. i - 1) \cup {i}
      BY <1>1
    <2>5. P(i) = P(i - 1) \cup At(i)
      BY <2>4
    <2>6. P(i - 1) \cap At(i) = {}
      <3>1. ASSUME NEW x \in P(i - 1) PROVE x \notin At(i)
        <4>1. PICK j \in 1 .. i - 1 : x \in At(j)
          BY <3>1
        <4>2. j \in 1 .. n /\ j # i
          BY <1>1
        <4> QED BY <1>4, <4>1, <4>2
      <3> QED BY <3>1
    <2>7. /\ IsFiniteSet(P(i - 1)) /\ Len(f[i - 1]) = Cardinality(P(i - 1))
          /\ IsFiniteSet(At(i)) /\ Cardinality(At(i)) = Len(ss[i])
      BY <1>4, <1>6
    <2> DEFINE p == P(i - 1)
               q == At(i)
    <2>8. IsFiniteSet(p \cup q) /\ Cardinality(p \cup q) = Cardinality(p) + Cardinality(q) - Cardinality(p \cap q)
      <3> HIDE DEF p, q
      <3>1. IsFiniteSet(p) /\ IsFiniteSet(q)
        BY <2>7 DEF p, q
      <3> QED BY <3>1, FS_Union
    <2>9. Cardinality(p \cap q) = 0
      BY <2>6, FS_EmptySet
    <2>10. Len(f[i - 1]) \in Nat /\ Len(ss[i]) \in Nat
      BY <2>2
    <2> HIDE DEF P
    <2>11. Cardinality(P(i)) = Len(f[i - 1]) + Len(ss[i]) /\ IsFiniteSet(P(i))
      BY <2>5, <2>7, <2>8, <2>9, <2>10
    <2> QED BY <2>1, <2>3, <2>11
  <1>7. n \in G
    <2> HIDE DEF G
    <2>1. n \in Nat /\ n \in 0 .. n
      BY <1>1
    <2> QED BY <1>5, <1>6, <2>1, Steps
  <1> QED BY <1>2, <1>3, <1>7

\* Concatenations of sequences that agree position by position agree so.
LEMMA FlattenAlike ==
  ASSUME NEW A, NEW ss \in Seq(Seq(A)), NEW tt \in Seq(Seq(A)), NEW R,
         Len(ss) = Len(tt), \A j \in DOMAIN ss : Len(ss[j]) = Len(tt[j]),
         \A j \in DOMAIN ss : \A i \in DOMAIN ss[j] : <<ss[j][i], tt[j][i]>> \in R
  PROVE  /\ Len(FlattenSeq(ss)) = Len(FlattenSeq(tt))
         /\ \A i \in DOMAIN FlattenSeq(ss) : <<FlattenSeq(ss)[i], FlattenSeq(tt)[i]>> \in R
  <1> DEFINE n == Len(ss)
  <1>1. /\ n \in Nat /\ DOMAIN ss = 1 .. n /\ DOMAIN tt = 1 .. n
        /\ \A i \in 1 .. n : ss[i] \in Seq(A) /\ tt[i] \in Seq(A)
    OBVIOUS
  <1>2. PICK f \in [0 .. n -> Seq(A)] :
          f[0] = <<>> /\ (\A i \in 1 .. n : f[i] = f[i - 1] \o ss[i]) /\ FlattenSeq(ss) = f[n]
    BY FlattenSteps
  <1>3. PICK g \in [0 .. n -> Seq(A)] :
          g[0] = <<>> /\ (\A i \in 1 .. n : g[i] = g[i - 1] \o tt[i]) /\ FlattenSeq(tt) = g[n]
    <2>1. \E g \in [0 .. Len(tt) -> Seq(A)] :
            g[0] = <<>> /\ (\A i \in 1 .. Len(tt) : g[i] = g[i - 1] \o tt[i]) /\ FlattenSeq(tt) = g[Len(tt)]
      BY FlattenSteps
    <2> QED BY <2>1
  <1> HIDE DEF n
  <1> DEFINE Like(x, y) == Len(x) = Len(y) /\ \A i \in 1 .. Len(x) : <<x[i], y[i]>> \in R
             G == {i \in 0 .. n : Like(f[i], g[i])}
  <1>4. 0 \in G
    BY <1>1, <1>2, <1>3
  <1>5. ASSUME NEW x \in Seq(A), NEW y \in Seq(A), NEW s \in Seq(A), NEW t \in Seq(A), Like(x, y), Like(s, t)
        PROVE  Like(x \o s, y \o t)
    <2>1. /\ Len(x \o s) = Len(x) + Len(s) /\ Len(y \o t) = Len(y) + Len(t)
          /\ Len(x) \in Nat /\ Len(s) \in Nat
          /\ \A i \in 1 .. Len(x) + Len(s) : (x \o s)[i] = IF i <= Len(x) THEN x[i] ELSE s[i - Len(x)]
          /\ \A i \in 1 .. Len(y) + Len(t) : (y \o t)[i] = IF i <= Len(y) THEN y[i] ELSE t[i - Len(y)]
      OBVIOUS
    <2>2. ASSUME NEW i \in 1 .. Len(x) + Len(s) PROVE <<(x \o s)[i], (y \o t)[i]>> \in R
      <3>1. CASE i <= Len(x)
        <4>1. (x \o s)[i] = x[i] /\ (y \o t)[i] = y[i] /\ i \in 1 .. Len(x)
          BY <1>5, <2>1, <3>1
        <4> QED BY <1>5, <4>1
      <3>2. CASE ~(i <= Len(x))
        <4>1. (x \o s)[i] = s[i - Len(x)] /\ (y \o t)[i] = t[i - Len(x)] /\ i - Len(x) \in 1 .. Len(s)
          BY <1>5, <2>1, <3>2
        <4> QED BY <1>5, <4>1
      <3> QED BY <3>1, <3>2
    <2> QED BY <1>5, <2>1, <2>2
  <1>6. ASSUME NEW i \in 1 .. n, i - 1 \in G PROVE i \in G
    <2>1. i - 1 \in 0 .. n /\ i \in 0 .. n
      BY <1>1
    <2>2. /\ f[i] = f[i - 1] \o ss[i] /\ f[i - 1] \in Seq(A) /\ ss[i] \in Seq(A)
          /\ g[i] = g[i - 1] \o tt[i] /\ g[i - 1] \in Seq(A) /\ tt[i] \in Seq(A)
      BY <1>1, <1>2, <1>3, <2>1
    <2>3. Like(f[i - 1], g[i - 1])
      BY <1>6
    <2>4. Like(ss[i], tt[i])
      <3> DEFINE s == ss[i]
                 t == tt[i]
      <3>1. Len(s) = Len(t) /\ \A h \in DOMAIN s : <<s[h], t[h]>> \in R
        BY <1>1
      <3>2. s \in Seq(A)
        BY <2>2
      <3> HIDE DEF s, t
      <3>3. DOMAIN s = 1 .. Len(s)
        BY <3>2
      <3>4. Like(s, t)
        BY <3>1, <3>3
      <3> QED BY <3>4 DEF s, t
    <2> HIDE DEF Like
    <2>5. Like(f[i], g[i])
      BY <1>5, <2>2, <2>3, <2>4
    <2> QED BY <2>1, <2>5
  <1>7. n \in G
    <2> HIDE DEF G
    <2>1. n \in Nat /\ n \in 0 .. n
      BY <1>1
    <2> QED BY <1>4, <1>6, <2>1, Steps
  <1>8. f[n] \in Seq(A) /\ Like(f[n], g[n])
    BY <1>1, <1>7
  <1>9. DOMAIN f[n] = 1 .. Len(f[n])
    BY <1>8
  <1> QED BY <1>2, <1>3, <1>8, <1>9

LEMMA RangeOfOne == Range(<<>>) = {} /\ \A x : Range(<<x>>) = {x}
  <1>1. Range(<<>>) = {}
    BY DEF Range
  <1>2. ASSUME NEW x PROVE Range(<<x>>) = {x}
    <2>1. DOMAIN <<x>> = {1} /\ <<x>>[1] = x
      OBVIOUS
    <2> QED BY <2>1 DEF Range
  <1> QED BY <1>1, <1>2

\* The elements kept are the ones in the set.
LEMMA KeepRange ==
  ASSUME NEW A, NEW s \in Seq(A), NEW S
  PROVE  Keep(s, S) \in Seq(A) /\ Range(Keep(s, S)) = Range(s) \cap S
  <1> DEFINE ss == [i \in DOMAIN s |-> IF s[i] \in S THEN <<s[i]>> ELSE <<>>]
  <1>1. s \in [1 .. Len(s) -> A] /\ Len(s) \in Nat /\ DOMAIN s = 1 .. Len(s)
    OBVIOUS
  <1>2. \A i \in DOMAIN s : ss[i] = (IF s[i] \in S THEN <<s[i]>> ELSE <<>>) /\ ss[i] \in Seq(A)
    BY <1>1
  <1>3. ss \in Seq(Seq(A)) /\ DOMAIN ss = DOMAIN s
    <2>1. ss \in [1 .. Len(s) -> Seq(A)]
      BY <1>1, <1>2
    <2> QED BY <1>1, <2>1
  <1>4. Keep(s, S) = FlattenSeq(ss)
    BY DEF Keep
  <1> HIDE DEF ss
  <1>5. FlattenSeq(ss) \in Seq(A) /\ Range(FlattenSeq(ss)) = UNION {Range(ss[i]) : i \in DOMAIN s}
    BY <1>3, FlattenRange
  <1>6. ASSUME NEW i \in DOMAIN s, NEW x PROVE x \in Range(ss[i]) <=> x = s[i] /\ x \in S
    BY <1>2, RangeOfOne
  <1>7. \A x : x \in UNION {Range(ss[i]) : i \in DOMAIN s} <=> \E i \in DOMAIN s : x = s[i] /\ x \in S
    BY <1>6
  <1>8. \A x : x \in Range(s) <=> \E i \in DOMAIN s : x = s[i]
    BY DEF Range
  <1>9. UNION {Range(ss[i]) : i \in DOMAIN s} = Range(s) \cap S
    BY <1>7, <1>8
  <1> QED BY <1>4, <1>5, <1>9

\* Sorting adds no device.
LEMMA SortedRange ==
  ASSUME NEW A, NEW s \in Seq(A)
  PROVE  Sorted(s) \in Seq(A) /\ Range(Sorted(s)) \subseteq Range(s)
  <1> DEFINE before(d) == {j \in DOMAIN s : Before(s[j], d)}
             At(i) == {d \in Range(s) : Cardinality(before(d)) = i - 1}
             ss == [i \in DOMAIN s |-> Keep(s, At(i))]
  <1>1. Sorted(s) = FlattenSeq(ss)
    BY DEF Sorted
  <1> HIDE DEF At
  <1>2. \A i \in DOMAIN s : Keep(s, At(i)) \in Seq(A) /\ Range(Keep(s, At(i))) \subseteq Range(s)
    BY KeepRange
  <1>3. ss \in Seq(Seq(A)) /\ DOMAIN ss = DOMAIN s
    <2>1. ss \in [1 .. Len(s) -> Seq(A)] /\ Len(s) \in Nat
      BY <1>2
    <2> QED BY <2>1
  <1>4. \A i \in DOMAIN s : Range(ss[i]) \subseteq Range(s)
    BY <1>2
  <1> HIDE DEF ss
  <1>5. FlattenSeq(ss) \in Seq(A) /\ Range(FlattenSeq(ss)) = UNION {Range(ss[i]) : i \in DOMAIN s}
    BY <1>3, FlattenRange
  <1> QED BY <1>1, <1>4, <1>5

----------------------------------------------------------------------------
(* Parameters                                                              *)

\* The values an override, or at 1 the base entry, has for a device.
Layer(src, d, labels, j) ==
  IF j = 1 THEN findMatchingEntry(src.entries, d)
  ELSE IF matchesNodeSelector(src.overrides[j - 1].nodeSelector, labels)
       THEN findMatchingEntry(src.overrides[j - 1].entries, d) ELSE NoValues

SetsValue(src, d, labels, j, v) ==
  Layer(src, d, labels, j) # NoValues /\ v \in DOMAIN Layer(src, d, labels, j)

\* A value is that of the strongest of the layers 1 .. n that sets it.
Strongest(src, d, labels, n, v, value) ==
  \E j \in 1 .. n : /\ SetsValue(src, d, labels, j, v)
                    /\ value = Layer(src, d, labels, j)[v]
                    /\ \A l \in 1 .. n : SetsValue(src, d, labels, l, v) => l <= j

\* One override more.
LEMMA MergeStep ==
  ASSUME NEW src, NEW d, NEW labels, NEW i \in Nat \ {0}, NEW merged,
         \A v \in DOMAIN merged : Strongest(src, d, labels, i, v, merged[v]),
         NEW v \in DOMAIN mergeOverride(merged, src.overrides[i], d, labels)
  PROVE  Strongest(src, d, labels, i + 1, v, mergeOverride(merged, src.overrides[i], d, labels)[v])
  <1> DEFINE values == findMatchingEntry(src.overrides[i].entries, d)
             applies == matchesNodeSelector(src.overrides[i].nodeSelector, labels)
             out == mergeOverride(merged, src.overrides[i], d, labels)
  <1>1. Layer(src, d, labels, i + 1) = IF applies THEN values ELSE NoValues
    BY DEF Layer
  <1>2. 1 .. i + 1 = (1 .. i) \cup {i + 1} /\ \A l \in 1 .. i + 1 : l <= i + 1
    OBVIOUS
  <1>3. CASE SetsValue(src, d, labels, i + 1, v)
    <2>1. applies /\ values # NoValues /\ v \in DOMAIN values
      BY <1>1, <1>3 DEF SetsValue
    <2>2. out = Over(values, merged)
      BY <2>1 DEF mergeOverride
    <2>3. out[v] = values[v]
      BY <2>1, <2>2 DEF Over
    <2> QED BY <1>1, <1>2, <1>3, <2>1, <2>3 DEF Strongest
  <1>4. CASE ~SetsValue(src, d, labels, i + 1, v)
    <2>1. v \in DOMAIN merged /\ out[v] = merged[v]
      <3>1. CASE applies /\ values # NoValues
        <4>1. out = Over(values, merged)
          BY <3>1 DEF mergeOverride
        <4>2. v \notin DOMAIN values
          BY <1>1, <1>4, <3>1 DEF SetsValue
        <4> QED BY <4>1, <4>2 DEF Over
      <3>2. CASE ~(applies /\ values # NoValues)
        BY <3>2 DEF mergeOverride
      <3> QED BY <3>1, <3>2
    <2>2. PICK j \in 1 .. i : /\ SetsValue(src, d, labels, j, v)
                              /\ merged[v] = Layer(src, d, labels, j)[v]
                              /\ \A l \in 1 .. i : SetsValue(src, d, labels, l, v) => l <= j
      BY <2>1 DEF Strongest
    <2>3. j \in 1 .. i + 1 /\ \A l \in 1 .. i + 1 : SetsValue(src, d, labels, l, v) => l <= j
      BY <1>2, <1>4, <2>2
    <2> QED BY <2>1, <2>2, <2>3 DEF Strongest
  <1> QED BY <1>3, <1>4

\* The loop over the overrides.
LEMMA MergedAll ==
  ASSUME NEW src, NEW d, NEW labels, Len(src.overrides) \in Nat,
         NEW base, base = findMatchingEntry(src.entries, d), base # NoValues,
         NEW merged, merged = CHOOSE h : h =
           [i \in 0 .. Len(src.overrides) |->
              IF i = 0 THEN base ELSE mergeOverride(h[i - 1], src.overrides[i], d, labels)],
         NEW v \in DOMAIN merged[Len(src.overrides)]
  PROVE  Strongest(src, d, labels, Len(src.overrides) + 1, v, merged[Len(src.overrides)][v])
  <1> DEFINE n == Len(src.overrides)
             Rec(h, m) == [i \in 0 .. m |->
               IF i = 0 THEN base ELSE mergeOverride(h[i - 1], src.overrides[i], d, labels)]
             E == {m \in 0 .. n : \E h : h = Rec(h, m)}
  <1>1. n \in Nat /\ n \in 0 .. n
    OBVIOUS
  <1> HIDE DEF n
  <1>2. 0 \in E
    <2> DEFINE h == [i \in 0 .. 0 |-> base]
    <2>1. h = Rec(h, 0)
      OBVIOUS
    <2>2. 0 \in 0 .. n
      BY <1>1
    <2> HIDE DEF h, Rec
    <2> QED BY <2>1, <2>2
  <1>3. ASSUME NEW m \in 1 .. n, m - 1 \in E PROVE m \in E
    <2>1. PICK h : h = Rec(h, m - 1)
      BY <1>3
    <2> DEFINE g == [i \in 0 .. m |->
                       IF i = m THEN mergeOverride(h[m - 1], src.overrides[m], d, labels) ELSE h[i]]
    <2>2. ASSUME NEW i \in 0 .. m
          PROVE  g[i] = IF i = 0 THEN base ELSE mergeOverride(g[i - 1], src.overrides[i], d, labels)
      <3>1. CASE i = 0
        <4>1. 0 \in 0 .. m - 1 /\ 0 # m
          BY <1>1
        <4> QED BY <2>1, <3>1, <4>1
      <3>2. CASE i # 0
        <4>1. i - 1 \in 0 .. m /\ i - 1 # m
          BY <1>1, <3>2
        <4>2. g[i - 1] = h[i - 1]
          BY <4>1
        <4>3. CASE i = m
          BY <3>2, <4>2, <4>3
        <4>4. CASE i # m
          <5>1. i \in 0 .. m - 1
            BY <1>1, <4>4
          <5>2. h[i] = mergeOverride(h[i - 1], src.overrides[i], d, labels)
            BY <2>1, <3>2, <5>1
          <5> QED BY <3>2, <4>2, <4>4, <5>2
        <4> QED BY <4>3, <4>4
      <3> QED BY <3>1, <3>2
    <2>3. g = Rec(g, m)
      BY <2>2
    <2>4. m \in 0 .. n
      BY <1>1
    <2> HIDE DEF g, Rec
    <2> QED BY <2>3, <2>4
  <1>4. n \in E
    <2> HIDE DEF E
    <2> QED BY <1>1, <1>2, <1>3, Steps
  <1>5. merged = Rec(merged, n)
    <2>1. merged = CHOOSE h : h = Rec(h, n)
      BY DEF n
    <2>2. \E h : h = Rec(h, n)
      BY <1>4
    <2> HIDE DEF Rec
    <2> QED BY <2>1, <2>2
  <1>6. ASSUME NEW i \in 0 .. n
        PROVE  merged[i] = IF i = 0 THEN base
                           ELSE mergeOverride(merged[i - 1], src.overrides[i], d, labels)
    <2>1. merged[i] = Rec(merged, n)[i]
      <3> HIDE DEF Rec
      <3> QED BY <1>5
    <2> QED BY <2>1
  <1> DEFINE G == {m \in 0 .. n : \A w \in DOMAIN merged[m] :
                                    Strongest(src, d, labels, m + 1, w, merged[m][w])}
  <1>7. 0 \in G
    <2>0. 0 \in 0 .. n
      BY <1>1
    <2>1. merged[0] = base
      BY <1>6, <2>0
    <2>2. Layer(src, d, labels, 1) = base /\ 0 + 1 = 1 /\ 1 .. 1 = {1}
      BY DEF Layer
    <2>3. ASSUME NEW w \in DOMAIN base PROVE Strongest(src, d, labels, 1, w, base[w])
      BY <2>2 DEF Strongest, SetsValue
    <2>4. \A w \in DOMAIN merged[0] : Strongest(src, d, labels, 0 + 1, w, merged[0][w])
      BY <2>1, <2>2, <2>3
    <2> QED BY <2>0, <2>4
  <1>8. ASSUME NEW m \in 1 .. n, m - 1 \in G PROVE m \in G
    <2>1. merged[m] = mergeOverride(merged[m - 1], src.overrides[m], d, labels)
      BY <1>1, <1>6
    <2>2. m \in Nat \ {0} /\ (m - 1) + 1 = m /\ m \in 0 .. n
      BY <1>1
    <2>3. \A w \in DOMAIN merged[m - 1] : Strongest(src, d, labels, m, w, merged[m - 1][w])
      BY <1>8, <2>2
    <2>4. \A w \in DOMAIN merged[m] : Strongest(src, d, labels, m + 1, w, merged[m][w])
      BY <2>1, <2>2, <2>3, MergeStep
    <2> QED BY <2>2, <2>4
  <1>9. n \in G
    <2> HIDE DEF G
    <2> QED BY <1>1, <1>7, <1>8, Steps
  <1> QED BY <1>9 DEF n

\* What ResolveForDevice returns.
LEMMA Resolved ==
  ASSUME NEW source \in DOMAIN ParamsFile, NEW d, NEW ordinal, NEW labels
  PROVE  LET src == ParamsFile[source]
             r   == ResolveForDevice(source, d, ordinal, labels)
         IN /\ r = Nil <=> Layer(src, d, labels, 1) = NoValues
            /\ r # Nil =>
                 /\ r["PairOrdinal"] = ordinal
                 /\ \A v \in DOMAIN r \ {"PairOrdinal", "NodeName", "SourceName"} :
                      Strongest(src, d, labels, Len(src.overrides) + 1, v, r[v])
  <1> DEFINE src  == ParamsFile[source]
             r    == ResolveForDevice(source, d, ordinal, labels)
             base == findMatchingEntry(src.entries, d)
             merged == CHOOSE h : h =
               [i \in 0 .. Len(src.overrides) |->
                  IF i = 0 THEN base ELSE mergeOverride(h[i - 1], src.overrides[i], d, labels)]
             own == [PairOrdinal |-> ordinal, NodeName |-> NodeName, SourceName |-> source]
             last == merged[Len(src.overrides)]
  <1>1. Len(src.overrides) \in Nat
    BY ParamsAssumption
  <1>2. Layer(src, d, labels, 1) = base
    BY DEF Layer
  <1>3. base = NoValues => r = Nil
    BY DEF ResolveForDevice
  <1>4. base # NoValues => r = Over(own, last)
    BY DEF ResolveForDevice, buildTemplateData
  <1>5. DOMAIN own = {"PairOrdinal", "NodeName", "SourceName"} /\ own["PairOrdinal"] = ordinal
    OBVIOUS
  <1>6. base # NoValues => \A v \in DOMAIN last :
          Strongest(src, d, labels, Len(src.overrides) + 1, v, last[v])
    <2> HIDE DEF src, base
    <2> QED BY <1>1, MergedAll DEF base
  <1> HIDE DEF src, base, merged, own, last, r
  <1>7. ASSUME base # NoValues
        PROVE  /\ r # Nil /\ r["PairOrdinal"] = ordinal
               /\ \A v \in DOMAIN r \ {"PairOrdinal", "NodeName", "SourceName"} :
                    Strongest(src, d, labels, Len(src.overrides) + 1, v, r[v])
    <2>1. DOMAIN r = DOMAIN own \cup DOMAIN last
      BY <1>4, <1>7 DEF Over
    <2>2. \A v \in DOMAIN own : r[v] = own[v]
      BY <1>4, <1>7 DEF Over
    <2>3. \A v \in DOMAIN last \ DOMAIN own : r[v] = last[v]
      BY <1>4, <1>7 DEF Over
    <2>4. DOMAIN Nil = {}
      BY DEF Nil
    <2>5. r # Nil
      BY <1>5, <2>1, <2>4
    <2>6. \A v \in DOMAIN r \ {"PairOrdinal", "NodeName", "SourceName"} :
            Strongest(src, d, labels, Len(src.overrides) + 1, v, r[v])
      BY <1>5, <1>6, <1>7, <2>1, <2>3
    <2> QED BY <1>5, <2>2, <2>5, <2>6
  <1> QED BY <1>2, <1>3, <1>7 DEF r, src

----------------------------------------------------------------------------
(* Combinations                                                            *)

\* A step of chooseCombinations: one more index for every prefix.
Extend(n, k, depth, prefixes) ==
  LET start(c) == IF c = <<>> THEN 1 ELSE Last(c) + 1
  IN FlattenSeq([p \in DOMAIN prefixes |->
       [i \in 1 .. (n - k + depth - start(prefixes[p]) + 1) |->
          Append(prefixes[p], start(prefixes[p]) + i - 1)]])

LEMMA ExtendType ==
  ASSUME NEW n \in Nat, NEW k \in 1 .. n, NEW depth \in 1 .. k, NEW A \in SUBSET Seq(1 .. n),
         NEW B, \A c \in A : \A i \in 1 .. n : Append(c, i) \in B, NEW prefixes \in Seq(A)
  PROVE  Extend(n, k, depth, prefixes) \in Seq(B)
  <1> DEFINE start(c) == IF c = <<>> THEN 1 ELSE Last(c) + 1
             more(p) == [i \in 1 .. (n - k + depth - start(prefixes[p]) + 1) |->
                           Append(prefixes[p], start(prefixes[p]) + i - 1)]
             ss == [p \in DOMAIN prefixes |-> more(p)]
  <1>1. ASSUME NEW p \in DOMAIN prefixes PROVE more(p) \in Seq(B)
    <2> DEFINE c == prefixes[p]
               s == start(c)
               m == n - k + depth - s + 1
    <2>1. c \in A /\ c \in Seq(1 .. n)
      OBVIOUS
    <2>2. s \in Nat /\ s >= 1
      <3>1. CASE c = <<>>
        BY <3>1
      <3>2. CASE c # <<>>
        <4>1. Len(c) \in 1 .. Len(c)
          BY <2>1, <3>2
        <4>2. c[Len(c)] \in 1 .. n
          BY <2>1, <4>1
        <4> QED BY <3>2, <4>2 DEF Last
      <3> QED BY <3>1, <3>2
    <2> HIDE DEF c, s
    <2>3. ASSUME NEW i \in 1 .. m PROVE Append(c, s + i - 1) \in B
      <3>1. s + i - 1 \in 1 .. n
        BY <2>2
      <3> QED BY <2>1, <3>1
    <2>4. m \in Int
      BY <2>2
    <2>5. [i \in 1 .. m |-> Append(c, s + i - 1)] \in Seq(B)
      <3> HIDE DEF m
      <3>1. CASE m >= 0
        BY <2>3, <2>4, <3>1, IsASeq
      <3>2. CASE ~ (m >= 0)
        <4>1. 1 .. m = {} /\ 1 .. 0 = {}
          BY <2>4, <3>2
        <4>2. [i \in 1 .. m |-> Append(c, s + i - 1)] = [i \in 1 .. 0 |-> Append(c, s + i - 1)]
          BY <4>1
        <4>3. [i \in 1 .. 0 |-> Append(c, s + i - 1)] \in Seq(B)
          BY <4>1, IsASeq
        <4> QED BY <4>2, <4>3
      <3> QED BY <3>1, <3>2
    <2> QED BY <2>5 DEF c, s
  <1>2. Extend(n, k, depth, prefixes) = FlattenSeq(ss)
    BY DEF Extend
  <1> HIDE DEF more
  <1>3. ss \in Seq(Seq(B))
    <2>1. Len(prefixes) \in Nat /\ DOMAIN prefixes = 1 .. Len(prefixes)
      OBVIOUS
    <2> QED BY <1>1, <2>1
  <1> HIDE DEF ss
  <1>4. FlattenSeq(ss) \in Seq(B)
    BY <1>3, FlattenRange
  <1> QED BY <1>2, <1>4

\* Sequences of k indices.
Indices(n, k) == {c \in Seq(1 .. n) : Len(c) = k}

\* chooseCombinations step by step.
LEMMA ChooseSteps ==
  ASSUME NEW n \in Nat, NEW k \in Nat, k \in 1 .. n
  PROVE  \E g : /\ g[0] = << <<>> >> /\ \A i \in 1 .. k : g[i] = Extend(n, k, i, g[i - 1])
                /\ chooseCombinations(n, k) = g[k]
  <1> DEFINE B == Seq(Seq(1 .. n))
             e == << <<>> >>
             step == [i \in 1 .. k |-> [x \in B |-> Extend(n, k, i, x)]]
             Rec(h) == [i \in 0 .. k |-> IF i = 0 THEN e ELSE Extend(n, k, i, h[i - 1])]
             generate == CHOOSE h : h = Rec(h)
  <1>1. k \in Nat /\ ~ (k > n \/ k <= 0)
    OBVIOUS
  <1>2. e \in B
    <2>1. <<>> \in Seq(1 .. n)
      OBVIOUS
    <2> QED BY <2>1
  <1> HIDE DEF B, e
  <1>3. ASSUME NEW i \in 1 .. k, NEW x \in B PROVE Extend(n, k, i, x) \in B
    <2>1. \A c \in Seq(1 .. n) : \A j \in 1 .. n : Append(c, j) \in Seq(1 .. n)
      OBVIOUS
    <2> QED BY <1>1, <2>1, ExtendType DEF B
  <1>4. step \in [1 .. k -> [B -> B]]
    BY <1>3
  <1>5. PICK f \in [0 .. k -> B] : f[0] = e /\ \A i \in 1 .. k : f[i] = step[i][f[i - 1]]
    <2> HIDE DEF step
    <2>1. k \in Nat
      BY <1>1
    <2> QED BY ONLY <1>2, <1>4, <2>1, Recursion
  <1>6. ASSUME NEW i \in 0 .. k PROVE f[i] = IF i = 0 THEN e ELSE Extend(n, k, i, f[i - 1])
    <2>1. CASE i = 0
      BY <1>5, <2>1
    <2>2. CASE i # 0
      <3>1. i \in 1 .. k /\ i - 1 \in 0 .. k
        BY <1>1, <2>2
      <3>2. f[i - 1] \in B
        BY <3>1
      <3> QED BY <1>5, <2>2, <3>1, <3>2
    <2> QED BY <2>1, <2>2
  <1>7. f = Rec(f)
    BY <1>6
  <1>8. generate = Rec(generate)
    <2> HIDE DEF Rec
    <2> QED BY <1>7
  <1>9. chooseCombinations(n, k) = generate[k]
    BY <1>1 DEF chooseCombinations, Extend, e
  <1> HIDE DEF generate
  <1>10. ASSUME NEW i \in 0 .. k
         PROVE  generate[i] = IF i = 0 THEN e ELSE Extend(n, k, i, generate[i - 1])
    <2>1. generate[i] = Rec(generate)[i]
      <3> HIDE DEF Rec
      <3> QED BY <1>8
    <2> QED BY <2>1
  <1>11. generate[0] = e /\ \A i \in 1 .. k : generate[i] = Extend(n, k, i, generate[i - 1])
    <2>1. 0 \in 0 .. k /\ \A i \in 1 .. k : i \in 0 .. k /\ i # 0
      BY <1>1
    <2> QED BY <1>10, <2>1
  <1> QED BY <1>9, <1>11 DEF e

\* The indices chosen are indices of devices.
LEMMA ChooseType ==
  ASSUME NEW n \in Nat, NEW k \in Int
  PROVE  chooseCombinations(n, k) \in Seq(Indices(n, k))
  <1>1. CASE k > n \/ k <= 0
    <2>1. chooseCombinations(n, k) = <<>>
      BY <1>1 DEF chooseCombinations
    <2> QED BY <2>1
  <1>2. CASE ~ (k > n \/ k <= 0)
    <2>1. k \in Nat /\ k \in 1 .. n
      BY <1>2
    <2>2. PICK g : /\ g[0] = << <<>> >> /\ \A i \in 1 .. k : g[i] = Extend(n, k, i, g[i - 1])
                   /\ chooseCombinations(n, k) = g[k]
      BY <2>1, ChooseSteps
    <2> DEFINE G == {i \in 0 .. k : g[i] \in Seq(Indices(n, i))}
    <2>3. 0 \in G
      <3>1. <<>> \in Indices(n, 0) /\ 0 \in 0 .. k
        BY <2>1 DEF Indices
      <3>2. << <<>> >> \in Seq(Indices(n, 0))
        BY <3>1
      <3> QED BY <2>2, <3>1, <3>2
    <2>4. ASSUME NEW i \in 1 .. k, i - 1 \in G PROVE i \in G
      <3>1. i \in 0 .. k /\ g[i] = Extend(n, k, i, g[i - 1])
        BY <2>1, <2>2
      <3>2. Indices(n, i - 1) \in SUBSET Seq(1 .. n)
        BY DEF Indices
      <3>3. \A c \in Indices(n, i - 1) : \A j \in 1 .. n : Append(c, j) \in Indices(n, i)
        BY <2>1 DEF Indices
      <3>4. g[i - 1] \in Seq(Indices(n, i - 1))
        BY <2>4
      <3>5. Extend(n, k, i, g[i - 1]) \in Seq(Indices(n, i))
        BY <2>1, <3>2, <3>3, <3>4, ExtendType
      <3> QED BY <3>1, <3>5
    <2>5. k \in G
      <3>1. k \in 0 .. k
        BY <2>1
      <3> HIDE DEF G
      <3> QED BY <2>1, <2>3, <2>4, <3>1, Steps
    <2> QED BY <2>2, <2>5
  <1> QED BY <1>1, <1>2

\* A selection: as many devices as len says for each of some sources.
Selection(D, available, len) ==
  {c \in [D -> UNION {Seq(Range(available[s])) : s \in D}] :
     \A s \in D : c[s] \in Seq(Range(available[s])) /\ Len(c[s]) = len[s]}

LEMMA OverType ==
  ASSUME NEW D, NEW available, NEW len, DOMAIN len = D, NEW c \in Selection(D, available, len),
         NEW src, NEW sel \in Seq(Range(available[src])),
         NEW count, count = [s \in {src} |-> Len(sel)]
  PROVE  Over([s \in {src} |-> sel], c)
           \in Selection(D \cup {src}, available, Over(count, len))
  <1> DEFINE o == Over([s \in {src} |-> sel], c)
             l == Over(count, len)
             V == UNION {Seq(Range(available[s])) : s \in D \cup {src}}
  <1>1. DOMAIN c = D /\ \A s \in D : c[s] \in Seq(Range(available[s])) /\ Len(c[s]) = len[s]
    BY DEF Selection
  <1>2. o = [s \in {src} \cup D |-> IF s \in {src} THEN sel ELSE c[s]]
    BY <1>1 DEF Over
  <1>3. l = [s \in {src} \cup D |-> IF s \in {src} THEN Len(sel) ELSE len[s]]
    BY DEF Over
  <1>4. \A s \in D \cup {src} : o[s] \in Seq(Range(available[s])) /\ Len(o[s]) = l[s]
    BY <1>1, <1>2, <1>3
  <1>5. o \in [D \cup {src} -> V]
    BY <1>2, <1>4
  <1>6. Selection(D \cup {src}, available, l)
          = {x \in [D \cup {src} -> V] :
               \A s \in D \cup {src} : x[s] \in Seq(Range(available[s])) /\ Len(x[s]) = l[s]}
    BY DEF Selection
  <1> HIDE DEF o, l, V
  <1>7. o \in Selection(D \cup {src}, available, l)
    BY <1>4, <1>5, <1>6
  <1> QED BY <1>7 DEF o, l

\* A step of generateCombinations: the selections of one more member.
Widen(available, member, subs) ==
  LET avail  == available[member.source]
      chosen == chooseCombinations(Len(avail), member.count)
      selected(x) == [y \in DOMAIN chosen[x] |-> avail[chosen[x][y]]]
  IN FlattenSeq([x \in DOMAIN chosen |->
       [z \in DOMAIN subs |-> Over([s \in {member.source} |-> selected(x)], subs[z])]])

LEMMA WidenType ==
  ASSUME NEW available, NEW member, member.count \in Int,
         available[member.source] \in Seq(Range(available[member.source])),
         NEW C, NEW subs \in Seq(C), NEW C2,
         \A c \in C : \A sel \in Seq(Range(available[member.source])) :
           Len(sel) = member.count => Over([s \in {member.source} |-> sel], c) \in C2
  PROVE  Widen(available, member, subs) \in Seq(C2)
  <1> DEFINE avail  == available[member.source]
             chosen == chooseCombinations(Len(avail), member.count)
             selected(x) == [y \in DOMAIN chosen[x] |-> avail[chosen[x][y]]]
             row(x) == [z \in DOMAIN subs |-> Over([s \in {member.source} |-> selected(x)], subs[z])]
             ss == [x \in DOMAIN chosen |-> row(x)]
  <1>1. Len(avail) \in Nat /\ DOMAIN avail = 1 .. Len(avail) /\ avail \in Seq(Range(avail))
    OBVIOUS
  <1>2. chosen \in Seq(Indices(Len(avail), member.count))
    BY <1>1, ChooseType
  <1>3. Widen(available, member, subs) = FlattenSeq(ss)
    BY DEF Widen
  <1> HIDE DEF chosen
  <1>4. ASSUME NEW x \in DOMAIN chosen
        PROVE  selected(x) \in Seq(Range(avail)) /\ Len(selected(x)) = member.count
    <2> DEFINE c == chosen[x]
    <2>1. c \in Indices(Len(avail), member.count)
      BY <1>2
    <2> HIDE DEF c
    <2>2. /\ Len(c) \in Nat /\ DOMAIN c = 1 .. Len(c) /\ \A y \in DOMAIN c : c[y] \in DOMAIN avail
          /\ Len(c) = member.count
      BY <1>1, <2>1 DEF Indices
    <2>3. \A y \in DOMAIN c : avail[c[y]] \in Range(avail)
      BY <2>2 DEF Range
    <2> HIDE DEF avail
    <2>4. [y \in DOMAIN c |-> avail[c[y]]] \in Seq(Range(avail))
      BY <2>2, <2>3
    <2>5. Len([y \in DOMAIN c |-> avail[c[y]]]) = member.count
      BY <2>2, <2>4
    <2> QED BY <2>4, <2>5 DEF c
  <1>5. ASSUME NEW x \in DOMAIN chosen PROVE row(x) \in Seq(C2)
    <2> DEFINE sel == selected(x)
    <2>1. sel \in Seq(Range(avail)) /\ Len(sel) = member.count
      BY <1>4
    <2> HIDE DEF sel
    <2>2. Len(subs) \in Nat /\ DOMAIN subs = 1 .. Len(subs) /\ \A z \in DOMAIN subs : subs[z] \in C
      OBVIOUS
    <2>3. \A z \in DOMAIN subs : Over([s \in {member.source} |-> sel], subs[z]) \in C2
      BY <2>1, <2>2
    <2>4. [z \in DOMAIN subs |-> Over([s \in {member.source} |-> sel], subs[z])] \in Seq(C2)
      BY <2>2, <2>3
    <2> QED BY <2>4 DEF sel
  <1> HIDE DEF row
  <1>6. ss \in Seq(Seq(C2))
    <2>1. Len(chosen) \in Nat /\ DOMAIN chosen = 1 .. Len(chosen)
      BY <1>2
    <2> QED BY <1>5, <2>1
  <1> HIDE DEF ss
  <1> QED BY <1>3, <1>6, FlattenRange

\* The counts of the sources: of members that share one, the first counts.
Firsts(members, from) ==
  [s \in {members[j].source : j \in from .. Len(members)} |->
     members[Min({j \in from .. Len(members) : members[j].source = s})].count]

LEMMA MinIs ==
  ASSUME NEW S, S \subseteq Int, NEW j \in S, \A l \in S : j <= l
  PROVE  Min(S) = j
  <1> DEFINE m == Min(S)
  <1>1. m \in S /\ \A y \in S : m =< y
    BY DEF Min
  <1> HIDE DEF m
  <1>2. m \in Int /\ j \in Int /\ m >= j /\ m <= j
    BY <1>1
  <1> QED BY <1>2 DEF m

LEMMA FirstsStep ==
  ASSUME NEW members, members \in Seq(Range(members)), NEW i \in 1 .. Len(members)
  PROVE  Firsts(members, i) = Over([s \in {members[i].source} |-> members[i].count], Firsts(members, i + 1))
  <1> DEFINE n == Len(members)
             src == members[i].source
             F(k) == {members[j].source : j \in k .. n}
             At(k, s) == {j \in k .. n : members[j].source = s}
             new == [s \in {src} |-> members[i].count]
  <1>1. n \in Nat /\ i .. n = ((i + 1) .. n) \cup {i}
    OBVIOUS
  <1>2. F(i) = {src} \cup F(i + 1)
    BY <1>1
  <1>3. Min(At(i, src)) = i
    <2>1. At(i, src) \subseteq Int /\ i \in At(i, src) /\ \A l \in At(i, src) : i <= l
      BY <1>1
    <2> HIDE DEF At
    <2> QED BY <2>1, MinIs
  <1>4. \A s : s # src => At(i, s) = At(i + 1, s)
    BY <1>1
  <1>5. /\ Firsts(members, i) = [s \in F(i) |-> members[Min(At(i, s))].count]
        /\ Firsts(members, i + 1) = [s \in F(i + 1) |-> members[Min(At(i + 1, s))].count]
    BY DEF Firsts
  <1> HIDE DEF F, At, n, src
  <1>6. Over(new, Firsts(members, i + 1))
          = [s \in {src} \cup F(i + 1) |-> IF s \in {src} THEN members[i].count
                                           ELSE members[Min(At(i + 1, s))].count]
    BY <1>5 DEF Over
  <1>7. \A s \in F(i) : members[Min(At(i, s))].count
          = IF s \in {src} THEN members[i].count ELSE members[Min(At(i + 1, s))].count
    BY <1>3, <1>4
  <1>8. Firsts(members, i) = Over(new, Firsts(members, i + 1))
    BY <1>2, <1>5, <1>6, <1>7
  <1> QED BY <1>8 DEF src

\* generateCombinations step by step, from the last member on.
LEMMA GenerateSteps ==
  ASSUME NEW members, NEW available, members \in Seq(Range(members)),
         \A j \in DOMAIN members : members[j].count \in Int,
         \A j \in DOMAIN members :
           available[members[j].source] \in Seq(Range(available[members[j].source]))
  PROVE  LET n == Len(members)
         IN \E g : /\ g[0] = << <<>> >>
                   /\ \A i \in 1 .. n : g[i] = Widen(available, members[n - i + 1], g[i - 1])
                   /\ generateCombinations(members, available) = g[n]
  <1> DEFINE n == Len(members)
             Srcs == {members[j].source : j \in DOMAIN members}
             Of(D) == UNION {Selection(D, available, len) : len \in [D -> Int]}
             Loose == UNION {Of(D) : D \in SUBSET Srcs}
             B == Seq(Loose)
             e == << <<>> >>
             step == [i \in 1 .. n |-> [x \in B |-> Widen(available, members[n - i + 1], x)]]
             Rec(h) == [i \in 0 .. n |->
                          IF i = 0 THEN e ELSE Widen(available, members[n - i + 1], h[i - 1])]
             combos == CHOOSE h : h = Rec(h)
  <1>1. n \in Nat /\ DOMAIN members = 1 .. n
    OBVIOUS
  <1>2. \A i \in 1 .. n : n - i + 1 \in 1 .. n
    BY <1>1
  <1>3. ASSUME NEW C, NEW C2, NEW i \in 1 .. n, NEW x \in Seq(C),
               \A c \in C : \A sel \in Seq(Range(available[members[n - i + 1].source])) :
                 Len(sel) = members[n - i + 1].count
                   => Over([s \in {members[n - i + 1].source} |-> sel], c) \in C2
        PROVE  Widen(available, members[n - i + 1], x) \in Seq(C2)
    <2> DEFINE m == members[n - i + 1]
    <2>1. m.count \in Int /\ available[m.source] \in Seq(Range(available[m.source]))
      BY <1>1, <1>2
    <2> HIDE DEF m
    <2>2. \A c \in C : \A sel \in Seq(Range(available[m.source])) :
            Len(sel) = m.count => Over([s \in {m.source} |-> sel], c) \in C2
      BY <1>3 DEF m
    <2>3. Widen(available, m, x) \in Seq(C2)
      BY <1>3, <2>1, <2>2, WidenType
    <2> QED BY <2>3 DEF m
  <1>4. \A len : << >> \in Selection({}, available, len)
    <2>1. << >> \in [{} -> UNION {Seq(Range(available[s])) : s \in {}}]
      OBVIOUS
    <2> QED BY <2>1 DEF Selection
  <1>0. \A c : c \in Loose <=> \E D \in SUBSET Srcs : \E len \in [D -> Int] : c \in Selection(D, available, len)
    <2>1. \A D : \A c : c \in Of(D) <=> \E len \in [D -> Int] : c \in Selection(D, available, len)
      OBVIOUS
    <2> HIDE DEF Of, Srcs
    <2>2. \A c : c \in Loose <=> \E D \in SUBSET Srcs : c \in Of(D)
      OBVIOUS
    <2> QED BY <2>1, <2>2
  <1> HIDE DEF Loose
  <1>5. e \in B
    <2>1. << >> \in Loose
      <3>1. [s \in {} |-> 0] \in [{} -> Int] /\ {} \in SUBSET Srcs
        OBVIOUS
      <3> HIDE DEF Srcs
      <3> QED BY <1>0, <1>4, <3>1
    <2> QED BY <2>1
  <1>6. ASSUME NEW i \in 1 .. n, NEW x \in B PROVE Widen(available, members[n - i + 1], x) \in B
    <2> DEFINE src == members[n - i + 1].source
               k == members[n - i + 1].count
    <2>0. src \in Srcs /\ k \in Int
      BY <1>1, <1>2
    <2>1. ASSUME NEW c \in Loose, NEW sel \in Seq(Range(available[src])), Len(sel) = k
          PROVE  Over([s \in {src} |-> sel], c) \in Loose
      <3>0. PICK D \in SUBSET Srcs : \E len \in [D -> Int] : c \in Selection(D, available, len)
        BY <1>0
      <3>1. PICK len \in [D -> Int] : c \in Selection(D, available, len)
        BY <3>0
      <3> DEFINE l == Over([s \in {src} |-> k], len)
      <3> HIDE DEF src, Srcs, k
      <3>2. Over([s \in {src} |-> sel], c) \in Selection(D \cup {src}, available, l)
        <4> DEFINE count == [s \in {src} |-> k]
        <4>1. DOMAIN len = D /\ sel \in Seq(Range(available[src])) /\ count = [s \in {src} |-> Len(sel)]
          BY <2>1, <3>1
        <4> HIDE DEF count
        <4>2. Over([s \in {src} |-> sel], c) \in Selection(D \cup {src}, available, Over(count, len))
          BY ONLY <3>1, <4>1, OverType
        <4> QED BY <4>2 DEF count
      <3>3. l \in [D \cup {src} -> Int]
        BY <2>0, <3>1 DEF Over
      <3>4. D \cup {src} \in SUBSET Srcs
        BY <2>0, <3>1
      <3> HIDE DEF l
      <3> QED BY <1>0, <3>2, <3>3, <3>4
    <2> QED BY <1>3, <2>1
  <1> HIDE DEF B, e
  <1>7. step \in [1 .. n -> [B -> B]]
    BY <1>6
  <1>8. PICK f \in [0 .. n -> B] : f[0] = e /\ \A i \in 1 .. n : f[i] = step[i][f[i - 1]]
    <2> HIDE DEF step, n
    <2>1. n \in Nat
      BY <1>1
    <2>2. e \in B
      BY <1>5
    <2> QED BY ONLY <1>7, <2>1, <2>2, Recursion
  <1>9. ASSUME NEW i \in 0 .. n
        PROVE  f[i] = IF i = 0 THEN e ELSE Widen(available, members[n - i + 1], f[i - 1])
    <2>1. CASE i = 0
      BY <1>8, <2>1
    <2>2. CASE i # 0
      <3>1. i \in 1 .. n /\ i - 1 \in 0 .. n
        BY <1>1, <2>2
      <3>2. f[i - 1] \in B
        BY <3>1
      <3> QED BY <1>8, <2>2, <3>1, <3>2
    <2> QED BY <2>1, <2>2
  <1>10. f = Rec(f)
    BY <1>9
  <1>11. combos = Rec(combos)
    <2> HIDE DEF Rec
    <2> QED BY <1>10
  <1>12. generateCombinations(members, available) = combos[n]
    BY DEF generateCombinations, Widen, e
  <1> HIDE DEF combos
  <1>13. ASSUME NEW i \in 0 .. n
         PROVE  combos[i] = IF i = 0 THEN e ELSE Widen(available, members[n - i + 1], combos[i - 1])
    <2>1. combos[i] = Rec(combos)[i]
      <3> HIDE DEF Rec
      <3> QED BY <1>11
    <2> QED BY <2>1
  <1>14. combos[0] = e /\ \A i \in 1 .. n : combos[i] = Widen(available, members[n - i + 1], combos[i - 1])
    <2>1. 0 \in 0 .. n /\ \A i \in 1 .. n : i \in 0 .. n /\ i # 0
      BY <1>1
    <2> QED BY <1>13, <2>1
  <1> QED BY <1>12, <1>14 DEF e

\* Every combination selects for each source what its first member counts.
LEMMA GenerateType ==
  ASSUME NEW members, NEW available, members \in Seq(Range(members)),
         \A j \in DOMAIN members : members[j].count \in Int,
         \A j \in DOMAIN members :
           available[members[j].source] \in Seq(Range(available[members[j].source]))
  PROVE  generateCombinations(members, available)
           \in Seq(Selection({members[j].source : j \in DOMAIN members}, available, Firsts(members, 1)))
  <1> DEFINE n == Len(members)
             Srcs == {members[j].source : j \in DOMAIN members}
             Rest(i) == {members[j].source : j \in (n - i + 1) .. n}
  <1>1. n \in Nat /\ DOMAIN members = 1 .. n
    OBVIOUS
  <1>2. \A i \in 1 .. n : n - i + 1 \in 1 .. n
    BY <1>1
  <1>3. ASSUME NEW C, NEW C2, NEW i \in 1 .. n, NEW x \in Seq(C),
               \A c \in C : \A sel \in Seq(Range(available[members[n - i + 1].source])) :
                 Len(sel) = members[n - i + 1].count
                   => Over([s \in {members[n - i + 1].source} |-> sel], c) \in C2
        PROVE  Widen(available, members[n - i + 1], x) \in Seq(C2)
    <2> DEFINE m == members[n - i + 1]
    <2>1. m.count \in Int /\ available[m.source] \in Seq(Range(available[m.source]))
      BY <1>1, <1>2
    <2> HIDE DEF m
    <2>2. \A c \in C : \A sel \in Seq(Range(available[m.source])) :
            Len(sel) = m.count => Over([s \in {m.source} |-> sel], c) \in C2
      BY <1>3 DEF m
    <2>3. Widen(available, m, x) \in Seq(C2)
      BY <1>3, <2>1, <2>2, WidenType
    <2> QED BY <2>3 DEF m
  <1>4. PICK combos : /\ combos[0] = << <<>> >>
                      /\ \A i \in 1 .. n : combos[i] = Widen(available, members[n - i + 1], combos[i - 1])
                      /\ generateCombinations(members, available) = combos[n]
    BY GenerateSteps
  <1>5. \A len : << <<>> >> \in Seq(Selection({}, available, len))
    <2>1. << >> \in [{} -> UNION {Seq(Range(available[s])) : s \in {}}]
      OBVIOUS
    <2>2. \A len : << >> \in Selection({}, available, len)
      BY <2>1 DEF Selection
    <2> QED BY <2>2
  <1> DEFINE lens(i) == Firsts(members, n - i + 1)
             G == {i \in 0 .. n : combos[i] \in Seq(Selection(Rest(i), available, lens(i)))}
  <1>14. 0 \in G
    <2>1. Rest(0) = {} /\ 0 \in 0 .. n
      BY <1>1
    <2> HIDE DEF Rest, lens
    <2> QED BY <1>4, <1>5, <2>1
  <1>15. ASSUME NEW i \in 1 .. n, i - 1 \in G PROVE i \in G
    <2> DEFINE src == members[n - i + 1].source
               k == members[n - i + 1].count
    <2>1. i \in 0 .. n /\ i # 0
      BY <1>1
    <2>2. combos[i] = Widen(available, members[n - i + 1], combos[i - 1])
      BY <1>4
    <2>3. combos[i - 1] \in Seq(Selection(Rest(i - 1), available, lens(i - 1)))
      BY <1>15
    <2>4. Rest(i) = Rest(i - 1) \cup {src}
      <3>1. (n - i + 1) .. n = ((n - (i - 1) + 1) .. n) \cup {n - i + 1}
        BY <1>1
      <3> QED BY <3>1
    <2>5. lens(i) = Over([s \in {src} |-> k], lens(i - 1))
      <3>1. n - i + 1 \in 1 .. Len(members) /\ (n - i + 1) + 1 = n - (i - 1) + 1
        BY <1>1, <1>2
      <3> QED BY <3>1, FirstsStep
    <2>6. DOMAIN lens(i - 1) = Rest(i - 1)
      BY DEF Firsts
    <2> HIDE DEF Rest, lens, src, k
    <2>7. ASSUME NEW c \in Selection(Rest(i - 1), available, lens(i - 1)),
                 NEW sel \in Seq(Range(available[src])), Len(sel) = k
          PROVE  Over([s \in {src} |-> sel], c) \in Selection(Rest(i), available, lens(i))
      <3>1. Over([s \in {src} |-> sel], c)
              \in Selection(Rest(i - 1) \cup {src}, available, Over([s \in {src} |-> k], lens(i - 1)))
        <4> DEFINE count == [s \in {src} |-> k]
        <4>1. /\ c \in Selection(Rest(i - 1), available, lens(i - 1)) /\ DOMAIN lens(i - 1) = Rest(i - 1)
              /\ sel \in Seq(Range(available[src])) /\ count = [s \in {src} |-> Len(sel)]
          BY <2>6, <2>7
        <4> HIDE DEF count
        <4>2. Over([s \in {src} |-> sel], c)
                \in Selection(Rest(i - 1) \cup {src}, available, Over(count, lens(i - 1)))
          BY ONLY <4>1, OverType
        <4> QED BY <4>2 DEF count
      <3> QED BY <2>4, <2>5, <3>1
    <2>8. combos[i] \in Seq(Selection(Rest(i), available, lens(i)))
      BY <1>3, <2>2, <2>3, <2>7 DEF src, k
    <2> QED BY <2>1, <2>8
  <1>16. n \in G
    <2> HIDE DEF G, n
    <2>1. n \in Nat /\ n \in 0 .. n
      BY <1>1
    <2> QED BY <1>14, <1>15, <2>1, Steps
  <1>17. Rest(n) = Srcs /\ lens(n) = Firsts(members, 1)
    <2>1. (n - n + 1) .. n = DOMAIN members /\ n - n + 1 = 1
      BY <1>1
    <2> QED BY <2>1
  <1> HIDE DEF Rest, Srcs, lens
  <1>18. combos[n] \in Seq(Selection(Srcs, available, Firsts(members, 1)))
    BY <1>16, <1>17
  <1> QED BY <1>4, <1>18 DEF Srcs

----------------------------------------------------------------------------
(* Composite devices                                                       *)

\* How many devices of each source a composite device of comp has.
Sizes(comp) ==
  IF comp.mode = "explicit" THEN [s \in MemberSources(comp) |-> lastCount(comp, s)]
                            ELSE Firsts(comp.members, 1)

\* The selections that a composition's devices are made of.
Combo(comp) ==
  {c \in [MemberSources(comp) -> Seq(Dev)] :
     \A s \in MemberSources(comp) : Len(c[s]) = Sizes(comp)[s]}

DevsOf(e) == {e.members[i].dev : i \in DOMAIN e.members}

LEMMA BuildRange ==
  ASSUME NEW comp, NEW C, NEW combos \in Seq(C)
  PROVE  Build(comp, combos) \in Seq({buildCompositeDevice(comp, c) : c \in C})
  <1> DEFINE A == {buildCompositeDevice(comp, c) : c \in C}
             s == [i \in DOMAIN combos |-> buildCompositeDevice(comp, combos[i])]
  <1>1. \A i \in DOMAIN combos : buildCompositeDevice(comp, combos[i]) \in A
    OBVIOUS
  <1>2. s \in Seq(A)
    <2> HIDE DEF A
    <2>1. Len(combos) \in Nat /\ DOMAIN combos = 1 .. Len(combos)
      OBVIOUS
    <2> QED BY <1>1, <2>1
  <1>3. Build(comp, combos) = Sorted(s)
    BY DEF Build
  <1> HIDE DEF s, A
  <1>4. Sorted(s) \in Seq(A)
    BY <1>2, SortedRange
  <1> QED BY <1>3, <1>4 DEF A

LEMMA SelectionCombo ==
  ASSUME NEW comp, comp.mode # "explicit", NEW available,
         \A s \in MemberSources(comp) : available[s] \in Seq(Dev),
         NEW c \in Selection(MemberSources(comp), available, Firsts(comp.members, 1))
  PROVE  c \in Combo(comp) /\ \A s \in MemberSources(comp) : Range(c[s]) \subseteq Range(available[s])
  <1>1. /\ c \in [MemberSources(comp) -> UNION {Seq(Range(available[s])) : s \in MemberSources(comp)}]
        /\ \A s \in MemberSources(comp) : c[s] \in Seq(Range(available[s])) /\ Len(c[s]) = Sizes(comp)[s]
    BY DEF Selection, Sizes
  <1>2. ASSUME NEW s \in MemberSources(comp)
        PROVE  c[s] \in Seq(Dev) /\ Range(c[s]) \subseteq Range(available[s])
    <2>1. Range(available[s]) \subseteq Dev
      BY DEF Range
    <2>2. c[s] \in Seq(Range(available[s]))
      BY <1>1
    <2>3. Range(c[s]) \subseteq Range(available[s])
      <3> DEFINE R == Range(available[s])
                 x == c[s]
      <3>1. x \in Seq(R)
        BY <2>2
      <3> HIDE DEF x, R
      <3>2. Range(x) \subseteq R
        BY <3>1 DEF Range
      <3> QED BY <3>2 DEF x, R
    <2> QED BY <2>1, <2>2, <2>3, SeqMonotonic
  <1>3. c \in [MemberSources(comp) -> Seq(Dev)]
    BY <1>1, <1>2
  <1> QED BY <1>1, <1>2, <1>3 DEF Combo

LEMMA FilteredType ==
  ASSUME NEW comp, NEW bySource, \A s \in MemberSources(comp) : bySource[s] \in Seq(Dev),
         NEW s \in MemberSources(comp)
  PROVE  filtered(comp, bySource)[s] \in Seq(Dev)
         /\ Range(filtered(comp, bySource)[s]) \subseteq Range(bySource[s])
  <1>1. filtered(comp, bySource)[s] = IF s \in DOMAIN comp.filters
                                      THEN applyFilter(bySource[s], comp.filters[s]) ELSE bySource[s]
    BY DEF filtered
  <1>2. bySource[s] \in Seq(Dev)
    OBVIOUS
  <1>3. applyFilter(bySource[s], comp.filters[s]) \in Seq(Dev)
        /\ Range(applyFilter(bySource[s], comp.filters[s])) \subseteq Range(bySource[s])
    <2> DEFINE M == {d \in Dev : Match(comp.filters[s], d)}
    <2>1. applyFilter(bySource[s], comp.filters[s])
            = IF comp.filters[s] = NoExpr THEN bySource[s] ELSE Keep(bySource[s], M)
      BY DEF applyFilter
    <2> HIDE DEF M
    <2>2. Keep(bySource[s], M) \in Seq(Dev) /\ Range(Keep(bySource[s], M)) = Range(bySource[s]) \cap M
      BY <1>2, KeepRange
    <2> QED BY <1>2, <2>1, <2>2
  <1> QED BY <1>1, <1>2, <1>3

\* Devices that share the value of an attribute.
Sharing(a, val) == {d \in Dev : HasText(d, a) /\ TextOf(d, a) = val}

LEMMA GroupType ==
  ASSUME NEW comp, NEW bySource, comp.members \in Seq(Range(comp.members)), NEW val,
         NEW s \in MemberSources(comp), bySource[s] \in Seq(Dev)
  PROVE  group(comp, bySource, val)[s] \in Seq(Dev)
         /\ Range(group(comp, bySource, val)[s]) \subseteq Sharing(comp.constraints[1].attribute, val)
  <1> DEFINE S == Sharing(comp.constraints[1].attribute, val)
             same == Keep(comp.members, {m \in Range(comp.members) : m.source = s})
             one == Keep(bySource[s], S)
             ss == [j \in DOMAIN same |-> one]
  <1>1. group(comp, bySource, val)[s] = FlattenSeq(ss)
    BY DEF group, Sharing
  <1>2. same \in Seq(Range(comp.members))
    BY KeepRange
  <1>3. one \in Seq(Dev) /\ Range(one) \subseteq S
    BY KeepRange
  <1> HIDE DEF same, one, S
  <1>4. ss \in Seq(Seq(Dev)) /\ DOMAIN ss = DOMAIN same /\ \A j \in DOMAIN ss : ss[j] = one
    <2>1. Len(same) \in Nat /\ DOMAIN same = 1 .. Len(same)
      BY <1>2
    <2> QED BY <1>3, <2>1
  <1> HIDE DEF ss
  <1>5. FlattenSeq(ss) \in Seq(Dev) /\ Range(FlattenSeq(ss)) = UNION {Range(ss[j]) : j \in DOMAIN ss}
    BY <1>4, FlattenRange
  <1>6. Range(FlattenSeq(ss)) \subseteq S
    BY <1>3, <1>4, <1>5
  <1> QED BY <1>1, <1>5, <1>6 DEF S

LEMMA SetToSeqType ==
  ASSUME NEW T, IsFiniteSet(T)
  PROVE  SetToSeq(T) \in Seq(T)
  <1> DEFINE n == Cardinality(T)
  <1>1. n \in Nat /\ ExistsBijection(1 .. n, T)
    BY FS_CardinalityType
  <1>2. \E f \in [1 .. n -> T] : IsInjective(f)
    BY <1>1 DEF ExistsBijection, Bijection, Injection
  <1>3. SetToSeq(T) \in [1 .. n -> T]
    BY <1>2 DEF SetToSeq
  <1> HIDE DEF n
  <1> QED BY <1>1, <1>3

LEMMA FiniteImage ==
  ASSUME NEW S, IsFiniteSet(S), NEW T, NEW f \in [S -> T], \A t \in T : \E x \in S : f[x] = t
  PROVE  IsFiniteSet(T)
  <1>1. f \in Surjection(S, T)
    BY DEF Surjection
  <1> QED BY <1>1, FS_Surjection

LEMMA SingleShape ==
  ASSUME NEW comp, TypedComposition(comp), comp.mode # "explicit", NEW bySource,
         \A s \in MemberSources(comp) : bySource[s] \in Seq(Dev)
  PROVE  pairSingleSource(comp, bySource) \in Seq({buildCompositeDevice(comp, c) : c \in Combo(comp)})
  <1> DEFINE C == Selection(MemberSources(comp), bySource, Firsts(comp.members, 1))
             combos == generateCombinations(comp.members, bySource)
  <1>1. combos \in Seq(C)
    <2>1. comp.members \in Seq(Range(comp.members)) /\ \A j \in DOMAIN comp.members : comp.members[j].count \in Int
      BY DEF TypedComposition
    <2>2. \A j \in DOMAIN comp.members :
            bySource[comp.members[j].source] \in Seq(Range(bySource[comp.members[j].source]))
      <3>1. \A x \in Seq(Dev) : x \in Seq(Range(x))
        BY SeqOfRange
      <3> QED BY <3>1 DEF MemberSources
    <2> QED BY <2>1, <2>2, GenerateType DEF MemberSources
  <1>2. pairSingleSource(comp, bySource) = Build(comp, combos)
    BY DEF pairSingleSource
  <1>3. C \subseteq Combo(comp)
    BY SelectionCombo
  <1> HIDE DEF combos, C
  <1>4. combos \in Seq(Combo(comp))
    BY <1>1, <1>3, SeqMonotonic
  <1> QED BY <1>2, <1>4, BuildRange

\* The selections of devices that share the first constraint's attribute.
Matching(comp) ==
  {c \in Combo(comp) : \E val : \A s \in MemberSources(comp) :
                         Range(c[s]) \subseteq Sharing(comp.constraints[1].attribute, val)}

LEMMA MatchShape ==
  ASSUME NEW comp, TypedComposition(comp), comp.mode # "explicit", NEW bySource,
         \A s \in MemberSources(comp) : bySource[s] \in Seq(Dev)
  PROVE  pairWithMatchAttribute(comp, bySource) \in Seq({buildCompositeDevice(comp, c) : c \in Matching(comp)})
  <1> DEFINE a == comp.constraints[1].attribute
             has == {d \in Dev : HasText(d, a)}
             vals == {TextOf(d, a) : d \in has}
             Of(v) == generateCombinations(comp.members, group(comp, bySource, v))
             T == {Of(v) : v \in vals}
             Sel(v) == Selection(MemberSources(comp), group(comp, bySource, v), Firsts(comp.members, 1))
             C == UNION {Sel(v) : v \in vals}
  <1>1. IsFiniteSet(T)
    <2>1. IsFiniteSet(has)
      <3>1. has \subseteq Dev
        OBVIOUS
      <3> QED BY <3>1, PairerAssumption, FS_Subset
    <2> DEFINE f == [d \in has |-> Of(TextOf(d, a))]
    <2>2. f \in [has -> T] /\ \A t \in T : \E d \in has : f[d] = t
      <3> HIDE DEF Of, has
      <3> QED OBVIOUS
    <2> HIDE DEF f, T, has
    <2> QED BY <2>1, <2>2, FiniteImage
  <1>2. ASSUME NEW v PROVE /\ Of(v) \in Seq(Sel(v))
                           /\ \A s \in MemberSources(comp) : /\ group(comp, bySource, v)[s] \in Seq(Dev)
                                                             /\ Range(group(comp, bySource, v)[s]) \subseteq Sharing(a, v)
    <2>1. comp.members \in Seq(Range(comp.members)) /\ \A j \in DOMAIN comp.members : comp.members[j].count \in Int
      BY DEF TypedComposition
    <2>2. \A s \in MemberSources(comp) : /\ group(comp, bySource, v)[s] \in Seq(Dev)
                                         /\ Range(group(comp, bySource, v)[s]) \subseteq Sharing(a, v)
      BY <2>1, GroupType
    <2> DEFINE g == group(comp, bySource, v)
    <2> HIDE DEF g
    <2>3. \A j \in DOMAIN comp.members : g[comp.members[j].source] \in Seq(Range(g[comp.members[j].source]))
      <3>1. \A x \in Seq(Dev) : x \in Seq(Range(x))
        BY SeqOfRange
      <3> QED BY <2>2, <3>1 DEF MemberSources, g
    <2>4. generateCombinations(comp.members, g)
            \in Seq(Selection(MemberSources(comp), g, Firsts(comp.members, 1)))
      BY <2>1, <2>3, GenerateType DEF MemberSources
    <2> QED BY <2>2, <2>4 DEF g
  <1> DEFINE combos == FlattenSeq(SetToSeq(T))
  <1>3. combos \in Seq(C)
    <2>1. ASSUME NEW t \in T PROVE t \in Seq(C)
      <3> HIDE DEF Of, Sel
      <3>1. PICK v \in vals : t = Of(v)
        OBVIOUS
      <3>2. t \in Seq(Sel(v)) /\ Sel(v) \subseteq C
        BY <1>2, <3>1
      <3> QED BY <3>2, SeqMonotonic
    <2> HIDE DEF T, C
    <2>2. SetToSeq(T) \in Seq(T)
      BY <1>1, SetToSeqType
    <2>3. SetToSeq(T) \in Seq(Seq(C))
      <3>1. T \subseteq Seq(C)
        BY <2>1
      <3> QED BY <2>2, <3>1, SeqMonotonic
    <2> QED BY <2>3, FlattenRange
  <1>4. pairWithMatchAttribute(comp, bySource) = Build(comp, combos)
    BY DEF pairWithMatchAttribute
  <1> HIDE DEF combos, Of
  <1>5. ASSUME NEW c \in C PROVE c \in Matching(comp)
    <2>1. PICK v \in vals : c \in Sel(v)
      <3> HIDE DEF Sel, vals
      <3> QED OBVIOUS
    <2>2. c \in Combo(comp) /\ \A s \in MemberSources(comp) : Range(c[s]) \subseteq Range(group(comp, bySource, v)[s])
      BY <1>2, <2>1, SelectionCombo
    <2> QED BY <1>2, <2>2 DEF Matching
  <1> HIDE DEF C
  <1>6. combos \in Seq(Matching(comp))
    <2>1. C \subseteq Matching(comp)
      BY <1>5
    <2> QED BY <1>3, <2>1, SeqMonotonic
  <1> QED BY <1>4, <1>6, BuildRange

\* A composite device is made of the devices selected, source by source.
LEMMA BuiltShape ==
  ASSUME NEW comp, comp.members \in Seq(Range(comp.members)), NEW c \in Combo(comp)
  PROVE  LET e == buildCompositeDevice(comp, c)
         IN /\ e = [comp |-> comp.name, members |-> e.members, name |-> joinedName(e.members),
                    numa |-> detectNUMANode(c), rail |-> 0]
            /\ e.members \in Seq([source : MemberSources(comp), dev : Dev])
            /\ \A i \in DOMAIN e.members : e.members[i].dev \in Range(c[e.members[i].source])
            /\ DevsOf(e) = UNION {Range(c[s]) : s \in MemberSources(comp)}
  <1> DEFINE e == buildCompositeDevice(comp, c)
             src(j) == comp.members[j].source
             row(s) == [i \in DOMAIN c[s] |-> [source |-> s, dev |-> c[s][i]]]
             ss == [j \in DOMAIN comp.members |-> row(src(j))]
             M == {m \in [source : MemberSources(comp), dev : Dev] : m.dev \in Range(c[m.source])}
  <1>1. /\ e = [comp |-> comp.name, members |-> FlattenSeq(ss), name |-> joinedName(FlattenSeq(ss)),
                numa |-> detectNUMANode(c), rail |-> 0]
        /\ e.members = FlattenSeq(ss)
    BY DEF buildCompositeDevice
  <1> HIDE DEF e
  <1>2. ASSUME NEW s \in MemberSources(comp)
        PROVE  row(s) \in Seq(M) /\ {m.dev : m \in Range(row(s))} = Range(c[s])
    <2> DEFINE x == c[s]
    <2>1. x \in Seq(Dev)
      BY DEF Combo
    <2>2. \A i \in DOMAIN x : [source |-> s, dev |-> x[i]] \in M
      BY <2>1 DEF Range
    <2>3. Len(x) \in Nat /\ DOMAIN x = 1 .. Len(x)
      BY <2>1
    <2> HIDE DEF x, M
    <2>4. [i \in DOMAIN x |-> [source |-> s, dev |-> x[i]]] \in Seq(M)
      BY <2>2, <2>3
    <2> DEFINE r(i) == [source |-> s, dev |-> x[i]]
    <2>5. \A i \in DOMAIN x : r(i).dev = x[i]
      OBVIOUS
    <2> HIDE DEF r
    <2>6. Range([i \in DOMAIN x |-> r(i)]) = {r(i) : i \in DOMAIN x}
      BY DEF Range
    <2>7. {m.dev : m \in {r(i) : i \in DOMAIN x}} = {x[i] : i \in DOMAIN x}
      BY <2>5
    <2>8. {m.dev : m \in Range([i \in DOMAIN x |-> r(i)])} = Range(x)
      BY <2>6, <2>7 DEF Range
    <2> QED BY <2>4, <2>8 DEF x, r
  <1> HIDE DEF row
  <1>3. Len(comp.members) \in Nat /\ DOMAIN comp.members = 1 .. Len(comp.members)
    OBVIOUS
  <1>4. \A j \in DOMAIN comp.members : src(j) \in MemberSources(comp)
    BY DEF MemberSources
  <1>5. \A s \in MemberSources(comp) : \E j \in DOMAIN comp.members : src(j) = s
    BY DEF MemberSources
  <1> HIDE DEF src
  <1>6. ss \in Seq(Seq(M)) /\ DOMAIN ss = DOMAIN comp.members /\ \A j \in DOMAIN ss : ss[j] = row(src(j))
    <2> HIDE DEF M
    <2>1. \A j \in DOMAIN comp.members : row(src(j)) \in Seq(M)
      BY <1>2, <1>4
    <2> QED BY <1>3, <2>1
  <1> HIDE DEF ss
  <1>7. e.members \in Seq(M) /\ Range(e.members) = UNION {Range(ss[j]) : j \in DOMAIN ss}
    <2> HIDE DEF M
    <2> QED BY <1>1, <1>6, FlattenRange
  <1>8. e.members \in Seq([source : MemberSources(comp), dev : Dev])
    <2>1. M \subseteq [source : MemberSources(comp), dev : Dev]
      OBVIOUS
    <2> HIDE DEF M
    <2> QED BY <1>7, <2>1, SeqMonotonic
  <1>9. ASSUME NEW i \in DOMAIN e.members PROVE e.members[i].dev \in Range(c[e.members[i].source])
    <2>1. e.members[i] \in M
      <3> HIDE DEF M
      <3> QED BY <1>7
    <2> QED BY <2>1
  <1>10. DevsOf(e) = UNION {Range(c[s]) : s \in MemberSources(comp)}
    <2>1. DevsOf(e) = {m.dev : m \in Range(e.members)}
      BY DEF DevsOf, Range
    <2>2. {m.dev : m \in Range(e.members)} = UNION {{m.dev : m \in Range(ss[j])} : j \in DOMAIN ss}
      BY <1>7
    <2>3. \A j \in DOMAIN ss : {m.dev : m \in Range(ss[j])} = Range(c[src(j)])
      BY <1>2, <1>4, <1>6
    <2>4. UNION {{m.dev : m \in Range(ss[j])} : j \in DOMAIN ss} = UNION {Range(c[src(j)]) : j \in DOMAIN ss}
      BY <2>3
    <2>5. UNION {Range(c[src(j)]) : j \in DOMAIN ss} = UNION {Range(c[s]) : s \in MemberSources(comp)}
      BY <1>4, <1>5, <1>6
    <2> QED BY <2>1, <2>2, <2>4, <2>5
  <1>11. e = [comp |-> comp.name, members |-> e.members, name |-> joinedName(e.members),
              numa |-> detectNUMANode(c), rail |-> 0]
    BY <1>1
  <1> QED BY <1>8, <1>9, <1>10, <1>11 DEF e

----------------------------------------------------------------------------
(* Explicit pairs                                                          *)

LEMMA MaxExists ==
  ASSUME NEW n \in Nat, NEW S, S \subseteq 1 .. n, S # {}
  PROVE  Max(S) \in S /\ \A y \in S : Max(S) >= y
  <1> DEFINE T == {n - j : j \in S}
  <1>1. T \in SUBSET Nat /\ T # {}
    <2>1. \A j \in S : n - j \in Nat /\ n - j \in T
      OBVIOUS
    <2> QED BY <2>1
  <1>2. PICK x \in T : \A y \in T : x <= y
    <2> HIDE DEF T
    <2> QED BY <1>1, LeastNumber
  <1>3. PICK j \in S : x = n - j
    OBVIOUS
  <1>4. \A y \in S : n - j <= n - y
    BY <1>2, <1>3
  <1>5. \A y \in S : j >= y
    <2>1. \A y \in S : y \in Int /\ j \in Int
      OBVIOUS
    <2> QED BY <1>4, <2>1
  <1> QED BY <1>5 DEF Max

\* The selections from the lists of the sources.
From(comp, bySource) ==
  {c \in Combo(comp) : \A s \in MemberSources(comp) : Range(c[s]) \subseteq Range(bySource[s])}

ExplicitDevice(comp, c, pair) ==
  [buildCompositeDevice(comp, c) EXCEPT !.numa = {pair.numa}, !.rail = pair.rail]

ExplicitDevices(comp, bySource, pairs) ==
  {ExplicitDevice(comp, c, pairs[j]) : c \in From(comp, bySource), j \in DOMAIN pairs}

Accumulators(comp, bySource, pairs) ==
  [consumed : [MemberSources(comp) -> SUBSET {DevName[d] : d \in Dev}],
   result   : Seq(ExplicitDevices(comp, bySource, pairs))]

ExplicitComposition(comp) ==
  /\ TypedComposition(comp) /\ comp.mode = "explicit"
  /\ \A j \in DOMAIN comp.members : comp.members[j].count >= 1

Matched(bySource, consumed, pair, s) == explicitMatches(pair, s, bySource[s], consumed)

Found(comp, bySource, consumed, pair) ==
  [s \in MemberSources(comp) |-> SubSeq(Matched(bySource, consumed, pair, s), 1, lastCount(comp, s))]

Suffices(comp, bySource, consumed, pair) ==
  \A j \in DOMAIN comp.members :
    /\ comp.members[j].source \in DOMAIN pair.selectors
    /\ Len(Matched(bySource, consumed, pair, comp.members[j].source)) >= comp.members[j].count

LEMMA LastCountIs ==
  ASSUME NEW comp, ExplicitComposition(comp), NEW s \in MemberSources(comp)
  PROVE  \E j \in DOMAIN comp.members : comp.members[j].source = s /\ lastCount(comp, s) = comp.members[j].count
  <1> DEFINE S == {j \in DOMAIN comp.members : comp.members[j].source = s}
             n == Len(comp.members)
  <1>1. n \in Nat /\ DOMAIN comp.members = 1 .. n
    BY DEF ExplicitComposition, TypedComposition
  <1>2. S # {} /\ S \subseteq 1 .. n
    BY <1>1 DEF MemberSources
  <1>3. Max(S) \in S
    <2> HIDE DEF S, n
    <2> QED BY <1>1, <1>2, MaxExists
  <1>4. lastCount(comp, s) = comp.members[Max(S)].count
    BY DEF lastCount
  <1> DEFINE m == Max(S)
  <1> HIDE DEF m
  <1>5. m \in DOMAIN comp.members /\ comp.members[m].source = s
    BY <1>3 DEF m
  <1> QED BY <1>4, <1>5 DEF m

\* What a pair finds is a selection of devices that match and were not
\* consumed.
LEMMA FoundType ==
  ASSUME NEW comp, ExplicitComposition(comp), NEW bySource,
         \A s \in MemberSources(comp) : bySource[s] \in Seq(Dev),
         NEW consumed, NEW pair, Suffices(comp, bySource, consumed, pair)
  PROVE  /\ Found(comp, bySource, consumed, pair) \in From(comp, bySource)
         /\ \A s \in MemberSources(comp) : \A d \in Range(Found(comp, bySource, consumed, pair)[s]) :
              DevName[d] \notin consumed[s] /\ Match(pair.selectors[s], d)
  <1> DEFINE F == Found(comp, bySource, consumed, pair)
  <1>1. ASSUME NEW s \in MemberSources(comp)
        PROVE  /\ F[s] \in Seq(Dev) /\ Len(F[s]) = lastCount(comp, s)
               /\ Range(F[s]) \subseteq Range(bySource[s])
               /\ \A d \in Range(F[s]) : DevName[d] \notin consumed[s] /\ Match(pair.selectors[s], d)
    <2> DEFINE K == {d \in Dev : DevName[d] \notin consumed[s] /\ Match(pair.selectors[s], d)}
               m == Matched(bySource, consumed, pair, s)
               k == lastCount(comp, s)
    <2>1. m = Keep(bySource[s], K)
      BY DEF Matched, explicitMatches
    <2>2. \A d \in K : DevName[d] \notin consumed[s] /\ Match(pair.selectors[s], d)
      OBVIOUS
    <2>3. F[s] = SubSeq(m, 1, k)
      BY DEF Found
    <2> HIDE DEF K, F
    <2>4. m \in Seq(Dev) /\ Range(m) = Range(bySource[s]) \cap K
      BY <2>1, KeepRange
    <2>5. PICK j \in DOMAIN comp.members : comp.members[j].source = s /\ k = comp.members[j].count
      BY LastCountIs
    <2>6. k \in Nat /\ k <= Len(m)
      <3>1. Len(m) >= comp.members[j].count
        BY <2>5 DEF Suffices
      <3>2. comp.members[j].count \in Int /\ comp.members[j].count >= 1
        BY DEF ExplicitComposition, TypedComposition
      <3>3. Len(m) \in Nat
        BY <2>4
      <3> HIDE DEF m, k
      <3> QED BY <2>5, <3>1, <3>2, <3>3
    <2> HIDE DEF m, k
    <2>7. SubSeq(m, 1, k) \in Seq(Dev) /\ Len(SubSeq(m, 1, k)) = k
          /\ \A i \in 1 .. k : SubSeq(m, 1, k)[i] = m[i]
      BY <2>4, <2>6
    <2>8. Range(SubSeq(m, 1, k)) \subseteq Range(m)
      <3> DEFINE q == SubSeq(m, 1, k)
      <3> HIDE DEF q
      <3>1. q \in Seq(Dev) /\ Len(q) = k /\ \A i \in 1 .. k : q[i] = m[i]
        BY <2>7 DEF q
      <3>2. DOMAIN q = 1 .. k /\ \A i \in 1 .. k : i \in DOMAIN m
        BY <2>4, <2>6, <3>1
      <3>3. Range(q) \subseteq Range(m)
        BY <3>1, <3>2 DEF Range
      <3> QED BY <3>3 DEF q
    <2> QED BY <2>2, <2>3, <2>4, <2>7, <2>8 DEF k
  <1>2. F = [s \in MemberSources(comp) |-> F[s]]
    BY DEF Found
  <1>3. Sizes(comp) = [s \in MemberSources(comp) |-> lastCount(comp, s)]
    BY DEF Sizes, ExplicitComposition
  <1> HIDE DEF F
  <1>4. F \in [MemberSources(comp) -> Seq(Dev)]
    BY <1>1, <1>2
  <1>5. F \in From(comp, bySource)
    BY <1>1, <1>3, <1>4 DEF Combo, From
  <1> QED BY <1>1, <1>5 DEF F

\* An explicit device has the members that were selected.
LEMMA ExplicitShape ==
  ASSUME NEW comp, TypedComposition(comp), NEW c \in Combo(comp), NEW pair
  PROVE  LET e == ExplicitDevice(comp, c, pair)
         IN /\ e.comp = comp.name /\ e.name = joinedName(e.members) /\ e.numa = {pair.numa}
            /\ e.rail = pair.rail /\ e.members = buildCompositeDevice(comp, c).members
  <1> DEFINE b == buildCompositeDevice(comp, c)
  <1>1. b = [comp |-> comp.name, members |-> b.members, name |-> joinedName(b.members),
             numa |-> detectNUMANode(c), rail |-> 0]
    BY BuiltShape DEF TypedComposition
  <1>2. ExplicitDevice(comp, c, pair) = [b EXCEPT !.numa = {pair.numa}, !.rail = pair.rail]
    BY DEF ExplicitDevice
  <1> HIDE DEF b
  <1>3. ASSUME NEW r, r = [b EXCEPT !.numa = {pair.numa}, !.rail = pair.rail]
        PROVE  /\ r.comp = comp.name /\ r.name = joinedName(r.members) /\ r.numa = {pair.numa}
               /\ r.rail = pair.rail /\ r.members = b.members
    <2> DEFINE m == b.members
               nm == joinedName(m)
               x == detectNUMANode(c)
    <2>1. b = [comp |-> comp.name, members |-> m, name |-> nm, numa |-> x, rail |-> 0]
      BY <1>1
    <2> HIDE DEF m, nm, x
    <2>2. r.comp = comp.name /\ r.members = m /\ r.name = nm /\ r.numa = {pair.numa} /\ r.rail = pair.rail
      BY <1>3, <2>1
    <2> QED BY <2>2 DEF m, nm
  <1> QED BY <1>2, <1>3 DEF b

\* The names of a composite device's members of one source.
NamesIn(e, s) == {DevName[e.members[i].dev] : i \in {k \in DOMAIN e.members : e.members[k].source = s}}

\* The devices so far have consumed their names, each its own.
Apart(comp, acc) ==
  \A s \in MemberSources(comp) : \A i \in DOMAIN acc.result :
    /\ NamesIn(acc.result[i], s) \subseteq acc.consumed[s]
    /\ \A j \in DOMAIN acc.result \ {i} : NamesIn(acc.result[i], s) \cap NamesIn(acc.result[j], s) = {}

LEMMA PairResult ==
  ASSUME NEW comp, NEW bySource, NEW acc, NEW pair
  PROVE  LET F == Found(comp, bySource, acc.consumed, pair)
         IN explicitPair(comp, bySource, acc, pair)
              = IF Suffices(comp, bySource, acc.consumed, pair)
                THEN [consumed |-> [s \in MemberSources(comp) |->
                                      acc.consumed[s] \cup {DevName[d] : d \in Range(F[s])}],
                      result   |-> Append(acc.result, ExplicitDevice(comp, F, pair))]
                ELSE acc
  BY DEF explicitPair, Found, Suffices, Matched, ExplicitDevice

LEMMA PairType ==
  ASSUME NEW comp, ExplicitComposition(comp), NEW bySource,
         \A s \in MemberSources(comp) : bySource[s] \in Seq(Dev),
         NEW pairs, NEW acc \in Accumulators(comp, bySource, pairs), NEW j \in DOMAIN pairs
  PROVE  explicitPair(comp, bySource, acc, pairs[j]) \in Accumulators(comp, bySource, pairs)
  <1> DEFINE F == Found(comp, bySource, acc.consumed, pairs[j])
             N == {DevName[d] : d \in Dev}
             R == ExplicitDevices(comp, bySource, pairs)
             new == ExplicitDevice(comp, F, pairs[j])
             more == [s \in MemberSources(comp) |-> acc.consumed[s] \cup {DevName[d] : d \in Range(F[s])}]
  <1>1. CASE ~ Suffices(comp, bySource, acc.consumed, pairs[j])
    BY <1>1, PairResult
  <1>2. CASE Suffices(comp, bySource, acc.consumed, pairs[j])
    <2>1. explicitPair(comp, bySource, acc, pairs[j]) = [consumed |-> more, result |-> Append(acc.result, new)]
      BY <1>2, PairResult
    <2>2. F \in From(comp, bySource)
      BY <1>2, FoundType
    <2>3. new \in R
      BY <2>2 DEF ExplicitDevices
    <2>4. acc.consumed \in [MemberSources(comp) -> SUBSET N] /\ acc.result \in Seq(R)
      BY DEF Accumulators
    <2>5. \A s \in MemberSources(comp) : Range(F[s]) \subseteq Dev
      <3> HIDE DEF F
      <3>1. \A s \in MemberSources(comp) : F[s] \in Seq(Dev)
        BY <2>2 DEF From, Combo
      <3> QED BY <3>1 DEF Range
    <2>6. more \in [MemberSources(comp) -> SUBSET N]
      <3> HIDE DEF F
      <3> QED BY <2>4, <2>5
    <2>7. Append(acc.result, new) \in Seq(R)
      <3> HIDE DEF R, new
      <3> QED BY <2>3, <2>4
    <2>8. Accumulators(comp, bySource, pairs) = [consumed : [MemberSources(comp) -> SUBSET N], result : Seq(R)]
      BY DEF Accumulators
    <2> HIDE DEF more, new, R, N
    <2> QED BY <2>1, <2>6, <2>7, <2>8
  <1> QED BY <1>1, <1>2

LEMMA PairApart ==
  ASSUME NEW comp, ExplicitComposition(comp), NEW bySource,
         \A s \in MemberSources(comp) : bySource[s] \in Seq(Dev),
         NEW pairs, NEW acc \in Accumulators(comp, bySource, pairs), Apart(comp, acc), NEW pair
  PROVE  Apart(comp, explicitPair(comp, bySource, acc, pair))
  <1> DEFINE F == Found(comp, bySource, acc.consumed, pair)
             R == ExplicitDevices(comp, bySource, pairs)
             new == ExplicitDevice(comp, F, pair)
             more == [s \in MemberSources(comp) |-> acc.consumed[s] \cup {DevName[d] : d \in Range(F[s])}]
             next == explicitPair(comp, bySource, acc, pair)
  <1>1. CASE ~ Suffices(comp, bySource, acc.consumed, pair)
    BY <1>1, PairResult
  <1>2. CASE Suffices(comp, bySource, acc.consumed, pair)
    <2>1. next = [consumed |-> more, result |-> Append(acc.result, new)]
      BY <1>2, PairResult
    <2>2. /\ F \in From(comp, bySource)
          /\ \A s \in MemberSources(comp) : \A d \in Range(F[s]) : DevName[d] \notin acc.consumed[s]
      BY <1>2, FoundType
    <2>3. F \in Combo(comp) /\ TypedComposition(comp) /\ comp.members \in Seq(Range(comp.members))
      BY <2>2 DEF From, ExplicitComposition, TypedComposition
    <2>4. \A i \in DOMAIN new.members : new.members[i].dev \in Range(F[new.members[i].source])
      <3> HIDE DEF F
      <3>1. new.members = buildCompositeDevice(comp, F).members
        BY <2>3, ExplicitShape
      <3>2. \A i \in DOMAIN buildCompositeDevice(comp, F).members :
              buildCompositeDevice(comp, F).members[i].dev
                \in Range(F[buildCompositeDevice(comp, F).members[i].source])
        BY <2>3, BuiltShape
      <3> HIDE DEF new
      <3> QED BY <3>1, <3>2
    <2> HIDE DEF new, F
    <2>5. \A s : NamesIn(new, s) \subseteq {DevName[d] : d \in Range(F[s])}
      BY <2>4 DEF NamesIn
    <2>6. ASSUME NEW s \in MemberSources(comp)
          PROVE  NamesIn(new, s) \subseteq more[s] /\ NamesIn(new, s) \cap acc.consumed[s] = {}
                 /\ acc.consumed[s] \subseteq more[s]
      BY <2>2, <2>5
    <2> DEFINE q == acc.result
               n == Len(q)
               r == Append(q, new)
    <2>7. q \in Seq(R)
      BY DEF Accumulators
    <2> HIDE DEF q, R
    <2>8. n \in Nat /\ DOMAIN q = 1 .. n /\ DOMAIN r = 1 .. n + 1 /\ r[n + 1] = new /\ \A i \in 1 .. n : r[i] = q[i]
      <3> DEFINE Every == R \cup {new}
      <3>1. q \in Seq(Every) /\ new \in Every
        BY <2>7, SeqMonotonic
      <3> HIDE DEF Every
      <3> QED BY <3>1
    <2> HIDE DEF more, r, n
    <2>9. next.result = r /\ next.consumed = more
      BY <2>1 DEF r, q
    <2> HIDE DEF next
    <2>10. ASSUME NEW s \in MemberSources(comp), NEW i \in 1 .. n
           PROVE  /\ NamesIn(q[i], s) \subseteq acc.consumed[s]
                  /\ \A j \in 1 .. n : j # i => NamesIn(q[i], s) \cap NamesIn(q[j], s) = {}
      BY <2>8 DEF Apart, q
    <2>11. ASSUME NEW s \in MemberSources(comp), NEW i \in 1 .. n + 1
           PROVE  /\ NamesIn(r[i], s) \subseteq more[s]
                  /\ \A j \in 1 .. n + 1 : j # i => NamesIn(r[i], s) \cap NamesIn(r[j], s) = {}
      <3>1. CASE i = n + 1
        <4>1. ASSUME NEW j \in 1 .. n + 1, j # i PROVE NamesIn(r[i], s) \cap NamesIn(r[j], s) = {}
          <5>1. j \in 1 .. n
            BY <2>8, <3>1, <4>1
          <5> QED BY <2>6, <2>8, <2>10, <3>1, <5>1
        <4> QED BY <2>6, <2>8, <3>1, <4>1
      <3>2. CASE i # n + 1
        <4>1. i \in 1 .. n
          BY <2>8, <3>2
        <4>2. ASSUME NEW j \in 1 .. n + 1, j # i PROVE NamesIn(r[i], s) \cap NamesIn(r[j], s) = {}
          <5>1. CASE j = n + 1
            BY <2>6, <2>8, <2>10, <4>1, <5>1
          <5>2. CASE j # n + 1
            <6>1. j \in 1 .. n
              BY <2>8, <5>2
            <6> QED BY <2>8, <2>10, <4>1, <4>2, <6>1
          <5> QED BY <5>1, <5>2
        <4> QED BY <2>6, <2>8, <2>10, <4>1, <4>2
      <3> QED BY <3>1, <3>2
    <2>12. Apart(comp, next)
      BY <2>8, <2>9, <2>11 DEF Apart
    <2> QED BY <2>12 DEF next
  <1> QED BY <1>1, <1>2

NoneYet(comp) == [consumed |-> [s \in MemberSources(comp) |-> {}], result |-> <<>>]

\* The explicit pairs are taken one after the other.
LEMMA ExplicitSteps ==
  ASSUME NEW comp, ExplicitComposition(comp), NEW bySource,
         \A s \in MemberSources(comp) : bySource[s] \in Seq(Dev),
         NEW pairs, pairs \in Seq(Range(pairs))
  PROVE  \E after :
           /\ after[0] = NoneYet(comp)
           /\ \A i \in 1 .. Len(pairs) : after[i] = explicitPair(comp, bySource, after[i - 1], pairs[i])
           /\ \A i \in 0 .. Len(pairs) : after[i] \in Accumulators(comp, bySource, pairs)
           /\ explicitPairs(comp, bySource, pairs) = after[Len(pairs)].result
  <1> DEFINE n == Len(pairs)
             A == Accumulators(comp, bySource, pairs)
             e == NoneYet(comp)
             step == [i \in 1 .. n |-> [x \in A |-> explicitPair(comp, bySource, x, pairs[i])]]
             Rec(h) == [i \in 0 .. n |-> IF i = 0 THEN e ELSE explicitPair(comp, bySource, h[i - 1], pairs[i])]
             after == CHOOSE h : h = Rec(h)
  <1>1. n \in Nat /\ DOMAIN pairs = 1 .. n
    OBVIOUS
  <1>2. e \in A
    BY DEF Accumulators, NoneYet
  <1>3. ASSUME NEW i \in 1 .. n, NEW x \in A PROVE explicitPair(comp, bySource, x, pairs[i]) \in A
    BY <1>1, PairType
  <1> HIDE DEF A, e
  <1>4. step \in [1 .. n -> [A -> A]]
    BY <1>3
  <1>5. PICK f \in [0 .. n -> A] : f[0] = e /\ \A i \in 1 .. n : f[i] = step[i][f[i - 1]]
    <2> HIDE DEF step, n
    <2>1. n \in Nat /\ e \in A
      BY <1>1, <1>2
    <2> QED BY ONLY <1>4, <2>1, Recursion
  <1>6. ASSUME NEW i \in 0 .. n
        PROVE  f[i] = IF i = 0 THEN e ELSE explicitPair(comp, bySource, f[i - 1], pairs[i])
    <2>1. CASE i = 0
      BY <1>5, <2>1
    <2>2. CASE i # 0
      <3>1. i \in 1 .. n /\ i - 1 \in 0 .. n
        BY <1>1, <2>2
      <3>2. f[i - 1] \in A
        BY <3>1
      <3> QED BY <1>5, <2>2, <3>1, <3>2
    <2> QED BY <2>1, <2>2
  <1>7. f = Rec(f)
    BY <1>6
  <1>8. after = Rec(after)
    <2> HIDE DEF Rec
    <2> QED BY <1>7
  <1>9. explicitPairs(comp, bySource, pairs) = after[n].result
    BY DEF explicitPairs, NoneYet
  <1> HIDE DEF after
  <1>10. ASSUME NEW i \in 0 .. n
         PROVE  after[i] = IF i = 0 THEN e ELSE explicitPair(comp, bySource, after[i - 1], pairs[i])
    <2>1. after[i] = Rec(after)[i]
      <3> HIDE DEF Rec
      <3> QED BY <1>8
    <2> QED BY <2>1
  <1> DEFINE G == {i \in 0 .. n : after[i] \in A}
  <1>11. 0 \in G
    BY <1>1, <1>2, <1>10
  <1>12. ASSUME NEW i \in 1 .. n PROVE after[i] = explicitPair(comp, bySource, after[i - 1], pairs[i])
    <2>1. i \in 0 .. n /\ i # 0
      BY <1>1
    <2> QED BY <1>10, <2>1
  <1>13. \A i \in 1 .. n : i - 1 \in G => i \in G
    BY <1>1, <1>3, <1>12
  <1>14. \A i \in 0 .. n : i \in G
    <2> HIDE DEF G, n
    <2> QED BY <1>1, <1>11, <1>13, Steps
  <1>15. after[0] = e
    BY <1>1, <1>10
  <1> HIDE DEF n
  <1>16. \A i \in 0 .. n : after[i] \in A
    BY <1>14
  <1> QED BY <1>9, <1>12, <1>15, <1>16 DEF n, A, e

\* The devices of explicit pairs: made of what the sources list, no name
\* used twice.
LEMMA PairsApart ==
  ASSUME NEW comp, ExplicitComposition(comp), NEW bySource,
         \A s \in MemberSources(comp) : bySource[s] \in Seq(Dev),
         NEW pairs, pairs \in Seq(Range(pairs))
  PROVE  LET result == explicitPairs(comp, bySource, pairs)
         IN /\ result \in Seq(ExplicitDevices(comp, bySource, pairs))
            /\ \A i, j \in DOMAIN result : i # j =>
                 \A s \in MemberSources(comp) : NamesIn(result[i], s) \cap NamesIn(result[j], s) = {}
  <1> DEFINE n == Len(pairs)
  <1>1. n \in Nat
    OBVIOUS
  <1>2. PICK after :
          /\ after[0] = NoneYet(comp)
          /\ \A i \in 1 .. n : after[i] = explicitPair(comp, bySource, after[i - 1], pairs[i])
          /\ \A i \in 0 .. n : after[i] \in Accumulators(comp, bySource, pairs)
          /\ explicitPairs(comp, bySource, pairs) = after[n].result
    <2>1. /\ ExplicitComposition(comp) /\ pairs \in Seq(Range(pairs))
          /\ \A s \in MemberSources(comp) : bySource[s] \in Seq(Dev)
      OBVIOUS
    <2> QED BY ONLY <2>1, ExplicitSteps, SMTT(30)
  <1> DEFINE G == {i \in 0 .. n : Apart(comp, after[i])}
  <1>3. 0 \in G
    BY <1>1, <1>2 DEF Apart, NoneYet
  <1>4. ASSUME NEW i \in 1 .. n, i - 1 \in G PROVE i \in G
    <2>1. i \in 0 .. n /\ i - 1 \in 0 .. n
      BY <1>1
    <2>2. after[i - 1] \in Accumulators(comp, bySource, pairs) /\ Apart(comp, after[i - 1])
      BY <1>2, <1>4, <2>1
    <2>3. Apart(comp, after[i])
      BY <1>2, <2>2, PairApart
    <2> QED BY <2>1, <2>3
  <1>5. \A i \in 0 .. n : i \in G
    <2> HIDE DEF G, n
    <2> QED BY <1>1, <1>3, <1>4, Steps
  <1>6. n \in 0 .. n
    BY <1>1
  <1>7. after[n] \in Accumulators(comp, bySource, pairs) /\ Apart(comp, after[n])
    BY <1>2, <1>5, <1>6
  <1> DEFINE result == after[n].result
  <1>8. result \in Seq(ExplicitDevices(comp, bySource, pairs))
    BY <1>7 DEF Accumulators
  <1>9. \A i, j \in DOMAIN result : i # j =>
          \A s \in MemberSources(comp) : NamesIn(result[i], s) \cap NamesIn(result[j], s) = {}
    BY <1>7 DEF Apart
  <1> HIDE DEF n
  <1> QED BY <1>2, <1>8, <1>9

----------------------------------------------------------------------------
(* All devices                                                             *)

PairedComposition(comp) ==
  TypedComposition(comp) /\ \A j \in DOMAIN comp.members : comp.members[j].count >= 1

\* What a composite device is: the members of a selection of its
\* composition's, by their name, with the NUMA nodes of the members or of
\* the pair; a selection by attribute shares a value of it.
Genuine(comp, e) ==
  /\ e.comp = comp.name /\ e.name = joinedName(e.members)
  /\ "numa" \in DOMAIN e /\ e.numa # {} /\ e.numa \subseteq Int
  /\ \E c \in Combo(comp) :
       /\ e.members = buildCompositeDevice(comp, c).members
       /\ comp.mode # "explicit" =>
            e.numa = detectNUMANode(c) /\ (comp.constraints # <<>> => c \in Matching(comp))

LEMMA NumaType ==
  ASSUME NEW comp, NEW c \in Combo(comp)
  PROVE  detectNUMANode(c) # {} /\ detectNUMANode(c) \subseteq Int
  <1> DEFINE devs  == UNION {Range(c[s]) : s \in DOMAIN c}
             found == numaNodes(devs)
  <1>1. detectNUMANode(c) = IF found = {} THEN {-1} ELSE found
    BY DEF detectNUMANode
  <1>2. devs \subseteq Dev
    <2>1. \A s \in DOMAIN c : c[s] \in Seq(Dev)
      BY DEF Combo
    <2>2. \A s \in DOMAIN c : Range(c[s]) \subseteq Dev
      BY <2>1 DEF Range
    <2> QED BY <2>2
  <1>3. found \subseteq Int
    <2> HIDE DEF devs
    <2>1. \A d \in devs : \A a \in numaKeys(d) : Attr[d][a].num \in Int
      BY <1>2, PairerAssumption
    <2>2. ASSUME NEW x \in found PROVE x \in Int
      <3> DEFINE nums(d) == {Attr[d][a].num : a \in numaKeys(d)}
      <3>1. \A d \in devs : nums(d) \subseteq Int
        BY <2>1
      <3>2. found = UNION {nums(d) : d \in devs}
        BY DEF numaNodes
      <3> HIDE DEF nums, found
      <3> QED BY <2>2, <3>1, <3>2
    <2> QED BY <2>2
  <1> HIDE DEF found
  <1> QED BY <1>1, <1>3

LEMMA BuiltGenuine ==
  ASSUME NEW comp, TypedComposition(comp), comp.mode # "explicit", NEW c \in Combo(comp),
         comp.constraints # <<>> => c \in Matching(comp)
  PROVE  Genuine(comp, buildCompositeDevice(comp, c))
  <1> DEFINE e == buildCompositeDevice(comp, c)
             m == e.members
             nm == joinedName(m)
             x == detectNUMANode(c)
  <1>1. e = [comp |-> comp.name, members |-> m, name |-> nm, numa |-> x, rail |-> 0]
    BY BuiltShape DEF TypedComposition
  <1>2. x # {} /\ x \subseteq Int
    BY NumaType
  <1> HIDE DEF m, nm, x
  <1>3. e.comp = comp.name /\ e.name = nm /\ e.numa = x /\ "numa" \in DOMAIN e
    BY <1>1
  <1> QED BY <1>2, <1>3 DEF Genuine, m, nm, x

LEMMA ExplicitGenuine ==
  ASSUME NEW comp, TypedComposition(comp), comp.mode = "explicit", NEW c \in Combo(comp),
         NEW pair, pair.numa \in Int
  PROVE  Genuine(comp, ExplicitDevice(comp, c, pair))
  <1> DEFINE e == ExplicitDevice(comp, c, pair)
             b == buildCompositeDevice(comp, c)
  <1>1. /\ e.comp = comp.name /\ e.name = joinedName(e.members) /\ e.numa = {pair.numa}
        /\ e.members = b.members
    BY ExplicitShape
  <1>2. DOMAIN e = DOMAIN b /\ "numa" \in DOMAIN b
    <2>1. e = [b EXCEPT !.numa = {pair.numa}, !.rail = pair.rail]
      BY DEF ExplicitDevice
    <2>2. "numa" \in DOMAIN b
      BY DEF buildCompositeDevice
    <2> HIDE DEF b
    <2> QED BY <2>1, <2>2
  <1> HIDE DEF e
  <1> QED BY <1>1, <1>2 DEF Genuine, e

LEMMA PoolsOf ==
  ASSUME NEW comp, TypedComposition(comp), NEW labels, poolsOf(comp, labels) # <<>>
  PROVE  poolsOf(comp, labels)[1] \in Range(comp.pools)
  <1> DEFINE P == {p \in Range(comp.pools) : p.label = LabelValue(labels, comp.labelKey)}
             q == Keep(comp.pools, P)
  <1>1. comp.pools \in Seq(Range(comp.pools))
    BY DEF TypedComposition
  <1>2. q \in Seq(Range(comp.pools))
    <2> HIDE DEF P
    <2> QED BY <1>1, KeepRange
  <1>3. poolsOf(comp, labels) = q
    BY DEF poolsOf
  <1> HIDE DEF q
  <1>4. q # <<>>
    BY <1>3
  <1>5. 1 \in DOMAIN q
    BY <1>2, <1>4
  <1>6. q[1] \in Range(comp.pools)
    BY <1>2, <1>5
  <1> QED BY <1>3, <1>6

\* What pairWithExplicit returns.
LEMMA ExplicitResult ==
  ASSUME NEW comp, ExplicitComposition(comp), NEW bySource,
         \A s \in MemberSources(comp) : bySource[s] \in Seq(Dev), NEW labels
  PROVE  LET r == pairWithExplicit(comp, bySource, labels)
         IN \/ r = <<>>
            \/ \E pool \in Range(comp.pools) :
                 /\ r \in Seq(ExplicitDevices(comp, bySource, pool.pairs))
                 /\ Range(r) \subseteq Range(explicitPairs(comp, bySource, pool.pairs))
  <1> DEFINE r == pairWithExplicit(comp, bySource, labels)
             pool == poolsOf(comp, labels)[1]
             given == explicitPairs(comp, bySource, pool.pairs)
  <1>1. CASE poolsOf(comp, labels) = <<>>
    BY <1>1 DEF pairWithExplicit
  <1>2. CASE poolsOf(comp, labels) # <<>>
    <2>1. TypedComposition(comp)
      BY DEF ExplicitComposition
    <2>2. pool \in Range(comp.pools)
      BY <1>2, <2>1, PoolsOf
    <2>3. r = Sorted(given)
      BY <1>2 DEF pairWithExplicit
    <2> HIDE DEF r, pool
    <2>4. pool.pairs \in Seq(Range(pool.pairs))
      BY <2>1, <2>2 DEF TypedComposition
    <2>5. given \in Seq(ExplicitDevices(comp, bySource, pool.pairs))
      BY <2>4, PairsApart
    <2> HIDE DEF given
    <2>6. /\ Sorted(given) \in Seq(ExplicitDevices(comp, bySource, pool.pairs))
          /\ Range(Sorted(given)) \subseteq Range(given)
      BY <2>5, SortedRange
    <2>7. \/ r = <<>>
          \/ /\ r \in Seq(ExplicitDevices(comp, bySource, pool.pairs))
             /\ Range(r) \subseteq Range(explicitPairs(comp, bySource, pool.pairs))
      BY <2>3, <2>6 DEF given
    <2> QED BY <2>2, <2>7 DEF r
  <1> QED BY <1>1, <1>2

LEMMA SeqIn ==
  ASSUME NEW A, NEW r \in Seq(A)
  PROVE  r \in Seq(Range(r)) /\ \A e \in Range(r) : e \in A
  <1>1. r \in Seq(Range(r))
    BY SeqOfRange
  <1> QED BY <1>1 DEF Range

\* Every pairing function makes devices of its composition.
LEMMA Computed ==
  ASSUME NEW comp, PairedComposition(comp), NEW bySource,
         \A s \in MemberSources(comp) : bySource[s] \in Seq(Dev), NEW labels
  PROVE  LET r == computeForComposition(comp, bySource, labels)
         IN r \in Seq(Range(r)) /\ \A e \in Range(r) : Genuine(comp, e)
  <1> DEFINE r == computeForComposition(comp, bySource, labels)
             devices == filtered(comp, bySource)
  <1>1. \A s \in MemberSources(comp) : devices[s] \in Seq(Dev)
    BY FilteredType
  <1>2. TypedComposition(comp)
    BY DEF PairedComposition
  <1>3. CASE comp.mode = "explicit"
    <2>1. r = pairWithExplicit(comp, devices, labels)
      BY <1>3 DEF computeForComposition
    <2>2. ExplicitComposition(comp)
      BY <1>3 DEF PairedComposition, ExplicitComposition
    <2> HIDE DEF r, devices
    <2>3. ASSUME r = <<>> PROVE r \in Seq(Range(r)) /\ \A e \in Range(r) : Genuine(comp, e)
      <3>1. Range(r) = {}
        BY <2>3, RangeOfOne
      <3>2. <<>> \in Seq({})
        OBVIOUS
      <3> QED BY <2>3, <3>1, <3>2
    <2>4. ASSUME NEW pool \in Range(comp.pools), r \in Seq(ExplicitDevices(comp, devices, pool.pairs))
          PROVE  r \in Seq(Range(r)) /\ \A e \in Range(r) : Genuine(comp, e)
      <3>1. ASSUME NEW e \in ExplicitDevices(comp, devices, pool.pairs) PROVE Genuine(comp, e)
        <4>1. PICK c \in From(comp, devices), j \in DOMAIN pool.pairs : e = ExplicitDevice(comp, c, pool.pairs[j])
          BY DEF ExplicitDevices
        <4>2. c \in Combo(comp)
          BY DEF From
        <4>3. pool.pairs[j].numa \in Int
          BY <1>2 DEF TypedComposition, Range
        <4> QED BY <1>2, <1>3, <4>1, <4>2, <4>3, ExplicitGenuine
      <3> QED BY <2>4, <3>1, SeqIn
    <2>5. \/ r = <<>> \/ \E pool \in Range(comp.pools) : r \in Seq(ExplicitDevices(comp, devices, pool.pairs))
      BY <1>1, <2>1, <2>2, ExplicitResult
    <2> QED BY <2>3, <2>4, <2>5 DEF r
  <1>4. CASE comp.mode # "explicit" /\ comp.constraints = <<>>
    <2> DEFINE A == {buildCompositeDevice(comp, c) : c \in Combo(comp)}
    <2>1. r = pairSingleSource(comp, devices)
      BY <1>4 DEF computeForComposition
    <2> HIDE DEF r, devices
    <2>2. r \in Seq(A)
      BY <1>1, <1>2, <1>4, <2>1, SingleShape
    <2>3. \A e \in A : Genuine(comp, e)
      BY <1>2, <1>4, BuiltGenuine
    <2> HIDE DEF A
    <2> QED BY <2>2, <2>3, SeqIn DEF r
  <1>5. CASE comp.mode # "explicit" /\ comp.constraints # <<>>
    <2> DEFINE A == {buildCompositeDevice(comp, c) : c \in Matching(comp)}
    <2>1. r = pairWithMatchAttribute(comp, devices)
      BY <1>5 DEF computeForComposition
    <2> HIDE DEF r, devices
    <2>2. r \in Seq(A)
      BY <1>1, <1>2, <1>5, <2>1, MatchShape
    <2>3. \A e \in A : Genuine(comp, e)
      BY <1>2, <1>5, BuiltGenuine DEF Matching
    <2> HIDE DEF A
    <2> QED BY <2>2, <2>3, SeqIn DEF r
  <1> QED BY <1>3, <1>4, <1>5

\* Explicit pairs never share a device, if the sources do not.
LEMMA ExplicitDisjoint ==
  ASSUME NEW comp, ExplicitComposition(comp), NEW bySource,
         \A s \in MemberSources(comp) : bySource[s] \in Seq(Dev),
         \A s, t \in MemberSources(comp) : s # t => Range(bySource[s]) \cap Range(bySource[t]) = {},
         NEW labels, NEW e \in Range(pairWithExplicit(comp, bySource, labels)),
         NEW f \in Range(pairWithExplicit(comp, bySource, labels)), e # f
  PROVE  DevsOf(e) \cap DevsOf(f) = {}
  <1> DEFINE r == pairWithExplicit(comp, bySource, labels)
  <1>1. r # <<>>
    BY RangeOfOne
  <1>2. PICK pool \in Range(comp.pools) :
          /\ r \in Seq(ExplicitDevices(comp, bySource, pool.pairs))
          /\ Range(r) \subseteq Range(explicitPairs(comp, bySource, pool.pairs))
    BY <1>1, ExplicitResult
  <1> DEFINE given == explicitPairs(comp, bySource, pool.pairs)
  <1>3. \A i, j \in DOMAIN given : i # j =>
          \A s \in MemberSources(comp) : NamesIn(given[i], s) \cap NamesIn(given[j], s) = {}
    <2>1. pool.pairs \in Seq(Range(pool.pairs))
      BY DEF ExplicitComposition, TypedComposition
    <2> QED BY <2>1, PairsApart
  <1>4. ASSUME NEW x \in Range(r), NEW a \in DOMAIN x.members
        PROVE  /\ x.members[a].source \in MemberSources(comp)
               /\ x.members[a].dev \in Range(bySource[x.members[a].source])
    <2>1. x \in ExplicitDevices(comp, bySource, pool.pairs)
      BY <1>2, SeqIn
    <2>2. PICK c \in From(comp, bySource), j \in DOMAIN pool.pairs : x = ExplicitDevice(comp, c, pool.pairs[j])
      BY <2>1 DEF ExplicitDevices
    <2>3. c \in Combo(comp) /\ TypedComposition(comp) /\ comp.members \in Seq(Range(comp.members))
      BY DEF From, ExplicitComposition, TypedComposition
    <2> DEFINE b == buildCompositeDevice(comp, c)
    <2>4. x.members = b.members
      BY <2>2, <2>3, ExplicitShape
    <2>5. /\ b.members \in Seq([source : MemberSources(comp), dev : Dev])
          /\ \A i \in DOMAIN b.members : b.members[i].dev \in Range(c[b.members[i].source])
      BY <2>3, BuiltShape
    <2> HIDE DEF b
    <2>6. a \in DOMAIN b.members /\ x.members[a] = b.members[a]
      BY <1>4, <2>4
    <2>7. b.members[a].source \in MemberSources(comp)
      <3> DEFINE M == [source : MemberSources(comp), dev : Dev]
      <3>1. b.members \in Seq(M)
        BY <2>5
      <3>2. \A z \in M : z.source \in MemberSources(comp)
        OBVIOUS
      <3> HIDE DEF M
      <3>3. b.members[a] \in M
        BY <2>6, <3>1
      <3> QED BY <3>2, <3>3
    <2> QED BY <2>5, <2>6, <2>7 DEF From
  <1> HIDE DEF r, given
  <1>5. PICK m \in DOMAIN given, n \in DOMAIN given : e = given[m] /\ f = given[n]
    BY <1>2 DEF Range, r, given
  <1>6. m # n
    BY <1>5
  <1>7. ASSUME NEW a \in DOMAIN e.members, NEW b \in DOMAIN f.members, e.members[a].dev = f.members[b].dev
        PROVE  FALSE
    <2> DEFINE s == e.members[a].source
               t == f.members[b].source
               d == e.members[a].dev
    <2>1. s \in MemberSources(comp) /\ t \in MemberSources(comp) /\ d \in Range(bySource[s]) /\ d \in Range(bySource[t])
      BY <1>4, <1>7 DEF r
    <2>2. s = t
      <3> HIDE DEF s, t, d
      <3> QED BY <2>1
    <2>3. DevName[d] \in NamesIn(e, s) /\ DevName[d] \in NamesIn(f, s)
      BY <1>7, <2>2 DEF NamesIn
    <2> QED BY <1>3, <1>5, <1>6, <2>1, <2>3
  <1> QED BY <1>7 DEF DevsOf

----------------------------------------------------------------------------
(* Lists without repetition                                                *)

\* A list of a set: each element once.
Lists(s, S) == s \in Seq(S) /\ Range(s) = S /\ Distinct(s)

LEMMA DistinctConcat ==
  ASSUME NEW A, NEW s \in Seq(A), NEW t \in Seq(A), Distinct(s), Distinct(t), Range(s) \cap Range(t) = {}
  PROVE  Distinct(s \o t)
  <1> DEFINE L == Len(s)
             c == s \o t
  <1>1. /\ DOMAIN c = 1 .. L + Len(t) /\ DOMAIN s = 1 .. L /\ DOMAIN t = 1 .. Len(t)
        /\ \A i \in 1 .. L + Len(t) : c[i] = IF i <= L THEN s[i] ELSE t[i - L]
        /\ L \in Nat /\ Len(t) \in Nat
    OBVIOUS
  <1> HIDE DEF c, L
  <1>2. \A i \in DOMAIN c : IF i <= L THEN i \in DOMAIN s /\ c[i] = s[i]
                                      ELSE i - L \in DOMAIN t /\ c[i] = t[i - L]
    BY <1>1
  <1>3. ASSUME NEW i \in DOMAIN c, NEW j \in DOMAIN c, c[i] = c[j] PROVE i = j
    <2>1. CASE i <= L /\ j <= L
      BY <1>2, <1>3, <2>1 DEF Distinct, IsInjective
    <2>2. CASE ~(i <= L) /\ ~(j <= L)
      <3>1. i - L = j - L
        BY <1>2, <1>3, <2>2 DEF Distinct, IsInjective
      <3> QED BY <1>1, <3>1
    <2>3. CASE i <= L /\ ~(j <= L)
      BY <1>2, <1>3, <2>3 DEF Range
    <2>4. CASE ~(i <= L) /\ j <= L
      BY <1>2, <1>3, <2>4 DEF Range
    <2> QED BY <2>1, <2>2, <2>3, <2>4
  <1>4. Distinct(c)
    BY <1>3 DEF Distinct, IsInjective
  <1> QED BY <1>4 DEF c

\* The concatenation of lists of disjoint sets lists their union.
LEMMA FlattenApart ==
  ASSUME NEW A, NEW ss \in Seq(Seq(A)), \A j \in DOMAIN ss : Distinct(ss[j]),
         \A j, l \in DOMAIN ss : j # l => Range(ss[j]) \cap Range(ss[l]) = {}
  PROVE  Distinct(FlattenSeq(ss))
  <1> DEFINE n == Len(ss)
  <1>1. n \in Nat /\ DOMAIN ss = 1 .. n /\ \A i \in 1 .. n : ss[i] \in Seq(A)
    OBVIOUS
  <1>2. PICK f \in [0 .. n -> Seq(A)] :
          f[0] = <<>> /\ (\A i \in 1 .. n : f[i] = f[i - 1] \o ss[i]) /\ FlattenSeq(ss) = f[n]
    BY FlattenSteps
  <1> HIDE DEF n
  <1> DEFINE G == {i \in 0 .. n : Distinct(f[i]) /\ Range(f[i]) = UNION {Range(ss[j]) : j \in 1 .. i}}
  <1>3. 0 \in G
    <2>1. Range(f[0]) = {} /\ 1 .. 0 = {} /\ Distinct(f[0])
      BY <1>2 DEF Range, Distinct, IsInjective
    <2> QED BY <1>1, <2>1
  <1>4. ASSUME NEW i \in 1 .. n, i - 1 \in G PROVE i \in G
    <2>1. i - 1 \in 0 .. n /\ i \in 0 .. n
      BY <1>1
    <2>2. f[i] = f[i - 1] \o ss[i] /\ f[i - 1] \in Seq(A) /\ ss[i] \in Seq(A)
      BY <1>1, <1>2, <2>1
    <2>3. Range(f[i]) = Range(f[i - 1]) \cup Range(ss[i])
      BY <2>2, RangeConcat
    <2>4. 1 .. i = (1 .. i - 1) \cup {i} /\ \A j \in 1 .. i - 1 : j \in DOMAIN ss /\ i \in DOMAIN ss /\ j # i
      BY <1>1
    <2>5. Range(f[i - 1]) = UNION {Range(ss[j]) : j \in 1 .. i - 1} /\ Distinct(f[i - 1])
      BY <1>4
    <2>6. Range(f[i]) = UNION {Range(ss[j]) : j \in 1 .. i}
      BY <2>3, <2>4, <2>5
    <2>7. \A j \in 1 .. i - 1 : Range(ss[j]) \cap Range(ss[i]) = {}
      BY <2>4
    <2>8. Range(f[i - 1]) \cap Range(ss[i]) = {}
      BY <2>5, <2>7
    <2>9. Distinct(ss[i])
      BY <1>1
    <2>10. Distinct(f[i])
      <3> DEFINE x == f[i - 1]
                 y == ss[i]
      <3>1. x \in Seq(A) /\ y \in Seq(A) /\ Distinct(x) /\ Distinct(y) /\ Range(x) \cap Range(y) = {}
        BY <2>2, <2>5, <2>8, <2>9
      <3> HIDE DEF x, y
      <3>2. Distinct(x \o y)
        BY ONLY <3>1, DistinctConcat
      <3> QED BY <2>2, <3>2 DEF x, y
    <2> QED BY <2>1, <2>6, <2>10
  <1>5. n \in G
    <2> HIDE DEF G
    <2>1. n \in Nat /\ n \in 0 .. n
      BY <1>1
    <2> QED BY <1>3, <1>4, <2>1, Steps
  <1> QED BY <1>2, <1>5

LEMMA DistinctOne == Distinct(<<>>) /\ \A x : Distinct(<<x>>)
  <1>1. Distinct(<<>>)
    BY DEF Distinct, IsInjective
  <1>2. ASSUME NEW x PROVE Distinct(<<x>>)
    <2>1. DOMAIN <<x>> = {1}
      OBVIOUS
    <2> QED BY <2>1 DEF Distinct, IsInjective
  <1> QED BY <1>1, <1>2

\* The elements kept are as distinct as they were in the list.
LEMMA KeepApart ==
  ASSUME NEW A, NEW s \in Seq(A), NEW S,
         \A i, j \in DOMAIN s : s[i] \in S /\ s[i] = s[j] => i = j
  PROVE  Distinct(Keep(s, S))
  <1> DEFINE ss == [i \in DOMAIN s |-> IF s[i] \in S THEN <<s[i]>> ELSE <<>>]
  <1>1. s \in [1 .. Len(s) -> A] /\ Len(s) \in Nat /\ DOMAIN s = 1 .. Len(s)
    OBVIOUS
  <1>2. \A i \in DOMAIN s : ss[i] = (IF s[i] \in S THEN <<s[i]>> ELSE <<>>) /\ ss[i] \in Seq(A)
    BY <1>1
  <1>3. ss \in Seq(Seq(A)) /\ DOMAIN ss = DOMAIN s
    <2>1. ss \in [1 .. Len(s) -> Seq(A)]
      BY <1>1, <1>2
    <2> QED BY <1>1, <2>1
  <1>4. Keep(s, S) = FlattenSeq(ss)
    BY DEF Keep
  <1> HIDE DEF ss
  <1>5. \A i \in DOMAIN s : Distinct(ss[i]) /\ Range(ss[i]) \subseteq {s[i]} \cap S
    BY <1>2, RangeOfOne, DistinctOne
  <1>6. \A i, j \in DOMAIN ss : i # j => Range(ss[i]) \cap Range(ss[j]) = {}
    BY <1>3, <1>5
  <1>7. Distinct(FlattenSeq(ss))
    BY <1>3, <1>5, <1>6, FlattenApart
  <1> QED BY <1>4, <1>7

LEMMA KeepDistinct ==
  ASSUME NEW A, NEW s \in Seq(A), Distinct(s), NEW S
  PROVE  Distinct(Keep(s, S))
  <1>1. \A i, j \in DOMAIN s : s[i] = s[j] => i = j
    BY DEF Distinct, IsInjective
  <1> QED BY <1>1, KeepApart

\* at gives the place in the lists that each element of f comes from.
Places(ss, f, at) ==
  /\ \A k \in DOMAIN f : \E j \in DOMAIN ss : \E i \in DOMAIN ss[j] : at[k] = <<j, i>> /\ f[k] = ss[j][i]
  /\ \A k, l \in DOMAIN f : at[k] = at[l] => k = l

\* Every element of a concatenation has a place of its own in the lists.
LEMMA FlattenPlaces ==
  ASSUME NEW A, NEW ss \in Seq(Seq(A))
  PROVE  \E at : Places(ss, FlattenSeq(ss), at)
  <1> DEFINE n == Len(ss)
             P == Nat \X Nat
             B == A \cup P
             tt == [j \in 1 .. n |-> [i \in 1 .. Len(ss[j]) |-> <<j, i>>]]
             R == {x \in B \X P : x[2][1] \in DOMAIN ss /\ x[2][2] \in DOMAIN ss[x[2][1]]
                                  /\ x[1] = ss[x[2][1]][x[2][2]]}
  <1>1. n \in Nat /\ DOMAIN ss = 1 .. n
    OBVIOUS
  <1>2. ASSUME NEW j \in 1 .. n
        PROVE  /\ ss[j] \in Seq(A) /\ Len(ss[j]) \in Nat /\ DOMAIN ss[j] = 1 .. Len(ss[j])
               /\ \A i \in DOMAIN ss[j] : ss[j][i] \in A
    <2> DEFINE x == ss[j]
    <2>1. x \in Seq(A)
      BY <1>1
    <2> HIDE DEF x
    <2>2. Len(x) \in Nat /\ DOMAIN x = 1 .. Len(x) /\ \A i \in DOMAIN x : x[i] \in A
      BY <2>1
    <2> QED BY <2>1, <2>2 DEF x
  <1>3. ASSUME NEW j \in 1 .. n
        PROVE  /\ tt[j] \in Seq(P) /\ Len(tt[j]) = Len(ss[j]) /\ DOMAIN tt[j] = DOMAIN ss[j]
               /\ \A i \in DOMAIN ss[j] : tt[j][i] = <<j, i>> /\ <<j, i>> \in P
    <2> DEFINE L == Len(ss[j])
               y == [i \in 1 .. L |-> <<j, i>>]
    <2>1. tt[j] = y
      OBVIOUS
    <2>2. L \in Nat /\ DOMAIN ss[j] = 1 .. L
      BY <1>2
    <2>3. \A i \in 1 .. L : <<j, i>> \in P
      BY <1>1, <2>2
    <2> HIDE DEF L, P
    <2>4. y \in Seq(P) /\ Len(y) = L /\ DOMAIN y = 1 .. L
      BY <2>2, <2>3
    <2>5. \A i \in 1 .. L : y[i] = <<j, i>>
      OBVIOUS
    <2> HIDE DEF y, tt
    <2> QED BY <2>1, <2>2, <2>3, <2>4, <2>5 DEF L
  <1>4. A \subseteq B /\ P \subseteq B
    OBVIOUS
  <1>5. DOMAIN tt = 1 .. n
    OBVIOUS
  <1> HIDE DEF P, B
  <1>6. tt \in Seq(Seq(P)) /\ tt \in Seq(Seq(B)) /\ ss \in Seq(Seq(B)) /\ Len(tt) = n
    <2>1. \A j \in 1 .. n : tt[j] \in Seq(B) /\ ss[j] \in Seq(B)
      BY <1>2, <1>3, <1>4, SeqMonotonic
    <2>2. tt = [j \in 1 .. n |-> tt[j]] /\ ss = [j \in 1 .. n |-> ss[j]]
      BY <1>1
    <2>3. \A j \in 1 .. n : tt[j] \in Seq(P)
      BY <1>3
    <2> HIDE DEF tt, n
    <2>4. tt \in [1 .. n -> Seq(P)] /\ tt \in [1 .. n -> Seq(B)] /\ ss \in [1 .. n -> Seq(B)]
      BY <2>1, <2>2, <2>3
    <2>5. tt \in Seq(Seq(P)) /\ tt \in Seq(Seq(B)) /\ ss \in Seq(Seq(B))
      <3> DEFINE X == Seq(P)
                 Y == Seq(B)
      <3>1. n \in Nat /\ tt \in [1 .. n -> X] /\ tt \in [1 .. n -> Y] /\ ss \in [1 .. n -> Y]
        BY <1>1, <2>4
      <3> HIDE DEF X, Y
      <3>2. tt \in Seq(X) /\ tt \in Seq(Y) /\ ss \in Seq(Y)
        BY <3>1
      <3> QED BY <3>2 DEF X, Y
    <2>6. Len(tt) = n
      BY <1>1, <1>5, <2>5
    <2> QED BY <2>5, <2>6
  <1> HIDE DEF tt
  <1>7. Distinct(FlattenSeq(tt))
    <2>1. \A j \in DOMAIN tt : Distinct(tt[j])
      <3>1. ASSUME NEW j \in DOMAIN tt PROVE Distinct(tt[j])
        <4> DEFINE y == tt[j]
        <4>1. \A i \in DOMAIN y : y[i] = <<j, i>>
          BY <1>3, <1>5
        <4> HIDE DEF y
        <4>2. Distinct(y)
          BY <4>1 DEF Distinct, IsInjective
        <4> QED BY <4>2 DEF y
      <3> QED BY <3>1
    <2>2. ASSUME NEW j \in DOMAIN tt, NEW x \in Range(tt[j]) PROVE x[1] = j
      <3> DEFINE y == tt[j]
      <3>1. \A i \in DOMAIN y : y[i] = <<j, i>>
        BY <1>3, <1>5
      <3>2. x \in Range(y)
        OBVIOUS
      <3> HIDE DEF y
      <3> QED BY <3>1, <3>2 DEF Range
    <2>3. \A j, l \in DOMAIN tt : j # l => Range(tt[j]) \cap Range(tt[l]) = {}
      BY <2>2
    <2> QED BY <1>6, <2>1, <2>3, FlattenApart
  <1>8. \A j \in DOMAIN ss : Len(ss[j]) = Len(tt[j])
    BY <1>1, <1>3
  <1>9. ASSUME NEW j \in DOMAIN ss, NEW i \in DOMAIN ss[j] PROVE <<ss[j][i], tt[j][i]>> \in R
    <2>1. tt[j][i] = <<j, i>> /\ <<j, i>> \in P /\ ss[j][i] \in B
      BY <1>1, <1>2, <1>3, <1>4
    <2> DEFINE z == <<ss[j][i], <<j, i>>>>
    <2>2. z \in B \X P /\ z[1] = ss[j][i] /\ z[2] = <<j, i>> /\ z[2][1] = j /\ z[2][2] = i
      BY <2>1
    <2> HIDE DEF z
    <2>3. z \in R
      BY <2>2
    <2> QED BY <2>1, <2>3 DEF z
  <1> HIDE DEF R
  <1>10. /\ Len(FlattenSeq(ss)) = Len(FlattenSeq(tt))
         /\ \A k \in DOMAIN FlattenSeq(ss) : <<FlattenSeq(ss)[k], FlattenSeq(tt)[k]>> \in R
    BY <1>6, <1>8, <1>9, FlattenAlike
  <1> DEFINE f == FlattenSeq(ss)
             at == FlattenSeq(tt)
  <1>11. f \in Seq(B) /\ at \in Seq(B)
    BY <1>6, FlattenRange
  <1> HIDE DEF f, at
  <1>12. DOMAIN f = DOMAIN at
    BY <1>10, <1>11 DEF f, at
  <1>13. ASSUME NEW k \in DOMAIN f
         PROVE  \E j \in DOMAIN ss : \E i \in DOMAIN ss[j] : at[k] = <<j, i>> /\ f[k] = ss[j][i]
    <2>1. <<f[k], at[k]>> \in R
      BY <1>10 DEF f, at
    <2>2. /\ at[k] \in P /\ at[k][1] \in DOMAIN ss /\ at[k][2] \in DOMAIN ss[at[k][1]]
          /\ f[k] = ss[at[k][1]][at[k][2]]
      BY <2>1 DEF R
    <2>3. at[k] = <<at[k][1], at[k][2]>>
      BY <2>2 DEF P
    <2> QED BY <2>2, <2>3
  <1>14. \A k, l \in DOMAIN f : at[k] = at[l] => k = l
    BY <1>7, <1>12 DEF Distinct, IsInjective, at
  <1>15. Places(ss, f, at)
    BY <1>13, <1>14 DEF Places
  <1> QED BY <1>15 DEF f

----------------------------------------------------------------------------
(* All combinations                                                        *)

Increasing(c) == \A i, j \in DOMAIN c : i < j => c[i] < c[j]

\* The prefixes of length m that leave room for the indices to come.
Beginnings(n, k, m) == {c \in Indices(n, m) : Increasing(c) /\ \A i \in 1 .. m : c[i] <= n - k + i}

LEMMA IncreasingAt ==
  ASSUME NEW c, NEW m \in Int, DOMAIN c = 1 .. m
  PROVE  Increasing(c) <=> \A i, j \in 1 .. m : i < j => c[i] < c[j]
  BY DEF Increasing

NextIndex(c) == IF c = <<>> THEN 1 ELSE Last(c) + 1

LEMMA PrefixGrows ==
  ASSUME NEW n \in Nat, NEW k \in Nat, k \in 1 .. n, NEW m \in Nat, m \in 1 .. k,
         NEW c \in Beginnings(n, k, m - 1)
  PROVE  /\ NextIndex(c) \in 1 .. n - k + m
         /\ \A x \in NextIndex(c) .. n - k + m : Append(c, x) \in Beginnings(n, k, m)
  <1>1. /\ c \in Seq(1 .. n) /\ Len(c) = m - 1 /\ DOMAIN c = 1 .. m - 1 /\ Increasing(c)
        /\ \A i \in 1 .. m - 1 : c[i] <= n - k + i /\ c[i] \in 1 .. n
    BY DEF Beginnings, Indices
  <1>2. NextIndex(c) \in 1 .. n - k + m /\ \A i \in 1 .. m - 1 : c[i] < NextIndex(c)
    <2>1. CASE m = 1
      <3>1. c = <<>>
        BY <1>1, <2>1
      <3> QED BY <2>1, <3>1 DEF NextIndex
    <2>2. CASE m # 1
      <3>1. c # <<>> /\ m - 1 \in 1 .. m - 1
        BY <1>1, <2>2
      <3>2. NextIndex(c) = c[m - 1] + 1
        BY <1>1, <3>1 DEF NextIndex, Last
      <3>3. \A i, j \in 1 .. m - 1 : i < j => c[i] < c[j]
        <4>1. m - 1 \in Int /\ DOMAIN c = 1 .. m - 1 /\ Increasing(c)
          BY <1>1
        <4> QED BY ONLY <4>1, IncreasingAt
      <3>4. \A i \in 1 .. m - 1 : i # m - 1 => c[i] < c[m - 1]
        <4>1. \A i \in 1 .. m - 1 : i # m - 1 => i < m - 1
          OBVIOUS
        <4> QED BY ONLY <3>1, <3>3, <4>1
      <3>5. /\ c[m - 1] \in 1 .. n /\ c[m - 1] <= n - k + (m - 1)
            /\ \A i \in 1 .. m - 1 : c[i] \in 1 .. n
        BY <1>1, <3>1
      <3>6. NextIndex(c) \in 1 .. n - k + m
        BY <3>2, <3>5
      <3>7. ASSUME NEW i \in 1 .. m - 1 PROVE c[i] < NextIndex(c)
        <4>1. c[i] \in Int /\ c[m - 1] \in Int /\ (i = m - 1 \/ c[i] < c[m - 1])
          BY <3>4, <3>5
        <4> QED BY ONLY <3>2, <4>1
      <3> QED BY <3>6, <3>7
    <2> QED BY <2>1, <2>2
  <1>3. ASSUME NEW x \in NextIndex(c) .. n - k + m PROVE Append(c, x) \in Beginnings(n, k, m)
    <2> DEFINE a == Append(c, x)
    <2>1. x \in 1 .. n
      BY <1>2
    <2>2. /\ a \in Seq(1 .. n) /\ Len(a) = m /\ DOMAIN a = 1 .. m /\ a[m] = x
          /\ \A i \in 1 .. m - 1 : a[i] = c[i]
      BY <1>1, <2>1
    <2> HIDE DEF a
    <2>3. Increasing(a)
      <3> SUFFICES ASSUME NEW i \in 1 .. m, NEW j \in 1 .. m, i < j PROVE a[i] < a[j]
        BY <2>2 DEF Increasing
      <3>1. i \in 1 .. m - 1 /\ a[i] = c[i]
        BY <2>2
      <3>2. CASE j = m
        BY <1>1, <1>2, <2>2, <3>1, <3>2
      <3>3. CASE j # m
        <4>1. j \in 1 .. m - 1 /\ a[j] = c[j]
          BY <2>2, <3>3
        <4> QED BY <1>1, <3>1, <4>1 DEF Increasing
      <3> QED BY <3>2, <3>3
    <2>4. \A i \in 1 .. m : a[i] <= n - k + i
      BY <1>1, <2>2
    <2>5. a \in Beginnings(n, k, m)
      BY <2>2, <2>3, <2>4 DEF Beginnings, Indices
    <2> QED BY <2>5 DEF a
  <1> QED BY <1>2, <1>3

LEMMA PrefixShrinks ==
  ASSUME NEW n \in Nat, NEW k \in Nat, k \in 1 .. n, NEW m \in Nat, m \in 1 .. k,
         NEW a \in Beginnings(n, k, m)
  PROVE  \E c \in Beginnings(n, k, m - 1) : \E x \in NextIndex(c) .. n - k + m : a = Append(c, x)
  <1> DEFINE c == [i \in 1 .. m - 1 |-> a[i]]
             x == a[m]
  <1>1. /\ a \in Seq(1 .. n) /\ Len(a) = m /\ DOMAIN a = 1 .. m /\ Increasing(a)
        /\ \A i \in 1 .. m : a[i] <= n - k + i /\ a[i] \in 1 .. n
    BY DEF Beginnings, Indices
  <1>2. c \in Seq(1 .. n) /\ Len(c) = m - 1 /\ DOMAIN c = 1 .. m - 1 /\ \A i \in 1 .. m - 1 : c[i] = a[i]
    <2>1. m - 1 \in Nat /\ \A i \in 1 .. m - 1 : a[i] \in 1 .. n
      BY <1>1
    <2>2. c \in Seq(1 .. n)
      BY <2>1, IsASeq
    <2> QED BY <2>1, <2>2
  <1> HIDE DEF c
  <1>3. Increasing(c)
    <2>1. \A i, j \in 1 .. m : i < j => a[i] < a[j]
      <3>1. m \in Int /\ DOMAIN a = 1 .. m /\ Increasing(a)
        BY <1>1
      <3> QED BY ONLY <3>1, IncreasingAt
    <2>2. \A i, j \in 1 .. m - 1 : i < j => c[i] < c[j]
      <3>1. \A i \in 1 .. m - 1 : i \in 1 .. m
        OBVIOUS
      <3> QED BY ONLY <1>2, <2>1, <3>1
    <2>3. m - 1 \in Int /\ DOMAIN c = 1 .. m - 1
      BY <1>2
    <2> QED BY ONLY <2>2, <2>3, IncreasingAt
  <1>4. c \in Beginnings(n, k, m - 1)
    BY <1>1, <1>2, <1>3 DEF Beginnings, Indices
  <1>5. x \in NextIndex(c) .. n - k + m
    <2>1. CASE m = 1
      <3>1. c = <<>>
        BY <1>2, <2>1
      <3> QED BY <1>1, <2>1, <3>1 DEF NextIndex
    <2>2. CASE m # 1
      <3>1. c # <<>> /\ m - 1 \in 1 .. m - 1
        BY <1>2, <2>2
      <3>2. NextIndex(c) = a[m - 1] + 1
        BY <1>2, <3>1 DEF NextIndex, Last
      <3>3. a[m - 1] < a[m]
        <4>1. \A i, j \in 1 .. m : i < j => a[i] < a[j]
          <5>1. m \in Int /\ DOMAIN a = 1 .. m /\ Increasing(a)
            BY <1>1
          <5> QED BY ONLY <5>1, IncreasingAt
        <4>2. m - 1 \in 1 .. m /\ m \in 1 .. m /\ m - 1 < m
          BY <3>1
        <4> QED BY ONLY <4>1, <4>2
      <3> QED BY <1>1, <3>1, <3>2, <3>3
    <2> QED BY <2>1, <2>2
  <1>6. a = Append(c, x)
    <2>1. x \in 1 .. n
      BY <1>1
    <2> HIDE DEF x
    <2>2. Append(c, x) \in Seq(1 .. n) /\ Len(Append(c, x)) = m
      BY <1>2, <2>1
    <2>3. \A i \in 1 .. m : Append(c, x)[i] = a[i]
      BY <1>1, <1>2, <2>1 DEF x
    <2> QED BY <1>1, <2>2, <2>3
  <1> QED BY <1>4, <1>5, <1>6

LEMMA AppendSame ==
  ASSUME NEW A, NEW c \in Seq(A), NEW d \in Seq(A), NEW x \in A, NEW y \in A, Append(c, x) = Append(d, y)
  PROVE  c = d /\ x = y
  <1>1. Len(c) = Len(d) /\ Len(c) \in Nat
    <2>1. Len(Append(c, x)) = Len(c) + 1 /\ Len(Append(d, y)) = Len(d) + 1 /\ Len(c) \in Nat /\ Len(d) \in Nat
      OBVIOUS
    <2> QED BY <2>1
  <1>2. Append(c, x)[Len(c) + 1] = x /\ Append(d, y)[Len(d) + 1] = y
    OBVIOUS
  <1>3. \A i \in 1 .. Len(c) : Append(c, x)[i] = c[i]
    OBVIOUS
  <1>4. \A i \in 1 .. Len(d) : Append(d, y)[i] = d[i]
    OBVIOUS
  <1> QED BY <1>1, <1>2, <1>3, <1>4

\* The extensions of a prefix, each once.
LEMMA ExtensionsOf ==
  ASSUME NEW n \in Nat, NEW k \in Nat, k \in 1 .. n, NEW m \in Nat, m \in 1 .. k,
         NEW c \in Beginnings(n, k, m - 1)
  PROVE  LET row == [i \in 1 .. (n - k + m - NextIndex(c) + 1) |-> Append(c, NextIndex(c) + i - 1)]
         IN /\ row \in Seq(Beginnings(n, k, m)) /\ Distinct(row)
            /\ \A a : a \in Range(row) <=> \E x \in NextIndex(c) .. n - k + m : a = Append(c, x)
  <1> DEFINE s == NextIndex(c)
             L == n - k + m - s + 1
             row == [i \in 1 .. L |-> Append(c, s + i - 1)]
  <1>1. s \in 1 .. n - k + m /\ \A x \in s .. n - k + m : Append(c, x) \in Beginnings(n, k, m)
    BY PrefixGrows
  <1>2. c \in Seq(1 .. n)
    BY DEF Beginnings, Indices
  <1> HIDE DEF s
  <1>3. L \in Nat /\ \A i \in 1 .. L : s + i - 1 \in s .. n - k + m /\ s + i - 1 \in 1 .. n
    BY <1>1
  <1>4. \A x \in s .. n - k + m : x - s + 1 \in 1 .. L /\ s + (x - s + 1) - 1 = x
    BY <1>1
  <1> HIDE DEF L
  <1>5. row \in Seq(Beginnings(n, k, m))
    BY <1>1, <1>3, IsASeq
  <1>6. Distinct(row)
    <2> SUFFICES ASSUME NEW i \in 1 .. L, NEW j \in 1 .. L, Append(c, s + i - 1) = Append(c, s + j - 1)
                 PROVE  i = j
      BY DEF Distinct, IsInjective
    <2> DEFINE x == s + i - 1
               y == s + j - 1
    <2>1. x \in 1 .. n /\ y \in 1 .. n /\ Append(c, x) = Append(c, y)
      BY <1>3
    <2> HIDE DEF x, y
    <2>2. x = y
      BY ONLY <1>2, <2>1, AppendSame
    <2> QED BY <1>1, <1>3, <2>2 DEF x, y
  <1>7. ASSUME NEW a PROVE a \in Range(row) <=> \E x \in s .. n - k + m : a = Append(c, x)
    <2>1. a \in Range(row) <=> \E i \in 1 .. L : a = Append(c, s + i - 1)
      BY DEF Range
    <2> QED BY <1>3, <1>4, <2>1
  <1> HIDE DEF row
  <1>8. /\ row \in Seq(Beginnings(n, k, m)) /\ Distinct(row)
        /\ \A a : a \in Range(row) <=> \E x \in s .. n - k + m : a = Append(c, x)
    BY <1>5, <1>6, <1>7
  <1> QED BY <1>8 DEF row, L, s

LEMMA ExtendLists ==
  ASSUME NEW n \in Nat, NEW k \in Nat, k \in 1 .. n, NEW m \in Nat, m \in 1 .. k,
         NEW prefixes, Lists(prefixes, Beginnings(n, k, m - 1))
  PROVE  Lists(Extend(n, k, m, prefixes), Beginnings(n, k, m))
  <1> DEFINE row(c) == [i \in 1 .. (n - k + m - NextIndex(c) + 1) |-> Append(c, NextIndex(c) + i - 1)]
             P == Beginnings(n, k, m - 1)
             Q == Beginnings(n, k, m)
             ss == [p \in DOMAIN prefixes |-> row(prefixes[p])]
  <1>1. prefixes \in Seq(P) /\ Range(prefixes) = P /\ Distinct(prefixes)
    BY DEF Lists
  <1>2. Extend(n, k, m, prefixes) = FlattenSeq(ss)
    BY DEF Extend, NextIndex
  <1>3. \A c \in P : /\ row(c) \in Seq(Q) /\ Distinct(row(c))
                     /\ \A a : a \in Range(row(c)) <=> \E x \in NextIndex(c) .. n - k + m : a = Append(c, x)
    BY ExtensionsOf
  <1> HIDE DEF row
  <1>4. \A c \in P : c \in Seq(1 .. n) /\ \A x \in NextIndex(c) .. n - k + m : x \in 1 .. n
    <2>1. ASSUME NEW c \in P PROVE NextIndex(c) \in 1 .. n - k + m
      BY PrefixGrows
    <2>2. \A c \in P : c \in Seq(1 .. n)
      BY DEF Beginnings, Indices
    <2> HIDE DEF P
    <2> QED BY <2>1, <2>2
  <1> HIDE DEF P
  <1>5. Len(prefixes) \in Nat /\ DOMAIN prefixes = 1 .. Len(prefixes) /\ \A p \in DOMAIN prefixes : prefixes[p] \in P
    BY <1>1
  <1>6. ss \in Seq(Seq(Q)) /\ DOMAIN ss = DOMAIN prefixes
    BY <1>3, <1>5
  <1>7. \A p \in DOMAIN prefixes : ss[p] = row(prefixes[p])
    OBVIOUS
  <1> HIDE DEF ss
  <1>8. ASSUME NEW p \in DOMAIN ss, NEW q \in DOMAIN ss, NEW a \in Range(ss[p]), a \in Range(ss[q])
        PROVE  p = q
    <2>1. PICK x \in NextIndex(prefixes[p]) .. n - k + m : a = Append(prefixes[p], x)
      BY <1>3, <1>5, <1>6, <1>7
    <2>2. PICK y \in NextIndex(prefixes[q]) .. n - k + m : a = Append(prefixes[q], y)
      BY <1>3, <1>5, <1>6, <1>7, <1>8
    <2>3. prefixes[p] \in Seq(1 .. n) /\ prefixes[q] \in Seq(1 .. n) /\ x \in 1 .. n /\ y \in 1 .. n
      BY <1>4, <1>5, <1>6, <2>1, <2>2
    <2>4. prefixes[p] = prefixes[q]
      <3> DEFINE c == prefixes[p]
                 d == prefixes[q]
                 A == 1 .. n
      <3>1. c \in Seq(A) /\ d \in Seq(A) /\ x \in A /\ y \in A /\ Append(c, x) = Append(d, y)
        BY <2>1, <2>2, <2>3
      <3> HIDE DEF c, d, A
      <3>2. c = d
        BY ONLY <3>1, AppendSame
      <3> QED BY <3>2 DEF c, d
    <2> QED BY <1>1, <1>6, <2>4 DEF Distinct, IsInjective
  <1>9. \A p, q \in DOMAIN ss : p # q => Range(ss[p]) \cap Range(ss[q]) = {}
    BY <1>8
  <1>10. \A p \in DOMAIN ss : Distinct(ss[p])
    BY <1>3, <1>5, <1>6, <1>7
  <1>11. Distinct(FlattenSeq(ss))
    BY <1>6, <1>9, <1>10, FlattenApart
  <1>12. FlattenSeq(ss) \in Seq(Q) /\ Range(FlattenSeq(ss)) = UNION {Range(ss[p]) : p \in DOMAIN ss}
    BY <1>6, FlattenRange
  <1>13. ASSUME NEW a \in Q PROVE a \in UNION {Range(ss[p]) : p \in DOMAIN ss}
    <2>1. PICK c \in P : \E x \in NextIndex(c) .. n - k + m : a = Append(c, x)
      BY PrefixShrinks DEF P
    <2>2. PICK p \in DOMAIN prefixes : prefixes[p] = c
      BY <1>1 DEF Range
    <2>3. a \in Range(row(prefixes[p]))
      BY <1>3, <2>1, <2>2
    <2> QED BY <1>6, <1>7, <2>2, <2>3
  <1>14. Range(FlattenSeq(ss)) \subseteq Q
    <2> HIDE DEF Q
    <2> QED BY <1>12 DEF Range
  <1>15. Range(FlattenSeq(ss)) = Q
    BY <1>12, <1>13, <1>14
  <1> QED BY <1>2, <1>11, <1>12, <1>15 DEF Lists

\* Increasing sequences of k of the numbers 1 .. n.
Rising(n, k) == {c \in Indices(n, k) : Increasing(c)}

LEMMA RisingRoom ==
  ASSUME NEW n \in Nat, NEW k \in Nat, k \in 1 .. n, NEW c \in Rising(n, k), NEW i \in 1 .. k
  PROVE  c[i] <= n - k + i
  <1>1. c \in Seq(1 .. n) /\ Len(c) = k /\ DOMAIN c = 1 .. k /\ Increasing(c)
    BY DEF Rising, Indices
  <1>2. \A j \in 1 .. k : c[j] \in 1 .. n
    BY <1>1
  <1>3. \A p, q \in 1 .. k : p < q => c[p] < c[q]
    <2>1. k \in Int /\ DOMAIN c = 1 .. k /\ Increasing(c)
      BY <1>1
    <2> QED BY ONLY <2>1, IncreasingAt
  <1> DEFINE G == {m \in 0 .. k - 1 : c[k - m] <= n - m}
  <1>4. 0 \in G
    BY <1>2
  <1>5. ASSUME NEW m \in 1 .. k - 1, m - 1 \in G PROVE m \in G
    <2>1. k - m \in 1 .. k /\ k - (m - 1) \in 1 .. k /\ k - m < k - (m - 1)
      OBVIOUS
    <2>2. c[k - m] < c[k - (m - 1)] /\ c[k - m] \in Int /\ c[k - (m - 1)] \in Int
      BY <1>2, <1>3, <2>1
    <2>3. c[k - (m - 1)] <= n - (m - 1)
      BY <1>5
    <2>4. c[k - m] <= n - m
      <3> DEFINE u == c[k - m]
                 v == c[k - (m - 1)]
      <3>1. u \in Int /\ v \in Int /\ u < v /\ v <= n - (m - 1)
        BY <2>2, <2>3
      <3> HIDE DEF u, v
      <3>2. u <= n - m
        BY <3>1
      <3> QED BY <3>2 DEF u
    <2> QED BY <2>4
  <1>6. k - i \in G
    <2> HIDE DEF G
    <2>1. k - 1 \in Nat /\ k - i \in 0 .. k - 1
      OBVIOUS
    <2> QED BY <1>4, <1>5, <2>1, Steps
  <1>7. c[k - (k - i)] <= n - (k - i)
    BY <1>6
  <1>8. k - (k - i) = i /\ n - (k - i) = n - k + i
    OBVIOUS
  <1> QED BY <1>7, <1>8

\* chooseCombinations lists the increasing sequences, each once.
LEMMA ChooseLists ==
  ASSUME NEW n \in Nat, NEW k \in Nat, k >= 1
  PROVE  Lists(chooseCombinations(n, k), Rising(n, k))
  <1>1. CASE k > n
    <2>1. chooseCombinations(n, k) = <<>>
      BY <1>1 DEF chooseCombinations
    <2>2. Rising(n, k) = {}
      <3> SUFFICES ASSUME NEW c \in Rising(n, k) PROVE FALSE
        OBVIOUS
      <3>1. c \in [1 .. k -> 1 .. n] /\ Increasing(c)
        BY DEF Rising, Indices
      <3>2. \E x, y \in 1 .. k : x # y /\ c[x] = c[y]
        <4>1. IsFiniteSet(1 .. k) /\ IsFiniteSet(1 .. n) /\ Cardinality(1 .. k) = k /\ Cardinality(1 .. n) = n
          BY FS_Interval
        <4> QED BY <1>1, <3>1, <4>1, FS_PigeonHole
      <3>3. \A x, y \in 1 .. k : x < y => c[x] < c[y]
        <4>1. k \in Int /\ DOMAIN c = 1 .. k /\ Increasing(c)
          BY <3>1
        <4> QED BY ONLY <4>1, IncreasingAt
      <3> QED BY <3>1, <3>2, <3>3
    <2> QED BY <2>1, <2>2, RangeOfOne, DistinctOne DEF Lists
  <1>2. CASE ~(k > n)
    <2>1. k \in 1 .. n
      BY <1>2
    <2>2. PICK g : /\ g[0] = << <<>> >> /\ \A i \in 1 .. k : g[i] = Extend(n, k, i, g[i - 1])
                   /\ chooseCombinations(n, k) = g[k]
      BY <2>1, ChooseSteps
    <2> DEFINE G == {i \in 0 .. k : Lists(g[i], Beginnings(n, k, i))}
    <2>3. 0 \in G
      <3>1. Beginnings(n, k, 0) = {<<>>}
        <4>1. <<>> \in Beginnings(n, k, 0)
          BY DEF Beginnings, Indices, Increasing
        <4>2. \A c \in Beginnings(n, k, 0) : c = <<>>
          BY DEF Beginnings, Indices
        <4> QED BY <4>1, <4>2
      <3>2. Lists(<< <<>> >>, {<<>>})
        BY RangeOfOne, DistinctOne DEF Lists
      <3>3. Lists(g[0], Beginnings(n, k, 0)) /\ 0 \in 0 .. k
        <4> DEFINE e == << <<>> >>
                   E == {<<>>}
        <4>1. g[0] = e /\ Beginnings(n, k, 0) = E /\ Lists(e, E)
          BY <2>2, <3>1, <3>2
        <4> HIDE DEF e, E
        <4>2. Lists(g[0], Beginnings(n, k, 0))
          BY ONLY <4>1
        <4> QED BY <4>2
      <3> QED BY <3>3
    <2>4. ASSUME NEW i \in 1 .. k, i - 1 \in G PROVE i \in G
      <3>1. i \in 0 .. k /\ i \in Nat /\ g[i] = Extend(n, k, i, g[i - 1])
        BY <2>2
      <3>2. Lists(g[i - 1], Beginnings(n, k, i - 1))
        BY <2>4
      <3>3. Lists(Extend(n, k, i, g[i - 1]), Beginnings(n, k, i))
        BY <2>1, <3>1, <3>2, ExtendLists
      <3> QED BY <3>1, <3>3
    <2>5. k \in G
      <3>1. k \in 0 .. k
        OBVIOUS
      <3> HIDE DEF G
      <3> QED BY <2>3, <2>4, <3>1, Steps
    <2>6. Beginnings(n, k, k) = Rising(n, k)
      BY <2>1, RisingRoom DEF Beginnings, Rising
    <2> QED BY <2>2, <2>5, <2>6
  <1> QED BY <1>1, <1>2

LEMMA DistinctSize ==
  ASSUME NEW A, NEW s \in Seq(A), Distinct(s)
  PROVE  IsFiniteSet(Range(s)) /\ Cardinality(Range(s)) = Len(s)
  <1> DEFINE n == Len(s)
  <1>1. n \in Nat /\ DOMAIN s = 1 .. n /\ s = [i \in 1 .. n |-> s[i]]
    OBVIOUS
  <1>2. s \in Bijection(1 .. n, Range(s))
    BY <1>1 DEF Bijection, Injection, Surjection, Range, Distinct, IsInjective
  <1>3. IsFiniteSet(1 .. n) /\ Cardinality(1 .. n) = n
    <2>1. n \in Nat
      BY <1>1
    <2> HIDE DEF n
    <2> QED BY <2>1, FS_Interval
  <1> QED BY <1>2, <1>3, FS_Bijection DEF ExistsBijection

LEMMA RisingDistinct ==
  ASSUME NEW n \in Nat, NEW c \in Seq(1 .. n), Increasing(c)
  PROVE  Distinct(c)
  <1>1. DOMAIN c = 1 .. Len(c) /\ Len(c) \in Nat /\ \A i \in 1 .. Len(c) : c[i] \in Int
    OBVIOUS
  <1>2. \A i, j \in 1 .. Len(c) : i < j => c[i] < c[j]
    <2>1. Len(c) \in Int /\ DOMAIN c = 1 .. Len(c) /\ Increasing(c)
      BY <1>1
    <2> QED BY ONLY <2>1, IncreasingAt
  <1>3. ASSUME NEW i \in 1 .. Len(c), NEW j \in 1 .. Len(c), c[i] = c[j] PROVE i = j
    <2>1. ~(c[i] < c[j]) /\ ~(c[j] < c[i])
      BY <1>1, <1>3
    <2>2. ~(i < j) /\ ~(j < i)
      BY <1>2, <2>1
    <2> QED BY <1>1, <2>2
  <1> QED BY <1>1, <1>3 DEF Distinct, IsInjective

\* Every set of numbers has an increasing sequence.
LEMMA RisingOf ==
  ASSUME NEW n \in Nat, NEW T \in SUBSET (1 .. n)
  PROVE  \E c \in Seq(1 .. n) : Increasing(c) /\ Range(c) = T
  <1> DEFINE Has(m, S) == \E c \in Seq(1 .. m) : Increasing(c) /\ Range(c) = S
             G == {m \in 0 .. n : \A S \in SUBSET (1 .. m) : Has(m, S)}
  <1>1. 0 \in G
    <2>1. 1 .. 0 = {} /\ <<>> \in Seq(1 .. 0) /\ Increasing(<<>>) /\ Range(<<>>) = {}
      BY DEF Increasing, Range
    <2>2. \A S \in SUBSET (1 .. 0) : S = {}
      BY <2>1
    <2>3. \A S \in SUBSET (1 .. 0) : Has(0, S)
      BY <2>1, <2>2
    <2> QED BY <2>3
  <1>2. ASSUME NEW m \in 1 .. n, m - 1 \in G PROVE m \in G
    <2>1. ASSUME NEW S \in SUBSET (1 .. m) PROVE Has(m, S)
      <3> DEFINE R == S \ {m}
      <3>1. R \in SUBSET (1 .. m - 1)
        OBVIOUS
      <3>2. PICK c \in Seq(1 .. m - 1) : Increasing(c) /\ Range(c) = R
        BY <1>2, <3>1
      <3>3. DOMAIN c = 1 .. Len(c) /\ Len(c) \in Nat /\ \A i \in 1 .. Len(c) : c[i] \in 1 .. m - 1
        BY <3>2
      <3>4. c \in Seq(1 .. m)
        <4>1. \A i \in 1 .. Len(c) : c[i] \in 1 .. m
          BY <3>3
        <4> QED BY <3>3, <4>1
      <3>5. CASE m \notin S
        <4>1. R = S
          BY <3>5
        <4> QED BY <3>2, <3>4, <4>1
      <3>6. CASE m \in S
        <4> DEFINE a == Append(c, m)
                   L == Len(c)
        <4>1. a \in Seq(1 .. m) /\ DOMAIN a = 1 .. L + 1 /\ a[L + 1] = m /\ \A i \in 1 .. L : a[i] = c[i]
          <5>1. m \in 1 .. m
            OBVIOUS
          <5> QED BY <3>4, <5>1
        <4> HIDE DEF a, L
        <4>2. \A i, j \in 1 .. L : i < j => c[i] < c[j]
          <5>1. L \in Int /\ DOMAIN c = 1 .. L /\ Increasing(c)
            BY <3>2, <3>3 DEF L
          <5> QED BY ONLY <5>1, IncreasingAt
        <4>3. ASSUME NEW i \in 1 .. L + 1, NEW j \in 1 .. L + 1, i < j PROVE a[i] < a[j]
          <5>0. L \in Nat
            BY <3>3 DEF L
          <5>1. i \in 1 .. L /\ a[i] = c[i] /\ c[i] \in 1 .. m - 1
            BY <3>3, <4>1, <4>3, <5>0 DEF L
          <5>2. CASE j = L + 1
            <6>1. a[j] = m
              BY <4>1, <5>2
            <6> QED BY <5>1, <6>1
          <5>3. CASE j # L + 1
            <6>1. j \in 1 .. L /\ a[j] = c[j]
              BY <4>1, <5>0, <5>3
            <6> QED BY <4>2, <4>3, <5>1, <6>1
          <5> QED BY <5>2, <5>3
        <4>4. Increasing(a)
          <5>1. L + 1 \in Int /\ DOMAIN a = 1 .. L + 1
            BY <3>3, <4>1 DEF L
          <5> QED BY ONLY <4>3, <5>1, IncreasingAt
        <4>5. Range(a) = R \cup {m}
          <5>1. \A x : x \in R <=> \E i \in 1 .. L : x = c[i]
            BY <3>2, <3>3 DEF Range, L
          <5>2. \A x : x \in Range(a) <=> \E i \in 1 .. L + 1 : x = a[i]
            BY <4>1 DEF Range
          <5>3. 1 .. L + 1 = (1 .. L) \cup {L + 1}
            BY <3>3 DEF L
          <5>4. \A x : x \in Range(a) <=> x \in R \/ x = m
            BY ONLY <4>1, <5>1, <5>2, <5>3, ZenonT(40)
          <5> HIDE DEF R
          <5> QED BY <5>4
        <4>6. Range(a) = S
          BY <3>6, <4>5
        <4> QED BY <4>1, <4>4, <4>6
      <3> QED BY <3>5, <3>6
    <2> HIDE DEF Has
    <2> QED BY <2>1
  <1>3. n \in G
    <2> HIDE DEF G
    <2>1. n \in 0 .. n
      OBVIOUS
    <2> QED BY <1>1, <1>2, <2>1, Steps
  <1> QED BY <1>3

\* An increasing sequence is determined by its elements.
LEMMA RisingUnique ==
  ASSUME NEW n \in Nat, NEW k \in Nat, NEW c \in Rising(n, k), NEW d \in Rising(n, k), Range(c) = Range(d)
  PROVE  c = d
  <1>1. /\ c \in Seq(1 .. n) /\ Len(c) = k /\ DOMAIN c = 1 .. k /\ Increasing(c)
        /\ d \in Seq(1 .. n) /\ Len(d) = k /\ DOMAIN d = 1 .. k /\ Increasing(d)
    BY DEF Rising, Indices
  <1>2. \A i \in 1 .. k : c[i] \in Int /\ d[i] \in Int
    BY <1>1
  <1>3. (\A i, j \in 1 .. k : i < j => c[i] < c[j]) /\ (\A i, j \in 1 .. k : i < j => d[i] < d[j])
    <2>1. k \in Int /\ DOMAIN c = 1 .. k /\ Increasing(c) /\ DOMAIN d = 1 .. k /\ Increasing(d)
      BY <1>1
    <2> QED BY ONLY <2>1, IncreasingAt
  <1>4. /\ \A i \in 1 .. k : \E j \in 1 .. k : d[j] = c[i]
        /\ \A i \in 1 .. k : \E j \in 1 .. k : c[j] = d[i]
    BY <1>1 DEF Range
  <1> DEFINE T == {i \in 1 .. k : c[i] # d[i]}
  <1>5. T = {}
    <2> SUFFICES ASSUME T # {} PROVE FALSE
      OBVIOUS
    <2>1. T \in SUBSET Nat
      OBVIOUS
    <2>2. PICK i \in T : \A y \in T : i <= y
      <3> HIDE DEF T
      <3> QED BY <2>1, LeastNumber
    <2>3. i \in 1 .. k /\ c[i] # d[i] /\ \A j \in 1 .. k : j < i => c[j] = d[j]
      <3>1. \A j \in 1 .. k : j < i => j \notin T
        BY <2>2
      <3> QED BY <2>2, <3>1
    <2> HIDE DEF T
    <2>4. CASE c[i] < d[i]
      <3>1. PICK j \in 1 .. k : d[j] = c[i]
        BY <1>4, <2>3
      <3>2. CASE j < i
        <4>1. c[j] < c[i] /\ c[j] = d[j]
          BY <1>3, <2>3, <3>2
        <4> QED BY <1>2, <2>3, <3>1, <4>1
      <3>3. CASE j = i
        BY <2>3, <3>1, <3>3
      <3>4. CASE i < j
        <4>1. d[i] < d[j]
          BY <1>3, <2>3, <3>4
        <4>2. d[i] \in Int /\ d[j] \in Int /\ c[i] \in Int
          BY <1>2, <2>3
        <4> QED BY ONLY <2>4, <3>1, <4>1, <4>2
      <3> QED BY <2>3, <3>2, <3>3, <3>4
    <2>5. CASE d[i] < c[i]
      <3>1. PICK j \in 1 .. k : c[j] = d[i]
        BY <1>4, <2>3
      <3>2. CASE j < i
        <4>1. d[j] < d[i] /\ c[j] = d[j]
          BY <1>3, <2>3, <3>2
        <4> QED BY <1>2, <2>3, <3>1, <4>1
      <3>3. CASE j = i
        BY <2>3, <3>1, <3>3
      <3>4. CASE i < j
        <4>1. c[i] < c[j]
          BY <1>3, <2>3, <3>4
        <4>2. c[i] \in Int /\ c[j] \in Int /\ d[i] \in Int
          BY <1>2, <2>3
        <4> QED BY ONLY <2>5, <3>1, <4>1, <4>2
      <3> QED BY <2>3, <3>2, <3>3, <3>4
    <2>6. c[i] < d[i] \/ d[i] < c[i]
      <3> DEFINE u == c[i]
                 v == d[i]
      <3>1. u \in Int /\ v \in Int /\ u # v
        BY <1>2, <2>3
      <3> HIDE DEF u, v
      <3>2. u < v \/ v < u
        BY <3>1
      <3> QED BY <3>2 DEF u, v
    <2> QED BY <2>4, <2>5, <2>6
  <1>6. \A i \in 1 .. k : c[i] = d[i]
    BY <1>5
  <1> QED BY <1>1, <1>6

\* The devices that a combination of indices picks from a list.
Picked(avail, c) == [y \in DOMAIN c |-> avail[c[y]]]

Picks(avail, k) == {Picked(avail, c) : c \in Rising(Len(avail), k)}

LEMMA PickedIs ==
  ASSUME NEW A, NEW avail \in Seq(A), Distinct(avail), NEW k \in Nat, NEW c \in Rising(Len(avail), k)
  PROVE  /\ Picked(avail, c) \in Seq(Range(avail)) /\ Len(Picked(avail, c)) = k /\ Distinct(Picked(avail, c))
         /\ DOMAIN Picked(avail, c) = 1 .. k
         /\ Range(Picked(avail, c)) = {avail[i] : i \in Range(c)}
         /\ Range(c) = {i \in DOMAIN avail : avail[i] \in Range(Picked(avail, c))}
  <1> DEFINE n == Len(avail)
             p == Picked(avail, c)
  <1>1. n \in Nat /\ DOMAIN avail = 1 .. n
    OBVIOUS
  <1>2. c \in Seq(1 .. n) /\ Len(c) = k /\ DOMAIN c = 1 .. k /\ Increasing(c)
    BY DEF Rising, Indices
  <1>3. \A y \in 1 .. k : c[y] \in DOMAIN avail
    BY <1>1, <1>2
  <1>4. Distinct(c)
    <2> HIDE DEF n
    <2> QED BY <1>1, <1>2, RisingDistinct
  <1>5. p = [y \in 1 .. k |-> avail[c[y]]]
    BY <1>2 DEF Picked
  <1>6. \A y \in 1 .. k : avail[c[y]] \in Range(avail)
    BY <1>3 DEF Range
  <1>7. p \in Seq(Range(avail)) /\ DOMAIN p = 1 .. k /\ Len(p) = k
    <2>1. [y \in 1 .. k |-> avail[c[y]]] \in Seq(Range(avail))
      BY <1>6, IsASeq
    <2>2. DOMAIN p = 1 .. k
      BY <1>5
    <2>3. p \in Seq(Range(avail))
      BY <1>5, <2>1
    <2> HIDE DEF p
    <2>4. Len(p) = k
      BY <2>2, <2>3
    <2> QED BY <2>2, <2>3, <2>4
  <1>8. Distinct(p)
    <2> SUFFICES ASSUME NEW x \in 1 .. k, NEW y \in 1 .. k, p[x] = p[y] PROVE x = y
      BY <1>7 DEF Distinct, IsInjective
    <2>1. avail[c[x]] = avail[c[y]]
      BY <1>5
    <2>2. c[x] = c[y]
      BY <1>3, <2>1 DEF Distinct, IsInjective
    <2> QED BY <1>2, <1>4, <2>2 DEF Distinct, IsInjective
  <1>9. \A i : i \in Range(c) <=> \E y \in 1 .. k : i = c[y]
    BY <1>2 DEF Range
  <1>10. \A d : d \in Range(p) <=> \E y \in 1 .. k : d = avail[c[y]]
    BY <1>5, <1>7 DEF Range
  <1>11. Range(p) = {avail[i] : i \in Range(c)}
    BY <1>9, <1>10
  <1>12. ASSUME NEW i \in DOMAIN avail PROVE avail[i] \in Range(p) <=> i \in Range(c)
    <2>1. ASSUME NEW y \in 1 .. k, avail[i] = avail[c[y]] PROVE i = c[y]
      BY <1>3, <2>1 DEF Distinct, IsInjective
    <2> QED BY <1>9, <1>10, <2>1
  <1>13. Range(c) \subseteq DOMAIN avail
    BY <1>3, <1>9
  <1>14. Range(c) = {i \in DOMAIN avail : avail[i] \in Range(p)}
    BY <1>12, <1>13
  <1> QED BY <1>7, <1>8, <1>11, <1>14

\* The picks are the sets of k devices, each once.
LEMMA PicksAre ==
  ASSUME NEW A, NEW avail \in Seq(A), Distinct(avail), NEW k \in Nat
  PROVE  /\ \A p \in Picks(avail, k) : /\ p \in Seq(Range(avail)) /\ Len(p) = k /\ IsFiniteSet(Range(p))
                                       /\ Range(p) \subseteq Range(avail) /\ Cardinality(Range(p)) = k
         /\ \A D \in SUBSET Range(avail) : Cardinality(D) = k => \E p \in Picks(avail, k) : Range(p) = D
         /\ \A p, q \in Picks(avail, k) : Range(p) = Range(q) => p = q
  <1> DEFINE n == Len(avail)
             B == Range(avail)
  <1>1. n \in Nat /\ DOMAIN avail = 1 .. n
    OBVIOUS
  <1>2. ASSUME NEW p \in Picks(avail, k)
        PROVE  /\ p \in Seq(B) /\ Len(p) = k /\ IsFiniteSet(Range(p))
               /\ Range(p) \subseteq B /\ Cardinality(Range(p)) = k
    <2>1. PICK c \in Rising(n, k) : p = Picked(avail, c)
      BY DEF Picks
    <2>2. p \in Seq(B) /\ Len(p) = k /\ Distinct(p)
      BY <2>1, PickedIs
    <2> HIDE DEF B
    <2>3. IsFiniteSet(Range(p)) /\ Cardinality(Range(p)) = k
      BY <2>2, DistinctSize
    <2>4. Range(p) \subseteq B
      BY <2>2 DEF Range
    <2> QED BY <2>2, <2>3, <2>4
  <1>3. ASSUME NEW D \in SUBSET B, Cardinality(D) = k PROVE \E p \in Picks(avail, k) : Range(p) = D
    <2> DEFINE T == {i \in 1 .. n : avail[i] \in D}
               f == [i \in T |-> avail[i]]
    <2>1. PICK c \in Seq(1 .. n) : Increasing(c) /\ Range(c) = T
      <3>1. T \in SUBSET (1 .. n)
        OBVIOUS
      <3> HIDE DEF T, n
      <3> QED BY <1>1, <3>1, RisingOf
    <2>2. f \in Bijection(T, D)
      <3>1. \A d \in D : \E i \in T : f[i] = d
        BY <1>1 DEF Range
      <3>2. \A i, j \in T : f[i] = f[j] => i = j
        BY <1>1 DEF Distinct, IsInjective
      <3>3. f \in [T -> D]
        OBVIOUS
      <3> HIDE DEF T, f
      <3> QED BY <3>1, <3>2, <3>3 DEF Bijection, Injection, Surjection, IsInjective
    <2>3. Distinct(c)
      <3> HIDE DEF n, T
      <3> QED BY <1>1, <2>1, RisingDistinct
    <2>4. IsFiniteSet(T) /\ Cardinality(T) = Len(c)
      <3> HIDE DEF n, T
      <3>1. IsFiniteSet(Range(c)) /\ Cardinality(Range(c)) = Len(c)
        BY <2>1, <2>3, DistinctSize
      <3> QED BY <2>1, <3>1
    <2>5. Cardinality(D) = Cardinality(T)
      <3> HIDE DEF T, f
      <3> QED BY <2>2, <2>4, FS_Bijection DEF ExistsBijection
    <2>6. Len(c) = k
      BY <1>3, <2>4, <2>5
    <2>7. c \in Rising(n, k)
      BY <2>1, <2>6 DEF Rising, Indices
    <2>8. Range(Picked(avail, c)) = {avail[i] : i \in T}
      <3> HIDE DEF T
      <3> QED BY <2>1, <2>7, PickedIs
    <2>9. {avail[i] : i \in T} = D
      BY <1>1 DEF Range
    <2> QED BY <2>7, <2>8, <2>9 DEF Picks
  <1>4. ASSUME NEW p \in Picks(avail, k), NEW q \in Picks(avail, k), Range(p) = Range(q) PROVE p = q
    <2>1. PICK c \in Rising(n, k) : p = Picked(avail, c)
      BY DEF Picks
    <2>2. PICK d \in Rising(n, k) : q = Picked(avail, d)
      BY DEF Picks
    <2>3. Range(c) = {i \in DOMAIN avail : avail[i] \in Range(p)}
      BY <2>1, PickedIs
    <2>4. Range(d) = {i \in DOMAIN avail : avail[i] \in Range(q)}
      BY <2>2, PickedIs
    <2>5. Range(c) = Range(d)
      BY <1>4, <2>3, <2>4
    <2>6. c = d
      <3> HIDE DEF n
      <3> QED BY <1>1, <2>5, RisingUnique
    <2> QED BY <2>1, <2>2, <2>6
  <1> QED BY <1>2, <1>3, <1>4

\* A pick for each of some sources.
Choosing(D, available, count) ==
  {c \in [D -> UNION {Picks(available[s], count[s]) : s \in D}] :
     \A s \in D : c[s] \in Picks(available[s], count[s])}

\* A choice with one more source, and one without it.
With(src, p, c) == Over([s \in {src} |-> p], c)
Without(D, g)   == [s \in D |-> g[s]]

LEMMA ChosenAre ==
  ASSUME NEW D, NEW available, NEW count, NEW c
  PROVE  c \in Choosing(D, available, count)
           <=> c = Without(D, c) /\ \A s \in D : c[s] \in Picks(available[s], count[s])
  <1> DEFINE P(s) == Picks(available[s], count[s])
             V == UNION {P(s) : s \in D}
  <1>1. Choosing(D, available, count) = {d \in [D -> V] : \A s \in D : d[s] \in P(s)}
    BY DEF Choosing
  <1>2. \A s \in D : \A x \in P(s) : x \in V
    OBVIOUS
  <1> HIDE DEF P, V
  <1>3. c \in Choosing(D, available, count) <=> c = [s \in D |-> c[s]] /\ \A s \in D : c[s] \in P(s)
    BY <1>1, <1>2
  <1> QED BY <1>3 DEF P, Without

LEMMA ChosenWith ==
  ASSUME NEW D, NEW available, NEW count, NEW src, src \notin D,
         NEW p \in Picks(available[src], count[src]), NEW c \in Choosing(D, available, count)
  PROVE  /\ With(src, p, c) \in Choosing(D \cup {src}, available, count)
         /\ With(src, p, c)[src] = p /\ c = Without(D, With(src, p, c))
  <1> DEFINE P(s) == Picks(available[s], count[s])
             E == D \cup {src}
             o == With(src, p, c)
  <1>1. c = Without(D, c) /\ \A s \in D : c[s] \in P(s)
    BY ChosenAre
  <1>2. p \in P(src)
    OBVIOUS
  <1> HIDE DEF P
  <1>3. o = [s \in {src} \cup D |-> IF s \in {src} THEN p ELSE c[s]]
    BY <1>1 DEF With, Without, Over
  <1>4. o = Without(E, o) /\ o[src] = p /\ \A s \in D : o[s] = c[s]
    BY <1>3 DEF Without
  <1> HIDE DEF o
  <1>5. \A s \in E : o[s] \in P(s)
    BY <1>1, <1>2, <1>4
  <1>6. c = Without(D, o)
    BY <1>1, <1>4 DEF Without
  <1>7. o \in Choosing(E, available, count)
    <2> HIDE DEF E
    <2> QED BY <1>4, <1>5, ChosenAre DEF P
  <1> QED BY <1>4, <1>6, <1>7 DEF o

LEMMA ChosenWithout ==
  ASSUME NEW D, NEW available, NEW count, NEW src, src \notin D,
         NEW g \in Choosing(D \cup {src}, available, count)
  PROVE  /\ g[src] \in Picks(available[src], count[src])
         /\ Without(D, g) \in Choosing(D, available, count)
         /\ g = With(src, g[src], Without(D, g))
  <1> DEFINE P(s) == Picks(available[s], count[s])
             E == D \cup {src}
             c == Without(D, g)
  <1>1. g = Without(E, g) /\ \A s \in E : g[s] \in P(s)
    <2> HIDE DEF E
    <2>1. g \in Choosing(E, available, count)
      BY DEF E
    <2> QED BY <2>1, ChosenAre
  <1> HIDE DEF P
  <1>2. c = Without(D, c) /\ \A s \in D : c[s] = g[s] /\ c[s] \in P(s)
    BY <1>1 DEF Without
  <1>3. c \in Choosing(D, available, count)
    BY <1>2, ChosenAre DEF P
  <1>4. With(src, g[src], c) = [s \in {src} \cup D |-> IF s \in {src} THEN g[src] ELSE g[s]]
    BY DEF With, Without, Over
  <1>5. With(src, g[src], c) = Without(E, g)
    BY <1>4 DEF Without
  <1> QED BY <1>1, <1>3, <1>5 DEF P

LEMMA PickedUnique ==
  ASSUME NEW A, NEW avail \in Seq(A), Distinct(avail), NEW k \in Nat,
         NEW c \in Rising(Len(avail), k), NEW d \in Rising(Len(avail), k), Picked(avail, c) = Picked(avail, d)
  PROVE  c = d
  <1>1. Range(c) = {i \in DOMAIN avail : avail[i] \in Range(Picked(avail, c))}
    BY PickedIs
  <1>2. Range(d) = {i \in DOMAIN avail : avail[i] \in Range(Picked(avail, d))}
    BY PickedIs
  <1>3. Range(c) = Range(d) /\ Len(avail) \in Nat
    BY <1>1, <1>2
  <1> QED BY <1>3, RisingUnique

LEMMA WidenLists ==
  ASSUME NEW available, NEW member, member.count \in Nat, member.count >= 1,
         NEW A, available[member.source] \in Seq(A), Distinct(available[member.source]),
         NEW D, member.source \notin D, NEW count, count[member.source] = member.count,
         NEW subs, Lists(subs, Choosing(D, available, count))
  PROVE  Lists(Widen(available, member, subs), Choosing(D \cup {member.source}, available, count))
  <1> DEFINE src    == member.source
             k      == member.count
             avail  == available[src]
             n      == Len(avail)
             chosen == chooseCombinations(n, k)
             One(p, c) == With(src, p, c)
             row(x) == [z \in DOMAIN subs |-> One(Picked(avail, chosen[x]), subs[z])]
             ss     == [x \in DOMAIN chosen |-> row(x)]
             C      == Choosing(D, available, count)
             C2     == Choosing(D \cup {src}, available, count)
             P      == Picks(avail, k)
  <1>1. avail \in Seq(A) /\ Distinct(avail) /\ n \in Nat /\ k \in Nat /\ k >= 1
    OBVIOUS
  <1>2. Lists(chosen, Rising(n, k))
    <2> HIDE DEF n, k
    <2> QED BY <1>1, ChooseLists
  <1>3. chosen \in Seq(Rising(n, k)) /\ Range(chosen) = Rising(n, k) /\ Distinct(chosen)
    BY <1>2 DEF Lists
  <1>4. subs \in Seq(C) /\ Range(subs) = C /\ Distinct(subs)
    BY DEF Lists
  <1>5. Widen(available, member, subs) = FlattenSeq(ss)
    BY DEF Widen, Picked, With
  <1>6. P = {Picked(avail, c) : c \in Rising(n, k)}
    BY DEF Picks
  <1>7. /\ \A p \in P : \A c \in C : One(p, c) \in C2 /\ One(p, c)[src] = p /\ c = Without(D, One(p, c))
        /\ \A g \in C2 : g[src] \in P /\ Without(D, g) \in C /\ g = One(g[src], Without(D, g))
    <2>1. P = Picks(available[src], count[src]) /\ src \notin D
      OBVIOUS
    <2> HIDE DEF P, src
    <2>2. ASSUME NEW p \in P, NEW c \in C
          PROVE  With(src, p, c) \in C2 /\ With(src, p, c)[src] = p /\ c = Without(D, With(src, p, c))
      BY <2>1, ChosenWith
    <2>3. ASSUME NEW g \in C2
          PROVE  g[src] \in P /\ Without(D, g) \in C /\ g = With(src, g[src], Without(D, g))
      BY <2>1, ChosenWithout
    <2> QED BY <2>2, <2>3
  <1>8. \A c, d \in Rising(n, k) : Picked(avail, c) = Picked(avail, d) => c = d
    <2> HIDE DEF avail, k
    <2> QED BY <1>1, PickedUnique DEF n
  <1> HIDE DEF chosen, C, C2, P, One, avail, n, k
  <1>9. /\ Len(chosen) \in Nat /\ DOMAIN chosen = 1 .. Len(chosen)
        /\ \A x \in DOMAIN chosen : chosen[x] \in Rising(n, k) /\ Picked(avail, chosen[x]) \in P
    BY <1>3, <1>6
  <1>10. Len(subs) \in Nat /\ DOMAIN subs = 1 .. Len(subs) /\ \A z \in DOMAIN subs : subs[z] \in C
    BY <1>4
  <1>11. ASSUME NEW x \in DOMAIN chosen
         PROVE  /\ row(x) \in Seq(C2) /\ Distinct(row(x))
                /\ \A g : g \in Range(row(x)) <=> \E z \in DOMAIN subs : g = One(Picked(avail, chosen[x]), subs[z])
    <2> DEFINE p == Picked(avail, chosen[x])
    <2>1. p \in P
      BY <1>9
    <2> HIDE DEF p
    <2> DEFINE r == [z \in DOMAIN subs |-> One(p, subs[z])]
    <2>2. r \in Seq(C2)
      BY <1>7, <1>10, <2>1
    <2>3. Distinct(r)
      <3> SUFFICES ASSUME NEW y \in DOMAIN subs, NEW z \in DOMAIN subs, One(p, subs[y]) = One(p, subs[z])
                   PROVE  y = z
        BY DEF Distinct, IsInjective
      <3>1. /\ subs[y] = Without(D, One(p, subs[y]))
            /\ subs[z] = Without(D, One(p, subs[z]))
        BY <1>7, <1>10, <2>1
      <3>2. subs[y] = subs[z]
        BY <3>1
      <3> QED BY <1>4, <3>2 DEF Distinct, IsInjective
    <2>4. \A g : g \in Range(r) <=> \E z \in DOMAIN subs : g = One(p, subs[z])
      BY DEF Range
    <2> QED BY <2>2, <2>3, <2>4 DEF p
  <1>12. \A x \in DOMAIN chosen : ss[x] = row(x)
    OBVIOUS
  <1> HIDE DEF row
  <1>13. ss \in Seq(Seq(C2)) /\ DOMAIN ss = DOMAIN chosen
    BY <1>9, <1>11
  <1> HIDE DEF ss
  <1>14. ASSUME NEW x \in DOMAIN ss, NEW y \in DOMAIN ss, NEW g \in Range(ss[x]), g \in Range(ss[y])
         PROVE  x = y
    <2>1. PICK z \in DOMAIN subs : g = One(Picked(avail, chosen[x]), subs[z])
      BY <1>11, <1>12, <1>13
    <2>2. PICK w \in DOMAIN subs : g = One(Picked(avail, chosen[y]), subs[w])
      BY <1>11, <1>12, <1>13, <1>14
    <2>3. g[src] = Picked(avail, chosen[x])
      BY <1>7, <1>9, <1>10, <1>13, <2>1
    <2>4. g[src] = Picked(avail, chosen[y])
      BY <1>7, <1>9, <1>10, <1>13, <2>2
    <2>5. chosen[x] = chosen[y]
      BY <1>8, <1>9, <1>13, <2>3, <2>4
    <2> QED BY <1>3, <1>13, <2>5 DEF Distinct, IsInjective
  <1>15. \A x, y \in DOMAIN ss : x # y => Range(ss[x]) \cap Range(ss[y]) = {}
    BY <1>14
  <1>16. \A x \in DOMAIN ss : Distinct(ss[x])
    BY <1>11, <1>12, <1>13
  <1>17. Distinct(FlattenSeq(ss))
    BY <1>13, <1>15, <1>16, FlattenApart
  <1>18. FlattenSeq(ss) \in Seq(C2) /\ Range(FlattenSeq(ss)) = UNION {Range(ss[x]) : x \in DOMAIN ss}
    BY <1>13, FlattenRange
  <1>19. Range(FlattenSeq(ss)) \subseteq C2
    BY <1>18 DEF Range
  <1>20. ASSUME NEW g \in C2 PROVE g \in UNION {Range(ss[x]) : x \in DOMAIN ss}
    <2>1. g[src] \in P /\ Without(D, g) \in C /\ g = One(g[src], Without(D, g))
      BY <1>7
    <2>2. PICK c \in Rising(n, k) : g[src] = Picked(avail, c)
      BY <1>6, <2>1
    <2>3. PICK x \in DOMAIN chosen : chosen[x] = c
      BY <1>3 DEF Range
    <2>4. PICK z \in DOMAIN subs : subs[z] = Without(D, g)
      BY <1>4, <2>1 DEF Range
    <2>5. g = One(Picked(avail, chosen[x]), subs[z])
      BY <2>1, <2>2, <2>3, <2>4
    <2>6. g \in Range(ss[x])
      BY <1>11, <1>12, <2>3, <2>4, <2>5
    <2> QED BY <1>13, <2>3, <2>6
  <1>21. Range(FlattenSeq(ss)) = C2
    BY <1>18, <1>19, <1>20
  <1>22. Lists(FlattenSeq(ss), C2)
    BY <1>17, <1>18, <1>21 DEF Lists
  <1> QED BY <1>5, <1>22 DEF C2

\* generateCombinations lists the choices for all the sources, each once,
\* when no source is listed twice.
LEMMA GenerateLists ==
  ASSUME NEW members, NEW available, members \in Seq(Range(members)), NEW A, NEW count,
         \A j \in DOMAIN members : members[j].count \in Nat /\ members[j].count >= 1,
         \A j \in DOMAIN members : /\ available[members[j].source] \in Seq(A)
                                   /\ Distinct(available[members[j].source])
                                   /\ count[members[j].source] = members[j].count,
         \A i, j \in DOMAIN members : i # j => members[i].source # members[j].source
  PROVE  Lists(generateCombinations(members, available),
               Choosing({members[j].source : j \in DOMAIN members}, available, count))
  <1> DEFINE n == Len(members)
             Rest(i) == {members[j].source : j \in (n - i + 1) .. n}
  <1>1. n \in Nat /\ DOMAIN members = 1 .. n
    OBVIOUS
  <1>2. \A i \in 1 .. n : n - i + 1 \in 1 .. n
    BY <1>1
  <1>3. PICK combos : /\ combos[0] = << <<>> >>
                      /\ \A i \in 1 .. n : combos[i] = Widen(available, members[n - i + 1], combos[i - 1])
                      /\ generateCombinations(members, available) = combos[n]
    <2>1. \A j \in DOMAIN members : available[members[j].source] \in Seq(Range(available[members[j].source]))
      BY SeqOfRange
    <2>2. \A j \in DOMAIN members : members[j].count \in Int
      OBVIOUS
    <2>3. LET N == Len(members)
          IN \E g : /\ g[0] = << <<>> >>
                    /\ \A i \in 1 .. N : g[i] = Widen(available, members[N - i + 1], g[i - 1])
                    /\ generateCombinations(members, available) = g[N]
      BY <2>1, <2>2, GenerateSteps
    <2> QED BY <2>3
  <1> DEFINE G == {i \in 0 .. n : Lists(combos[i], Choosing(Rest(i), available, count))}
  <1>4. 0 \in G
    <2>1. Rest(0) = {} /\ 0 \in 0 .. n
      BY <1>1
    <2>2. Choosing({}, available, count) = {<<>>}
      <3>1. << >> \in [{} -> UNION {Picks(available[s], count[s]) : s \in {}}]
        OBVIOUS
      <3>2. \A c \in [{} -> UNION {Picks(available[s], count[s]) : s \in {}}] : c = <<>>
        OBVIOUS
      <3> QED BY <3>1, <3>2 DEF Choosing
    <2>3. Lists(<< <<>> >>, {<<>>})
      BY RangeOfOne, DistinctOne DEF Lists
    <2> DEFINE e == << <<>> >>
               E == {<<>>}
    <2>4. combos[0] = e /\ Choosing(Rest(0), available, count) = E /\ Lists(e, E)
      <3>1. combos[0] = e
        BY <1>3
      <3>2. Choosing(Rest(0), available, count) = E
        <4> HIDE DEF Rest
        <4> QED BY <2>1, <2>2
      <3>3. Lists(e, E)
        BY <2>3
      <3> QED BY <3>1, <3>2, <3>3
    <2> HIDE DEF e, E, Rest
    <2>5. Lists(combos[0], Choosing(Rest(0), available, count))
      BY ONLY <2>4
    <2> QED BY <2>1, <2>5
  <1>5. ASSUME NEW i \in 1 .. n, i - 1 \in G PROVE i \in G
    <2> DEFINE m == members[n - i + 1]
    <2>1. i \in 0 .. n /\ n - i + 1 \in DOMAIN members
      BY <1>1, <1>2
    <2>2. combos[i] = Widen(available, m, combos[i - 1])
      BY <1>3
    <2>3. Lists(combos[i - 1], Choosing(Rest(i - 1), available, count))
      BY <1>5
    <2>4. Rest(i) = Rest(i - 1) \cup {m.source}
      <3>1. (n - i + 1) .. n = ((n - (i - 1) + 1) .. n) \cup {n - i + 1}
        BY <1>1
      <3> QED BY <3>1
    <2>5. m.source \notin Rest(i - 1)
      <3>1. \A j \in (n - (i - 1) + 1) .. n : j \in DOMAIN members /\ j # n - i + 1
        BY <1>1
      <3> QED BY <2>1, <3>1
    <2>6. /\ m.count \in Nat /\ m.count >= 1 /\ available[m.source] \in Seq(A) /\ Distinct(available[m.source])
          /\ count[m.source] = m.count
      BY <2>1
    <2> HIDE DEF m, Rest
    <2>7. Lists(Widen(available, m, combos[i - 1]), Choosing(Rest(i - 1) \cup {m.source}, available, count))
      BY <2>3, <2>5, <2>6, WidenLists
    <2> QED BY <2>1, <2>2, <2>4, <2>7
  <1>6. n \in G
    <2> HIDE DEF G, n
    <2>1. n \in Nat /\ n \in 0 .. n
      BY <1>1
    <2> QED BY <1>4, <1>5, <2>1, Steps
  <1>7. Rest(n) = {members[j].source : j \in DOMAIN members}
    <2>1. (n - n + 1) .. n = DOMAIN members
      BY <1>1
    <2> QED BY <2>1
  <1>8. Lists(combos[n], Choosing(Rest(n), available, count))
    BY <1>6
  <1> QED BY <1>3, <1>7, <1>8

----------------------------------------------------------------------------
(* Sorting                                                                 *)

\* Sorting keeps the devices, and how often each is listed.
LEMMA SortedLists ==
  ASSUME NEW S, NEW s, Lists(s, S), \A d \in S : ~Before(d, d)
  PROVE  Lists(Sorted(s), S)
  <1> DEFINE before(d) == {j \in DOMAIN s : Before(s[j], d)}
             At(i) == {d \in Range(s) : Cardinality(before(d)) = i - 1}
             ss == [i \in DOMAIN s |-> Keep(s, At(i))]
             n == Len(s)
  <1>0. s \in Seq(S) /\ Range(s) = S /\ Distinct(s)
    BY DEF Lists
  <1>1. Sorted(s) = FlattenSeq(ss)
    BY DEF Sorted
  <1>2. n \in Nat /\ DOMAIN s = 1 .. n
    BY <1>0
  <1>3. ASSUME NEW d \in S PROVE \E i \in DOMAIN s : d \in At(i)
    <2>1. PICK j \in DOMAIN s : s[j] = d
      BY <1>0 DEF Range
    <2> DEFINE B == before(d)
               N == 1 .. n
    <2>2. B \subseteq N \ {j} /\ j \in N
      BY <1>2, <2>1
    <2>3. IsFiniteSet(N) /\ Cardinality(N) = n
      <3> HIDE DEF n
      <3>1. 1 \in Int /\ n \in Int /\ (IF 1 > n THEN 0 ELSE n - 1 + 1) = n
        BY <1>2
      <3> QED BY <3>1, FS_Interval
    <2> HIDE DEF B, N
    <2>4. IsFiniteSet(N \ {j}) /\ Cardinality(N \ {j}) = n - 1
      BY <2>2, <2>3, FS_RemoveElement
    <2>5. IsFiniteSet(B) /\ Cardinality(B) <= n - 1
      BY <2>2, <2>4, FS_Subset
    <2>6. Cardinality(B) \in Nat
      BY <2>5, FS_CardinalityType
    <2>7. Cardinality(B) + 1 \in DOMAIN s
      BY <1>2, <2>5, <2>6
    <2>8. (Cardinality(B) + 1) - 1 = Cardinality(B)
      BY <2>6
    <2>9. d \in At(Cardinality(B) + 1)
      BY <1>0, <2>8 DEF B
    <2> QED BY <2>7, <2>9
  <1>4. ASSUME NEW i \in DOMAIN s, NEW j \in DOMAIN s, i # j PROVE At(i) \cap At(j) = {}
    <2>1. i - 1 # j - 1
      BY <1>2, <1>4
    <2> QED BY <2>1
  <1> HIDE DEF At
  <1>5. \A i \in DOMAIN s : /\ Keep(s, At(i)) \in Seq(S) /\ Range(Keep(s, At(i))) = S \cap At(i)
                            /\ Distinct(Keep(s, At(i)))
    BY <1>0, KeepRange, KeepDistinct
  <1>6. ss \in Seq(Seq(S)) /\ DOMAIN ss = DOMAIN s
    <2>1. ss \in [1 .. n -> Seq(S)] /\ n \in Nat
      BY <1>2, <1>5
    <2> HIDE DEF n
    <2> QED BY <1>2, <2>1
  <1>7. \A i \in DOMAIN ss : Range(ss[i]) = S \cap At(i) /\ Distinct(ss[i])
    BY <1>5, <1>6
  <1> HIDE DEF ss
  <1>8. FlattenSeq(ss) \in Seq(S) /\ Range(FlattenSeq(ss)) = UNION {Range(ss[i]) : i \in DOMAIN ss}
    BY <1>6, FlattenRange
  <1>9. UNION {Range(ss[i]) : i \in DOMAIN ss} = S
    BY <1>3, <1>6, <1>7
  <1>10. \A i, j \in DOMAIN ss : i # j => Range(ss[i]) \cap Range(ss[j]) = {}
    BY <1>4, <1>6, <1>7
  <1>11. Distinct(FlattenSeq(ss))
    BY <1>6, <1>7, <1>10, FlattenApart
  <1> QED BY <1>1, <1>8, <1>9, <1>11 DEF Lists

LEMMA NotBeforeItself ==
  ASSUME NEW e, e.name \in Seq(Nat)
  PROVE  ~Before(e, e)
  <1>1. Len(e.name) \in Nat /\ \A i \in DOMAIN e.name : e.name[i] \in Nat
    OBVIOUS
  <1>2. \A i \in DOMAIN e.name \cap DOMAIN e.name : ~(e.name[i] < e.name[i])
    BY <1>1
  <1>3. ~(Len(e.name) < Len(e.name))
    BY <1>1
  <1> QED BY <1>2, <1>3 DEF Before

\* A name is a sequence of numbers.
LEMMA JoinedNameType ==
  ASSUME NEW S, NEW members \in Seq([source : S, dev : Dev]), NameParts \in Nat
  PROVE  joinedName(members) \in Seq(Nat)
  <1> DEFINE n == Min({Len(members), NameParts})
  <1>1. n \in Nat /\ n <= Len(members)
    <2>1. Len(members) \in Nat
      OBVIOUS
    <2> DEFINE x == IF Len(members) <= NameParts THEN Len(members) ELSE NameParts
    <2>2. /\ x \in {Len(members), NameParts} /\ {Len(members), NameParts} \subseteq Int
          /\ \A y \in {Len(members), NameParts} : x <= y
      BY <2>1
    <2> HIDE DEF x
    <2>3. n = x
      <3> DEFINE S2 == {Len(members), NameParts}
      <3>1. S2 \subseteq Int /\ x \in S2 /\ \A y \in S2 : x <= y
        BY <2>2
      <3> HIDE DEF S2
      <3>2. Min(S2) = x
        BY ONLY <3>1, MinIs
      <3> QED BY <3>2 DEF S2, n
    <2> QED BY <2>1, <2>2, <2>3
  <1> HIDE DEF n
  <1>2. \A i \in 1 .. n : DevName[members[i].dev] \in Nat
    <2>1. \A i \in 1 .. n : i \in DOMAIN members
      BY <1>1
    <2> DEFINE M == [source : S, dev : Dev]
    <2>2. \A i \in DOMAIN members : members[i] \in M
      <3>1. members \in Seq(M)
        OBVIOUS
      <3> HIDE DEF M
      <3> QED BY <3>1
    <2>3. \A m \in M : m.dev \in Dev
      OBVIOUS
    <2> QED BY <2>1, <2>2, <2>3, PairerAssumption
  <1>3. joinedName(members) = [i \in 1 .. n |-> DevName[members[i].dev]]
    BY DEF joinedName, n
  <1> QED BY <1>1, <1>2, <1>3

----------------------------------------------------------------------------
(* The devices of a selection                                              *)

Used(S, c) == UNION {Range(c[s]) : s \in S}

\* Selections of different devices are built into different composite
\* devices, all of which sorting keeps.
LEMMA BuildLists ==
  ASSUME NEW comp, comp.members \in Seq(Range(comp.members)), NameParts \in Nat,
         NEW C, C \subseteq Combo(comp), NEW combos, Lists(combos, C),
         \A c, d \in C : Used(MemberSources(comp), c) = Used(MemberSources(comp), d) => c = d
  PROVE  Lists(Build(comp, combos), {buildCompositeDevice(comp, c) : c \in C})
  <1> DEFINE build(c) == buildCompositeDevice(comp, c)
             E == {build(c) : c \in C}
             s == [i \in DOMAIN combos |-> build(combos[i])]
  <1>1. combos \in Seq(C) /\ Range(combos) = C /\ Distinct(combos)
    BY DEF Lists
  <1>2. Build(comp, combos) = Sorted(s)
    BY DEF Build
  <1>3. ASSUME NEW c \in C PROVE DevsOf(build(c)) = Used(MemberSources(comp), c) /\ ~Before(build(c), build(c))
    <2>1. c \in Combo(comp)
      OBVIOUS
    <2>2. /\ build(c) = [comp |-> comp.name, members |-> build(c).members, name |-> joinedName(build(c).members),
                         numa |-> detectNUMANode(c), rail |-> 0]
          /\ build(c).members \in Seq([source : MemberSources(comp), dev : Dev])
          /\ DevsOf(build(c)) = UNION {Range(c[z]) : z \in MemberSources(comp)}
      BY <2>1, BuiltShape
    <2>3. build(c).name = joinedName(build(c).members)
      <3> DEFINE e == build(c)
      <3> HIDE DEF build
      <3> QED BY <2>2
    <2>4. build(c).name \in Seq(Nat)
      <3> HIDE DEF build
      <3> QED BY <2>2, <2>3, JoinedNameType
    <2> HIDE DEF build
    <2> QED BY <2>2, <2>4, NotBeforeItself DEF Used
  <1> HIDE DEF build
  <1>4. \A c, d \in C : build(c) = build(d) => c = d
    BY <1>3
  <1>5. Lists(s, E)
    <2>1. /\ Len(combos) \in Nat /\ DOMAIN combos = 1 .. Len(combos)
          /\ \A i \in DOMAIN combos : combos[i] \in C
      BY <1>1
    <2>2. \A i \in DOMAIN combos : build(combos[i]) \in E
      BY <2>1
    <2>3. s \in Seq(E)
      <3> HIDE DEF E
      <3> QED BY <2>1, <2>2
    <2>4. Range(s) = E
      BY <1>1 DEF Range
    <2>5. Distinct(s)
      BY <1>1, <1>4, <2>1 DEF Distinct, IsInjective
    <2> QED BY <2>3, <2>4, <2>5 DEF Lists
  <1>6. \A e \in E : ~Before(e, e)
    BY <1>3
  <1>7. Lists(Sorted(s), E)
    <2> HIDE DEF s, E
    <2> QED BY <1>5, <1>6, SortedLists
  <1> QED BY <1>2, <1>7 DEF build

\* What the lists of sources that a selection is made from must be like.
Separate(S, available) ==
  /\ \A s \in S : available[s] \in Seq(Dev) /\ Distinct(available[s])
  /\ \A s, t \in S : s # t => Range(available[s]) \cap Range(available[t]) = {}

\* Sets of devices with as many of each source as the composition counts.
Counted(S, available, count) ==
  {D \in SUBSET UNION {Range(available[s]) : s \in S} :
     \A s \in S : Cardinality(D \cap Range(available[s])) = count[s]}

LEMMA UsedBySource ==
  ASSUME NEW S, NEW available, Separate(S, available), NEW count, \A s \in S : count[s] \in Nat,
         NEW c \in Choosing(S, available, count)
  PROVE  /\ Used(S, c) \in Counted(S, available, count)
         /\ \A s \in S : Used(S, c) \cap Range(available[s]) = Range(c[s])
  <1>1. \A s \in S : c[s] \in Picks(available[s], count[s])
    BY ChosenAre
  <1>2. ASSUME NEW s \in S
        PROVE  Range(c[s]) \subseteq Range(available[s]) /\ Cardinality(Range(c[s])) = count[s]
    BY <1>1, PicksAre DEF Separate
  <1>3. \A s \in S : Used(S, c) \cap Range(available[s]) = Range(c[s])
    <2>1. \A s, t \in S : s # t => Range(available[s]) \cap Range(available[t]) = {}
      BY DEF Separate
    <2> DEFINE R(s) == Range(available[s])
               Q(s) == Range(c[s])
    <2>2. (\A s, t \in S : s # t => R(s) \cap R(t) = {}) /\ (\A s \in S : Q(s) \subseteq R(s))
      BY <1>2, <2>1
    <2> HIDE DEF R, Q
    <2>3. \A s \in S : (UNION {Q(t) : t \in S}) \cap R(s) = Q(s)
      BY <2>2
    <2> QED BY <2>3 DEF R, Q, Used
  <1>4. Used(S, c) \subseteq UNION {Range(available[s]) : s \in S}
    BY <1>2 DEF Used
  <1> QED BY <1>2, <1>3, <1>4 DEF Counted

\* A selection is told by its devices.
LEMMA UsedOnce ==
  ASSUME NEW S, NEW available, Separate(S, available), NEW count, \A s \in S : count[s] \in Nat,
         NEW c \in Choosing(S, available, count), NEW d \in Choosing(S, available, count),
         Used(S, c) = Used(S, d)
  PROVE  c = d
  <1>1. /\ c = [s \in S |-> c[s]] /\ d = [s \in S |-> d[s]]
        /\ \A s \in S : c[s] \in Picks(available[s], count[s]) /\ d[s] \in Picks(available[s], count[s])
    BY ChosenAre DEF Without
  <1>2. \A s \in S : Range(c[s]) = Range(d[s])
    <2>1. \A s \in S : Used(S, c) \cap Range(available[s]) = Range(c[s])
      BY UsedBySource
    <2>2. \A s \in S : Used(S, d) \cap Range(available[s]) = Range(d[s])
      BY UsedBySource
    <2> QED BY <2>1, <2>2
  <1>3. ASSUME NEW s \in S PROVE c[s] = d[s]
    BY <1>1, <1>2, PicksAre DEF Separate
  <1> QED BY <1>1, <1>3

\* Every set of devices of the right numbers is selected.
LEMMA UsedAll ==
  ASSUME NEW S, NEW available, Separate(S, available), NEW count, \A s \in S : count[s] \in Nat,
         NEW D \in Counted(S, available, count)
  PROVE  \E c \in Choosing(S, available, count) : Used(S, c) = D
  <1> DEFINE R(s) == Range(available[s])
             Of(s) == D \cap R(s)
             P(s) == Picks(available[s], count[s])
             c == [s \in S |-> CHOOSE p \in P(s) : Range(p) = Of(s)]
  <1>1. D \subseteq UNION {R(s) : s \in S} /\ \A s \in S : Cardinality(Of(s)) = count[s]
    BY DEF Counted
  <1>2. ASSUME NEW s \in S PROVE \E p \in P(s) : Range(p) = Of(s)
    <2>1. Of(s) \in SUBSET R(s) /\ Cardinality(Of(s)) = count[s]
      BY <1>1
    <2> HIDE DEF Of
    <2> QED BY <2>1, PicksAre DEF Separate
  <1> HIDE DEF P
  <1>3. \A s \in S : c[s] \in P(s) /\ Range(c[s]) = Of(s)
    <2> HIDE DEF Of
    <2> QED BY <1>2
  <1>4. c = [s \in S |-> c[s]]
    OBVIOUS
  <1> HIDE DEF c
  <1>5. c \in Choosing(S, available, count)
    BY <1>3, <1>4, ChosenAre DEF P, Without
  <1>6. Used(S, c) = D
    <2>1. Used(S, c) = UNION {Of(s) : s \in S}
      BY <1>3 DEF Used
    <2> QED BY <1>1, <2>1
  <1> QED BY <1>5, <1>6

----------------------------------------------------------------------------
(* All devices of an automatic composition                                 *)

\* An automatic composition that lists no source twice.
AutoOnce(comp) ==
  /\ PairedComposition(comp) /\ comp.mode # "explicit" /\ comp.members # <<>>
  /\ \A i, j \in DOMAIN comp.members : i # j => comp.members[i].source # comp.members[j].source

LEMMA OnceCount ==
  ASSUME NEW comp, AutoOnce(comp), NEW j \in DOMAIN comp.members
  PROVE  /\ Sizes(comp)[comp.members[j].source] = comp.members[j].count
         /\ comp.members[j].count \in Nat \ {0}
  <1> DEFINE n == Len(comp.members)
             s == comp.members[j].source
             listed == {l \in 1 .. n : comp.members[l].source = s}
  <1>1. n \in Nat /\ DOMAIN comp.members = 1 .. n /\ j \in 1 .. n
    BY DEF AutoOnce, PairedComposition, TypedComposition
  <1>2. listed = {j}
    BY <1>1 DEF AutoOnce
  <1>3. Min(listed) = j
    <2> HIDE DEF listed
    <2>1. listed \subseteq Int /\ j \in listed /\ \A l \in listed : j <= l
      BY <1>1, <1>2
    <2> QED BY ONLY <2>1, MinIs
  <1>4. s \in {comp.members[l].source : l \in 1 .. n}
    BY <1>1
  <1>5. Firsts(comp.members, 1)[s] = comp.members[Min(listed)].count
    BY <1>4 DEF Firsts
  <1>6. Sizes(comp) = Firsts(comp.members, 1)
    BY DEF Sizes, AutoOnce
  <1>7. comp.members[j].count \in Int /\ comp.members[j].count >= 1
    BY DEF AutoOnce, PairedComposition, TypedComposition
  <1>8. Sizes(comp)[s] = comp.members[j].count
    <2> HIDE DEF s, listed
    <2> QED BY <1>3, <1>5, <1>6
  <1> QED BY <1>7, <1>8

LEMMA OnceSizes ==
  ASSUME NEW comp, AutoOnce(comp)
  PROVE  \A s \in MemberSources(comp) : Sizes(comp)[s] \in Nat \ {0}
  <1>1. ASSUME NEW s \in MemberSources(comp) PROVE Sizes(comp)[s] \in Nat \ {0}
    <2>1. PICK j \in DOMAIN comp.members : s = comp.members[j].source
      BY DEF MemberSources
    <2> QED BY <2>1, OnceCount
  <1> QED BY <1>1

\* generateCombinations lists each selection once.
LEMMA GenerateOnce ==
  ASSUME NEW comp, AutoOnce(comp), NEW available, Separate(MemberSources(comp), available)
  PROVE  LET C == Choosing(MemberSources(comp), available, Sizes(comp))
         IN Lists(generateCombinations(comp.members, available), C) /\ C \subseteq Combo(comp)
  <1> DEFINE S == MemberSources(comp)
             C == Choosing(S, available, Sizes(comp))
             count == Sizes(comp)
             members == comp.members
  <1>1. members \in Seq(Range(members))
    BY DEF AutoOnce, PairedComposition, TypedComposition
  <1>2. \A j \in DOMAIN members : members[j].source \in S
    BY DEF MemberSources
  <1>3. \A j \in DOMAIN members :
          /\ members[j].count \in Nat /\ members[j].count >= 1
          /\ available[members[j].source] \in Seq(Dev) /\ Distinct(available[members[j].source])
          /\ count[members[j].source] = members[j].count
    <2>1. ASSUME NEW j \in DOMAIN members
          PROVE  members[j].count \in Nat \ {0} /\ count[members[j].source] = members[j].count
      BY OnceCount
    <2> HIDE DEF count
    <2> QED BY <1>2, <2>1 DEF Separate
  <1>4. \A i, j \in DOMAIN members : i # j => members[i].source # members[j].source
    BY DEF AutoOnce
  <1>5. S = {members[j].source : j \in DOMAIN members}
    BY DEF MemberSources
  <1>6. Lists(generateCombinations(members, available), C)
    <2> HIDE DEF members, count
    <2>1. Lists(generateCombinations(members, available),
                Choosing({members[j].source : j \in DOMAIN members}, available, count))
      BY <1>1, <1>3, <1>4, GenerateLists
    <2> QED BY <1>5, <2>1 DEF count
  <1>7. ASSUME NEW c \in C PROVE c \in Combo(comp)
    <2>1. c = [s \in S |-> c[s]] /\ \A s \in S : c[s] \in Picks(available[s], count[s])
      BY ChosenAre DEF Without
    <2>2. ASSUME NEW s \in S PROVE c[s] \in Seq(Dev) /\ Len(c[s]) = count[s]
      <3>1. available[s] \in Seq(Dev) /\ Distinct(available[s]) /\ count[s] \in Nat
        BY OnceSizes DEF Separate
      <3>2. c[s] \in Seq(Range(available[s])) /\ Len(c[s]) = count[s]
        BY <2>1, <3>1, PicksAre
      <3>3. Range(available[s]) \subseteq Dev
        BY <3>1 DEF Range
      <3> QED BY <3>2, <3>3, SeqMonotonic
    <2> HIDE DEF S, C
    <2>3. c \in [S -> Seq(Dev)]
      BY <2>1, <2>2
    <2> QED BY <2>2, <2>3 DEF Combo, S
  <1> QED BY <1>6, <1>7

LEMMA SingleLists ==
  ASSUME NEW comp, AutoOnce(comp), NameParts \in Nat, NEW bySource, Separate(MemberSources(comp), bySource)
  PROVE  Lists(pairSingleSource(comp, bySource),
               {buildCompositeDevice(comp, c) : c \in Choosing(MemberSources(comp), bySource, Sizes(comp))})
  <1> DEFINE C == Choosing(MemberSources(comp), bySource, Sizes(comp))
             combos == generateCombinations(comp.members, bySource)
  <1>1. Lists(combos, C) /\ C \subseteq Combo(comp)
    BY GenerateOnce
  <1>2. \A c, d \in C : Used(MemberSources(comp), c) = Used(MemberSources(comp), d) => c = d
    BY OnceSizes, UsedOnce
  <1>3. comp.members \in Seq(Range(comp.members))
    BY DEF AutoOnce, PairedComposition, TypedComposition
  <1>4. pairSingleSource(comp, bySource) = Build(comp, combos)
    BY DEF pairSingleSource
  <1> HIDE DEF C, combos
  <1>5. Lists(Build(comp, combos), {buildCompositeDevice(comp, c) : c \in C})
    BY <1>1, <1>2, <1>3, BuildLists
  <1> QED BY <1>4, <1>5 DEF C

LEMMA SetToSeqLists ==
  ASSUME NEW T, IsFiniteSet(T)
  PROVE  Lists(SetToSeq(T), T)
  <1> DEFINE n == Cardinality(T)
             s == SetToSeq(T)
  <1>1. n \in Nat /\ ExistsBijection(1 .. n, T)
    BY FS_CardinalityType
  <1>2. \E f \in [1 .. n -> T] : IsInjective(f)
    BY <1>1 DEF ExistsBijection, Bijection, Injection
  <1>3. s \in [1 .. n -> T] /\ IsInjective(s)
    BY <1>2 DEF SetToSeq
  <1> HIDE DEF n, s
  <1>4. s \in Seq(T) /\ Len(s) = n /\ Distinct(s)
    BY <1>1, <1>3 DEF Distinct
  <1>5. IsFiniteSet(Range(s)) /\ Cardinality(Range(s)) = n
    BY <1>4, DistinctSize
  <1>6. Range(s) \subseteq T
    BY <1>4 DEF Range
  <1>7. Range(s) = T
    BY <1>5, <1>6, FS_Subset DEF n
  <1> QED BY <1>4, <1>7 DEF Lists, s

\* The devices of a source in a group are the ones with the group's value.
LEMMA GroupIs ==
  ASSUME NEW comp, AutoOnce(comp), NEW bySource, NEW val,
         NEW s \in MemberSources(comp), bySource[s] \in Seq(Dev), Distinct(bySource[s])
  PROVE  LET g == group(comp, bySource, val)[s]
         IN /\ g \in Seq(Dev) /\ Distinct(g)
            /\ Range(g) = Range(bySource[s]) \cap Sharing(comp.constraints[1].attribute, val)
  <1> DEFINE a == comp.constraints[1].attribute
             V == Sharing(a, val)
             members == comp.members
             M == {m \in Range(members) : m.source = s}
             same == Keep(members, M)
             one == Keep(bySource[s], V)
             ss == [j \in DOMAIN same |-> one]
  <1>1. group(comp, bySource, val)[s] = FlattenSeq(ss)
    BY DEF group, Sharing
  <1>2. members \in Seq(Range(members)) /\ \A i, j \in DOMAIN members : i # j => members[i].source # members[j].source
    BY DEF AutoOnce, PairedComposition, TypedComposition
  <1>3. one \in Seq(Dev) /\ Range(one) = Range(bySource[s]) \cap V /\ Distinct(one)
    <2> HIDE DEF V
    <2> QED BY KeepRange, KeepDistinct
  <1>4. PICK j \in DOMAIN members : members[j].source = s
    BY DEF MemberSources
  <1>5. M = {members[j]}
    BY <1>2, <1>4 DEF Range
  <1>6. Distinct(members)
    BY <1>2 DEF Distinct, IsInjective
  <1>7. M \subseteq Range(members)
    OBVIOUS
  <1> HIDE DEF M, members
  <1>8. same \in Seq(Range(members)) /\ Range(same) = M /\ Distinct(same)
    <2>1. same \in Seq(Range(members)) /\ Range(same) = Range(members) \cap M
      BY <1>2, KeepRange
    <2>2. Distinct(same)
      BY <1>2, <1>6, KeepDistinct
    <2> QED BY <1>7, <2>1, <2>2
  <1> HIDE DEF same, one, V
  <1>9. Len(same) = 1 /\ DOMAIN same = 1 .. 1
    <2>1. Cardinality(Range(same)) = Len(same)
      BY <1>8, DistinctSize
    <2>2. Cardinality({members[j]}) = 1
      BY FS_Singleton
    <2>3. Len(same) = 1
      BY <1>5, <1>8, <2>1, <2>2
    <2> QED BY <1>8, <2>3
  <1>10. ss \in Seq(Seq(Dev)) /\ DOMAIN ss = {1} /\ ss[1] = one
    <2>1. ss \in [1 .. 1 -> Seq(Dev)]
      BY <1>3, <1>9
    <2> QED BY <1>9, <2>1
  <1> HIDE DEF ss
  <1>11. FlattenSeq(ss) \in Seq(Dev) /\ Range(FlattenSeq(ss)) = UNION {Range(ss[l]) : l \in DOMAIN ss}
    BY <1>10, FlattenRange
  <1>12. Range(FlattenSeq(ss)) = Range(one)
    BY <1>10, <1>11
  <1>13. Distinct(FlattenSeq(ss))
    BY <1>3, <1>10, FlattenApart
  <1> QED BY <1>1, <1>3, <1>11, <1>12, <1>13 DEF V

\* The values that a constraint's attribute has, and the selections that
\* share one.
Values(a) == {TextOf(d, a) : d \in {e \in Dev : HasText(e, a)}}

Grouped(comp, bySource, val) ==
  Choosing(MemberSources(comp), group(comp, bySource, val), Sizes(comp))

LEMMA GroupSeparate ==
  ASSUME NEW comp, AutoOnce(comp), NEW bySource, Separate(MemberSources(comp), bySource), NEW val
  PROVE  Separate(MemberSources(comp), group(comp, bySource, val))
  <1> DEFINE g == group(comp, bySource, val)
             S == MemberSources(comp)
  <1>1. ASSUME NEW s \in S PROVE g[s] \in Seq(Dev) /\ Distinct(g[s]) /\ Range(g[s]) \subseteq Range(bySource[s])
    BY GroupIs DEF Separate
  <1>2. \A s, t \in S : s # t => Range(bySource[s]) \cap Range(bySource[t]) = {}
    BY DEF Separate
  <1> HIDE DEF g, S
  <1>3. \A s, t \in S : s # t => Range(g[s]) \cap Range(g[t]) = {}
    BY <1>1, <1>2
  <1>4. Separate(S, g)
    BY <1>1, <1>3 DEF Separate
  <1> QED BY <1>4 DEF S, g

\* The devices of a selection share its value, and there are some.
LEMMA GroupedShare ==
  ASSUME NEW comp, AutoOnce(comp), NEW bySource, Separate(MemberSources(comp), bySource), NEW val,
         NEW c \in Grouped(comp, bySource, val)
  PROVE  /\ Used(MemberSources(comp), c) \subseteq Sharing(comp.constraints[1].attribute, val)
         /\ Used(MemberSources(comp), c) # {}
  <1> DEFINE g == group(comp, bySource, val)
             S == MemberSources(comp)
             D == Used(S, c)
  <1>1. Separate(S, g) /\ c \in Choosing(S, g, Sizes(comp)) /\ \A s \in S : Sizes(comp)[s] \in Nat \ {0}
    BY GroupSeparate, OnceSizes DEF Grouped
  <1>2. \A s \in S : Range(g[s]) \subseteq Sharing(comp.constraints[1].attribute, val)
    BY GroupIs DEF Separate
  <1>3. PICK s \in S : TRUE
    <2>1. comp.members \in Seq(Range(comp.members)) /\ comp.members # <<>>
      BY DEF AutoOnce, PairedComposition, TypedComposition
    <2>2. 1 \in DOMAIN comp.members
      BY <2>1
    <2> QED BY <2>2 DEF MemberSources
  <1> HIDE DEF g, S
  <1>4. D \in Counted(S, g, Sizes(comp))
    BY <1>1, UsedBySource
  <1>5. D \subseteq UNION {Range(g[t]) : t \in S} /\ Cardinality(D \cap Range(g[s])) = Sizes(comp)[s]
    BY <1>4 DEF Counted
  <1>6. D \cap Range(g[s]) # {}
    BY <1>1, <1>5, FS_EmptySet
  <1> QED BY <1>2, <1>5, <1>6 DEF S, D

LEMMA SharingOne ==
  ASSUME NEW a, NEW v, NEW w, NEW D, D # {}, D \subseteq Sharing(a, v), D \subseteq Sharing(a, w)
  PROVE  v = w
  BY DEF Sharing

\* pairWithMatchAttribute gives the devices of all groups, each one once.
LEMMA MatchLists ==
  ASSUME NEW comp, AutoOnce(comp), NameParts \in Nat, NEW bySource, Separate(MemberSources(comp), bySource)
  PROVE  LET vals == Values(comp.constraints[1].attribute)
         IN Lists(pairWithMatchAttribute(comp, bySource),
                  {buildCompositeDevice(comp, c) : c \in UNION {Grouped(comp, bySource, v) : v \in vals}})
  <1> DEFINE a == comp.constraints[1].attribute
             has == {d \in Dev : HasText(d, a)}
             vals == Values(a)
             S == MemberSources(comp)
             Of(v) == generateCombinations(comp.members, group(comp, bySource, v))
             Sel(v) == Grouped(comp, bySource, v)
             T == {Of(v) : v \in vals}
             C == UNION {Sel(v) : v \in vals}
             combos == FlattenSeq(SetToSeq(T))
  <1>1. IsFiniteSet(T)
    <2>1. IsFiniteSet(has)
      <3>1. has \subseteq Dev
        OBVIOUS
      <3> QED BY <3>1, PairerAssumption, FS_Subset
    <2> DEFINE f == [d \in has |-> Of(TextOf(d, a))]
    <2>2. f \in [has -> T] /\ \A t \in T : \E d \in has : f[d] = t
      <3> HIDE DEF Of
      <3> QED BY DEF Values
    <2> HIDE DEF f, T, has
    <2> QED BY <2>1, <2>2, FiniteImage
  <1>2. pairWithMatchAttribute(comp, bySource) = Build(comp, combos)
    BY DEF pairWithMatchAttribute, Values
  <1>3. ASSUME NEW v PROVE Lists(Of(v), Sel(v)) /\ Sel(v) \subseteq Combo(comp)
    BY GroupSeparate, GenerateOnce DEF Grouped
  <1>4. ASSUME NEW v, NEW c \in Sel(v) PROVE Used(S, c) \subseteq Sharing(a, v) /\ Used(S, c) # {}
    BY GroupedShare
  <1>5. ASSUME NEW v, NEW c \in Sel(v), NEW d \in Sel(v), Used(S, c) = Used(S, d) PROVE c = d
    <2>1. \A s \in S : Sizes(comp)[s] \in Nat
      BY OnceSizes
    <2> QED BY <1>5, <2>1, GroupSeparate, UsedOnce DEF Grouped
  <1> HIDE DEF Of, Sel, vals
  <1>6. ASSUME NEW v, NEW w, NEW c \in Sel(v), NEW d \in Sel(w), Used(S, c) = Used(S, d) PROVE c = d /\ v = w
    <2> DEFINE D == Used(S, c)
    <2>1. D # {} /\ D \subseteq Sharing(a, v) /\ D \subseteq Sharing(a, w)
      BY <1>4, <1>6
    <2> HIDE DEF D, a
    <2>2. v = w
      BY ONLY <2>1, SharingOne
    <2> QED BY <1>5, <1>6, <2>2
  <1>7. Lists(combos, C)
    <2> DEFINE ts == SetToSeq(T)
    <2>1. ts \in Seq(T) /\ Range(ts) = T /\ Distinct(ts)
      <3> HIDE DEF T
      <3> QED BY <1>1, SetToSeqLists DEF Lists
    <2>2. ASSUME NEW t \in T PROVE \E v \in vals : Lists(t, Sel(v)) /\ t = Of(v)
      BY <1>3
    <2>3. \A t \in T : t \in Seq(C) /\ Distinct(t)
      <3>1. ASSUME NEW t \in T PROVE t \in Seq(C) /\ Distinct(t)
        <4>1. PICK v \in vals : Lists(t, Sel(v))
          BY <2>2
        <4>2. t \in Seq(Sel(v)) /\ Distinct(t) /\ Sel(v) \subseteq C
          BY <4>1 DEF Lists
        <4> HIDE DEF C
        <4> QED BY <4>2, SeqMonotonic
      <3> QED BY <3>1
    <2>4. ASSUME NEW t \in T, NEW u \in T, t # u PROVE Range(t) \cap Range(u) = {}
      <3>1. PICK v \in vals : Lists(t, Sel(v)) /\ t = Of(v)
        BY <2>2
      <3>2. PICK w \in vals : Lists(u, Sel(w)) /\ u = Of(w)
        BY <2>2
      <3>3. v # w /\ Range(t) = Sel(v) /\ Range(u) = Sel(w)
        BY <2>4, <3>1, <3>2 DEF Lists
      <3> QED BY <1>6, <3>3
    <2>5. UNION {Range(t) : t \in T} = C
      <3>1. \A v \in vals : Range(Of(v)) = Sel(v)
        BY <1>3 DEF Lists
      <3> QED BY <3>1
    <2> HIDE DEF T, C, ts
    <2>6. ts \in Seq(Seq(C))
      <3>1. T \subseteq Seq(C)
        BY <2>3
      <3> QED BY <2>1, <3>1, SeqMonotonic
    <2>7. \A i \in DOMAIN ts : ts[i] \in T
      BY <2>1
    <2>8. \A i \in DOMAIN ts : Distinct(ts[i])
      BY <2>3, <2>7
    <2>9. \A i, j \in DOMAIN ts : i # j => Range(ts[i]) \cap Range(ts[j]) = {}
      <3>1. \A i, j \in DOMAIN ts : i # j => ts[i] # ts[j]
        BY <2>1 DEF Distinct, IsInjective
      <3> QED BY <2>4, <2>7, <3>1
    <2>10. Distinct(FlattenSeq(ts))
      BY <2>6, <2>8, <2>9, FlattenApart
    <2>11. FlattenSeq(ts) \in Seq(C) /\ Range(FlattenSeq(ts)) = UNION {Range(ts[i]) : i \in DOMAIN ts}
      BY <2>6, FlattenRange
    <2>12. UNION {Range(ts[i]) : i \in DOMAIN ts} = UNION {Range(t) : t \in T}
      <3>1. \A t \in T : \E i \in DOMAIN ts : ts[i] = t
        BY <2>1 DEF Range
      <3> QED BY <2>7, <3>1
    <2> QED BY <2>5, <2>10, <2>11, <2>12 DEF Lists, ts
  <1>8. \A c, d \in C : Used(S, c) = Used(S, d) => c = d
    BY <1>6
  <1>9. C \subseteq Combo(comp)
    BY <1>3
  <1>10. comp.members \in Seq(Range(comp.members))
    BY DEF AutoOnce, PairedComposition, TypedComposition
  <1> HIDE DEF C, combos
  <1>11. Lists(Build(comp, combos), {buildCompositeDevice(comp, c) : c \in C})
    BY <1>7, <1>8, <1>9, <1>10, BuildLists
  <1> QED BY <1>2, <1>11 DEF C, Sel, vals

\* The devices that pass the filter, in lists that are as separate as
\* before.
LEMMA FilteredIs ==
  ASSUME NEW comp, NEW bySource, NEW s \in MemberSources(comp), bySource[s] \in Seq(Dev), Distinct(bySource[s])
  PROVE  LET f == filtered(comp, bySource)[s]
         IN /\ f \in Seq(Dev) /\ Distinct(f)
            /\ Range(f) = {d \in Range(bySource[s]) :
                             s \in DOMAIN comp.filters => comp.filters[s] = NoExpr \/ Match(comp.filters[s], d)}
  <1> DEFINE f == filtered(comp, bySource)[s]
             x == comp.filters[s]
             M == {d \in Dev : Match(x, d)}
             b == bySource[s]
  <1>1. f = IF s \in DOMAIN comp.filters /\ x # NoExpr THEN Keep(b, M) ELSE b
    BY DEF filtered, applyFilter
  <1>2. Keep(b, M) \in Seq(Dev) /\ Range(Keep(b, M)) = Range(b) \cap M /\ Distinct(Keep(b, M))
    <2> HIDE DEF M
    <2> QED BY KeepRange, KeepDistinct
  <1>3. Range(b) \subseteq Dev /\ b \in Seq(Dev) /\ Distinct(b)
    BY DEF Range
  <1>4. Range(b) \cap M = {d \in Range(b) : Match(x, d)}
    BY <1>3
  <1> HIDE DEF f, x, M, b
  <1>5. Range(f) = {d \in Range(b) : s \in DOMAIN comp.filters => x = NoExpr \/ Match(x, d)}
    <2>1. CASE s \in DOMAIN comp.filters /\ x # NoExpr
      BY <1>1, <1>2, <1>4, <2>1
    <2>2. CASE ~(s \in DOMAIN comp.filters /\ x # NoExpr)
      BY <1>1, <2>2
    <2> QED BY <2>1, <2>2
  <1> QED BY <1>1, <1>2, <1>3, <1>5 DEF f, x, b

LEMMA FilteredSeparate ==
  ASSUME NEW comp, NEW bySource, Separate(MemberSources(comp), bySource)
  PROVE  Separate(MemberSources(comp), filtered(comp, bySource))
  <1> DEFINE f == filtered(comp, bySource)
             S == MemberSources(comp)
  <1>1. ASSUME NEW s \in S PROVE f[s] \in Seq(Dev) /\ Distinct(f[s]) /\ Range(f[s]) \subseteq Range(bySource[s])
    BY FilteredIs DEF Separate
  <1>2. \A s, t \in S : s # t => Range(bySource[s]) \cap Range(bySource[t]) = {}
    BY DEF Separate
  <1> HIDE DEF f, S
  <1>3. \A s, t \in S : s # t => Range(f[s]) \cap Range(f[t]) = {}
    BY <1>1, <1>2
  <1>4. Separate(S, f)
    BY <1>1, <1>3 DEF Separate
  <1> QED BY <1>4 DEF S, f

\* The sets of devices that a composition asks for.
Wanted(comp, available) ==
  {D \in Counted(MemberSources(comp), available, Sizes(comp)) :
     comp.constraints # <<>> => \E v \in Values(comp.constraints[1].attribute) :
                                  D \subseteq Sharing(comp.constraints[1].attribute, v)}

\* Of a set of devices that share a value, each source gives the same
\* number of its devices and of those of the value's group.
LEMMA GroupCounted ==
  ASSUME NEW comp, AutoOnce(comp), NEW bySource, Separate(MemberSources(comp), bySource), NEW val,
         NEW D, D \subseteq Sharing(comp.constraints[1].attribute, val)
  PROVE  D \in Counted(MemberSources(comp), group(comp, bySource, val), Sizes(comp))
           <=> D \in Counted(MemberSources(comp), bySource, Sizes(comp))
  <1> DEFINE g == group(comp, bySource, val)
             S == MemberSources(comp)
             V == Sharing(comp.constraints[1].attribute, val)
             R(s) == Range(bySource[s])
             Q(s) == Range(g[s])
  <1>1. ASSUME NEW s \in S PROVE Q(s) = R(s) \cap V
    BY GroupIs DEF Separate
  <1> HIDE DEF g, S, V, R, Q
  <1>2. \A s \in S : D \cap Q(s) = D \cap R(s)
    BY <1>1 DEF V
  <1>3. D \subseteq UNION {Q(s) : s \in S} <=> D \subseteq UNION {R(s) : s \in S}
    BY <1>1 DEF V
  <1>4. D \in Counted(S, g, Sizes(comp))
          <=> D \subseteq UNION {Q(s) : s \in S} /\ \A s \in S : Cardinality(D \cap Q(s)) = Sizes(comp)[s]
    BY DEF Counted, Q
  <1>5. D \in Counted(S, bySource, Sizes(comp))
          <=> D \subseteq UNION {R(s) : s \in S} /\ \A s \in S : Cardinality(D \cap R(s)) = Sizes(comp)[s]
    BY DEF Counted, R
  <1>6. D \in Counted(S, g, Sizes(comp)) <=> D \in Counted(S, bySource, Sizes(comp))
    BY <1>2, <1>3, <1>4, <1>5
  <1> QED BY <1>6 DEF g, S

\* The pairing functions give every set of devices that the composition
\* asks for, no other one, and none of them twice.
LEMMA AutoExact ==
  ASSUME NEW comp, AutoOnce(comp), NameParts \in Nat, NEW bySource, Separate(MemberSources(comp), bySource),
         NEW labels
  PROVE  LET q == computeForComposition(comp, bySource, labels)
         IN /\ q \in Seq(Range(q)) /\ Distinct(q)
            /\ {DevsOf(e) : e \in Range(q)} = Wanted(comp, filtered(comp, bySource))
            /\ \A e, f \in Range(q) : DevsOf(e) = DevsOf(f) => e = f
            /\ \A e \in Range(q) : \E c \in Combo(comp) :
                 /\ e = buildCompositeDevice(comp, c)
                 /\ \A s \in MemberSources(comp) : Range(c[s]) \subseteq Range(filtered(comp, bySource)[s])
  <1> DEFINE q == computeForComposition(comp, bySource, labels)
             F == filtered(comp, bySource)
             S == MemberSources(comp)
             a == comp.constraints[1].attribute
             build(c) == buildCompositeDevice(comp, c)
             W == Wanted(comp, F)
             n == Sizes(comp)
             Within(c) == \A s \in S : Range(c[s]) \subseteq Range(F[s])
             Exact == /\ q \in Seq(Range(q)) /\ Distinct(q) /\ {DevsOf(e) : e \in Range(q)} = W
                      /\ \A e, f \in Range(q) : DevsOf(e) = DevsOf(f) => e = f
                      /\ \A e \in Range(q) : \E c \in Combo(comp) : e = build(c) /\ Within(c)
  <1>1. Separate(S, F) /\ \A s \in S : n[s] \in Nat
    BY FilteredSeparate, OnceSizes
  <1>2. comp.members \in Seq(Range(comp.members))
    BY DEF AutoOnce, PairedComposition, TypedComposition
  <1>3. ASSUME NEW c \in Combo(comp) PROVE DevsOf(build(c)) = Used(S, c)
    BY <1>2, BuiltShape DEF Used
  <1>4. q = IF comp.constraints = <<>> THEN pairSingleSource(comp, F) ELSE pairWithMatchAttribute(comp, F)
    BY DEF computeForComposition, AutoOnce
  <1> HIDE DEF build, q, F, S
  <1>5. ASSUME NEW C, C \subseteq Combo(comp), Lists(q, {build(c) : c \in C}), {Used(S, c) : c \in C} = W,
               \A c, d \in C : Used(S, c) = Used(S, d) => c = d, \A c \in C : Within(c)
        PROVE  Exact
    <2>1. q \in Seq(Range(q)) /\ Range(q) = {build(c) : c \in C} /\ Distinct(q)
      BY <1>5 DEF Lists
    <2>2. \A c \in C : DevsOf(build(c)) = Used(S, c)
      BY <1>3, <1>5
    <2>3. {DevsOf(e) : e \in {build(c) : c \in C}} = {Used(S, c) : c \in C}
      BY <2>2
    <2>4. \A e, f \in {build(c) : c \in C} : DevsOf(e) = DevsOf(f) => e = f
      BY <1>5, <2>2
    <2> HIDE DEF W, Within
    <2>5. \A e \in {build(c) : c \in C} : \E c \in Combo(comp) : e = build(c) /\ Within(c)
      BY <1>5
    <2> QED BY <1>5, <2>1, <2>3, <2>4, <2>5
  <1>6. ASSUME comp.constraints = <<>> PROVE Exact
    <2> DEFINE C == Choosing(S, F, n)
    <2>1. Lists(q, {build(c) : c \in C})
      BY <1>1, <1>4, <1>6, SingleLists DEF S, build
    <2>2. C \subseteq Combo(comp)
      BY <1>1, GenerateOnce DEF S
    <2>3. W = Counted(S, F, n)
      BY <1>6 DEF Wanted, S
    <2>4. {Used(S, c) : c \in C} = W
      <3>1. \A c \in C : Used(S, c) \in Counted(S, F, n)
        BY <1>1, UsedBySource
      <3>2. \A D \in Counted(S, F, n) : \E c \in C : Used(S, c) = D
        BY <1>1, UsedAll
      <3> HIDE DEF C, W
      <3> QED BY <2>3, <3>1, <3>2
    <2>5. \A c, d \in C : Used(S, c) = Used(S, d) => c = d
      BY <1>1, UsedOnce
    <2>6. \A c \in C : Within(c)
      BY <1>1, UsedBySource
    <2> HIDE DEF C, W, Within, Exact
    <2>7. Exact
      BY <1>5, <2>1, <2>2, <2>4, <2>5, <2>6
    <2> QED BY <2>7
  <1>7. ASSUME comp.constraints # <<>> PROVE Exact
    <2> DEFINE vals == Values(a)
               Sel(v) == Grouped(comp, F, v)
               C == UNION {Sel(v) : v \in vals}
    <2>1. Lists(q, {build(c) : c \in C})
      BY <1>1, <1>4, <1>7, MatchLists DEF S, build
    <2>2. ASSUME NEW v, NEW c \in Sel(v)
          PROVE  /\ c \in Combo(comp) /\ Used(S, c) \subseteq Sharing(a, v) /\ Used(S, c) # {}
                 /\ Used(S, c) \in Counted(S, F, n) /\ Within(c)
      <3>1. Separate(S, group(comp, F, v)) /\ c \in Choosing(S, group(comp, F, v), n)
        BY <1>1, GroupSeparate DEF Grouped, S
      <3>2. c \in Combo(comp)
        BY <3>1, GenerateOnce DEF S
      <3>3. Used(S, c) \subseteq Sharing(a, v) /\ Used(S, c) # {}
        BY <1>1, GroupedShare DEF S
      <3>4. Used(S, c) \in Counted(S, group(comp, F, v), n)
        BY <1>1, <3>1, UsedBySource
      <3>5. Used(S, c) \in Counted(S, F, n)
        BY <1>1, <3>3, <3>4, GroupCounted DEF S
      <3>6. \A s \in S : Range(c[s]) \subseteq Range(group(comp, F, v)[s])
        BY <1>1, <3>1, UsedBySource
      <3>7. ASSUME NEW s \in S PROVE Range(group(comp, F, v)[s]) \subseteq Range(F[s])
        <4>1. F[s] \in Seq(Dev) /\ Distinct(F[s]) /\ s \in MemberSources(comp)
          BY <1>1 DEF Separate, S
        <4> QED BY <4>1, GroupIs
      <3> QED BY <3>2, <3>3, <3>5, <3>6, <3>7
    <2>3. ASSUME NEW v \in vals, NEW D \in Counted(S, F, n), D \subseteq Sharing(a, v)
          PROVE  \E c \in Sel(v) : Used(S, c) = D
      <3>1. Separate(S, group(comp, F, v))
        BY <1>1, GroupSeparate DEF S
      <3>2. D \in Counted(S, group(comp, F, v), n)
        BY <1>1, <2>3, GroupCounted DEF S
      <3> QED BY <1>1, <3>1, <3>2, UsedAll DEF Grouped, S
    <2>4. ASSUME NEW v, NEW w, NEW c \in Sel(v), NEW d \in Sel(w), Used(S, c) = Used(S, d)
          PROVE  c = d
      <3> DEFINE D == Used(S, c)
      <3>1. D # {} /\ D \subseteq Sharing(a, v) /\ D \subseteq Sharing(a, w)
        BY <2>2, <2>4
      <3> HIDE DEF D, a
      <3>2. v = w
        BY ONLY <3>1, SharingOne
      <3>3. Separate(S, group(comp, F, v)) /\ c \in Choosing(S, group(comp, F, v), n)
            /\ d \in Choosing(S, group(comp, F, v), n)
        BY <1>1, <3>2, GroupSeparate DEF Grouped, S
      <3> QED BY <1>1, <2>4, <3>3, UsedOnce
    <2>5. W = {D \in Counted(S, F, n) : \E v \in vals : D \subseteq Sharing(a, v)}
      BY <1>7 DEF Wanted, S
    <2> HIDE DEF Sel, vals, a, W
    <2>6. {Used(S, c) : c \in C} = W
      BY <2>2, <2>3, <2>5
    <2>7. \A c, d \in C : Used(S, c) = Used(S, d) => c = d
      BY <2>4
    <2>8. C \subseteq Combo(comp)
      BY <2>2
    <2>9. \A c \in C : Within(c)
      <3> HIDE DEF Within
      <3> QED BY <2>2
    <2> HIDE DEF C, Within, Exact
    <2>10. Exact
      BY <1>5, <2>1, <2>6, <2>7, <2>8, <2>9
    <2> QED BY <2>10
  <1>8. Exact
    BY <1>6, <1>7
  <1> QED BY <1>8 DEF q, F, S, build

----------------------------------------------------------------------------
(* Explicit pairs are listed once                                          *)

\* Explicit pairs are listed once each, and no two use devices of the same
\* name.
LEMMA ExplicitLists ==
  ASSUME NEW comp, ExplicitComposition(comp), comp.members # <<>>, NameParts \in Nat, NEW bySource,
         \A s \in MemberSources(comp) : bySource[s] \in Seq(Dev), NEW labels
  PROVE  LET r == pairWithExplicit(comp, bySource, labels)
         IN /\ Distinct(r)
            /\ poolsOf(comp, labels) # <<>> =>
                 Range(r) = Range(explicitPairs(comp, bySource, poolsOf(comp, labels)[1].pairs))
            /\ \A e, f \in Range(r) : e # f =>
                 \A s \in MemberSources(comp) : NamesIn(e, s) \cap NamesIn(f, s) = {}
  <1> DEFINE r == pairWithExplicit(comp, bySource, labels)
             pool == poolsOf(comp, labels)[1]
             given == explicitPairs(comp, bySource, pool.pairs)
             S == MemberSources(comp)
             E == ExplicitDevices(comp, bySource, pool.pairs)
             Apt == /\ Distinct(r)
                    /\ poolsOf(comp, labels) # <<>> => Range(r) = Range(given)
                    /\ \A e, f \in Range(r) : e # f => \A s \in S : NamesIn(e, s) \cap NamesIn(f, s) = {}
  <1>0. /\ TypedComposition(comp) /\ comp.members \in Seq(Range(comp.members))
        /\ \A j \in DOMAIN comp.members : comp.members[j].count >= 1
    BY DEF ExplicitComposition, TypedComposition
  <1>1. CASE poolsOf(comp, labels) = <<>>
    <2>1. r = <<>>
      BY <1>1 DEF pairWithExplicit
    <2>2. Distinct(r) /\ Range(r) = {}
      BY <2>1, DistinctOne, RangeOfOne
    <2> QED BY <1>1, <2>2
  <1>2. ASSUME poolsOf(comp, labels) # <<>> PROVE Apt
    <2>1. r = Sorted(given)
      BY <1>2 DEF pairWithExplicit
    <2>2. pool.pairs \in Seq(Range(pool.pairs))
      BY <1>0, <1>2, PoolsOf DEF TypedComposition
    <2>3. /\ given \in Seq(E)
          /\ \A i, j \in DOMAIN given : i # j => \A s \in S : NamesIn(given[i], s) \cap NamesIn(given[j], s) = {}
      BY <2>2, PairsApart
    <2> HIDE DEF r, pool
    <2>4. ASSUME NEW e \in E PROVE (\E s \in S : NamesIn(e, s) # {}) /\ ~Before(e, e)
      <3>1. PICK c \in From(comp, bySource), j \in DOMAIN pool.pairs : e = ExplicitDevice(comp, c, pool.pairs[j])
        BY DEF ExplicitDevices
      <3>2. c \in Combo(comp)
        BY DEF From
      <3> DEFINE b == buildCompositeDevice(comp, c)
                 M == [source : S, dev : Dev]
      <3>3. e.name = joinedName(e.members) /\ e.members = b.members
        BY <1>0, <3>1, <3>2, ExplicitShape
      <3>4. b.members \in Seq(M) /\ DevsOf(b) = UNION {Range(c[s]) : s \in S}
        BY <1>0, <3>2, BuiltShape
      <3> HIDE DEF b
      <3>5. ~Before(e, e)
        BY <3>3, <3>4, JoinedNameType, NotBeforeItself
      <3>6. PICK s \in S : TRUE
        <4>1. 1 \in DOMAIN comp.members
          BY <1>0
        <4> QED BY <4>1 DEF MemberSources
      <3>7. Len(c[s]) >= 1 /\ c[s] \in Seq(Dev)
        <4>1. c[s] \in Seq(Dev) /\ Len(c[s]) = Sizes(comp)[s]
          BY <3>2 DEF Combo
        <4>2. Sizes(comp)[s] = lastCount(comp, s)
          BY DEF Sizes, ExplicitComposition
        <4>3. lastCount(comp, s) >= 1
          BY <1>0, LastCountIs
        <4> QED BY <4>1, <4>2, <4>3
      <3>8. Range(c[s]) # {}
        <4> DEFINE x == c[s]
        <4>1. x \in Seq(Dev) /\ Len(x) >= 1
          BY <3>7
        <4> HIDE DEF x
        <4>2. 1 \in DOMAIN x
          BY <4>1
        <4>3. Range(x) # {}
          BY <4>2 DEF Range
        <4> QED BY <4>3 DEF x
      <3>9. PICK k \in DOMAIN b.members : TRUE
        <4>1. DevsOf(b) # {}
          BY <3>4, <3>8
        <4> QED BY <4>1 DEF DevsOf
      <3>10. b.members[k] \in M
        <4> HIDE DEF M
        <4> QED BY <3>4
      <3>11. b.members[k].source \in S
        BY <3>10
      <3>12. DevName[b.members[k].dev] \in NamesIn(e, b.members[k].source)
        BY <3>3 DEF NamesIn
      <3> QED BY <3>5, <3>11, <3>12
    <2> HIDE DEF given, E, S
    <2>5. \A i \in DOMAIN given : given[i] \in E
      BY <2>3
    <2>6. Lists(given, Range(given))
      <3>1. ASSUME NEW i \in DOMAIN given, NEW j \in DOMAIN given, given[i] = given[j], i # j PROVE FALSE
        BY <2>3, <2>4, <2>5, <3>1
      <3>2. Distinct(given)
        BY <3>1 DEF Distinct, IsInjective
      <3> QED BY <2>3, <3>2, SeqIn DEF Lists
    <2>7. \A d \in Range(given) : ~Before(d, d)
      BY <2>4, <2>5 DEF Range
    <2>8. Lists(r, Range(given))
      BY <2>1, <2>6, <2>7, SortedLists
    <2>9. Distinct(r) /\ Range(r) = Range(given)
      BY <2>8 DEF Lists
    <2>10. ASSUME NEW e \in Range(given), NEW f \in Range(given), e # f
           PROVE  \A s \in S : NamesIn(e, s) \cap NamesIn(f, s) = {}
      BY <2>3, <2>10 DEF Range
    <2> QED BY <2>9, <2>10
  <1> QED BY <1>1, <1>2

----------------------------------------------------------------------------
(* Unambiguous explicit pairs                                              *)

\* An explicit composition that lists each source once.
ExplicitOnce(comp) ==
  /\ ExplicitComposition(comp)
  /\ \A i, j \in DOMAIN comp.members : i # j => comp.members[i].source # comp.members[j].source

\* The devices that a pair's selector finds when none is consumed.
Finds(bySource, pair, s) == {d \in Range(bySource[s]) : Match(pair.selectors[s], d)}

\* A pair on its own: whether it finds its devices, and the device it makes.
NoneTaken(comp) == [s \in MemberSources(comp) |-> {}]
Complete(comp, bySource, pair) == Suffices(comp, bySource, NoneTaken(comp), pair)
Alone(comp, bySource, pair) == ExplicitDevice(comp, Found(comp, bySource, NoneTaken(comp), pair), pair)

\* Elements outside the list make no difference to what is kept.
LEMMA KeepSame ==
  ASSUME NEW s, NEW S, NEW T, \A i \in DOMAIN s : s[i] \in S <=> s[i] \in T
  PROVE  Keep(s, S) = Keep(s, T)
  <1>1. [i \in DOMAIN s |-> IF s[i] \in S THEN <<s[i]>> ELSE <<>>]
          = [i \in DOMAIN s |-> IF s[i] \in T THEN <<s[i]>> ELSE <<>>]
    OBVIOUS
  <1> QED BY <1>1 DEF Keep

\* Devices consumed make no difference to a selector that finds none of
\* them.
LEMMA MatchedAlone ==
  ASSUME NEW bySource, NEW s, bySource[s] \in Seq(Dev), NEW consumed, NEW pair,
         \A d \in Finds(bySource, pair, s) : DevName[d] \notin consumed[s]
  PROVE  /\ Matched(bySource, consumed, pair, s) = Keep(bySource[s], {d \in Dev : Match(pair.selectors[s], d)})
         /\ Range(Matched(bySource, consumed, pair, s)) = Finds(bySource, pair, s)
  <1> DEFINE b == bySource[s]
             K == {d \in Dev : DevName[d] \notin consumed[s] /\ Match(pair.selectors[s], d)}
             L == {d \in Dev : Match(pair.selectors[s], d)}
  <1>1. \A i \in DOMAIN b : b[i] \in Dev /\ b[i] \in Range(b)
    BY DEF Range
  <1>2. \A i \in DOMAIN b : b[i] \in K <=> b[i] \in L
    BY <1>1 DEF Finds
  <1>3. Range(b) \cap L = Finds(bySource, pair, s)
    <2>1. Range(b) \subseteq Dev
      BY DEF Range
    <2> QED BY <2>1 DEF Finds
  <1>4. Matched(bySource, consumed, pair, s) = Keep(b, K)
    BY DEF Matched, explicitMatches
  <1>5. b \in Seq(Dev)
    OBVIOUS
  <1> HIDE DEF K, L, b
  <1>6. Keep(b, K) = Keep(b, L)
    BY <1>2, KeepSame
  <1>7. Range(Keep(b, L)) = Range(b) \cap L
    BY <1>5, KeepRange
  <1> QED BY <1>3, <1>4, <1>6, <1>7 DEF b, L

\* A pair whose devices are not consumed is taken as if it came first.
LEMMA TakenAlone ==
  ASSUME NEW comp, NEW bySource, NEW consumed, NEW pair,
         \A s \in MemberSources(comp) : bySource[s] \in Seq(Dev),
         \A s \in MemberSources(comp) : \A d \in Finds(bySource, pair, s) : DevName[d] \notin consumed[s]
  PROVE  /\ Suffices(comp, bySource, consumed, pair) <=> Complete(comp, bySource, pair)
         /\ Found(comp, bySource, consumed, pair) = Found(comp, bySource, NoneTaken(comp), pair)
  <1> DEFINE none == NoneTaken(comp)
  <1>1. ASSUME NEW s \in MemberSources(comp)
        PROVE  Matched(bySource, consumed, pair, s) = Matched(bySource, none, pair, s)
    <2>1. none[s] = {}
      BY DEF NoneTaken
    <2> HIDE DEF none
    <2>2. \A d \in Finds(bySource, pair, s) : DevName[d] \notin none[s]
      BY <2>1
    <2> DEFINE m == Keep(bySource[s], {d \in Dev : Match(pair.selectors[s], d)})
    <2>3. Matched(bySource, consumed, pair, s) = m
      BY MatchedAlone
    <2>4. Matched(bySource, none, pair, s) = m
      BY <2>2, MatchedAlone
    <2> HIDE DEF m
    <2> QED BY <2>3, <2>4
  <1>2. \A j \in DOMAIN comp.members : comp.members[j].source \in MemberSources(comp)
    BY DEF MemberSources
  <1> HIDE DEF none
  <1>3. Suffices(comp, bySource, consumed, pair) <=> Suffices(comp, bySource, none, pair)
    BY <1>1, <1>2 DEF Suffices
  <1>4. Found(comp, bySource, consumed, pair) = Found(comp, bySource, none, pair)
    BY <1>1 DEF Found
  <1> QED BY <1>3, <1>4 DEF Complete, none

\* A pair that means no more devices than it needs: it is complete if all of
\* them are there, and its device then has exactly those.
LEMMA AloneIs ==
  ASSUME NEW comp, ExplicitOnce(comp), NEW bySource,
         \A s \in MemberSources(comp) : bySource[s] \in Seq(Dev) /\ Distinct(bySource[s]),
         NEW pair, MemberSources(comp) \subseteq DOMAIN pair.selectors,
         \A s \in MemberSources(comp) : Cardinality(Finds(bySource, pair, s)) <= lastCount(comp, s)
  PROVE  LET a == Alone(comp, bySource, pair)
         IN /\ Complete(comp, bySource, pair)
                 <=> \A s \in MemberSources(comp) : Cardinality(Finds(bySource, pair, s)) = lastCount(comp, s)
            /\ Complete(comp, bySource, pair) =>
                 /\ DevsOf(a) = UNION {Finds(bySource, pair, s) : s \in MemberSources(comp)}
                 /\ a.numa = {pair.numa} /\ a.rail = pair.rail
  <1> DEFINE none == NoneTaken(comp)
             S == MemberSources(comp)
             m(s) == Matched(bySource, none, pair, s)
             F == Found(comp, bySource, none, pair)
             a == Alone(comp, bySource, pair)
             P(s) == Finds(bySource, pair, s)
             n(s) == lastCount(comp, s)
  <1>1. ExplicitComposition(comp) /\ TypedComposition(comp) /\ comp.members \in Seq(Range(comp.members))
    BY DEF ExplicitOnce, ExplicitComposition, TypedComposition
  <1>2. ASSUME NEW s \in S
        PROVE  m(s) \in Seq(Dev) /\ Range(m(s)) = P(s) /\ Len(m(s)) = Cardinality(P(s)) /\ Len(m(s)) \in Nat
    <2> DEFINE K == {d \in Dev : DevName[d] \notin none[s] /\ Match(pair.selectors[s], d)}
               b == bySource[s]
    <2>1. m(s) = Keep(b, K)
      BY DEF Matched, explicitMatches
    <2>2. Range(m(s)) = P(s)
      <3>1. none[s] = {} /\ bySource[s] \in Seq(Dev)
        BY DEF NoneTaken
      <3> HIDE DEF none
      <3>2. \A d \in Finds(bySource, pair, s) : DevName[d] \notin none[s]
        BY <3>1
      <3> QED BY <3>1, <3>2, MatchedAlone
    <2>3. b \in Seq(Dev) /\ Distinct(b)
      OBVIOUS
    <2> HIDE DEF K, b
    <2>4. Keep(b, K) \in Seq(Dev) /\ Distinct(Keep(b, K))
      BY <2>3, KeepRange, KeepDistinct
    <2>5. Cardinality(Range(Keep(b, K))) = Len(Keep(b, K)) /\ Len(Keep(b, K)) \in Nat
      BY <2>4, DistinctSize
    <2> HIDE DEF m, P
    <2> QED BY <2>1, <2>2, <2>4, <2>5
  <1>3. ASSUME NEW j \in DOMAIN comp.members
        PROVE  comp.members[j].source \in S /\ n(comp.members[j].source) = comp.members[j].count
    <2>1. comp.members[j].source \in S
      BY DEF MemberSources
    <2>2. PICK i \in DOMAIN comp.members : /\ comp.members[i].source = comp.members[j].source
                                           /\ n(comp.members[j].source) = comp.members[i].count
      BY <1>1, <2>1, LastCountIs
    <2>3. i = j
      BY <2>2 DEF ExplicitOnce
    <2> QED BY <2>1, <2>2, <2>3
  <1>4. ASSUME NEW s \in S PROVE n(s) \in Int
    <2>1. PICK i \in DOMAIN comp.members : comp.members[i].source = s /\ n(s) = comp.members[i].count
      BY <1>1, LastCountIs
    <2> QED BY <1>1, <2>1 DEF TypedComposition
  <1>5. \A s \in S : \E j \in DOMAIN comp.members : comp.members[j].source = s
    BY DEF MemberSources
  <1>6. \A s \in S : Cardinality(P(s)) <= n(s) /\ s \in DOMAIN pair.selectors
    OBVIOUS
  <1>7. Complete(comp, bySource, pair)
          <=> \A j \in DOMAIN comp.members : /\ comp.members[j].source \in DOMAIN pair.selectors
                                             /\ Len(m(comp.members[j].source)) >= comp.members[j].count
    BY DEF Complete, Suffices
  <1>8. ASSUME Complete(comp, bySource, pair), NEW s \in S PROVE Len(m(s)) = n(s)
    <2> HIDE DEF m, n, P, S
    <2>1. PICK j \in DOMAIN comp.members : comp.members[j].source = s
      BY <1>5
    <2>2. Len(m(s)) >= n(s)
      BY <1>3, <1>7, <1>8, <2>1
    <2>3. Len(m(s)) <= n(s)
      BY <1>2, <1>6
    <2> QED BY <1>2, <1>4, <2>2, <2>3
  <1>9. ASSUME \A s \in S : Cardinality(P(s)) = n(s) PROVE Complete(comp, bySource, pair)
    <2> HIDE DEF m, n, P, S
    <2>1. \A j \in DOMAIN comp.members : Len(m(comp.members[j].source)) >= comp.members[j].count
      BY <1>2, <1>3, <1>9
    <2> QED BY <1>3, <1>6, <1>7, <2>1
  <1>10. ASSUME Complete(comp, bySource, pair)
         PROVE  /\ DevsOf(a) = UNION {P(s) : s \in S}
                /\ a.numa = {pair.numa} /\ a.rail = pair.rail
    <2>1. F \in Combo(comp)
      BY <1>1, <1>10, FoundType DEF Complete, From
    <2>2. a = ExplicitDevice(comp, F, pair)
      BY DEF Alone
    <2>3. ASSUME NEW s \in S PROVE Range(F[s]) = P(s)
      <3>1. F[s] = SubSeq(m(s), 1, n(s))
        BY DEF Found
      <3>2. m(s) \in Seq(Dev) /\ n(s) = Len(m(s)) /\ Range(m(s)) = P(s)
        BY <1>2, <1>8, <1>10
      <3> DEFINE x == m(s)
      <3> HIDE DEF x, n, P, F
      <3>3. SubSeq(x, 1, Len(x)) = x
        BY <3>2 DEF x
      <3> QED BY <3>1, <3>2, <3>3 DEF x
    <2> DEFINE e == buildCompositeDevice(comp, F)
    <2> HIDE DEF F
    <2>4. a.numa = {pair.numa} /\ a.rail = pair.rail /\ a.members = e.members
      BY <1>1, <2>1, <2>2, ExplicitShape
    <2>5. DevsOf(e) = UNION {Range(F[s]) : s \in S}
      BY <1>1, <2>1, BuiltShape
    <2> HIDE DEF a, e, P
    <2>6. DevsOf(a) = DevsOf(e)
      BY <2>4 DEF DevsOf
    <2> QED BY <2>3, <2>4, <2>5, <2>6
  <1>11. Complete(comp, bySource, pair) <=> \A s \in S : Cardinality(P(s)) = n(s)
    <2> HIDE DEF m, n, P, S
    <2> QED BY <1>2, <1>8, <1>9
  <1> QED BY <1>10, <1>11

\* Pairs of which no two mean the same device.
Unshared(comp, bySource, pairs) ==
  \A s \in MemberSources(comp) : \A j, k \in DOMAIN pairs :
    j # k => Finds(bySource, pairs[j], s) \cap Finds(bySource, pairs[k], s) = {}

\* After some of the pairs only their devices are consumed, and each that is
\* complete has made the device it makes on its own.
Served(comp, bySource, pairs, i, acc) ==
  /\ \A s \in MemberSources(comp) :
       acc.consumed[s] \subseteq {DevName[d] : d \in UNION {Finds(bySource, pairs[j], s) : j \in 1 .. i}}
  /\ Range(acc.result) = {Alone(comp, bySource, pairs[j]) : j \in {k \in 1 .. i : Complete(comp, bySource, pairs[k])}}

LEMMA ServedStep ==
  ASSUME NEW comp, ExplicitComposition(comp), NEW bySource,
         \A s \in MemberSources(comp) : bySource[s] \in Seq(Dev),
         \A s \in MemberSources(comp) : \A d, e \in Range(bySource[s]) : DevName[d] = DevName[e] => d = e,
         NEW pairs, pairs \in Seq(Range(pairs)), Unshared(comp, bySource, pairs),
         NEW i \in 1 .. Len(pairs), NEW acc \in Accumulators(comp, bySource, pairs),
         Served(comp, bySource, pairs, i - 1, acc)
  PROVE  Served(comp, bySource, pairs, i, explicitPair(comp, bySource, acc, pairs[i]))
  <1> DEFINE S == MemberSources(comp)
             pair == pairs[i]
             F == Found(comp, bySource, acc.consumed, pair)
             P(j, s) == Finds(bySource, pairs[j], s)
             next == explicitPair(comp, bySource, acc, pair)
             more == [s \in S |-> acc.consumed[s] \cup {DevName[d] : d \in Range(F[s])}]
             a(j) == Alone(comp, bySource, pairs[j])
             ok(j) == Complete(comp, bySource, pairs[j])
  <1>1. /\ DOMAIN pairs = 1 .. Len(pairs) /\ 1 .. i \subseteq DOMAIN pairs /\ 1 .. i - 1 \subseteq 1 .. i
        /\ i \in 1 .. i /\ \A j \in 1 .. i : j = i \/ j \in 1 .. i - 1
    OBVIOUS
  <1>2. i \notin 1 .. i - 1
    OBVIOUS
  <1>3. /\ \A s \in S : acc.consumed[s] \subseteq {DevName[d] : d \in UNION {P(j, s) : j \in 1 .. i - 1}}
        /\ Range(acc.result) = {a(j) : j \in {k \in 1 .. i - 1 : ok(k)}}
    BY DEF Served
  <1>4. ASSUME NEW s \in S, NEW d \in P(i, s), DevName[d] \in acc.consumed[s] PROVE FALSE
    <2>1. PICK e \in UNION {P(j, s) : j \in 1 .. i - 1} : DevName[d] = DevName[e]
      BY <1>3, <1>4
    <2>2. PICK j \in 1 .. i - 1 : e \in P(j, s)
      BY <2>1
    <2>3. d \in Range(bySource[s]) /\ e \in Range(bySource[s])
      BY <2>2 DEF Finds
    <2>4. d = e
      BY <2>1, <2>3
    <2>5. j # i /\ j \in DOMAIN pairs /\ i \in DOMAIN pairs
      BY <1>1, <1>2
    <2> QED BY <2>2, <2>4, <2>5 DEF Unshared
  <1>5. /\ Suffices(comp, bySource, acc.consumed, pair) <=> ok(i)
        /\ F = Found(comp, bySource, NoneTaken(comp), pair)
    <2>1. \A s \in S : \A d \in Finds(bySource, pair, s) : DevName[d] \notin acc.consumed[s]
      BY <1>4
    <2> QED BY <2>1, TakenAlone
  <1>6. CASE ~ok(i)
    <2>1. next = acc
      BY <1>5, <1>6, PairResult
    <2> HIDE DEF next, P, a, ok
    <2>2. {k \in 1 .. i - 1 : ok(k)} = {k \in 1 .. i : ok(k)}
      BY <1>1, <1>6
    <2>3. \A s \in S : acc.consumed[s] \subseteq {DevName[d] : d \in UNION {P(j, s) : j \in 1 .. i}}
      BY <1>1, <1>3
    <2>4. Range(acc.result) = {a(j) : j \in {k \in 1 .. i : ok(k)}}
      BY <1>3, <2>2
    <2> QED BY <2>1, <2>3, <2>4 DEF Served, next, P, a, ok
  <1>7. CASE ok(i)
    <2>1. next = [consumed |-> more, result |-> Append(acc.result, a(i))]
      BY <1>5, <1>7, PairResult DEF Alone
    <2>2. \A s \in S : Range(F[s]) \subseteq P(i, s)
      BY <1>5, <1>7, FoundType DEF From, Finds
    <2>3. acc.result \in Seq(Range(acc.result))
      BY SeqIn DEF Accumulators
    <2> HIDE DEF F, P, a, ok
    <2>4. ASSUME NEW s \in S PROVE more[s] \subseteq {DevName[d] : d \in UNION {P(j, s) : j \in 1 .. i}}
      <3>1. acc.consumed[s] \subseteq {DevName[d] : d \in UNION {P(j, s) : j \in 1 .. i - 1}}
        BY <1>3
      <3>2. Range(F[s]) \subseteq P(i, s)
        BY <2>2
      <3>3. P(i, s) \subseteq UNION {P(j, s) : j \in 1 .. i}
        BY <1>1
      <3>4. UNION {P(j, s) : j \in 1 .. i - 1} \subseteq UNION {P(j, s) : j \in 1 .. i}
        BY <1>1
      <3> QED BY <3>1, <3>2, <3>3, <3>4
    <2>5. Range(Append(acc.result, a(i))) = Range(acc.result) \cup {a(i)}
      <3> DEFINE q == acc.result
                 x == a(i)
                 R == Range(q) \cup {x}
      <3>1. q \in Seq(R) /\ x \in R
        BY <2>3, SeqMonotonic
      <3>2. q \in Seq(Range(q))
        BY <2>3
      <3> HIDE DEF q, x, R
      <3>3. /\ Len(q) \in Nat /\ DOMAIN q = 1 .. Len(q) /\ DOMAIN Append(q, x) = 1 .. Len(q) + 1
            /\ Append(q, x)[Len(q) + 1] = x /\ \A k \in 1 .. Len(q) : Append(q, x)[k] = q[k]
        BY <3>1
      <3>4. 1 .. Len(q) + 1 = 1 .. Len(q) \cup {Len(q) + 1}
        BY <3>3
      <3> DEFINE r == Append(q, x)
      <3> HIDE DEF r
      <3>5. Range(r) = Range(q) \cup {x}
        BY <3>3, <3>4 DEF Range, r
      <3> QED BY <3>5 DEF q, x, r
    <2>6. {a(j) : j \in {k \in 1 .. i : ok(k)}} = {a(j) : j \in {k \in 1 .. i - 1 : ok(k)}} \cup {a(i)}
      BY <1>1, <1>7
    <2>7. next.consumed = more /\ next.result = Append(acc.result, a(i))
      <3> HIDE DEF next, more
      <3> QED BY <2>1
    <2> HIDE DEF next, more
    <2>8. Range(next.result) = {a(j) : j \in {k \in 1 .. i : ok(k)}}
      BY <1>3, <2>5, <2>6, <2>7
    <2>9. \A s \in S : next.consumed[s] \subseteq {DevName[d] : d \in UNION {P(j, s) : j \in 1 .. i}}
      BY <2>4, <2>7
    <2> QED BY <2>8, <2>9 DEF Served, next, P, a, ok
  <1> QED BY <1>6, <1>7

\* Pairs that share no device each make the device they make on their own,
\* whatever their order and that of the devices.
LEMMA PairsServed ==
  ASSUME NEW comp, ExplicitComposition(comp), NEW bySource,
         \A s \in MemberSources(comp) : bySource[s] \in Seq(Dev),
         \A s \in MemberSources(comp) : \A d, e \in Range(bySource[s]) : DevName[d] = DevName[e] => d = e,
         NEW pairs, pairs \in Seq(Range(pairs)), Unshared(comp, bySource, pairs)
  PROVE  Range(explicitPairs(comp, bySource, pairs))
           = {Alone(comp, bySource, pairs[j]) : j \in {k \in DOMAIN pairs : Complete(comp, bySource, pairs[k])}}
  <1> DEFINE n == Len(pairs)
  <1>1. n \in Nat /\ DOMAIN pairs = 1 .. n
    OBVIOUS
  <1>2. PICK after :
          /\ after[0] = NoneYet(comp)
          /\ \A i \in 1 .. n : after[i] = explicitPair(comp, bySource, after[i - 1], pairs[i])
          /\ \A i \in 0 .. n : after[i] \in Accumulators(comp, bySource, pairs)
          /\ explicitPairs(comp, bySource, pairs) = after[n].result
    <2>1. /\ ExplicitComposition(comp) /\ pairs \in Seq(Range(pairs))
          /\ \A s \in MemberSources(comp) : bySource[s] \in Seq(Dev)
      OBVIOUS
    <2> QED BY ONLY <2>1, ExplicitSteps
  <1> DEFINE G == {i \in 0 .. n : Served(comp, bySource, pairs, i, after[i])}
  <1>3. 0 \in G
    <2>1. \A s \in MemberSources(comp) : after[0].consumed[s] = {}
      BY <1>2 DEF NoneYet
    <2>2. Range(after[0].result) = {}
      BY <1>2, RangeOfOne DEF NoneYet
    <2>3. {Alone(comp, bySource, pairs[j]) : j \in {k \in 1 .. 0 : Complete(comp, bySource, pairs[k])}} = {}
      OBVIOUS
    <2>4. Served(comp, bySource, pairs, 0, after[0])
      BY <2>1, <2>2, <2>3 DEF Served
    <2> QED BY <1>1, <2>4
  <1>4. ASSUME NEW i \in 1 .. n, i - 1 \in G PROVE i \in G
    <2>1. i \in 0 .. n /\ i - 1 \in 0 .. n
      BY <1>1
    <2>2. after[i - 1] \in Accumulators(comp, bySource, pairs) /\ Served(comp, bySource, pairs, i - 1, after[i - 1])
      BY <1>2, <1>4, <2>1
    <2>3. Served(comp, bySource, pairs, i, explicitPair(comp, bySource, after[i - 1], pairs[i]))
      BY <2>2, ServedStep
    <2>4. after[i] = explicitPair(comp, bySource, after[i - 1], pairs[i])
      BY <1>2
    <2> QED BY <2>1, <2>3, <2>4
  <1>5. \A i \in 0 .. n : i \in G
    <2> HIDE DEF G, n
    <2> QED BY <1>1, <1>3, <1>4, Steps
  <1>6. n \in 0 .. n
    BY <1>1
  <1>7. Served(comp, bySource, pairs, n, after[n])
    BY <1>5, <1>6
  <1> HIDE DEF n
  <1> QED BY <1>1, <1>2, <1>7 DEF Served
============================================================================
