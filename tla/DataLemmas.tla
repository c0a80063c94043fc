------------------------------ MODULE DataLemmas ------------------------------
(***************************************************************************)
(* Numbers, sequences and functions defined by recursion.  The library     *)
(* states induction for an operator; here it is stated for a set, and      *)
(* recursion for a function, which follows from the theorem that a         *)
(* well-founded order has minimal elements.                                *)
(***************************************************************************)
EXTENDS Integers, Sequences, FiniteSetsExt, SequencesExt, WellFoundedInduction,
        SequenceTheorems, TLAPS

LEMMA LeastNumber ==
  ASSUME NEW T \in SUBSET Nat, T # {}
  PROVE  \E m \in T : \A k \in T : m <= k
<1>1. PICK m \in T : \A k \in T : <<k, m>> \notin OpToRel(<, Nat)
  BY WFMin, NatLessThanWellFounded
<1>2. \A k \in T : ~(k < m)
  BY <1>1 DEF OpToRel
<1> QED BY <1>2

\* Induction along 0..n.
LEMMA UpTo ==
  ASSUME NEW n \in Nat, NEW T, 0 \in T, \A k \in 0..(n - 1) : k \in T => k + 1 \in T
  PROVE  0..n \subseteq T
<1> DEFINE Rest == {k \in 0..n : k \notin T}
<1> SUFFICES ASSUME Rest # {} PROVE FALSE
  OBVIOUS
<1>1. Rest \in SUBSET Nat
  OBVIOUS
<1>2. PICK m \in Rest : \A k \in Rest : m <= k
  <2> HIDE DEF Rest
  <2> QED BY <1>1, LeastNumber
<1>3. m # 0 /\ m - 1 \in 0..n /\ m - 1 \in T
  BY <1>2
<1> QED BY <1>2, <1>3

LEMMA MinIsLeast ==
  ASSUME NEW T \in SUBSET Nat, T # {}
  PROVE  Min(T) \in T /\ \A k \in T : Min(T) <= k
<1>1. PICK m \in T : \A k \in T : m <= k
  BY LeastNumber
<1> QED BY <1>1 DEF Min

LEMMA MaxIsGreatest ==
  ASSUME NEW n \in Nat, NEW T \in SUBSET (0..n), T # {}
  PROVE  Max(T) \in T /\ \A k \in T : Max(T) >= k
<1> DEFINE Above == {m \in 0..n : \A k \in T : k <= m}
<1>1. n \in Above /\ Above \in SUBSET Nat
  OBVIOUS
<1>2. PICK m \in Above : \A k \in Above : m <= k
  <2> HIDE DEF Above
  <2> QED BY <1>1, LeastNumber
<1>3. m \in T
  <2> SUFFICES ASSUME m \notin T PROVE FALSE
    OBVIOUS
  <2>1. \A k \in T : k < m
    BY <1>2
  <2>2. m \in 0..n /\ \E t \in T : t \in 0..n /\ t < m
    BY <2>1
  <2>3. m - 1 \in 0..n /\ \A k \in T : k <= m - 1
    BY <2>1, <2>2
  <2> QED BY <1>2, <2>3
<1> QED BY <1>2, <1>3 DEF Max

\* A recursion along 0..n has a solution, with values where its steps lead.
Leads(step, n, S) == \A k \in 1..n, x \in S : step[k][x] \in S
Recursion(f, n, S, base, step) ==
  f \in [0..n -> S] /\ f[0] = base /\ \A k \in 1..n : f[k] = step[k][f[k - 1]]

LEMMA RecursionExists ==
  ASSUME NEW n \in Nat, NEW S, NEW base \in S, NEW step, Leads(step, n, S)
  PROVE  \E f : Recursion(f, n, S, base, step)
<1> DEFINE T == {m \in 0..n : \E f : Recursion(f, m, S, base, step)}
<1>1. 0 \in T
  <2> DEFINE f == [k \in 0..0 |-> base]
  <2>1. Recursion(f, 0, S, base, step)
    BY DEF Recursion
  <2> HIDE DEF f
  <2> QED BY <2>1
<1>2. ASSUME NEW m \in 0..(n - 1), m \in T PROVE m + 1 \in T
  <2>1. PICK f : Recursion(f, m, S, base, step)
    BY <1>2
  <2> DEFINE g == [k \in 0..(m + 1) |-> IF k <= m THEN f[k] ELSE step[m + 1][f[m]]]
  <2>2. g \in [0..(m + 1) -> S]
    BY <2>1 DEF Recursion, Leads
  <2>3. g[0] = base
    BY <2>1 DEF Recursion
  <2>4. ASSUME NEW k \in 1..(m + 1) PROVE g[k] = step[k][g[k - 1]]
    <3>1. CASE k \in 1..m
      <4>1. k \in 0..(m + 1) /\ k - 1 \in 0..(m + 1) /\ k <= m /\ k - 1 <= m
        BY <3>1
      <4>2. g[k] = f[k] /\ g[k - 1] = f[k - 1]
        BY <4>1
      <4>3. f[k] = step[k][f[k - 1]]
        BY <2>1, <3>1 DEF Recursion
      <4> HIDE DEF g
      <4> QED BY <4>2, <4>3
    <3>2. CASE k = m + 1
      BY <3>2
    <3> QED BY <3>1, <3>2
  <2> HIDE DEF g
  <2>5. Recursion(g, m + 1, S, base, step)
    BY <2>2, <2>3, <2>4 DEF Recursion
  <2> QED BY <2>5
<1>3. n \in T
  <2> HIDE DEF T
  <2> QED BY <1>1, <1>2, UpTo
<1> QED BY <1>3

\* A sequence without repetitions, without one of its elements.
LEMMA RemovedFirst ==
  ASSUME NEW S, NEW seq \in Seq(S), NEW k \in DOMAIN seq,
         \A m, l \in DOMAIN seq : seq[m] = seq[l] => m = l
  PROVE  LET rest == RemoveFirst(seq, seq[k]) IN
         /\ rest \in Seq(S)
         /\ DOMAIN rest = 1..(Len(seq) - 1)
         /\ \A m \in DOMAIN rest : rest[m] = IF m < k THEN seq[m] ELSE seq[m + 1]
<1> DEFINE rest == RemoveFirst(seq, seq[k])
           n == Len(seq)
           before == SubSeq(seq, 1, k - 1)
           after == SubSeq(seq, k + 1, n)
<1>1. n \in Nat /\ DOMAIN seq = 1..n /\ k \in 1..n /\ \A m \in 1..n : seq[m] \in S
  OBVIOUS
<1>2. SelectInSeq(seq, LAMBDA e : e = seq[k]) = k
  <2> DEFINE I == {i \in 1..n : seq[i] = seq[k]}
  <2>1. I = {k} /\ I \in SUBSET Nat /\ I # {}
    BY <1>1
  <2> HIDE DEF I
  <2>2. Min(I) \in I
    BY <2>1, MinIsLeast
  <2>3. Min(I) = k
    BY <2>1, <2>2
  <2> QED BY <2>1, <2>3 DEF SelectInSeq, I
<1>3. rest = before \o after
  <2>1. rest = RemoveAt(seq, k)
    BY <1>1, <1>2 DEF RemoveFirst
  <2> QED BY <2>1 DEF RemoveAt
<1>4. /\ before \in Seq(S) /\ Len(before) = k - 1
      /\ \A m \in 1..(k - 1) : before[m] = seq[m]
  BY <1>1, SubSeqProperties
<1>5. /\ after \in Seq(S) /\ Len(after) = n - k
      /\ \A m \in 1..(n - k) : after[m] = seq[k + m]
  <2> HIDE DEF n
  <2>1. \A m \in (k + 1)..n : seq[m] \in S
    BY <1>1
  <2>2. /\ after \in Seq(S)
        /\ Len(after) = IF k + 1 <= n THEN n - (k + 1) + 1 ELSE 0
        /\ \A m \in 1..(n - (k + 1) + 1) : after[m] = seq[(k + 1) + m - 1]
    BY <1>1, <2>1, SubSeqProperties
  <2> QED BY <1>1, <2>2
<1> HIDE DEF before, after, rest, n
<1>6. /\ rest \in Seq(S) /\ Len(rest) = (k - 1) + (n - k)
      /\ \A m \in 1..((k - 1) + (n - k)) :
           rest[m] = IF m <= k - 1 THEN before[m] ELSE after[m - (k - 1)]
  BY <1>3, <1>4, <1>5, ConcatProperties, SMTT(30)
<1>7. ASSUME NEW m \in 1..(n - 1) PROVE rest[m] = IF m < k THEN seq[m] ELSE seq[m + 1]
  <2>1. CASE m < k
    BY <1>1, <1>4, <1>6, <2>1
  <2>2. CASE m >= k
    <3>1. rest[m] = after[m - (k - 1)] /\ m - (k - 1) \in 1..(n - k)
      BY <1>1, <1>6, <2>2
    <3> QED BY <1>1, <1>5, <2>2, <3>1
  <2> QED BY <1>1, <2>1, <2>2
<1>8. DOMAIN rest = 1..(n - 1)
  BY <1>1, <1>6
<1> QED BY <1>6, <1>7, <1>8 DEF rest, n

-----------------------------------------------------------------------------
(* Sequences of sequences. *)

\* The partial concatenations of a sequence of sequences.
Flats(f, ss, n, E) ==
  f \in [0..n -> Seq(E)] /\ f[0] = <<>> /\ \A k \in 1..n : f[k] = f[k - 1] \o ss[k]

LEMMA FlattenSums ==
  ASSUME NEW E, NEW ss \in Seq(Seq(E))
  PROVE  \E f : Flats(f, ss, Len(ss), E) /\ FlattenSeq(ss) = f[Len(ss)]
<1> DEFINE n == Len(ss)
           step == [k \in 1..n |-> [x \in Seq(E) |-> x \o ss[k]]]
           Loop(g) == g = [i \in 1..n |-> IF i = 1 THEN ss[i] ELSE g[i - 1] \o ss[i]]
           flat == CHOOSE g : Loop(g)
<1>1. n \in Nat /\ \A k \in 1..n : ss[k] \in Seq(E)
  OBVIOUS
<1>2. \A k \in 1..n, x \in Seq(E) : step[k][x] = x \o ss[k] /\ step[k][x] \in Seq(E)
  BY <1>1
<1>3. PICK f : Recursion(f, n, Seq(E), <<>>, step)
  <2> DEFINE S == Seq(E)
  <2>1. <<>> \in S /\ \A k \in 1..n, x \in S : step[k][x] \in S
    BY <1>2
  <2> HIDE DEF step, n, S
  <2>2. Leads(step, n, S)
    BY <2>1 DEF Leads
  <2>3. \E f : Recursion(f, n, S, <<>>, step)
    BY <1>1, <2>1, <2>2, RecursionExists
  <2> QED BY <2>3 DEF S
<1>4. /\ f \in [0..n -> Seq(E)] /\ f[0] = <<>>
      /\ \A k \in 1..n : f[k] = step[k][f[k - 1]] /\ k - 1 \in 0..n
  <2> HIDE DEF step, n
  <2>1. \A k \in 1..n : k - 1 \in 0..n
    BY <1>1
  <2> QED BY <1>1, <1>3, <2>1 DEF Recursion
<1>5. \A k \in 1..n : f[k] = f[k - 1] \o ss[k]
  BY <1>2, <1>4
<1>6. Flats(f, ss, n, E)
  BY <1>4, <1>5 DEF Flats
<1>7. CASE n = 0
  <2>1. FlattenSeq(ss) = ss /\ ss = <<>>
    BY <1>7 DEF FlattenSeq
  <2> QED BY <1>4, <1>6, <1>7, <2>1
<1>8. CASE n # 0
  <2>1. FlattenSeq(ss) = flat[n]
    BY <1>8 DEF FlattenSeq
  <2>2. Loop([i \in 1..n |-> f[i]])
    <3> DEFINE g == [i \in 1..n |-> f[i]]
    <3>1. ASSUME NEW i \in 1..n PROVE g[i] = IF i = 1 THEN ss[i] ELSE g[i - 1] \o ss[i]
      <4>1. CASE i = 1
        <5>1. f[1] = f[0] \o ss[1] /\ ss[1] \in Seq(E)
          <6>1. 1 \in 1..n
            BY <4>1
          <6>2. f[1] = f[1 - 1] \o ss[1]
            BY <1>5, <6>1
          <6> QED BY <1>1, <6>1, <6>2
        <5>2. <<>> \o ss[1] = ss[1]
          BY <5>1, ConcatEmptySeq
        <5> QED BY <1>4, <4>1, <5>1, <5>2
      <4>2. CASE i # 1
        <5>1. i - 1 \in 1..n
          BY <1>1, <4>2
        <5> QED BY <1>5, <4>2, <5>1
      <4> QED BY <4>1, <4>2
    <3>2. g = [i \in 1..n |-> g[i]]
      OBVIOUS
    <3> HIDE DEF g
    <3>3. [i \in 1..n |-> g[i]] = [i \in 1..n |-> IF i = 1 THEN ss[i] ELSE g[i - 1] \o ss[i]]
      BY <3>1, Zenon
    <3>4. Loop(g)
      BY <3>2, <3>3
    <3> QED BY <3>4 DEF g
  <2>3. Loop(flat)
    BY <2>2
  <2> HIDE DEF flat
  <2> DEFINE R == {i \in 0..n : i = 0 \/ flat[i] = f[i]}
  <2>4. 0 \in R
    BY <1>1
  <2>5. ASSUME NEW i \in 0..(n - 1), i \in R PROVE i + 1 \in R
    <3>1. i + 1 \in 1..n /\ (i + 1) - 1 = i
      BY <1>1
    <3>2. flat[i + 1] = IF i + 1 = 1 THEN ss[i + 1] ELSE flat[i] \o ss[i + 1]
      BY <2>3, <3>1
    <3>3. f[i + 1] = f[i] \o ss[i + 1]
      BY <1>5, <3>1
    <3>4. i = 0 => f[i + 1] = ss[i + 1]
      <4>1. ss[i + 1] \in Seq(E) /\ <<>> \o ss[i + 1] = ss[i + 1]
        BY <1>1, <3>1, ConcatEmptySeq
      <4> QED BY <1>4, <3>3, <4>1
    <3>5. CASE i = 0
      <4>1. i + 1 = 1 /\ flat[i + 1] = f[i + 1]
        BY <3>2, <3>4, <3>5
      <4> QED BY <3>1, <4>1
    <3>6. CASE i # 0
      <4>1. i + 1 # 1 /\ flat[i] = f[i]
        BY <2>5, <3>6
      <4>2. flat[i + 1] = f[i + 1]
        BY <3>2, <3>3, <4>1
      <4> QED BY <3>1, <4>2
    <3> QED BY <3>5, <3>6
  <2>6. n \in R
    <3> HIDE DEF R
    <3>1. 0..n \subseteq R
      BY <1>1, <2>4, <2>5, UpTo
    <3> QED BY <1>1, <3>1
  <2>7. flat[n] = f[n]
    BY <1>8, <2>6
  <2> QED BY <1>6, <2>1, <2>7
<1> QED BY <1>1, <1>7, <1>8

LEMMA FlattenConcat ==
  ASSUME NEW E, NEW ss \in Seq(Seq(E)), NEW tt \in Seq(Seq(E))
  PROVE  /\ FlattenSeq(ss) \in Seq(E)
         /\ FlattenSeq(ss \o tt) = FlattenSeq(ss) \o FlattenSeq(tt)
<1> DEFINE n == Len(ss)
           m == Len(tt)
           uu == ss \o tt
<1>1. /\ n \in Nat /\ m \in Nat /\ uu \in Seq(Seq(E)) /\ Len(uu) = n + m
      /\ \A k \in 1..n : ss[k] \in Seq(E) /\ uu[k] = ss[k]
      /\ \A k \in 1..m : tt[k] \in Seq(E) /\ uu[n + k] = tt[k]
  OBVIOUS
<1>2. PICK f : Flats(f, ss, n, E) /\ FlattenSeq(ss) = f[n]
  BY FlattenSums
<1>3. PICK g : Flats(g, tt, m, E) /\ FlattenSeq(tt) = g[m]
  BY FlattenSums
<1>4. PICK h : Flats(h, uu, n + m, E) /\ FlattenSeq(uu) = h[n + m]
  <2> HIDE DEF uu
  <2> QED BY <1>1, FlattenSums
<1> HIDE DEF uu, n, m
<1>5. h[n] = f[n]
  <2> DEFINE R == {i \in 0..n : h[i] = f[i]}
  <2>1. 0 \in R
    BY <1>1, <1>2, <1>4 DEF Flats
  <2>2. ASSUME NEW i \in 0..(n - 1), i \in R PROVE i + 1 \in R
    <3>1. i + 1 \in 1..n /\ i + 1 \in 1..(n + m) /\ (i + 1) - 1 = i /\ i + 1 \in 0..n
      BY <1>1
    <3>2. h[i + 1] = h[i] \o uu[i + 1]
      BY <1>4, <3>1 DEF Flats
    <3>3. f[i + 1] = f[i] \o ss[i + 1]
      BY <1>2, <3>1 DEF Flats
    <3> QED BY <1>1, <2>2, <3>1, <3>2, <3>3
  <2>3. 0..n \subseteq R
    <3> HIDE DEF R
    <3> QED BY <1>1, <2>1, <2>2, UpTo
  <2> QED BY <1>1, <2>3
<1>6. h[n + m] = f[n] \o g[m]
  <2> DEFINE R == {i \in 0..m : h[n + i] = f[n] \o g[i]}
  <2>a. f[n] \in Seq(E) /\ \A i \in 0..m : g[i] \in Seq(E)
    BY <1>1, <1>2, <1>3 DEF Flats
  <2>1. 0 \in R
    <3>1. f[n] \o <<>> = f[n]
      BY <2>a, ConcatEmptySeq
    <3>2. g[0] = <<>> /\ n + 0 = n /\ 0 \in 0..m
      BY <1>1, <1>3 DEF Flats
    <3> QED BY <1>5, <3>1, <3>2
  <2>2. ASSUME NEW i \in 0..(m - 1), i \in R PROVE i + 1 \in R
    <3>1. /\ i + 1 \in 1..m /\ n + (i + 1) \in 1..(n + m) /\ (i + 1) - 1 = i /\ i + 1 \in 0..m
          /\ (n + (i + 1)) - 1 = n + i /\ i \in 0..m
      BY <1>1
    <3>2. h[n + (i + 1)] = h[n + i] \o uu[n + (i + 1)]
      BY <1>4, <3>1 DEF Flats
    <3>3. g[i + 1] = g[i] \o tt[i + 1]
      BY <1>3, <3>1 DEF Flats
    <3>4. h[n + (i + 1)] = (f[n] \o g[i]) \o tt[i + 1]
      <4>1. h[n + i] = f[n] \o g[i] /\ uu[n + (i + 1)] = tt[i + 1]
        BY <1>1, <2>2, <3>1
      <4> QED BY <3>1, <3>2, <4>1
    <3>5. (f[n] \o g[i]) \o tt[i + 1] = f[n] \o (g[i] \o tt[i + 1])
      <4>1. f[n] \in Seq(E) /\ g[i] \in Seq(E) /\ tt[i + 1] \in Seq(E)
        BY <1>1, <2>a, <3>1
      <4>2. \A a, b, c \in Seq(E) : (a \o b) \o c = a \o (b \o c)
        BY ConcatAssociative, SMTT(30)
      <4> QED BY <4>1, <4>2
    <3> QED BY <3>1, <3>3, <3>4, <3>5
  <2>3. 0..m \subseteq R
    <3> HIDE DEF R
    <3> QED BY <1>1, <2>1, <2>2, UpTo
  <2>4. m \in R
    <3> HIDE DEF R
    <3> QED BY <1>1, <2>3
  <2> QED BY <2>4
<1>7. f[n] \in Seq(E)
  BY <1>1, <1>2 DEF Flats
<1> QED BY <1>2, <1>3, <1>4, <1>5, <1>6, <1>7 DEF uu, n, m

\* The concatenation of what F makes of each element of s.
Turns(F, D, E) == F \in [D -> Seq(E)]
Mapped(F, s) == [i \in DOMAIN s |-> F[s[i]]]
FlatMap(F, s) == FlattenSeq(Mapped(F, s))

LEMMA FlatMapEmpty == \A F : FlatMap(F, <<>>) = <<>>
<1>1. \A F : Mapped(F, <<>>) = <<>>
  BY DEF Mapped
<1>2. FlattenSeq(<<>>) = <<>>
  BY DEF FlattenSeq
<1> QED BY <1>1, <1>2 DEF FlatMap

LEMMA FlatMapConcat ==
  ASSUME NEW D, NEW E, NEW F, Turns(F, D, E), NEW s \in Seq(D), NEW t \in Seq(D)
  PROVE  FlatMap(F, s) \in Seq(E) /\ FlatMap(F, s \o t) = FlatMap(F, s) \o FlatMap(F, t)
<1>1. ASSUME NEW u \in Seq(D) PROVE Mapped(F, u) \in Seq(Seq(E)) /\ Len(Mapped(F, u)) = Len(u)
  <2>1. Len(u) \in Nat /\ DOMAIN u = 1..Len(u) /\ \A i \in 1..Len(u) : F[u[i]] \in Seq(E)
    BY DEF Turns
  <2>2. Mapped(F, u) \in [1..Len(u) -> Seq(E)]
    BY <2>1 DEF Mapped
  <2>3. \A n \in Nat : \A z \in [1..n -> Seq(E)] : z \in Seq(Seq(E)) /\ Len(z) = n
    OBVIOUS
  <2> QED BY <2>1, <2>2, <2>3
<1>2. Mapped(F, s \o t) = Mapped(F, s) \o Mapped(F, t)
  <2> DEFINE a == Mapped(F, s \o t)
             b == Mapped(F, s) \o Mapped(F, t)
  <2>1. /\ s \o t \in Seq(D) /\ Len(s) \in Nat /\ Len(t) \in Nat /\ Len(s \o t) = Len(s) + Len(t)
        /\ DOMAIN s = 1..Len(s) /\ DOMAIN t = 1..Len(t) /\ DOMAIN (s \o t) = 1..(Len(s) + Len(t))
        /\ \A i \in 1..(Len(s) + Len(t)) : (s \o t)[i] = IF i <= Len(s) THEN s[i] ELSE t[i - Len(s)]
    OBVIOUS
  <2>2. a \in Seq(Seq(E)) /\ Len(a) = Len(s) + Len(t)
    BY <1>1, <2>1
  <2>3. /\ b \in Seq(Seq(E)) /\ Len(b) = Len(s) + Len(t)
        /\ \A i \in 1..(Len(s) + Len(t)) :
             b[i] = IF i <= Len(s) THEN Mapped(F, s)[i] ELSE Mapped(F, t)[i - Len(s)]
    <3>1. /\ Mapped(F, s) \in Seq(Seq(E)) /\ Len(Mapped(F, s)) = Len(s)
          /\ Mapped(F, t) \in Seq(Seq(E)) /\ Len(Mapped(F, t)) = Len(t)
      BY <1>1
    <3>2. PICK p \in Seq(Seq(E)), q \in Seq(Seq(E)) : p = Mapped(F, s) /\ q = Mapped(F, t)
      BY <3>1
    <3>3. /\ p \o q \in Seq(Seq(E)) /\ Len(p \o q) = Len(p) + Len(q)
          /\ \A i \in 1..(Len(p) + Len(q)) :
               (p \o q)[i] = IF i <= Len(p) THEN p[i] ELSE q[i - Len(p)]
      BY ConcatProperties
    <3>4. b = p \o q /\ Len(p) = Len(s) /\ Len(q) = Len(t)
      BY <3>1, <3>2
    <3> HIDE DEF b
    <3> QED BY <3>2, <3>3, <3>4
  <2>4. \A i \in 1..(Len(s) + Len(t)) : a[i] = b[i]
    <3> SUFFICES ASSUME NEW i \in 1..(Len(s) + Len(t)) PROVE a[i] = b[i]
      OBVIOUS
    <3>1. a[i] = F[(s \o t)[i]]
      BY <2>1 DEF Mapped
    <3>2. CASE i <= Len(s)
      <4>1. Mapped(F, s)[i] = F[s[i]]
        BY <2>1, <3>2 DEF Mapped
      <4> HIDE DEF a, b
      <4> QED BY <2>1, <2>3, <3>1, <3>2, <4>1
    <3>3. CASE ~(i <= Len(s))
      <4>1. Mapped(F, t)[i - Len(s)] = F[t[i - Len(s)]]
        BY <2>1, <3>3 DEF Mapped
      <4> HIDE DEF a, b
      <4> QED BY <2>1, <2>3, <3>1, <3>3, <4>1
    <3> QED BY <3>2, <3>3
  <2> HIDE DEF a, b
  <2>5. a = b
    BY <2>2, <2>3, <2>4
  <2> QED BY <2>5 DEF a, b
<1> QED BY <1>1, <1>2, FlattenConcat DEF FlatMap

LEMMA FlatMapOne ==
  ASSUME NEW D, NEW E, NEW F, Turns(F, D, E), NEW x \in D
  PROVE  FlatMap(F, <<x>>) = F[x]
<1>1. Mapped(F, <<x>>) = <<F[x]>> /\ F[x] \in Seq(E)
  BY DEF Mapped, Turns
<1>2. ASSUME NEW y PROVE FlattenSeq(<<y>>) = y
  <2> DEFINE ss == <<y>>
             Loop(g) == g = [i \in 1..1 |-> IF i = 1 THEN ss[i] ELSE g[i - 1] \o ss[i]]
             flat == CHOOSE g : Loop(g)
             f == [i \in 1..1 |-> y]
  <2>1. Len(ss) = 1 /\ ss[1] = y
    OBVIOUS
  <2>2. FlattenSeq(ss) = flat[1]
    BY <2>1 DEF FlattenSeq
  <2>3. Loop(f)
    BY <2>1
  <2>4. Loop(flat)
    BY <2>3
  <2> HIDE DEF flat
  <2>5. flat[1] = y
    BY <2>1, <2>4
  <2> QED BY <2>2, <2>5
<1> QED BY <1>1, <1>2 DEF FlatMap

LEMMA FlatMapAppend ==
  ASSUME NEW D, NEW E, NEW F, Turns(F, D, E), NEW s \in Seq(D), NEW x \in D
  PROVE  /\ FlatMap(F, s) \in Seq(E) /\ F[x] \in Seq(E)
         /\ FlatMap(F, Append(s, x)) = FlatMap(F, s) \o F[x]
<1>1. <<x>> \in Seq(D) /\ Append(s, x) = s \o <<x>>
  OBVIOUS
<1>2. FlatMap(F, s \o <<x>>) = FlatMap(F, s) \o FlatMap(F, <<x>>) /\ FlatMap(F, s) \in Seq(E)
  <2>1. PICK t \in Seq(D) : t = <<x>>
    BY <1>1
  <2>2. FlatMap(F, s \o t) = FlatMap(F, s) \o FlatMap(F, t) /\ FlatMap(F, s) \in Seq(E)
    BY FlatMapConcat
  <2> QED BY <2>1, <2>2
<1>3. FlatMap(F, <<x>>) = F[x] /\ F[x] \in Seq(E)
  BY FlatMapOne DEF Turns
<1> QED BY <1>1, <1>2, <1>3


Grown(f, F, s, E) ==
  /\ f \in [0..Len(s) -> Seq(E)] /\ f[0] = <<>> /\ FlatMap(F, s) = f[Len(s)]
  /\ \A k \in 1..Len(s) : f[k] = f[k - 1] \o F[s[k]]

LEMMA FlatMapSums ==
  ASSUME NEW D, NEW E, NEW F, Turns(F, D, E), NEW s \in Seq(D)
  PROVE  \E f : Grown(f, F, s, E)
<1>1. Len(s) \in Nat /\ DOMAIN s = 1..Len(s) /\ \A i \in 1..Len(s) : F[s[i]] \in Seq(E)
  BY DEF Turns
<1>2. /\ Mapped(F, s) \in [1..Len(s) -> Seq(E)]
      /\ \A k \in 1..Len(s) : Mapped(F, s)[k] = F[s[k]]
  BY <1>1 DEF Mapped
<1>3. \A n \in Nat : \A z \in [1..n -> Seq(E)] : z \in Seq(Seq(E)) /\ Len(z) = n
  OBVIOUS
<1>4. PICK ss \in Seq(Seq(E)) : ss = Mapped(F, s)
  BY <1>1, <1>2, <1>3
<1>5. PICK f : Flats(f, ss, Len(ss), E) /\ FlattenSeq(ss) = f[Len(ss)]
  BY FlattenSums
<1>6. Len(ss) = Len(s) /\ \A k \in 1..Len(s) : ss[k] = F[s[k]]
  BY <1>1, <1>2, <1>3, <1>4
<1>7. FlatMap(F, s) = f[Len(s)]
  BY <1>4, <1>5, <1>6 DEF FlatMap
<1>8. Grown(f, F, s, E)
  BY <1>5, <1>6, <1>7 DEF Flats, Grown
<1> QED BY <1>8

LEMMA FlatMapNothing ==
  ASSUME NEW D, NEW E, NEW F, Turns(F, D, E), NEW s \in Seq(D), \A i \in DOMAIN s : F[s[i]] = <<>>
  PROVE  FlatMap(F, s) = <<>>
<1>a. PICK f : Grown(f, F, s, E)
  BY FlatMapSums
<1>1. /\ f \in [0..Len(s) -> Seq(E)] /\ f[0] = <<>> /\ FlatMap(F, s) = f[Len(s)]
      /\ \A k \in 1..Len(s) : f[k] = f[k - 1] \o F[s[k]]
  BY <1>a DEF Grown
<1> DEFINE n == Len(s)
           R == {i \in 0..n : f[i] = <<>>}
<1>2. n \in Nat /\ DOMAIN s = 1..n
  OBVIOUS
<1>3. 0 \in R
  BY <1>1, <1>2
<1>4. ASSUME NEW i \in 0..(n - 1), i \in R PROVE i + 1 \in R
  <2>1. i + 1 \in 1..n /\ (i + 1) - 1 = i
    BY <1>2
  <2>2. f[i + 1] = <<>> \o <<>>
    BY <1>1, <1>2, <1>4, <2>1
  <2> QED BY <2>1, <2>2
<1>5. n \in R
  <2> HIDE DEF R
  <2>1. 0..n \subseteq R
    BY <1>2, <1>3, <1>4, UpTo
  <2> QED BY <1>2, <2>1
<1> QED BY <1>1, <1>5

LEMMA FlatMapSingles ==
  ASSUME NEW D, NEW E, NEW F, Turns(F, D, E), NEW s \in Seq(D), NEW u \in Seq(E), Len(u) = Len(s),
         \A i \in DOMAIN s : F[s[i]] = <<u[i]>>
  PROVE  FlatMap(F, s) = u
<1>a. PICK f : Grown(f, F, s, E)
  BY FlatMapSums
<1>1. /\ f \in [0..Len(s) -> Seq(E)] /\ f[0] = <<>> /\ FlatMap(F, s) = f[Len(s)]
      /\ \A k \in 1..Len(s) : f[k] = f[k - 1] \o F[s[k]]
  BY <1>a DEF Grown
<1> DEFINE n == Len(s)
           R == {i \in 0..n : Len(f[i]) = i /\ \A k \in 1..i : f[i][k] = u[k]}
<1>2. n \in Nat /\ DOMAIN s = 1..n /\ \A i \in 1..n : u[i] \in E
  OBVIOUS
<1>3. 0 \in R
  BY <1>1, <1>2
<1>0. \A x \in E : <<x>> \in Seq(E)
  OBVIOUS
<1>b. \A i \in 1..n : F[s[i]] = <<u[i]>>
  BY <1>2
<1>4. ASSUME NEW i \in 0..(n - 1), i \in R PROVE i + 1 \in R
  <2>1. i + 1 \in 1..n /\ (i + 1) - 1 = i /\ i \in 0..n
    BY <1>2
  <2>a. f[i] \in Seq(E) /\ u[i + 1] \in E /\ f[i + 1] = f[i] \o F[s[i + 1]] /\ i + 1 \in DOMAIN s
    BY <1>1, <1>2, <2>1
  <2>b. F[s[i + 1]] = <<u[i + 1]>>
    BY <1>b, <2>1
  <2>2. f[i] \in Seq(E) /\ <<u[i + 1]>> \in Seq(E) /\ f[i + 1] = f[i] \o <<u[i + 1]>>
    BY <2>a, <2>b, <1>0
  <2>3. Len(f[i]) = i /\ \A k \in 1..i : f[i][k] = u[k]
    BY <1>4
  <2>4. PICK p \in Seq(E) : p = f[i]
    BY <2>2
  <2>5. PICK q \in Seq(E) : q = <<u[i + 1]>>
    BY <2>2
  <2>6. /\ Len(p \o q) = Len(p) + Len(q)
        /\ \A k \in 1..(Len(p) + Len(q)) : (p \o q)[k] = IF k <= Len(p) THEN p[k] ELSE q[k - Len(p)]
    BY ConcatProperties
  <2>7. Len(p) = i /\ Len(q) = 1 /\ q[1] = u[i + 1] /\ f[i + 1] = p \o q
    BY <2>2, <2>3, <2>4, <2>5
  <2>8. \A k \in 1..(i + 1) : k \in 1..i \/ (k = i + 1 /\ k - i = 1 /\ ~(k <= i))
    BY <2>1
  <2>9. Len(p \o q) = i + 1 /\ i \in Nat
    BY <2>1, <2>6, <2>7
  <2>10. ASSUME NEW k \in 1..(i + 1) PROVE (p \o q)[k] = u[k]
    <3>1. k \in 1..(Len(p) + Len(q))
      BY <2>7
    <3>2. (p \o q)[k] = IF k <= Len(p) THEN p[k] ELSE q[k - Len(p)]
      BY <2>6, <3>1
    <3>3. CASE k \in 1..i
      <4>1. k <= Len(p)
        BY <2>7, <3>3
      <4>2. p[k] = u[k]
        BY <2>3, <2>4, <3>3
      <4> QED BY <3>2, <4>1, <4>2
    <3>4. CASE k = i + 1 /\ k - i = 1 /\ ~(k <= i)
      <4>1. k - Len(p) = 1 /\ ~(k <= Len(p))
        BY <2>7, <3>4
      <4>2. (p \o q)[k] = q[1]
        BY <3>2, <4>1
      <4> QED BY <2>7, <3>4, <4>2
    <3> QED BY <2>8, <3>3, <3>4
  <2>11. Len(f[i + 1]) = i + 1 /\ \A k \in 1..(i + 1) : f[i + 1][k] = u[k]
    BY <2>7, <2>9, <2>10
  <2> QED BY <2>1, <2>11
<1>5. n \in R
  <2> HIDE DEF R
  <2>1. 0..n \subseteq R
    BY <1>2, <1>3, <1>4, UpTo
  <2> QED BY <1>2, <2>1
<1>6. f[n] \in Seq(E) /\ Len(f[n]) = Len(u) /\ \A k \in 1..n : f[n][k] = u[k]
  BY <1>1, <1>2, <1>5
<1>7. f[n] = u
  BY <1>6, <1>2
<1> QED BY <1>1, <1>7
=============================================================================
