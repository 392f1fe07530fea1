----------------------------- MODULE Recursion -----------------------------
(***************************************************************************)
(* What a recursive definition computes, for every input.  A function that *)
(* is defined in terms of its values at arguments of a lower rank exists,  *)
(* and so satisfies its equation (FixedPoint); what holds of all of its    *)
(* values is proved on a counterexample of least rank (LeastRank,          *)
(* Shortest).  The rest applies this to FlattenSeq of the community        *)
(* modules and to the images of sequences.                                 *)
(***************************************************************************)
EXTENDS Naturals, SequencesExt, SequenceTheorems, WellFoundedInduction, TLAPS

(* Every nonempty set of naturals has a least element, and every nonempty  *)
(* set of ranked things one of least rank.                                 *)
LEMMA Least ==
  ASSUME NEW T, T \subseteq Nat, T # {}
  PROVE  \E x \in T : \A y \in T : ~(y < x)
<1> DEFINE R == {ss \in Nat \X Nat : ss[1] < ss[2]}
<1>1. IsWellFoundedOn(R, Nat)
  BY NatLessThanWellFounded DEF OpToRel
<1>2. \E x \in T : \A y \in T : ~ (<<y, x>> \in R)
  BY <1>1, WFMin
<1> QED BY <1>2

LEMMA LeastRank ==
  ASSUME NEW S, NEW rank \in [S -> Nat], NEW B \in SUBSET S, B # {}
  PROVE  \E x \in B : \A y \in B : rank[x] <= rank[y]
<1> DEFINE T == {rank[x] : x \in B}
<1>1. T \subseteq Nat /\ T # {}
  OBVIOUS
<1>2. \E n \in T : \A k \in T : ~(k < n)
  BY <1>1, Least
<1>3. PICK x \in B : \A k \in T : ~(k < rank[x])
  BY <1>2
<1>4. \A y \in B : rank[x] \in Nat /\ rank[y] \in Nat /\ ~(rank[y] < rank[x])
  BY <1>3
<1>5. \A y \in B : rank[x] <= rank[y]
  BY <1>4
<1> QED BY <1>5

---------------------------------------------------------------------------
(* F computes a function from S to V of which the value at x depends only   *)
(* on those of lower rank.                                                 *)
Descends(S, V, rank, F) ==
  /\ V # {} /\ rank \in [S -> Nat] /\ F \in [[S -> V] -> [S -> V]]
  /\ \A g, h \in [S -> V], x \in S :
      (\A y \in S : rank[y] < rank[x] => g[y] = h[y]) => F[g][x] = F[h][x]

(* g solves its equation on the ranks below n.                             *)
Solves(S, V, rank, F, g, n) ==
  g \in [S -> V] /\ \A x \in S : rank[x] < n => g[x] = F[g][x]

LEMMA SolutionsAgree ==
  ASSUME NEW S, NEW V, NEW rank, NEW F, Descends(S, V, rank, F)
  PROVE  \A n \in Nat : \A g, h : Solves(S, V, rank, F, g, n) /\ Solves(S, V, rank, F, h, n) =>
           \A x \in S : rank[x] < n => g[x] = h[x]
<1> V # {} /\ rank \in [S -> Nat] /\ F \in [[S -> V] -> [S -> V]]
  BY DEF Descends
<1> SUFFICES ASSUME NEW n \in Nat, NEW g, NEW h,
                    Solves(S, V, rank, F, g, n), Solves(S, V, rank, F, h, n)
             PROVE  \A x \in S : rank[x] < n => g[x] = h[x]
  OBVIOUS
<1> DEFINE B == {x \in S : rank[x] < n /\ g[x] # h[x]}
<1>1. SUFFICES ASSUME B # {} PROVE FALSE
  OBVIOUS
<1>2. PICK x \in B : \A y \in B : rank[x] <= rank[y]
  BY <1>1, LeastRank
<1>3. \A y \in S : rank[y] < rank[x] => g[y] = h[y]
  BY <1>2
<1>4. g \in [S -> V] /\ h \in [S -> V]
  BY DEF Solves
<1>5. F[g][x] = F[h][x]
  BY <1>2, <1>3, <1>4 DEF Descends
<1> QED BY <1>2, <1>5 DEF Solves

LEMMA SolutionExists ==
  ASSUME NEW S, NEW V, NEW rank, NEW F, Descends(S, V, rank, F)
  PROVE  \A n \in Nat : \E g : Solves(S, V, rank, F, g, n)
<1> V # {} /\ rank \in [S -> Nat] /\ F \in [[S -> V] -> [S -> V]]
  BY DEF Descends
<1> DEFINE B == {n \in Nat : ~ \E g : Solves(S, V, rank, F, g, n)}
<1>1. SUFFICES ASSUME B # {} PROVE FALSE
  OBVIOUS
<1>2. PICK n \in B : \A k \in B : ~(k < n)
  BY <1>1, Least
<1>3. n # 0
  <2>1. PICK v : v \in V
    OBVIOUS
  <2>2. [x \in S |-> v] \in [S -> V]
    BY <2>1
  <2>3. \A x \in S : ~(rank[x] < 0)
    OBVIOUS
  <2>4. Solves(S, V, rank, F, [x \in S |-> v], 0)
    BY <2>2, <2>3 DEF Solves
  <2> QED BY <1>2, <2>4
<1>4. n - 1 \in Nat /\ n - 1 < n
  BY <1>2, <1>3
<1>5. PICK g : Solves(S, V, rank, F, g, n - 1)
  BY <1>2, <1>4
<1>6. g \in [S -> V] /\ F[g] \in [S -> V]
  BY <1>5 DEF Solves
<1>7. ASSUME NEW x \in S, rank[x] < n
      PROVE  F[g][x] = F[F[g]][x]
  <2>1. \A y \in S : rank[y] < rank[x] => rank[y] < n - 1
    BY <1>2, <1>7
  <2>2. \A y \in S : rank[y] < rank[x] => g[y] = F[g][y]
    BY <1>5, <2>1 DEF Solves
  <2> QED BY <1>6, <2>2 DEF Descends
<1>8. Solves(S, V, rank, F, F[g], n)
  BY <1>6, <1>7 DEF Solves
<1> QED BY <1>2, <1>8

(* A definition by recursion on the rank defines a function.               *)
LEMMA FixedPoint ==
  ASSUME NEW S, NEW V, NEW rank, NEW F, Descends(S, V, rank, F)
  PROVE  \E g \in [S -> V] : g = F[g]
<1> V # {} /\ rank \in [S -> Nat] /\ F \in [[S -> V] -> [S -> V]]
  BY DEF Descends
<1>0. \A k \in Nat : \A g, h : Solves(S, V, rank, F, g, k) /\ Solves(S, V, rank, F, h, k) =>
         \A z \in S : rank[z] < k => g[z] = h[z]
  BY SolutionsAgree
<1> DEFINE c(x) == CHOOSE g : Solves(S, V, rank, F, g, rank[x] + 1)
           r == [x \in S |-> c(x)[x]]
<1>1. \A x \in S : Solves(S, V, rank, F, c(x), rank[x] + 1)
  <2> TAKE x \in S
  <2>1. rank[x] + 1 \in Nat
    OBVIOUS
  <2>2. \E g : Solves(S, V, rank, F, g, rank[x] + 1)
    BY <2>1, SolutionExists
  <2> QED BY <2>2
<1> HIDE DEF c
<1>2. \A x \in S : c(x) \in [S -> V] /\ c(x)[x] = F[c(x)][x]
  BY <1>1 DEF Solves
<1>3. r \in [S -> V]
  BY <1>2
<1>4. ASSUME NEW x \in S, NEW y \in S, rank[y] < rank[x]
      PROVE  c(x)[y] = r[y]
  <2>1. rank[y] + 1 \in Nat /\ rank[x] + 1 \in Nat /\ rank[y] < rank[y] + 1
        /\ \A z \in S : rank[z] < rank[y] + 1 => rank[z] < rank[x] + 1
    BY <1>4
  <2>2. Solves(S, V, rank, F, c(x), rank[y] + 1)
    BY <1>1, <2>1 DEF Solves
  <2>3. c(x)[y] = c(y)[y]
    <3> DEFINE a == c(x)
               b == c(y)
               n == rank[y] + 1
    <3>1. n \in Nat /\ Solves(S, V, rank, F, a, n) /\ Solves(S, V, rank, F, b, n)
      BY <1>1, <2>1, <2>2
    <3>2. rank[y] < n
      BY <2>1
    <3> HIDE DEF a, b, n
    <3>4. \A z \in S : rank[z] < n => a[z] = b[z]
      BY <3>1, <1>0
    <3> QED BY <3>2, <3>4 DEF a, b
  <2> QED BY <2>3
<1>5. \A x \in S : r[x] = F[r][x]
  <2> TAKE x \in S
  <2>1. F[c(x)][x] = F[r][x]
    BY <1>2, <1>3, <1>4 DEF Descends
  <2> QED BY <1>2, <2>1
<1>6. F[r] \in [S -> V]
  BY <1>3
<1>7. r = F[r]
  <2> HIDE DEF r
  <2> QED BY <1>3, <1>5, <1>6
<1> QED BY <1>3, <1>7

---------------------------------------------------------------------------
(* FlattenSeq is defined by a function that recurs on the position.        *)
LEMMA FlattenFunction ==
  ASSUME NEW S, NEW ss \in Seq(Seq(S)), ss # <<>>
  PROVE  \E f \in [1..Len(ss) -> Seq(S)] :
           /\ f = [i \in 1..Len(ss) |-> IF i = 1 THEN ss[i] ELSE f[i - 1] \o ss[i]]
           /\ FlattenSeq(ss) = f[Len(ss)]
<1> DEFINE D == 1..Len(ss)
           V == Seq(S)
           rank == [i \in D |-> i]
           F == [g \in [D -> V] |-> [i \in D |-> IF i = 1 THEN ss[i] ELSE g[i - 1] \o ss[i]]]
<1>1. F \in [[D -> V] -> [D -> V]]
  <2>1. \A g \in [D -> V], i \in D :
          (IF i = 1 THEN ss[i] ELSE g[i - 1] \o ss[i]) \in V
    <3> TAKE g \in [D -> V], i \in D
    <3>1. ss[i] \in V /\ (i # 1 => i - 1 \in D)
      OBVIOUS
    <3>2. i # 1 => g[i - 1] \in V
      BY <3>1
    <3> QED BY <3>1, <3>2, ConcatProperties
  <2> QED BY <2>1
<1>2. rank \in [D -> Nat] /\ <<>> \in V
  OBVIOUS
<1>3. ASSUME NEW g \in [D -> V], NEW h \in [D -> V], NEW i \in D,
             \A j \in D : rank[j] < rank[i] => g[j] = h[j]
      PROVE  F[g][i] = F[h][i]
  <2>1. i # 1 => i - 1 \in D /\ i - 1 < i
    OBVIOUS
  <2>2. i # 1 => g[i - 1] = h[i - 1]
    BY <1>3, <2>1
  <2> QED BY <2>2
<1>4. Descends(D, V, rank, F)
  BY <1>1, <1>2, <1>3 DEF Descends
<1>5. \E f \in [D -> V] : f = F[f]
  <2> HIDE DEF F, D, V, rank
  <2> QED BY <1>4, FixedPoint
<1>6. PICK f \in [D -> V] : f = [i \in D |-> IF i = 1 THEN ss[i] ELSE f[i - 1] \o ss[i]]
  BY <1>5
<1> DEFINE h == CHOOSE g : g = [i \in D |-> IF i = 1 THEN ss[i] ELSE g[i - 1] \o ss[i]]
<1>7. FlattenSeq(ss) = h[Len(ss)]
  <2>1. Len(ss) # 0
    OBVIOUS
  <2> QED BY <2>1 DEF FlattenSeq
<1>8. h = [i \in D |-> IF i = 1 THEN ss[i] ELSE h[i - 1] \o ss[i]]
  BY <1>6
<1> HIDE DEF h, F
<1>9. \A i \in D : h[i] = f[i]
  <2> DEFINE B == {i \in D : h[i] # f[i]}
  <2>1. SUFFICES ASSUME B # {} PROVE FALSE
    OBVIOUS
  <2>2. PICK i \in B : \A j \in B : ~(j < i)
    <3>1. B \subseteq Nat
      OBVIOUS
    <3> QED BY <2>1, <3>1, Least
  <2>3. i # 1 => i - 1 \in D /\ i - 1 < i
    BY <2>2
  <2>4. i # 1 => h[i - 1] = f[i - 1]
    BY <2>2, <2>3
  <2>5. h[i] = IF i = 1 THEN ss[i] ELSE h[i - 1] \o ss[i]
    BY <2>2, <1>8
  <2>6. f[i] = IF i = 1 THEN ss[i] ELSE f[i - 1] \o ss[i]
    BY <2>2, <1>6
  <2> QED BY <2>2, <2>4, <2>5, <2>6
<1>10. Len(ss) \in D
  OBVIOUS
<1> QED BY <1>6, <1>7, <1>9, <1>10

LEMMA FlattenType ==
  ASSUME NEW S, NEW ss \in Seq(Seq(S))
  PROVE  FlattenSeq(ss) \in Seq(S)
<1>1. CASE ss = <<>>
  BY <1>1 DEF FlattenSeq
<1>2. CASE ss # <<>>
  <2>1. Len(ss) \in 1..Len(ss)
    BY <1>2
  <2>2. PICK f \in [1..Len(ss) -> Seq(S)] : FlattenSeq(ss) = f[Len(ss)]
    BY <1>2, FlattenFunction
  <2> QED BY <2>1, <2>2
<1> QED BY <1>1, <1>2

LEMMA FlattenEmpty == FlattenSeq(<<>>) = <<>>
  BY DEF FlattenSeq

LEMMA FlattenAppend ==
  ASSUME NEW S, NEW ss \in Seq(Seq(S)), NEW s \in Seq(S)
  PROVE  FlattenSeq(Append(ss, s)) = FlattenSeq(ss) \o s
<1> DEFINE tt == Append(ss, s)
           n == Len(ss)
<1>1. /\ tt \in Seq(Seq(S)) /\ tt # <<>> /\ Len(tt) = n + 1 /\ n \in Nat
      /\ tt[n + 1] = s /\ \A i \in 1..n : tt[i] = ss[i]
  BY AppendProperties
<1> HIDE DEF tt
<1>2. PICK f \in [1..(n + 1) -> Seq(S)] :
         /\ f = [i \in 1..(n + 1) |-> IF i = 1 THEN tt[i] ELSE f[i - 1] \o tt[i]]
         /\ FlattenSeq(tt) = f[n + 1]
  <2>1. \E f \in [1..Len(tt) -> Seq(S)] :
          /\ f = [i \in 1..Len(tt) |-> IF i = 1 THEN tt[i] ELSE f[i - 1] \o tt[i]]
          /\ FlattenSeq(tt) = f[Len(tt)]
    BY <1>1, FlattenFunction
  <2> QED BY <1>1, <2>1
<1>3. CASE ss = <<>>
  <2>1. n + 1 = 1 /\ n + 1 \in 1..(n + 1)
    BY <1>3
  <2>2. f[n + 1] = s
    BY <1>1, <1>2, <2>1
  <2>3. <<>> \o s = s
    BY ConcatEmptySeq
  <2> QED BY <1>2, <1>3, <2>2, <2>3, FlattenEmpty DEF tt
<1>4. CASE ss # <<>>
  <2>1. PICK g \in [1..n -> Seq(S)] :
           /\ g = [i \in 1..n |-> IF i = 1 THEN ss[i] ELSE g[i - 1] \o ss[i]]
           /\ FlattenSeq(ss) = g[n]
    BY <1>4, FlattenFunction
  <2>2. \A i \in 1..n : f[i] = g[i]
    <3> DEFINE B == {i \in 1..n : f[i] # g[i]}
    <3>1. SUFFICES ASSUME B # {} PROVE FALSE
      OBVIOUS
    <3>2. B \subseteq Nat
      OBVIOUS
    <3>3. PICK i \in B : \A j \in B : ~(j < i)
      BY <3>1, <3>2, Least
    <3>4. i \in 1..n /\ i \in 1..(n + 1) /\ (i # 1 => i - 1 \in 1..n /\ i - 1 < i)
      BY <1>1, <3>3
    <3>5. i # 1 => f[i - 1] = g[i - 1]
      BY <3>3, <3>4
    <3>6. f[i] = (IF i = 1 THEN tt[i] ELSE f[i - 1] \o tt[i])
      BY <1>2, <3>4
    <3>7. g[i] = (IF i = 1 THEN ss[i] ELSE g[i - 1] \o ss[i])
      BY <2>1, <3>4
    <3> QED BY <1>1, <3>3, <3>4, <3>5, <3>6, <3>7
  <2>3. n \in 1..n /\ n + 1 \in 1..(n + 1) /\ n + 1 # 1 /\ (n + 1) - 1 = n
    BY <1>1, <1>4
  <2>4. f[n + 1] = f[n] \o s
    BY <1>1, <1>2, <2>3
  <2> QED BY <1>2, <2>1, <2>2, <2>3, <2>4 DEF tt
<1> QED BY <1>3, <1>4

LEMMA FlattenOne ==
  ASSUME NEW S, NEW s \in Seq(S)
  PROVE  FlattenSeq(<<s>>) = s
<1>1. <<s>> = Append(<<>>, s) /\ <<>> \in Seq(Seq(S))
  OBVIOUS
<1>2. FlattenSeq(<<s>>) = FlattenSeq(<<>>) \o s
  BY <1>1, FlattenAppend
<1> QED BY <1>2, FlattenEmpty, ConcatEmptySeq

(* Induction on the length of a sequence: the shortest of the bad ones.    *)
LEMMA Shortest ==
  ASSUME NEW S, NEW B \in SUBSET Seq(S), B # {}
  PROVE  \E s \in B : \A t \in B : Len(s) <= Len(t)
<1> DEFINE rank == [s \in Seq(S) |-> Len(s)]
<1>1. rank \in [Seq(S) -> Nat]
  OBVIOUS
<1>2. \E s \in B : \A t \in B : rank[s] <= rank[t]
  BY <1>1, LeastRank
<1> QED BY <1>2

LEMMA FlattenConcat ==
  ASSUME NEW S, NEW ss \in Seq(Seq(S)), NEW tt \in Seq(Seq(S))
  PROVE  FlattenSeq(ss \o tt) = FlattenSeq(ss) \o FlattenSeq(tt)
<1> DEFINE B == {t \in Seq(Seq(S)) : FlattenSeq(ss \o t) # FlattenSeq(ss) \o FlattenSeq(t)}
<1>1. SUFFICES ASSUME B # {} PROVE FALSE
  OBVIOUS
<1>2. PICK t \in B : \A u \in B : Len(t) <= Len(u)
  BY <1>1, Shortest
<1>3. FlattenSeq(ss) \in Seq(S)
  BY FlattenType
<1>4. CASE t = <<>>
  <2>1. ss \o t = ss /\ FlattenSeq(ss) \o <<>> = FlattenSeq(ss)
    BY <1>3, <1>4, ConcatEmptySeq
  <2> QED BY <1>2, <1>4, <2>1, FlattenEmpty
<1>5. CASE t # <<>>
  <2>1. PICK u \in Seq(Seq(S)), s \in Seq(S) : t = Append(u, s)
    BY <1>2, <1>5, SequenceEmptyOrAppend
  <2>2. Len(u) < Len(t)
    BY <2>1, AppendProperties
  <2>3. FlattenSeq(ss \o u) = FlattenSeq(ss) \o FlattenSeq(u)
    BY <1>2, <2>2
  <2>4. ss \o t = Append(ss \o u, s) /\ ss \o u \in Seq(Seq(S))
    <3>1. ss \o u \in Seq(Seq(S)) /\ <<s>> \in Seq(Seq(S)) /\ t = u \o <<s>>
      BY <2>1, AppendIsConcat, ConcatProperties
    <3>2. (ss \o u) \o <<s>> = ss \o (u \o <<s>>)
      <4> DEFINE T == Seq(S)
                 c == <<s>>
      <4>1. ss \in Seq(T) /\ u \in Seq(T) /\ c \in Seq(T)
        BY <3>1
      <4> HIDE DEF T, c
      <4>2. (ss \o u) \o c = ss \o (u \o c)
        BY <4>1, ConcatAssociative, SMTT(40)
      <4> QED BY <4>2 DEF c
    <3>3. Append(ss \o u, s) = (ss \o u) \o <<s>>
      BY <3>1, AppendIsConcat
    <3> QED BY <3>1, <3>2, <3>3
  <2>5. FlattenSeq(ss \o t) = (FlattenSeq(ss) \o FlattenSeq(u)) \o s
    BY <2>3, <2>4, FlattenAppend, ZenonT(60)
  <2>6. FlattenSeq(t) = FlattenSeq(u) \o s /\ FlattenSeq(u) \in Seq(S)
    BY <2>1, FlattenAppend, FlattenType
  <2>7. (FlattenSeq(ss) \o FlattenSeq(u)) \o s = FlattenSeq(ss) \o (FlattenSeq(u) \o s)
    <3> DEFINE a == FlattenSeq(ss)
               b == FlattenSeq(u)
    <3>1. a \in Seq(S) /\ b \in Seq(S)
      BY <1>3, <2>6
    <3> HIDE DEF a, b
    <3>2. (a \o b) \o s = a \o (b \o s)
      BY <3>1, ConcatAssociative, SMTT(40)
    <3> QED BY <3>2 DEF a, b
  <2> QED BY <1>2, <2>5, <2>6, <2>7
<1> QED BY <1>4, <1>5

(* Induction on the naturals up to n, and a function that is defined on    *)
(* them from its value just below.                                         *)
LEMMA UpTo ==
  ASSUME NEW n \in Nat, NEW Good, 0 \in Good, \A i \in 1..n : i - 1 \in Good => i \in Good
  PROVE  \A i \in 0..n : i \in Good
<1> DEFINE B == (0..n) \ Good
<1>1. SUFFICES ASSUME B # {} PROVE FALSE
  OBVIOUS
<1>2. PICK i \in B : \A j \in B : ~(j < i)
  <2>1. B \subseteq Nat
    OBVIOUS
  <2> QED BY <1>1, <2>1, Least
<1>3. i \in 1..n /\ i - 1 \in 0..n /\ i - 1 < i
  BY <1>2
<1>4. i - 1 \in Good
  BY <1>2, <1>3
<1> QED BY <1>2, <1>3, <1>4

SameSteps(f, h, n) == f[0] = h[0] /\ \A i \in 1..n : f[i - 1] = h[i - 1] => f[i] = h[i]

LEMMA SameRun ==
  ASSUME NEW n \in Nat, NEW f, NEW h, SameSteps(f, h, n)
  PROVE  \A i \in 0..n : f[i] = h[i]
<1>0. f[0] = h[0] /\ \A i \in 1..n : f[i - 1] = h[i - 1] => f[i] = h[i]
  BY DEF SameSteps
<1> DEFINE Good == {i \in 0..n : f[i] = h[i]}
<1>1. 0 \in Good
  BY <1>0
<1>2. \A i \in 1..n : i - 1 \in Good => i \in Good
  BY <1>0
<1> HIDE DEF Good
<1>3. \A i \in 0..n : i \in Good
  BY <1>1, <1>2, UpTo
<1> QED BY <1>3 DEF Good

Steps(f, n, V, base, step) ==
  f \in [0..n -> V] /\ f[0] = base /\ \A i \in 1..n : f[i] = step[f[i - 1]][i]

LEMMA Stepwise ==
  ASSUME NEW n \in Nat, NEW V, NEW base \in V, NEW step \in [V -> [1..n -> V]]
  PROVE  \E f : Steps(f, n, V, base, step)
<1> DEFINE D == 0..n
           rank == [i \in D |-> i]
           F == [g \in [D -> V] |-> [i \in D |-> IF i = 0 THEN base ELSE step[g[i - 1]][i]]]
<1>1. \A i \in D : i # 0 => i - 1 \in D /\ i - 1 < i /\ i \in 1..n
  OBVIOUS
<1>2. \A g \in [D -> V] : [i \in D |-> IF i = 0 THEN base ELSE step[g[i - 1]][i]] \in [D -> V]
  <2> TAKE g \in [D -> V]
  <2>1. \A i \in D : (IF i = 0 THEN base ELSE step[g[i - 1]][i]) \in V
    <3> TAKE i \in D
    <3>1. CASE i = 0
      BY <3>1
    <3>2. CASE i # 0
      <4>1. i \in 1..n /\ g[i - 1] \in V
        BY <1>1, <3>2
      <4>2. step[g[i - 1]] \in [1..n -> V]
        BY <4>1
      <4> QED BY <3>2, <4>1, <4>2
    <3> QED BY <3>1, <3>2
  <2> QED BY <2>1
<1>3. F \in [[D -> V] -> [D -> V]] /\ V # {} /\ rank \in [D -> Nat]
  <2>1. F \in [[D -> V] -> [D -> V]]
    BY <1>2
  <2>2. rank \in [D -> Nat]
    OBVIOUS
  <2> QED BY <2>1, <2>2
<1>4. ASSUME NEW g \in [D -> V], NEW h \in [D -> V], NEW i \in D,
             \A j \in D : rank[j] < rank[i] => g[j] = h[j]
      PROVE  F[g][i] = F[h][i]
  <2>1. i # 0 => g[i - 1] = h[i - 1]
    BY <1>1, <1>4
  <2> QED BY <2>1
<1>5. Descends(D, V, rank, F)
  BY <1>3, <1>4 DEF Descends
<1>6. PICK f \in [D -> V] : f = F[f]
  <2> HIDE DEF F, D, rank
  <2> QED BY <1>5, FixedPoint
<1>7. f = [i \in D |-> IF i = 0 THEN base ELSE step[f[i - 1]][i]]
  BY <1>6
<1>8. 0 \in D /\ \A i \in 1..n : i \in D /\ i # 0
  OBVIOUS
<1> HIDE DEF D, F
<1>9. f[0] = base
  BY <1>7, <1>8
<1>10. \A i \in 1..n : f[i] = step[f[i - 1]][i]
  BY <1>7, <1>8
<1> QED BY <1>9, <1>10 DEF D, Steps

(* The images of the elements of a sequence.                               *)
Maps(f, T, S) == f \in [T -> S]
Map(f, s) == [i \in DOMAIN s |-> f[s[i]]]

LEMMA MapType ==
  ASSUME NEW S, NEW T, NEW f, Maps(f, T, S), NEW s \in Seq(T)
  PROVE  /\ Map(f, s) \in Seq(S) /\ Len(Map(f, s)) = Len(s)
         /\ \A i \in 1..Len(s) : Map(f, s)[i] = f[s[i]]
  BY DEF Map, Maps

LEMMA MapConcat ==
  ASSUME NEW S, NEW T, NEW f, Maps(f, T, S), NEW s \in Seq(T), NEW t \in Seq(T)
  PROVE  Map(f, s \o t) = Map(f, s) \o Map(f, t)
<1> DEFINE u == s \o t
           p == Map(f, s)
           q == Map(f, t)
           a == Map(f, u)
           b == p \o q
           m == Len(s)
           n == Len(t)
<1>1. /\ u \in Seq(T) /\ Len(u) = m + n
      /\ \A i \in 1..(m + n) : u[i] = IF i <= m THEN s[i] ELSE t[i - m]
  BY ConcatProperties
<1>2. p \in Seq(S) /\ Len(p) = m /\ \A i \in 1..m : p[i] = f[s[i]]
  BY MapType
<1>3. q \in Seq(S) /\ Len(q) = n /\ \A i \in 1..n : q[i] = f[t[i]]
  BY MapType
<1> HIDE DEF p, q, u
<1>4. a \in Seq(S) /\ Len(a) = m + n /\ \A i \in 1..(m + n) : a[i] = f[u[i]]
  BY <1>1, MapType
<1>5. /\ b \in Seq(S) /\ Len(b) = m + n
      /\ \A i \in 1..(m + n) : b[i] = IF i <= m THEN p[i] ELSE q[i - m]
  <2>1. /\ p \o q \in Seq(S) /\ Len(p \o q) = Len(p) + Len(q)
        /\ \A i \in 1..(Len(p) + Len(q)) : (p \o q)[i] = IF i <= Len(p) THEN p[i] ELSE q[i - Len(p)]
    BY <1>2, <1>3, ConcatProperties, ZenonT(60)
  <2> QED BY <1>2, <1>3, <2>1
<1> HIDE DEF a, b
<1>6. \A i \in 1..(m + n) : a[i] = b[i]
  <2> TAKE i \in 1..(m + n)
  <2>1. CASE i <= m
    <3>1. i \in 1..m
      BY <2>1
    <3>2. a[i] = f[u[i]]
      BY <1>4
    <3>3. u[i] = s[i]
      BY <2>1, <1>1
    <3>4. p[i] = f[s[i]]
      BY <3>1, <1>2
    <3>5. b[i] = p[i]
      BY <2>1, <1>5
    <3> QED BY <3>2, <3>3, <3>4, <3>5
  <2>2. CASE ~(i <= m)
    <3>1. i - m \in 1..n
      BY <2>2
    <3>2. a[i] = f[u[i]]
      BY <1>4
    <3>3. u[i] = t[i - m]
      BY <2>2, <1>1
    <3>4. q[i - m] = f[t[i - m]]
      BY <3>1, <1>3
    <3>5. b[i] = q[i - m]
      BY <2>2, <1>5
    <3> QED BY <3>2, <3>3, <3>4, <3>5
  <2> QED BY <2>1, <2>2
<1>7. a = b
  BY <1>4, <1>5, <1>6, SeqEqual
<1> QED BY <1>7 DEF a, b, p, q, u

LEMMA MapAppend ==
  ASSUME NEW S, NEW T, NEW f, Maps(f, T, S), NEW s \in Seq(T), NEW x \in T
  PROVE  Map(f, Append(s, x)) = Append(Map(f, s), f[x])
<1>1. <<x>> \in Seq(T) /\ f[x] \in S
  BY DEF Maps
<1>2. Map(f, <<x>>) = <<f[x]>>
  BY DEF Map
<1>3. Map(f, s \o <<x>>) = Map(f, s) \o <<f[x]>>
  <2> DEFINE t == <<x>>
  <2>1. t \in Seq(T) /\ Map(f, t) = <<f[x]>>
    BY <1>1, <1>2
  <2> HIDE DEF t
  <2>2. \A w \in Seq(T) : Map(f, s \o w) = Map(f, s) \o Map(f, w)
    BY MapConcat
  <2> QED BY <2>1, <2>2 DEF t
<1>4. Map(f, s) \in Seq(S)
  BY MapType
<1> QED BY <1>1, <1>3, <1>4, AppendIsConcat

(* Expanding the elements of sequences joined is joining their expansions. *)
Spread(f, ss) == [i \in DOMAIN ss |-> FlattenSeq(Map(f, ss[i]))]

LEMMA SpreadType ==
  ASSUME NEW S, NEW T, NEW f, Maps(f, T, Seq(S)), NEW ss \in Seq(Seq(T))
  PROVE  Spread(f, ss) \in Seq(Seq(S))
<1> DEFINE e(i) == FlattenSeq(Map(f, ss[i]))
<1>1. \A i \in DOMAIN ss : e(i) \in Seq(S)
  <2> TAKE i \in DOMAIN ss
  <2>1. ss[i] \in Seq(T)
    OBVIOUS
  <2>2. Map(f, ss[i]) \in Seq(Seq(S))
    BY <2>1, MapType
  <2> QED BY <2>2, FlattenType
<1>2. Spread(f, ss) = [i \in 1..Len(ss) |-> e(i)]
  BY DEF Spread
<1> HIDE DEF e
<1> QED BY <1>1, <1>2

LEMMA SpreadAppend ==
  ASSUME NEW S, NEW T, NEW f, Maps(f, T, Seq(S)), NEW ss \in Seq(Seq(T)), NEW s \in Seq(T)
  PROVE  Spread(f, Append(ss, s)) = Append(Spread(f, ss), FlattenSeq(Map(f, s)))
<1> DEFINE g == [u \in Seq(T) |-> FlattenSeq(Map(f, u))]
<1>1. Maps(g, Seq(T), Seq(S))
  <2>1. \A u \in Seq(T) : FlattenSeq(Map(f, u)) \in Seq(S)
    <3> TAKE u \in Seq(T)
    <3>1. Map(f, u) \in Seq(Seq(S))
      BY MapType
    <3> QED BY <3>1, FlattenType
  <2> QED BY <2>1 DEF Maps
<1>2. \A tt \in Seq(Seq(T)) : Spread(f, tt) = Map(g, tt)
  BY DEF Spread, Map
<1>3. Append(ss, s) \in Seq(Seq(T)) /\ g[s] = FlattenSeq(Map(f, s))
  OBVIOUS
<1> HIDE DEF g
<1>4. Map(g, Append(ss, s)) = Append(Map(g, ss), g[s])
  BY <1>1, MapAppend
<1> QED BY <1>2, <1>3, <1>4

LEMMA FlattenSpread ==
  ASSUME NEW S, NEW T, NEW f, Maps(f, T, Seq(S)), NEW ss \in Seq(Seq(T))
  PROVE  FlattenSeq(Map(f, FlattenSeq(ss))) = FlattenSeq(Spread(f, ss))
<1> DEFINE B == {tt \in Seq(Seq(T)) : FlattenSeq(Map(f, FlattenSeq(tt))) # FlattenSeq(Spread(f, tt))}
<1>1. SUFFICES ASSUME B # {} PROVE FALSE
  OBVIOUS
<1>2. PICK t \in B : \A u \in B : Len(t) <= Len(u)
  BY <1>1, Shortest
<1>3. t # <<>>
  <2>1. SUFFICES ASSUME t = <<>> PROVE FALSE
    OBVIOUS
  <2>2. Map(f, <<>>) = <<>> /\ Spread(f, <<>>) = <<>>
    BY DEF Map, Spread
  <2> QED BY <1>2, <2>1, <2>2, FlattenEmpty
<1>4. PICK u \in Seq(Seq(T)), s \in Seq(T) : t = Append(u, s)
  BY <1>2, <1>3, SequenceEmptyOrAppend
<1>5. FlattenSeq(Map(f, FlattenSeq(u))) = FlattenSeq(Spread(f, u))
  <2>1. Len(u) < Len(t)
    BY <1>4, AppendProperties
  <2> QED BY <1>2, <2>1
<1> DEFINE a == Map(f, FlattenSeq(u))
           b == Map(f, s)
<1>6. FlattenSeq(t) = FlattenSeq(u) \o s /\ FlattenSeq(u) \in Seq(T)
  BY <1>4, FlattenAppend, FlattenType
<1>7. a \in Seq(Seq(S)) /\ b \in Seq(Seq(S)) /\ Map(f, FlattenSeq(t)) = a \o b
  <2>1. Map(f, FlattenSeq(u) \o s) = a \o b
    BY <1>6, MapConcat
  <2> QED BY <1>6, <2>1, MapType
<1>8. Spread(f, t) = Append(Spread(f, u), FlattenSeq(b)) /\ Spread(f, u) \in Seq(Seq(S))
  BY <1>4, SpreadAppend, SpreadType
<1> HIDE DEF a, b
<1>9. FlattenSeq(b) \in Seq(S)
  BY <1>7, FlattenType
<1>10. FlattenSeq(Map(f, FlattenSeq(t))) = FlattenSeq(a) \o FlattenSeq(b)
  BY <1>7, FlattenConcat
<1>11. FlattenSeq(Spread(f, t)) = FlattenSeq(Spread(f, u)) \o FlattenSeq(b)
  BY <1>8, <1>9, FlattenAppend
<1> QED BY <1>2, <1>5, <1>10, <1>11 DEF a

(* Joining adds no element and loses none.                                 *)
LEMMA FlattenElements ==
  ASSUME NEW S, NEW ss \in Seq(Seq(S))
  PROVE  ToSet(FlattenSeq(ss)) = UNION {ToSet(ss[i]) : i \in DOMAIN ss}
<1> DEFINE All(tt) == UNION {ToSet(tt[i]) : i \in DOMAIN tt}
           B == {tt \in Seq(Seq(S)) : ToSet(FlattenSeq(tt)) # All(tt)}
<1>1. SUFFICES ASSUME B # {} PROVE FALSE
  OBVIOUS
<1>2. PICK t \in B : \A u \in B : Len(t) <= Len(u)
  BY <1>1, Shortest
<1>3. t # <<>>
  <2>1. ToSet(<<>>) = {} /\ All(<<>>) = {}
    BY DEF ToSet
  <2> QED BY <1>2, <2>1, FlattenEmpty
<1>4. PICK u \in Seq(Seq(S)), s \in Seq(S) : t = Append(u, s)
  BY <1>2, <1>3, SequenceEmptyOrAppend
<1>5. /\ DOMAIN t = 1..(Len(u) + 1) /\ t[Len(u) + 1] = s /\ \A i \in 1..Len(u) : t[i] = u[i]
      /\ DOMAIN u = 1..Len(u) /\ Len(u) \in Nat /\ Len(u) < Len(t)
  BY <1>4, AppendProperties
<1>6. All(t) = All(u) \cup ToSet(s)
  <2>1. DOMAIN t = DOMAIN u \cup {Len(u) + 1}
    BY <1>5
  <2> QED BY <1>5, <2>1
<1>7. ToSet(FlattenSeq(t)) = ToSet(FlattenSeq(u)) \cup ToSet(s)
  <2> DEFINE a == FlattenSeq(u)
  <2>1. FlattenSeq(t) = a \o s /\ a \in Seq(S)
    BY <1>4, FlattenAppend, FlattenType
  <2> HIDE DEF a
  <2>2. \A i \in 1..Len(a) : i \in 1..(Len(a) + Len(s)) /\ (a \o s)[i] = a[i]
    BY <2>1, ConcatProperties
  <2>3. \A i \in 1..Len(s) : Len(a) + i \in 1..(Len(a) + Len(s)) /\ (a \o s)[Len(a) + i] = s[i]
    BY <2>1, ConcatProperties
  <2>4. \A i \in 1..(Len(a) + Len(s)) :
          i \in 1..Len(a) \/ \E j \in 1..Len(s) : i = Len(a) + j
    <3> TAKE i \in 1..(Len(a) + Len(s))
    <3>1. CASE i <= Len(a)
      BY <2>1, <3>1
    <3>2. CASE ~(i <= Len(a))
      <4>1. i - Len(a) \in 1..Len(s) /\ i = Len(a) + (i - Len(a))
        BY <2>1, <3>2
      <4> QED BY <4>1
    <3> QED BY <3>1, <3>2
  <2>5. /\ DOMAIN (a \o s) = 1..(Len(a) + Len(s)) /\ DOMAIN a = 1..Len(a) /\ DOMAIN s = 1..Len(s)
    BY <2>1, ConcatProperties
  <2>6. ToSet(a) = {a[i] : i \in 1..Len(a)} /\ ToSet(s) = {s[i] : i \in 1..Len(s)}
    BY <2>5 DEF ToSet
  <2>7. ToSet(a \o s) = {(a \o s)[i] : i \in 1..(Len(a) + Len(s))}
    BY <2>5 DEF ToSet
  <2>8. ToSet(a \o s) = ToSet(a) \cup ToSet(s)
    BY <2>2, <2>3, <2>4, <2>6, <2>7, SMTT(40)
  <2> QED BY <2>1, <2>8 DEF a
<1>8. ToSet(FlattenSeq(u)) = All(u)
  <2>1. ~(Len(t) <= Len(u))
    BY <1>4, <1>5
  <2> HIDE DEF All
  <2> QED BY <1>2, <2>1
<1>9. ToSet(FlattenSeq(t)) # All(t)
  BY <1>2
<1> HIDE DEF All, B
<1> QED BY <1>6, <1>7, <1>8, <1>9

(* Joining sequences of one element each.                                  *)
LEMMA FlattenSingles ==
  ASSUME NEW S, NEW s \in Seq(S)
  PROVE  FlattenSeq([i \in DOMAIN s |-> <<s[i]>>]) = s
<1> DEFINE one == [x \in S |-> <<x>>]
           B == {t \in Seq(S) : FlattenSeq(Map(one, t)) # t}
<1>1. Maps(one, S, Seq(S))
  BY DEF Maps
<1>2. \A t \in Seq(S) : FlattenSeq(Map(one, t)) = t
  <2>1. SUFFICES ASSUME B # {} PROVE FALSE
    OBVIOUS
  <2>2. PICK t \in B : \A u \in B : Len(t) <= Len(u)
    BY <2>1, Shortest
  <2>3. t # <<>>
    <3>1. Map(one, <<>>) = <<>>
      BY DEF Map
    <3> QED BY <2>2, <3>1, FlattenEmpty
  <2>4. PICK u \in Seq(S), x \in S : t = Append(u, x)
    BY <2>2, <2>3, SequenceEmptyOrAppend
  <2>5. FlattenSeq(Map(one, u)) = u
    <3>1. ~(Len(t) <= Len(u))
      BY <2>4, AppendProperties
    <3> QED BY <2>2, <3>1
  <2>6. Map(one, t) = Append(Map(one, u), <<x>>) /\ Map(one, u) \in Seq(Seq(S)) /\ <<x>> \in Seq(S)
    <3>1. one[x] = <<x>> /\ <<x>> \in Seq(S)
      OBVIOUS
    <3> HIDE DEF one
    <3>2. Map(one, Append(u, x)) = Append(Map(one, u), one[x])
      BY <1>1, MapAppend
    <3> QED BY <1>1, <2>4, <3>1, <3>2, MapType
  <2> HIDE DEF one
  <2>7. FlattenSeq(Map(one, t)) = FlattenSeq(Map(one, u)) \o <<x>>
    BY <2>6, FlattenAppend
  <2> QED BY <2>2, <2>4, <2>5, <2>7, AppendIsConcat
<1>3. Map(one, s) = [i \in DOMAIN s |-> <<s[i]>>]
  BY DEF Map
<1> QED BY <1>2, <1>3
=============================================================================
