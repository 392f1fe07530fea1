-------------------------- MODULE TransformProofs --------------------------
(***************************************************************************)
(* The transformers of a field, for every text, number and time.  A        *)
(* transformer that says what a value should look like leaves what it has  *)
(* made alone: its result has the property that makes its definition the   *)
(* identity.  PInv carries this through the two passes of a validation.    *)
(***************************************************************************)
EXTENDS TransformPipeline, Recursion, FiniteSetTheorems

LEMMA Greatest ==
  ASSUME NEW n \in Nat, NEW B \in SUBSET (0..n), B # {}
  PROVE  \E i \in B : \A j \in B : j <= i
<1> DEFINE rank == [i \in 0..n |-> n - i]
<1>1. rank \in [0..n -> Nat]
  OBVIOUS
<1>2. PICK i \in B : \A j \in B : rank[i] <= rank[j]
  <2> HIDE DEF rank
  <2> QED BY <1>1, LeastRank
<1>3. \A j \in B : j \in 0..n /\ rank[j] = n - j
  OBVIOUS
<1> HIDE DEF rank
<1>4. \A j \in B : j <= i
  BY <1>2, <1>3
<1> QED BY <1>4

---------------------------------------------------------------------------
(* Keeping characters.                                                     *)
LEMMA OneMore ==
  ASSUME NEW S, NEW t \in Seq(S), NEW c \in S
  PROVE  /\ Append(t, c) \in Seq(S) /\ Len(Append(t, c)) = Len(t) + 1
         /\ Append(t, c)[Len(t) + 1] = c /\ \A k \in 1..Len(t) : Append(t, c)[k] = t[k]
  BY AppendProperties

LEMMA KeepingIs ==
  ASSUME NEW s \in Seq(Chars), NEW C
  PROVE  \E f \in [0..Len(s) -> Seq(Chars)] :
           /\ f[0] = <<>> /\ Keeping(s, C) = f[Len(s)]
           /\ \A i \in 1..Len(s) : f[i] = IF s[i] \in C THEN Append(f[i - 1], s[i]) ELSE f[i - 1]
<1> DEFINE n == Len(s)
           Kept(g, i) == IF s[i] \in C THEN Append(g[i - 1], s[i]) ELSE g[i - 1]
           Body(g) == [i \in 0..n |-> IF i = 0 THEN <<>> ELSE Kept(g, i)]
           step == [t \in Seq(Chars) |-> [i \in 1..n |-> IF s[i] \in C THEN Append(t, s[i]) ELSE t]]
           h == CHOOSE g : g = Body(g)
<1>1. n \in Nat /\ n \in 0..n /\ 0 \in 0..n /\ <<>> \in Seq(Chars)
  OBVIOUS
<1>2. step \in [Seq(Chars) -> [1..n -> Seq(Chars)]]
  <2>1. \A t \in Seq(Chars), i \in 1..n : Append(t, s[i]) \in Seq(Chars)
    <3>1. \A i \in 1..n : s[i] \in Chars
      OBVIOUS
    <3> QED BY <3>1, AppendProperties
  <2> QED BY <2>1
<1>3. PICK f \in [0..n -> Seq(Chars)] : f[0] = <<>> /\ \A i \in 1..n : f[i] = step[f[i - 1]][i]
  <2> DEFINE V == Seq(Chars)
             base == <<>>
  <2>1. n \in Nat /\ base \in V /\ step \in [V -> [1..n -> V]]
    BY <1>1, <1>2
  <2> HIDE DEF step, V, n, base
  <2>2. \E f : Steps(f, n, V, base, step)
    BY <2>1, Stepwise
  <2> QED BY <2>2 DEF V, base, Steps
<1>4. \A i \in 1..n : f[i] = Kept(f, i)
  <2> TAKE i \in 1..n
  <2>1. f[i - 1] \in Seq(Chars)
    BY <1>3
  <2> QED BY <1>3, <2>1
<1>5. f = Body(f)
  <2>1. \A i \in 0..n : f[i] = IF i = 0 THEN <<>> ELSE Kept(f, i)
    <3> HIDE DEF Kept
    <3> QED BY <1>3, <1>4
  <2> HIDE DEF Kept
  <2> QED BY <1>3, <2>1
<1>6. h = Body(h)
  BY <1>5
<1>7. \A i \in 0..n : h[i] = f[i]
  <2> HIDE DEF h
  <2>1. \A i \in 0..n : h[i] = IF i = 0 THEN <<>> ELSE Kept(h, i)
    <3> HIDE DEF Kept
    <3> QED BY <1>6
  <2>2. f[0] = h[0] /\ \A i \in 1..n : i \in 0..n /\ i # 0
    BY <1>1, <1>3, <2>1
  <2>3. \A i \in 1..n : h[i] = Kept(h, i)
    <3> HIDE DEF Kept
    <3> QED BY <2>1, <2>2
  <2>4. \A i \in 1..n : f[i - 1] = h[i - 1] => f[i] = h[i]
    BY <1>4, <2>3
  <2>5. n \in Nat /\ SameSteps(f, h, n)
    BY <1>1, <2>2, <2>4 DEF SameSteps
  <2> HIDE DEF n
  <2>6. \A i \in 0..n : f[i] = h[i]
    BY <2>5, SameRun
  <2> QED BY <2>6
<1>8. Keeping(s, C) = h[n]
  BY DEF Keeping
<1> HIDE DEF h
<1>9. Keeping(s, C) = f[n]
  BY <1>1, <1>7, <1>8
<1> QED BY <1>3, <1>4, <1>9

(* What is kept is in C, and a text of characters in C is kept.            *)
LEMMA KeepingOf ==
  ASSUME NEW s \in Seq(Chars), NEW C
  PROVE  /\ Keeping(s, C) \in Seq(Chars)
         /\ \A k \in 1..Len(Keeping(s, C)) : Keeping(s, C)[k] \in C
         /\ (\A i \in 1..Len(s) : s[i] \in C) => Keeping(s, C) = s
<1> DEFINE n == Len(s)
<1>1. PICK f \in [0..n -> Seq(Chars)] :
        /\ f[0] = <<>> /\ Keeping(s, C) = f[n]
        /\ \A i \in 1..n : f[i] = IF s[i] \in C THEN Append(f[i - 1], s[i]) ELSE f[i - 1]
  BY KeepingIs
<1>2. n \in Nat /\ n \in 0..n /\ \A i \in 1..n : i - 1 \in 0..n /\ s[i] \in Chars
  OBVIOUS
<1>3. \A k \in 1..Len(f[n]) : f[n][k] \in C
  <2> DEFINE Good == {i \in 0..n : \A k \in 1..Len(f[i]) : f[i][k] \in C}
  <2>1. 0 \in Good
    BY <1>1
  <2>2. ASSUME NEW i \in 1..n, i - 1 \in Good PROVE i \in Good
    <3>1. f[i - 1] \in Seq(Chars) /\ \A k \in 1..Len(f[i - 1]) : f[i - 1][k] \in C
      BY <1>2, <2>2
    <3>2. CASE s[i] \in C
      <4>1. f[i] = Append(f[i - 1], s[i])
        BY <1>1, <3>2
      <4>2. /\ Len(f[i]) = Len(f[i - 1]) + 1 /\ f[i][Len(f[i - 1]) + 1] = s[i]
            /\ \A k \in 1..Len(f[i - 1]) : f[i][k] = f[i - 1][k]
        BY <1>2, <3>1, <4>1, OneMore
      <4>3. \A k \in 1..Len(f[i]) : k = Len(f[i - 1]) + 1 \/ k \in 1..Len(f[i - 1])
        BY <3>1, <4>2
      <4> QED BY <1>2, <3>1, <3>2, <4>2, <4>3
    <3>3. CASE s[i] \notin C
      <4>1. f[i] = f[i - 1]
        BY <1>1, <3>3
      <4> QED BY <3>1, <4>1
    <3> QED BY <3>2, <3>3
  <2> HIDE DEF Good
  <2>3. n \in Good
    BY <1>2, <2>1, <2>2, UpTo
  <2> QED BY <2>3 DEF Good
<1>4. ASSUME \A i \in 1..n : s[i] \in C PROVE f[n] = s
  <2> DEFINE Good == {i \in 0..n : Len(f[i]) = i /\ \A k \in 1..i : f[i][k] = s[k]}
  <2>1. 0 \in Good
    BY <1>1, <1>2
  <2>2. ASSUME NEW i \in 1..n, i - 1 \in Good PROVE i \in Good
    <3>1. f[i - 1] \in Seq(Chars) /\ Len(f[i - 1]) = i - 1 /\ \A k \in 1..(i - 1) : f[i - 1][k] = s[k]
      BY <1>2, <2>2
    <3>2. f[i] = Append(f[i - 1], s[i])
      BY <1>1, <1>4
    <3>3. Len(f[i]) = i /\ f[i][i] = s[i] /\ \A k \in 1..(i - 1) : f[i][k] = s[k]
      BY <1>2, <3>1, <3>2, AppendProperties
    <3>4. \A k \in 1..i : k = i \/ k \in 1..(i - 1)
      OBVIOUS
    <3> QED BY <3>3, <3>4
  <2> HIDE DEF Good
  <2>3. n \in Good
    BY <1>2, <2>1, <2>2, UpTo
  <2>4. f[n] \in Seq(Chars) /\ Len(f[n]) = n /\ \A k \in 1..n : f[n][k] = s[k]
    BY <1>2, <2>3 DEF Good
  <2> QED BY <2>4, SeqEqual
<1>5. f[n] \in Seq(Chars)
  BY <1>2
<1> QED BY <1>1, <1>3, <1>4, <1>5

LEMMA DroppingTwice ==
  ASSUME NEW s \in Seq(Chars), NEW C
  PROVE  /\ Dropping(s, C) \in Seq(Chars)
         /\ \A k \in 1..Len(Dropping(s, C)) : Dropping(s, C)[k] \notin C
<1> QED BY KeepingOf DEF Dropping

LEMMA DroppingNone ==
  ASSUME NEW s \in Seq(Chars), NEW C, \A k \in 1..Len(s) : s[k] \notin C
  PROVE  Dropping(s, C) = s
<1>1. \A k \in 1..Len(s) : s[k] \in ToSet(s) \ C
  BY DEF ToSet
<1> QED BY <1>1, KeepingOf DEF Dropping
---------------------------------------------------------------------------
(* Trimming.                                                               *)
Trimmed(s) == s = <<>> \/ (s[1] \notin Space /\ s[Len(s)] \notin Space)

(* What is left is a part of the text that starts and ends with no space.  *)
LEMMA TrimIs ==
  ASSUME NEW s \in Seq(Chars)
  PROVE  \/ TrimSpace(s) = <<>>
         \/ \E a, b \in 1..Len(s) : /\ a <= b /\ TrimSpace(s) = SubSeq(s, a, b)
                                    /\ s[a] \notin Space /\ s[b] \notin Space
                                    /\ \A i \in 1..Len(s) : s[i] \notin Space => a <= i /\ i <= b
<1> DEFINE n == Len(s)
           kept == {i \in DOMAIN s : s[i] \notin Space}
           a == CHOOSE i \in kept : \A j \in kept : i <= j
           b == CHOOSE i \in kept : \A j \in kept : j <= i
<1>1. n \in Nat /\ DOMAIN s = 1..n
  OBVIOUS
<1>2. CASE kept = {}
  BY <1>2 DEF TrimSpace
<1>3. CASE kept # {}
  <2>1. \E i \in kept : \A j \in kept : i <= j
    <3>1. kept \subseteq Nat
      BY <1>1
    <3>2. PICK i \in kept : \A j \in kept : ~(j < i)
      <4> HIDE DEF kept
      <4> QED BY <1>3, <3>1, Least
    <3>3. \A j \in kept : i <= j
      <4> HIDE DEF kept
      <4> QED BY <3>1, <3>2
    <3> QED BY <3>3
  <2>2. \E i \in kept : \A j \in kept : j <= i
    <3>1. kept \in SUBSET (0..n)
      BY <1>1
    <3> HIDE DEF kept, n
    <3> QED BY <1>1, <1>3, <3>1, Greatest
  <2>3. a \in kept /\ \A j \in kept : a <= j
    <3> HIDE DEF kept
    <3> QED BY <2>1
  <2>4. b \in kept /\ \A j \in kept : j <= b
    <3> HIDE DEF kept
    <3> QED BY <2>2
  <2>5. TrimSpace(s) = SubSeq(s, a, b)
    BY <1>3 DEF TrimSpace
  <2> HIDE DEF a, b
  <2>6. /\ a \in 1..n /\ b \in 1..n /\ a <= b /\ s[a] \notin Space /\ s[b] \notin Space
        /\ \A i \in 1..n : s[i] \notin Space => a <= i /\ i <= b
    BY <1>1, <2>3, <2>4
  <2> QED BY <2>5, <2>6
<1> QED BY <1>2, <1>3

LEMMA TrimType ==
  ASSUME NEW s \in Seq(Chars)
  PROVE  TrimSpace(s) \in Seq(Chars) /\ Trimmed(TrimSpace(s))
<1>1. CASE TrimSpace(s) = <<>>
  BY <1>1 DEF Trimmed
<1>2. CASE TrimSpace(s) # <<>>
  <2>1. PICK a \in 1..Len(s), b \in 1..Len(s) :
          a <= b /\ TrimSpace(s) = SubSeq(s, a, b) /\ s[a] \notin Space /\ s[b] \notin Space
    BY <1>2, TrimIs
  <2>2. /\ SubSeq(s, a, b) \in Seq(Chars) /\ Len(SubSeq(s, a, b)) = b - a + 1
        /\ \A i \in 1..(b - a + 1) : SubSeq(s, a, b)[i] = s[a + i - 1]
    <3>1. \A i \in a..b : s[i] \in Chars
      OBVIOUS
    <3> QED BY <2>1, <3>1, SubSeqProperties
  <2>3. 1 \in 1..(b - a + 1) /\ b - a + 1 \in 1..(b - a + 1) /\ a + 1 - 1 = a /\ a + (b - a + 1) - 1 = b
    BY <2>1
  <2>4. SubSeq(s, a, b)[1] = s[a] /\ SubSeq(s, a, b)[Len(SubSeq(s, a, b))] = s[b]
    BY <2>2, <2>3
  <2> QED BY <2>1, <2>2, <2>4 DEF Trimmed
<1> QED BY <1>1, <1>2

LEMMA TrimPart ==
  ASSUME NEW s \in Seq(Chars), NEW k \in 1..Len(TrimSpace(s))
  PROVE  \E i \in 1..Len(s) : TrimSpace(s)[k] = s[i]
<1>1. CASE TrimSpace(s) = <<>>
  BY <1>1
<1>2. CASE TrimSpace(s) # <<>>
  <2>1. PICK a \in 1..Len(s), b \in 1..Len(s) : a <= b /\ TrimSpace(s) = SubSeq(s, a, b)
    BY <1>2, TrimIs
  <2>2. /\ Len(SubSeq(s, a, b)) = b - a + 1
        /\ \A i \in 1..(b - a + 1) : SubSeq(s, a, b)[i] = s[a + i - 1]
    <3>1. \A i \in a..b : s[i] \in Chars
      OBVIOUS
    <3> QED BY <2>1, <3>1, SubSeqProperties
  <2>3. k \in 1..(b - a + 1) /\ a + k - 1 \in 1..Len(s)
    BY <2>1, <2>2
  <2> QED BY <2>1, <2>2, <2>3
<1> QED BY <1>1, <1>2

LEMMA TrimNone ==
  ASSUME NEW s \in Seq(Chars), Trimmed(s)
  PROVE  TrimSpace(s) = s
<1>1. CASE s = <<>>
  <2>1. {i \in DOMAIN s : s[i] \notin Space} = {}
    BY <1>1
  <2> QED BY <1>1, <2>1 DEF TrimSpace
<1>2. CASE s # <<>>
  <2>1. 1 \in 1..Len(s) /\ Len(s) \in 1..Len(s) /\ s[1] \notin Space /\ s[Len(s)] \notin Space
    BY <1>2 DEF Trimmed
  <2>2. TrimSpace(s) # <<>>
    <3> DEFINE kept == {i \in DOMAIN s : s[i] \notin Space}
               a == CHOOSE i \in kept : \A j \in kept : i <= j
               b == CHOOSE i \in kept : \A j \in kept : j <= i
    <3>1. 1 \in kept /\ Len(s) \in kept /\ \A j \in kept : 1 <= j /\ j <= Len(s)
      BY <2>1
    <3>2. a \in kept /\ a <= 1
      <4> HIDE DEF kept
      <4> QED BY <3>1
    <3>3. b \in kept /\ Len(s) <= b
      <4> HIDE DEF kept
      <4> QED BY <3>1
    <3>4. TrimSpace(s) = SubSeq(s, a, b)
      BY <3>1 DEF TrimSpace
    <3> HIDE DEF a, b
    <3>5. a = 1 /\ b = Len(s)
      BY <3>2, <3>3
    <3>6. \A i \in 1..Len(s) : s[i] \in Chars
      OBVIOUS
    <3>7. Len(SubSeq(s, 1, Len(s))) = Len(s) - 1 + 1
      BY <2>1, <3>6, SubSeqProperties
    <3> QED BY <2>1, <3>4, <3>5, <3>7
  <2>3. PICK a \in 1..Len(s), b \in 1..Len(s) :
          /\ TrimSpace(s) = SubSeq(s, a, b)
          /\ \A i \in 1..Len(s) : s[i] \notin Space => a <= i /\ i <= b
    BY <2>2, TrimIs
  <2>4. a = 1 /\ b = Len(s)
    BY <2>1, <2>3
  <2>5. \A i \in 1..Len(s) : s[i] \in Chars
    OBVIOUS
  <2>6. /\ SubSeq(s, 1, Len(s)) \in Seq(Chars) /\ Len(SubSeq(s, 1, Len(s))) = Len(s) - 1 + 1
        /\ \A i \in 1..(Len(s) - 1 + 1) : SubSeq(s, 1, Len(s))[i] = s[1 + i - 1]
    BY <2>1, <2>5, SubSeqProperties
  <2>7. Len(s) - 1 + 1 = Len(s) /\ \A i \in 1..Len(s) : 1 + i - 1 = i
    BY <2>1
  <2>8. SubSeq(s, 1, Len(s)) = s
    BY <2>6, <2>7, SeqEqual
  <2> QED BY <2>3, <2>4, <2>8
<1> QED BY <1>1, <1>2

---------------------------------------------------------------------------
(* Runs of spaces.                                                         *)
Tight(t) ==
  \A k \in 1..Len(t) : t[k] \notin Space \ {" "} /\ (k > 1 /\ t[k] = " " => t[k - 1] # " ")

LEMMA TightEmpty == Tight(<<>>)
<1>1. Len(<<>>) = 0 /\ 1..0 = {}
  OBVIOUS
<1> QED BY <1>1 DEF Tight

LEMMA CollapsedIs ==
  ASSUME NEW s \in Seq(Chars)
  PROVE  \E f \in [0..Len(s) -> Seq(Chars)] :
           /\ f[0] = <<>> /\ Collapsed(s) = f[Len(s)]
           /\ \A i \in 1..Len(s) : f[i] = Spaced(f[i - 1], s[i])
<1> DEFINE n == Len(s)
           Body(g) == [i \in 0..n |-> IF i = 0 THEN <<>> ELSE Spaced(g[i - 1], s[i])]
           step == [t \in Seq(Chars) |-> [i \in 1..n |-> Spaced(t, s[i])]]
           h == CHOOSE g : g = Body(g)
<1>1. n \in Nat /\ n \in 0..n /\ 0 \in 0..n /\ <<>> \in Seq(Chars) /\ \A i \in 1..n : i \in 0..n /\ i # 0
  OBVIOUS
<1>2. step \in [Seq(Chars) -> [1..n -> Seq(Chars)]]
  <2>1. \A t \in Seq(Chars), i \in 1..n : Spaced(t, s[i]) \in Seq(Chars)
    <3>1. \A i \in 1..n : s[i] \in Chars
      OBVIOUS
    <3> TAKE t \in Seq(Chars), i \in 1..n
    <3>2. Append(t, s[i]) \in Seq(Chars) /\ Append(t, " ") \in Seq(Chars)
      BY <3>1, CharsAssumption, OneMore
    <3> QED BY <3>2 DEF Spaced
  <2> QED BY <2>1
<1>3. PICK f \in [0..n -> Seq(Chars)] : f[0] = <<>> /\ \A i \in 1..n : f[i] = step[f[i - 1]][i]
  <2> DEFINE V == Seq(Chars)
             base == <<>>
  <2>1. n \in Nat /\ base \in V /\ step \in [V -> [1..n -> V]]
    BY <1>1, <1>2
  <2> HIDE DEF step, V, n, base
  <2>2. \E f : Steps(f, n, V, base, step)
    BY <2>1, Stepwise
  <2> QED BY <2>2 DEF V, base, Steps
<1>4. \A i \in 1..n : f[i] = Spaced(f[i - 1], s[i])
  <2> TAKE i \in 1..n
  <2>1. f[i - 1] \in Seq(Chars)
    BY <1>3
  <2> QED BY <1>3, <2>1
<1>5. f = Body(f)
  BY <1>3, <1>4
<1>6. h = Body(h)
  BY <1>5
<1>7. \A i \in 0..n : f[i] = h[i]
  <2> HIDE DEF h
  <2>1. h[0] = <<>> /\ \A i \in 1..n : h[i] = Spaced(h[i - 1], s[i])
    BY <1>1, <1>6
  <2>2. SameSteps(f, h, n)
    BY <1>3, <1>4, <2>1 DEF SameSteps
  <2> HIDE DEF n
  <2> QED BY <1>1, <2>2, SameRun
<1>8. Collapsed(s) = h[n]
  BY DEF Collapsed
<1> HIDE DEF h
<1>9. Collapsed(s) = f[n]
  BY <1>1, <1>7, <1>8
<1> QED BY <1>3, <1>4, <1>9

LEMMA CollapsedTight ==
  ASSUME NEW s \in Seq(Chars)
  PROVE  /\ Collapsed(s) \in Seq(Chars) /\ Tight(Collapsed(s))
         /\ Tight(s) => Collapsed(s) = s
<1> DEFINE n == Len(s)
<1>1. PICK f \in [0..n -> Seq(Chars)] :
        /\ f[0] = <<>> /\ Collapsed(s) = f[n]
        /\ \A i \in 1..n : f[i] = Spaced(f[i - 1], s[i])
  BY CollapsedIs
<1>2. n \in Nat /\ n \in 0..n /\ \A i \in 1..n : i - 1 \in 0..n /\ i \in 0..n /\ s[i] \in Chars
  OBVIOUS
<1>3. Tight(f[n])
  <2> DEFINE Good == {i \in 0..n : Tight(f[i])}
  <2>1. 0 \in Good
    BY <1>1, TightEmpty
  <2>2. ASSUME NEW i \in 1..n, i - 1 \in Good PROVE i \in Good
    <3> DEFINE t == f[i - 1]
    <3>1. t \in Seq(Chars) /\ Len(t) \in Nat /\ Tight(t) /\ s[i] \in Chars
      BY <1>2, <2>2
    <3>2. f[i] = Spaced(t, s[i])
      BY <1>1
    <3> HIDE DEF t
    <3>3. ASSUME NEW c \in Chars, c \notin Space \ {" "}, c = " " => t = <<>> \/ t[Len(t)] # " "
          PROVE  Tight(Append(t, c))
      <4>1. /\ Len(Append(t, c)) = Len(t) + 1 /\ Append(t, c)[Len(t) + 1] = c
            /\ \A k \in 1..Len(t) : Append(t, c)[k] = t[k]
        BY <3>1, OneMore
      <4>2. ASSUME NEW k \in 1..(Len(t) + 1)
            PROVE  /\ Append(t, c)[k] \notin Space \ {" "}
                   /\ k > 1 /\ Append(t, c)[k] = " " => Append(t, c)[k - 1] # " "
        <5>1. CASE k = Len(t) + 1
          <6>1. k > 1 => t # <<>> /\ Len(t) \in 1..Len(t) /\ k - 1 = Len(t)
            BY <3>1, <5>1
          <6> QED BY <3>3, <4>1, <5>1, <6>1
        <5>2. CASE k # Len(t) + 1
          <6>1. k \in 1..Len(t) /\ (k > 1 => k - 1 \in 1..Len(t))
            BY <3>1, <5>2
          <6> QED BY <3>1, <4>1, <6>1 DEF Tight
        <5> QED BY <5>1, <5>2
      <4> QED BY <4>1, <4>2 DEF Tight
    <3>4. Tight(Spaced(t, s[i]))
      <4>1. CASE s[i] \notin Space
        <5>1. s[i] # " "
          BY <4>1 DEF Space
        <5> QED BY <3>1, <3>3, <4>1, <5>1 DEF Spaced
      <4>2. CASE s[i] \in Space
        <5>1. CASE t # <<>> /\ t[Len(t)] = " "
          BY <3>1, <4>2, <5>1 DEF Spaced
        <5>2. CASE ~(t # <<>> /\ t[Len(t)] = " ")
          <6> DEFINE c == " "
          <6>0. c \in Chars /\ c \notin Space \ {" "} /\ (t = <<>> \/ t[Len(t)] # " ")
            <7>1. c \in Chars
              BY CharsAssumption
            <7>2. c \notin Space \ {" "}
              OBVIOUS
            <7> QED BY <5>2, <7>1, <7>2
          <6> HIDE DEF c
          <6>1. Tight(Append(t, c))
            BY <3>3, <6>0
          <6> QED BY <4>2, <5>2, <6>1 DEF Spaced, c
        <5> QED BY <5>1, <5>2
      <4> QED BY <4>1, <4>2
    <3> QED BY <1>2, <3>2, <3>4
  <2> HIDE DEF Good
  <2>3. n \in Good
    BY <1>2, <2>1, <2>2, UpTo
  <2> QED BY <2>3 DEF Good
<1>4. ASSUME Tight(s) PROVE f[n] = s
  <2> DEFINE Good == {i \in 0..n : Len(f[i]) = i /\ \A k \in 1..i : f[i][k] = s[k]}
  <2>1. 0 \in Good
    BY <1>1, <1>2
  <2>2. ASSUME NEW i \in 1..n, i - 1 \in Good PROVE i \in Good
    <3> DEFINE t == f[i - 1]
    <3>1. t \in Seq(Chars) /\ Len(t) = i - 1 /\ \A k \in 1..(i - 1) : t[k] = s[k]
      BY <1>2, <2>2
    <3>2. f[i] = Spaced(t, s[i])
      BY <1>1
    <3>3. s[i] \notin Space \ {" "} /\ (i > 1 /\ s[i] = " " => s[i - 1] # " ") /\ s[i] \in Chars
      BY <1>2, <1>4 DEF Tight
    <3> HIDE DEF t
    <3>4. t # <<>> => i > 1 /\ i - 1 \in 1..(i - 1) /\ t[Len(t)] = s[i - 1]
      BY <3>1
    <3>5. Spaced(t, s[i]) = Append(t, s[i])
      <4>1. s[i] \in Space => s[i] = " "
        BY <3>3
      <4> QED BY <3>3, <3>4, <4>1 DEF Spaced
    <3>6. Len(f[i]) = i /\ f[i][i] = s[i] /\ \A k \in 1..(i - 1) : f[i][k] = s[k]
      <4>0. t \in Seq(Chars) /\ s[i] \in Chars
        BY <3>1, <3>3
      <4>1. /\ Len(Append(t, s[i])) = Len(t) + 1 /\ Append(t, s[i])[Len(t) + 1] = s[i]
            /\ \A k \in 1..Len(t) : Append(t, s[i])[k] = t[k]
        BY <4>0, OneMore
      <4>2. Len(t) + 1 = i
        BY <3>1
      <4> QED BY <3>1, <3>2, <3>5, <4>1, <4>2
    <3>7. \A k \in 1..i : k = i \/ k \in 1..(i - 1)
      OBVIOUS
    <3> QED BY <1>2, <3>6, <3>7
  <2> HIDE DEF Good
  <2>3. n \in Good
    BY <1>2, <2>1, <2>2, UpTo
  <2>4. f[n] \in Seq(Chars) /\ Len(f[n]) = n /\ \A k \in 1..n : f[n][k] = s[k]
    BY <1>2, <2>3 DEF Good
  <2> QED BY <2>4, SeqEqual
<1>5. f[n] \in Seq(Chars)
  BY <1>2
<1> QED BY <1>1, <1>3, <1>4, <1>5

(* A part of a tight text is tight.                                        *)
LEMMA TrimTight ==
  ASSUME NEW s \in Seq(Chars), Tight(s)
  PROVE  Tight(TrimSpace(s))
<1>1. CASE TrimSpace(s) = <<>>
  BY <1>1, TightEmpty
<1>2. CASE TrimSpace(s) # <<>>
  <2>1. PICK a \in 1..Len(s), b \in 1..Len(s) : a <= b /\ TrimSpace(s) = SubSeq(s, a, b)
    BY <1>2, TrimIs
  <2>2. /\ Len(SubSeq(s, a, b)) = b - a + 1
        /\ \A i \in 1..(b - a + 1) : SubSeq(s, a, b)[i] = s[a + i - 1]
    <3>1. \A i \in a..b : s[i] \in Chars
      OBVIOUS
    <3> QED BY <2>1, <3>1, SubSeqProperties
  <2>3. ASSUME NEW k \in 1..(b - a + 1)
        PROVE  /\ SubSeq(s, a, b)[k] \notin Space \ {" "}
               /\ k > 1 /\ SubSeq(s, a, b)[k] = " " => SubSeq(s, a, b)[k - 1] # " "
    <3>1. /\ a + k - 1 \in 1..Len(s) /\ (k > 1 => a + k - 1 > 1)
          /\ (k > 1 => k - 1 \in 1..(b - a + 1) /\ a + (k - 1) - 1 = (a + k - 1) - 1)
      BY <2>1
    <3> QED BY <2>2, <3>1 DEF Tight
  <2> QED BY <2>1, <2>2, <2>3 DEF Tight
<1> QED BY <1>1, <1>2

---------------------------------------------------------------------------
(* Letters.                                                                *)
LEMMA LettersApart ==
  /\ \A l, m \in DOMAIN Letters : Letters[l] = Letters[m] => l = m
  /\ \A l \in DOMAIN Letters : Letters[l] \notin DOMAIN Letters
<1> DEFINE small == {"a", "e", "f", "l", "n", "o", "r", "s", "t", "u", "y"}
<1>1. DOMAIN Letters = small
  BY DEF Letters
<1>2. /\ Letters["a"] = "A" /\ Letters["e"] = "E" /\ Letters["f"] = "F" /\ Letters["l"] = "L"
      /\ Letters["n"] = "N" /\ Letters["o"] = "O" /\ Letters["r"] = "R" /\ Letters["s"] = "S"
      /\ Letters["t"] = "T" /\ Letters["u"] = "U" /\ Letters["y"] = "Y"
  BY DEF Letters
<1> QED BY <1>1, <1>2

LEMMA Cases1 ==
  \A c : /\ Small(Small(c)) = Small(c) /\ Capital(Capital(c)) = Capital(c)
         /\ Small(Capital(Small(c))) = Small(c)
         /\ c \in Chars => Small(c) \in Chars /\ Capital(c) \in Chars
<1> TAKE c
<1> DEFINE Smalls == DOMAIN Letters
<1>1. \A l \in Smalls : Small(Letters[l]) = l /\ Small(l) = l
  BY LettersApart DEF Small
<1>2. \A l \in Smalls : Capital(l) = Letters[l] /\ Capital(Letters[l]) = Letters[l]
  BY LettersApart DEF Capital
<1>3. \A x : x \notin Smalls => Capital(x) = x
  BY DEF Capital
<1>4. \A x : (\A l \in Smalls : Letters[l] # x) => Small(x) = x
  BY DEF Small
<1>5. CASE c \in Smalls
  BY <1>1, <1>2, <1>5, CharsAssumption
<1>6. CASE \E l \in Smalls : Letters[l] = c
  BY <1>1, <1>2, <1>6, CharsAssumption
<1>7. CASE c \notin Smalls /\ \A l \in Smalls : Letters[l] # c
  BY <1>3, <1>4, <1>7
<1> QED BY <1>5, <1>6, <1>7

LEMMA LowerTwice ==
  ASSUME NEW s \in Seq(Chars)
  PROVE  Each(s, Small) \in Seq(Chars) /\ Each(Each(s, Small), Small) = Each(s, Small)
<1> DEFINE t == Each(s, Small)
<1>1. t = [i \in 1..Len(s) |-> Small(s[i])] /\ \A i \in 1..Len(s) : s[i] \in Chars
  BY DEF Each
<1>2. t \in Seq(Chars) /\ Len(t) = Len(s) /\ \A i \in 1..Len(s) : t[i] = Small(s[i])
  BY <1>1, Cases1
<1> HIDE DEF t
<1>3. Each(t, Small) = [i \in 1..Len(t) |-> Small(t[i])]
  BY <1>2 DEF Each
<1>4. \A i \in 1..Len(s) : Small(t[i]) = t[i]
  BY <1>2, Cases1
<1>5. Each(t, Small) = t
  BY <1>2, <1>3, <1>4
<1> QED BY <1>2, <1>5 DEF t

LEMMA UpperTwice ==
  ASSUME NEW s \in Seq(Chars)
  PROVE  Each(s, Capital) \in Seq(Chars) /\ Each(Each(s, Capital), Capital) = Each(s, Capital)
<1> DEFINE t == Each(s, Capital)
<1>1. t = [i \in 1..Len(s) |-> Capital(s[i])] /\ \A i \in 1..Len(s) : s[i] \in Chars
  BY DEF Each
<1>2. t \in Seq(Chars) /\ Len(t) = Len(s) /\ \A i \in 1..Len(s) : t[i] = Capital(s[i])
  BY <1>1, Cases1
<1> HIDE DEF t
<1>3. Each(t, Capital) = [i \in 1..Len(t) |-> Capital(t[i])]
  BY <1>2 DEF Each
<1>4. \A i \in 1..Len(s) : Capital(t[i]) = t[i]
  BY <1>2, Cases1
<1>5. Each(t, Capital) = t
  BY <1>2, <1>3, <1>4
<1> QED BY <1>2, <1>5 DEF t

(* A title in small letters is what it was made of.                        *)
LEMMA TitleLower ==
  ASSUME NEW s \in Seq(Chars)
  PROVE  LET t == TitleCase(Each(s, Small)) IN t \in Seq(Chars) /\ Each(t, Small) = Each(s, Small)
<1> DEFINE w == Each(s, Small)
           t == TitleCase(w)
           Within(i) == i > 1 /\ (IsLetter(w[i - 1]) \/ w[i - 1] \in Digits \cup {"_"})
<1>1. /\ w \in Seq(Chars) /\ Len(w) = Len(s) /\ \A i \in 1..Len(s) : w[i] = Small(s[i]) /\ w[i] \in Chars
  <2>1. w = [i \in 1..Len(s) |-> Small(s[i])] /\ \A i \in 1..Len(s) : s[i] \in Chars
    BY DEF Each
  <2> QED BY <2>1, Cases1
<1> HIDE DEF w
<1>2. t = [i \in 1..Len(w) |-> IF Within(i) THEN w[i] ELSE Capital(w[i])]
  BY <1>1 DEF TitleCase
<1> HIDE DEF Within
<1>3. t \in Seq(Chars) /\ Len(t) = Len(w) /\ \A i \in 1..Len(w) : t[i] \in {w[i], Capital(w[i])}
  <2>1. \A i \in 1..Len(w) : w[i] \in Chars /\ Capital(w[i]) \in Chars
    BY <1>1, Cases1
  <2> QED BY <1>1, <1>2, <2>1
<1> HIDE DEF t
<1>4. \A i \in 1..Len(w) : Small(t[i]) = w[i]
  BY <1>1, <1>3, Cases1
<1>5. Each(t, Small) = [i \in 1..Len(t) |-> Small(t[i])]
  BY <1>3 DEF Each
<1>6. Each(t, Small) = w
  BY <1>1, <1>3, <1>4, <1>5
<1> QED BY <1>3, <1>6 DEF t, w

---------------------------------------------------------------------------
(* What a text transformer has made it makes of itself.                    *)
LEMMA TruncateTwice ==
  ASSUME NEW s \in Seq(Chars), NEW n \in Nat
  PROVE  Truncate(Truncate(s, n), n) = Truncate(s, n)
<1>1. CASE Len(s) <= n
  BY <1>1 DEF Truncate
<1>2. CASE ~(Len(s) <= n)
  <2>1. \A i \in 1..n : s[i] \in Chars
    BY <1>2
  <2>2. Len(SubSeq(s, 1, n)) = n
    BY <2>1, SubSeqProperties
  <2>3. Truncate(s, n) = SubSeq(s, 1, n)
    BY <1>2 DEF Truncate
  <2> QED BY <2>2, <2>3 DEF Truncate
<1> QED BY <1>1, <1>2

LEMMA PadLeftTwice ==
  ASSUME NEW s \in Seq(Chars), NEW n \in Nat, NEW c \in Chars
  PROVE  PadLeft(PadLeft(s, n, c), n, c) = PadLeft(s, n, c)
<1>1. CASE Len(s) >= n
  BY <1>1 DEF PadLeft
<1>2. CASE ~(Len(s) >= n)
  <2> DEFINE pad == [i \in 1..(n - Len(s)) |-> c]
  <2>1. pad \in Seq(Chars) /\ Len(pad) = n - Len(s) /\ n - Len(s) \in Nat /\ Len(s) \in Nat
    BY <1>2
  <2>2. PadLeft(s, n, c) = pad \o s
    BY <1>2 DEF PadLeft
  <2> HIDE DEF pad
  <2>3. Len(pad \o s) = n
    BY <2>1, ConcatProperties
  <2> QED BY <2>2, <2>3 DEF PadLeft
<1> QED BY <1>1, <1>2

LEMMA TextTwice ==
  ASSUME NEW op, IsOp(op), op.name \in TextOps \ {"Replace"}, NEW s \in Seq(Chars)
  PROVE  TextOf(op, TextOf(op, s)) = TextOf(op, s)
<1>1. CASE op.name = "Trim"
  <2>1. \A t : TextOf(op, t) = TrimSpace(t)
    BY <1>1 DEF TextOf
  <2> QED BY <2>1, TrimType, TrimNone
<1>2. CASE op.name = "Lowercase"
  <2>1. \A t : TextOf(op, t) = Each(t, Small)
    BY <1>2 DEF TextOf
  <2> QED BY <2>1, LowerTwice
<1>3. CASE op.name = "Uppercase"
  <2>1. \A t : TextOf(op, t) = Each(t, Capital)
    BY <1>3 DEF TextOf
  <2> QED BY <2>1, UpperTwice
<1>4. CASE op.name = "TitleCase"
  <2>1. \A t : TextOf(op, t) = TitleCase(Each(t, Small))
    BY <1>4 DEF TextOf
  <2> DEFINE t == TitleCase(Each(s, Small))
  <2>2. Each(t, Small) = Each(s, Small)
    BY TitleLower
  <2>3. TextOf(op, s) = t
    BY <2>1
  <2>4. TextOf(op, t) = TitleCase(Each(t, Small))
    <3> HIDE DEF t
    <3> QED BY <2>1
  <2>5. TitleCase(Each(t, Small)) = t
    <3>1. \A x : x = Each(s, Small) => TitleCase(x) = t
      OBVIOUS
    <3> HIDE DEF t
    <3> QED BY <2>2, <3>1
  <2> HIDE DEF t
  <2> QED BY <2>3, <2>4, <2>5
<1>5. CASE op.name = "RemoveSpaces"
  <2>1. \A t : TextOf(op, t) = Dropping(t, {" "})
    BY <1>5 DEF TextOf
  <2> DEFINE d == Dropping(s, {" "})
  <2>2. d \in Seq(Chars) /\ \A k \in 1..Len(d) : d[k] \notin {" "}
    BY DroppingTwice
  <2> HIDE DEF d
  <2>3. Dropping(d, {" "}) = d
    BY <2>2, DroppingNone
  <2> QED BY <2>1, <2>3 DEF d
<1>6. CASE op.name = "NormalizeWhitespace"
  <2>1. \A t : TextOf(op, t) = TrimSpace(Collapsed(t))
    BY <1>6 DEF TextOf
  <2> DEFINE c == Collapsed(s)
             r == TrimSpace(c)
  <2>2. c \in Seq(Chars) /\ Tight(c)
    BY CollapsedTight
  <2> HIDE DEF c
  <2>3. r \in Seq(Chars) /\ Trimmed(r) /\ Tight(r)
    BY <2>2, TrimType, TrimTight
  <2> HIDE DEF r
  <2>4. Collapsed(r) = r /\ TrimSpace(r) = r
    BY <2>3, CollapsedTight, TrimNone
  <2> QED BY <2>1, <2>4 DEF r, c
<1>7. CASE op.name = "RemoveNonAlphanumeric"
  <2> DEFINE Good(t) == {c \in ToSet(t) : IsLetter(c) \/ c \in Digits}
             r == Keeping(s, Good(s))
  <2>1. \A t : TextOf(op, t) = Keeping(t, Good(t))
    BY <1>7 DEF TextOf
  <2>2. r \in Seq(Chars) /\ \A k \in 1..Len(r) : r[k] \in Good(s)
    BY KeepingOf
  <2> HIDE DEF r
  <2>3. \A k \in 1..Len(r) : r[k] \in Good(r)
    BY <2>2 DEF ToSet
  <2>4. Keeping(r, Good(r)) = r
    <3> HIDE DEF Good
    <3> QED BY <2>2, <2>3, KeepingOf
  <2> QED BY <2>1, <2>4 DEF r
<1>8. CASE op.name = "RemoveCurrencySymbols"
  <2>1. \A t : TextOf(op, t) = TrimSpace(Dropping(t, Symbols))
    BY <1>8 DEF TextOf
  <2> DEFINE d == Dropping(s, Symbols)
             r == TrimSpace(d)
  <2>2. d \in Seq(Chars) /\ \A k \in 1..Len(d) : d[k] \notin Symbols
    BY DroppingTwice
  <2> HIDE DEF d
  <2>3. r \in Seq(Chars) /\ Trimmed(r) /\ \A k \in 1..Len(r) : r[k] \notin Symbols
    BY <2>2, TrimType, TrimPart
  <2> HIDE DEF r
  <2>4. Dropping(r, Symbols) = r /\ TrimSpace(r) = r
    BY <2>3, DroppingNone, TrimNone
  <2> QED BY <2>1, <2>4 DEF r, d
<1>9. CASE op.name = "Truncate"
  <2>1. \A t : TextOf(op, t) = Truncate(t, op.len)
    BY <1>9 DEF TextOf
  <2> QED BY <1>9, <2>1, TruncateTwice DEF IsOp
<1>10. CASE op.name = "PadLeft"
  <2>1. \A t : TextOf(op, t) = PadLeft(t, op.len, op.pad)
    BY <1>10 DEF TextOf
  <2> QED BY <1>10, <2>1, PadLeftTwice DEF IsOp
<1> QED BY <1>1, <1>2, <1>3, <1>4, <1>5, <1>6, <1>7, <1>8, <1>9, <1>10 DEF TextOps

---------------------------------------------------------------------------
(* Numbers.                                                                *)
LEMMA TenType == Ten \in [Nat -> Nat \ {0}] /\ Ten[0] = 1
<1> DEFINE V == Nat \ {0}
           Body(g) == [n \in Nat |-> IF n = 0 THEN 1 ELSE 10 * g[n - 1]]
           rank == [n \in Nat |-> n]
           F == [g \in [Nat -> V] |-> Body(g)]
<1>1. \A g \in [Nat -> V] : Body(g) \in [Nat -> V]
  <2> TAKE g \in [Nat -> V]
  <2>1. \A n \in Nat : n # 0 => n - 1 \in Nat /\ g[n - 1] \in V
    OBVIOUS
  <2>2. \A n \in Nat : (IF n = 0 THEN 1 ELSE 10 * g[n - 1]) \in V
    BY <2>1
  <2> QED BY <2>2
<1>2. V # {} /\ rank \in [Nat -> Nat] /\ F \in [[Nat -> V] -> [Nat -> V]]
  <2>1. 1 \in V /\ rank \in [Nat -> Nat]
    OBVIOUS
  <2>2. F \in [[Nat -> V] -> [Nat -> V]]
    <3> HIDE DEF Body, V
    <3> QED BY <1>1
  <2> QED BY <2>1, <2>2
<1>3. ASSUME NEW g \in [Nat -> V], NEW h \in [Nat -> V], NEW n \in Nat,
             \A k \in Nat : rank[k] < rank[n] => g[k] = h[k]
      PROVE  F[g][n] = F[h][n]
  <2>1. n # 0 => g[n - 1] = h[n - 1]
    BY <1>3
  <2>2. Body(g)[n] = Body(h)[n]
    BY <2>1
  <2> QED BY <2>2
<1>4. Descends(Nat, V, rank, F)
  <2> HIDE DEF F, V, rank
  <2> QED BY <1>2, <1>3 DEF Descends
<1>5. PICK f \in [Nat -> V] : f = F[f]
  <2> HIDE DEF F, V, rank
  <2> QED BY <1>4, FixedPoint
<1>6. f = Body(f)
  BY <1>5
<1>7. Ten = CHOOSE g : g = Body(g)
  BY DEF Ten
<1>8. Ten = Body(Ten)
  BY <1>6, <1>7
<1>9. Ten[0] = 1 /\ \A n \in Nat : n # 0 => Ten[n] = 10 * Ten[n - 1]
  BY <1>8
<1>10. \A n \in Nat : Ten[n] \in V
  <2> DEFINE B == {n \in Nat : Ten[n] \notin V}
  <2>1. SUFFICES ASSUME B # {} PROVE FALSE
    OBVIOUS
  <2>2. PICK n \in B : \A k \in B : ~(k < n)
    BY <2>1, Least
  <2>3. n # 0
    BY <1>9, <2>2
  <2>4. n - 1 \in Nat /\ Ten[n - 1] \in V
    BY <2>2, <2>3
  <2>5. 10 * Ten[n - 1] \in V
    BY <2>4
  <2> QED BY <1>9, <2>2, <2>3, <2>5
<1>11. Ten \in [Nat -> V]
  BY <1>8, <1>10
<1> QED BY <1>9, <1>11

LEMMA ZerosType == Zeros \in [Nat -> Nat]
<1> DEFINE Stop(m) == m = 0 \/ m % 10 # 0
           Body(g) == [m \in Nat |-> IF m = 0 \/ m % 10 # 0 THEN 0 ELSE 1 + g[m \div 10]]
           rank == [m \in Nat |-> m]
           F == [g \in [Nat -> Nat] |-> Body(g)]
<1>0. \A m \in Nat : m # 0 => m \div 10 \in Nat /\ m \div 10 < m
  OBVIOUS
<1>1. \A g \in [Nat -> Nat] : Body(g) \in [Nat -> Nat]
  <2> TAKE g \in [Nat -> Nat]
  <2>1. \A m \in Nat : m # 0 => g[m \div 10] \in Nat
    BY <1>0
  <2>2. \A m \in Nat : (IF m = 0 \/ m % 10 # 0 THEN 0 ELSE 1 + g[m \div 10]) \in Nat
    BY <2>1
  <2> QED BY <2>2
<1>2. Nat # {} /\ rank \in [Nat -> Nat] /\ F \in [[Nat -> Nat] -> [Nat -> Nat]]
  <2>1. 1 \in Nat /\ rank \in [Nat -> Nat]
    OBVIOUS
  <2>2. F \in [[Nat -> Nat] -> [Nat -> Nat]]
    <3> HIDE DEF Body
    <3> QED BY <1>1
  <2> QED BY <2>1, <2>2
<1>3. ASSUME NEW g \in [Nat -> Nat], NEW h \in [Nat -> Nat], NEW m \in Nat,
             \A k \in Nat : rank[k] < rank[m] => g[k] = h[k]
      PROVE  F[g][m] = F[h][m]
  <2>1. m # 0 => g[m \div 10] = h[m \div 10]
    BY <1>0, <1>3
  <2>2. Body(g)[m] = Body(h)[m]
    BY <2>1
  <2> QED BY <2>2
<1>4. Descends(Nat, Nat, rank, F)
  <2> HIDE DEF F, rank
  <2> QED BY <1>2, <1>3 DEF Descends
<1>5. PICK f \in [Nat -> Nat] : f = F[f]
  <2> HIDE DEF F, rank
  <2> QED BY <1>4, FixedPoint
<1>6. f = Body(f)
  BY <1>5
<1>7. Zeros = CHOOSE g : g = Body(g)
  BY DEF Zeros
<1>8. Zeros = Body(Zeros)
  BY <1>6, <1>7
<1>9. \A m \in Nat : Zeros[m] = 0 \/ (m # 0 /\ Zeros[m] = 1 + Zeros[m \div 10])
  BY <1>8
<1>10. \A m \in Nat : Zeros[m] \in Nat
  <2> DEFINE B == {m \in Nat : Zeros[m] \notin Nat}
  <2>1. SUFFICES ASSUME B # {} PROVE FALSE
    OBVIOUS
  <2>2. PICK m \in B : \A k \in B : ~(k < m)
    BY <2>1, Least
  <2>3. m # 0 /\ Zeros[m] = 1 + Zeros[m \div 10]
    BY <1>9, <2>2
  <2>4. m \div 10 \in Nat /\ Zeros[m \div 10] \in Nat
    BY <1>0, <2>2, <2>3
  <2> QED BY <2>2, <2>3, <2>4
<1> QED BY <1>8, <1>10

(* A decimal is not negative, and its last digit no further behind than e. *)
LEMMA DecimalIs ==
  ASSUME NEW m \in Nat, NEW e \in Int
  PROVE  \E g \in Floats : /\ Decimal(m, e) = Float(g.m, g.e)
                           /\ IF m = 0 THEN g = [m |-> 0, e |-> 0] ELSE e <= g.e
<1>1. CASE m = 0
  <2>1. [m |-> 0, e |-> 0] \in Floats
    BY DEF Floats
  <2> QED BY <1>1, <2>1 DEF Decimal
<1>2. CASE m # 0
  <2> DEFINE z == Zeros[m]
             g == [m |-> m \div Ten[z], e |-> e + z]
  <2>1. z \in Nat
    BY ZerosType
  <2>2. Ten[z] \in Nat \ {0}
    BY <2>1, TenType
  <2>3. m \div Ten[z] \in Nat /\ e + z \in Int /\ e <= e + z
    BY <2>1, <2>2
  <2>4. Decimal(m, e) = Float(g.m, g.e)
    BY <1>2 DEF Decimal
  <2>5. g \in Floats /\ g.e = e + z
    BY <2>3 DEF Floats
  <2> HIDE DEF g
  <2> QED BY <1>2, <2>3, <2>4, <2>5
<1> QED BY <1>1, <1>2

LEMMA DigitValue ==
  ASSUME NEW c \in Digits
  PROVE  ValueOf(c) \in Nat
<1>1. \E i \in 1..10 : Digit[i] = c
  <2>1. /\ Digit[1] = "0" /\ Digit[2] = "1" /\ Digit[3] = "2" /\ Digit[4] = "3" /\ Digit[5] = "4"
        /\ Digit[6] = "5" /\ Digit[7] = "6" /\ Digit[8] = "7" /\ Digit[9] = "8" /\ Digit[10] = "9"
    BY DEF Digit
  <2> QED BY <2>1 DEF Digits
<1> QED BY <1>1 DEF ValueOf

LEMMA ValueType ==
  ASSUME NEW s \in Seq(Chars), \A i \in 1..Len(s) : s[i] \in Digits
  PROVE  Value(s) \in Nat
<1> DEFINE n == Len(s)
           Body(g) == [i \in 0..n |-> IF i = 0 THEN 0 ELSE 10 * g[i - 1] + ValueOf(s[i])]
           step == [t \in Nat |-> [i \in 1..n |-> 10 * t + ValueOf(s[i])]]
           h == CHOOSE g : g = Body(g)
<1>1. n \in Nat /\ n \in 0..n /\ 0 \in 0..n /\ \A i \in 1..n : i \in 0..n /\ i # 0 /\ i - 1 \in 0..n
  OBVIOUS
<1>2. \A i \in 1..n : ValueOf(s[i]) \in Nat
  BY DigitValue
<1>3. step \in [Nat -> [1..n -> Nat]]
  <2>1. \A t \in Nat, i \in 1..n : 10 * t + ValueOf(s[i]) \in Nat
    BY <1>2
  <2> QED BY <2>1
<1>4. PICK f \in [0..n -> Nat] : f[0] = 0 /\ \A i \in 1..n : f[i] = step[f[i - 1]][i]
  <2> DEFINE base == 0
  <2>1. n \in Nat /\ base \in Nat /\ step \in [Nat -> [1..n -> Nat]]
    BY <1>1, <1>3
  <2> HIDE DEF step, n, base
  <2>2. \E f : Steps(f, n, Nat, base, step)
    BY <2>1, Stepwise
  <2> QED BY <2>2 DEF base, Steps
<1>5. \A i \in 1..n : f[i] = 10 * f[i - 1] + ValueOf(s[i])
  <2> TAKE i \in 1..n
  <2>1. f[i - 1] \in Nat
    BY <1>1, <1>4
  <2> QED BY <1>4, <2>1
<1>6. f = Body(f)
  BY <1>4, <1>5
<1>7. h = Body(h)
  BY <1>6
<1>8. Value(s) = h[n]
  BY DEF Value
<1> HIDE DEF h
<1>9. h[0] = 0 /\ \A i \in 1..n : h[i] = 10 * h[i - 1] + ValueOf(s[i])
  BY <1>1, <1>7
<1>10. SameSteps(f, h, n)
  BY <1>4, <1>5, <1>9 DEF SameSteps
<1>11. f[n] = h[n]
  <2> HIDE DEF n
  <2> QED BY <1>1, <1>10, SameRun
<1> QED BY <1>1, <1>4, <1>8, <1>11

(* The floats that a value stands for.                                     *)
LEMMA FloatsType ==
  ASSUME NEW v, IsValue(v)
  PROVE  FloatsOf(v) \subseteq Floats
<1>1. CASE Type(v) = "float64"
  <2>1. v[2] \in Floats
    BY <1>1 DEF IsValue, Type, Nil
  <2> QED BY <1>1, <2>1 DEF FloatsOf
<1>2. CASE Type(v) = "int"
  <2>1. v[2] \in Nat
    BY <1>2 DEF IsValue, Type, Nil
  <2>2. PICK g \in Floats : Decimal(v[2], 0) = Float(g.m, g.e)
    BY <2>1, DecimalIs
  <2>3. Decimal(v[2], 0)[2] \in Floats
    BY <2>2 DEF Float, Floats
  <2> QED BY <1>2, <2>3 DEF FloatsOf
<1>3. CASE Type(v) = "string"
  <2> DEFINE s == v[2]
             points == {i \in DOMAIN s : s[i] = "."}
             digits == Dropping(s, {"."})
             Off(i) == 0 - (Len(s) - i)
  <2>1. s \in Seq(Chars)
    BY <1>3 DEF IsValue, Type, Nil
  <2>2. digits \in Seq(Chars)
    BY <2>1, DroppingTwice
  <2>3. ASSUME NEW x \in Seq(Chars), \A i \in 1..Len(x) : x[i] \in Digits, NEW e \in Int
        PROVE  Decimal(Value(x), e)[2] \in Floats
    <3>1. Value(x) \in Nat
      BY <2>3, ValueType
    <3>2. PICK g \in Floats : Decimal(Value(x), e) = Float(g.m, g.e)
      BY <3>1, DecimalIs
    <3> QED BY <3>2 DEF Float, Floats
  <2>4. CASE digits = <<>> \/ \E i \in DOMAIN digits : digits[i] \notin Digits
    <3>1. Parsed(s) = {}
      BY <2>4 DEF Parsed
    <3> QED BY <1>3, <3>1 DEF FloatsOf
  <2>5. CASE ~(digits = <<>> \/ \E i \in DOMAIN digits : digits[i] \notin Digits)
    <3>1. \A i \in 1..Len(digits) : digits[i] \in Digits
      BY <2>2, <2>5
    <3>2. CASE points = {}
      <4>1. digits = s
        <5>1. \A k \in 1..Len(s) : s[k] \notin {"."}
          BY <2>1, <3>2
        <5> QED BY <2>1, <5>1, DroppingNone
      <4>2. Parsed(s) = {Decimal(Value(s), 0)}
        BY <2>5, <3>2 DEF Parsed
      <4>3. Decimal(Value(s), 0)[2] \in Floats
        <5> HIDE DEF digits, s
        <5> QED BY <2>2, <2>3, <3>1, <4>1
      <4> QED BY <1>3, <4>2, <4>3 DEF FloatsOf
    <3>3. CASE \E i \in points : points = {i}
      <4> DEFINE i == CHOOSE j \in points : TRUE
      <4>1. i \in points
        BY <3>3
      <4>2. Parsed(s) = {Decimal(Value(digits), 0 - (Len(s) - i))}
        BY <2>5, <3>3 DEF Parsed
      <4>3. 0 - (Len(s) - i) \in Int
        BY <2>1, <4>1
      <4>4. Decimal(Value(digits), 0 - (Len(s) - i))[2] \in Floats
        <5> HIDE DEF digits, s, i, points
        <5> QED BY <2>2, <2>3, <3>1, <4>3
      <4> QED BY <1>3, <4>2, <4>4 DEF FloatsOf
    <3>4. CASE points # {} /\ ~\E i \in points : points = {i}
      <4>1. Parsed(s) = {}
        BY <2>5, <3>4 DEF Parsed
      <4> QED BY <1>3, <4>1 DEF FloatsOf
    <3> QED BY <3>2, <3>3, <3>4
  <2> QED BY <2>4, <2>5
<1>4. CASE Type(v) \notin {"float64", "int", "string"}
  BY <1>4 DEF FloatsOf
<1> QED BY <1>1, <1>2, <1>3, <1>4

(* Rounding twice.                                                         *)
LEMMA RoundTwice ==
  ASSUME NEW f \in Floats, NEW d \in Int
  PROVE  LET g == Round(f, d)[2] IN Round(f, d) = Float(g.m, g.e) /\ Round(g, d) = Round(f, d)
<1>0. f.m \in Nat /\ f.e \in Int /\ f = [m |-> f.m, e |-> f.e]
  BY DEF Floats
<1>1. CASE 0 - f.e <= d
  <2>1. Round(f, d) = Float(f.m, f.e)
    BY <1>1 DEF Round
  <2>2. Round(f, d)[2] = f
    BY <1>0, <2>1 DEF Float
  <2> QED BY <2>1, <2>2
<1>2. CASE ~(0 - f.e <= d)
  <2> DEFINE q == Ten[0 - f.e - d]
             m == (f.m + q \div 2) \div q
  <2>1. q \in Nat \ {0}
    <3>1. 0 - f.e - d \in Nat
      BY <1>0, <1>2
    <3> QED BY <3>1, TenType
  <2>2. Round(f, d) = Decimal(m, 0 - d)
    BY <1>2 DEF Round
  <2> HIDE DEF q
  <2>3. m \in Nat /\ 0 - d \in Int
    BY <1>0, <2>1
  <2> HIDE DEF m
  <2>4. PICK g \in Floats : /\ Decimal(m, 0 - d) = Float(g.m, g.e)
                            /\ IF m = 0 THEN g = [m |-> 0, e |-> 0] ELSE 0 - d <= g.e
    BY <2>3, DecimalIs
  <2>5. g.m \in Nat /\ g.e \in Int /\ g = [m |-> g.m, e |-> g.e]
    BY DEF Floats
  <2>6. Round(f, d)[2] = g
    BY <2>2, <2>4, <2>5 DEF Float
  <2>7. CASE 0 - g.e <= d
    <3>1. Round(g, d) = Float(g.m, g.e)
      BY <2>7 DEF Round
    <3> QED BY <2>2, <2>4, <2>6, <3>1
  <2>8. CASE ~(0 - g.e <= d)
    <3>1. g = [m |-> 0, e |-> 0] /\ g.m = 0 /\ g.e = 0
      BY <2>3, <2>4, <2>5, <2>8
    <3> DEFINE r == Ten[0 - g.e - d]
    <3>2. r \in Nat \ {0}
      <4>1. 0 - g.e - d \in Nat
        BY <2>5, <2>8
      <4> QED BY <4>1, TenType
    <3>3. Round(g, d) = Decimal((g.m + r \div 2) \div r, 0 - d)
      BY <2>8 DEF Round
    <3> HIDE DEF r
    <3>4. (0 + r \div 2) \div r = 0
      <4>1. r \div 2 \in Nat /\ r \div 2 < r
        BY <3>2
      <4>2. \A k \in Nat : k < r => k \div r = 0
        BY <3>2
      <4>3. 0 + r \div 2 = r \div 2
        BY <4>1
      <4> QED BY <4>1, <4>2, <4>3
    <3>5. Round(g, d) = Float(0, 0)
      BY <3>1, <3>3, <3>4 DEF Decimal
    <3> QED BY <2>2, <2>4, <2>6, <3>1, <3>5
  <2> QED BY <2>7, <2>8
<1> QED BY <1>1, <1>2

LEMMA NotLess ==
  ASSUME NEW f \in Floats
  PROVE  ~Less(f, f)
<1>1. f.m \in Nat /\ f.e \in Int /\ f.e - f.e = 0 /\ Ten[0] = 1
  BY TenType DEF Floats
<1>2. Less(f, f) <=> f.m * Ten[f.e - f.e] < f.m * Ten[f.e - f.e]
  BY DEF Less
<1> QED BY <1>1, <1>2

LEMMA ClampTwice ==
  ASSUME NEW f, NEW low \in Floats, NEW high \in Floats, ~Less(high, low)
  PROVE  LET g == Clamp(f, low, high)[2] IN Clamp(g, low, high) = Clamp(f, low, high)
<1>1. /\ low = [m |-> low.m, e |-> low.e] /\ high = [m |-> high.m, e |-> high.e]
      /\ ~Less(low, low) /\ ~Less(high, high)
  BY NotLess DEF Floats
<1> DEFINE c == Clamp(f, low, high)
<1>2. \A g : ~Less(g, low) /\ ~Less(high, g) => Clamp(g, low, high) = Float(g.m, g.e)
  BY DEF Clamp
<1>3. CASE Less(f, low)
  <2>1. c = Float(low.m, low.e)
    BY <1>3 DEF Clamp
  <2>2. c[2] = low
    BY <1>1, <2>1 DEF Float
  <2> HIDE DEF c
  <2> QED BY <1>1, <1>2, <2>1, <2>2 DEF c
<1>4. CASE ~Less(f, low) /\ Less(high, f)
  <2>1. c = Float(high.m, high.e)
    BY <1>4 DEF Clamp
  <2>2. c[2] = high
    BY <1>1, <2>1 DEF Float
  <2> QED BY <1>1, <1>2, <2>1, <2>2
<1>5. CASE ~Less(f, low) /\ ~Less(high, f)
  <2> DEFINE g == c[2]
  <2>1. c = Float(f.m, f.e)
    BY <1>2, <1>5
  <2>2. g.m = f.m /\ g.e = f.e
    BY <2>1 DEF Float
  <2>3. ~Less(g, low) /\ ~Less(high, g)
    <3>1. (Less(g, low) <=> Less(f, low)) /\ (Less(high, g) <=> Less(high, f))
      <4> HIDE DEF g
      <4> QED BY <2>2 DEF Less
    <3> QED BY <1>5, <3>1
  <2>4. Clamp(g, low, high) = Float(f.m, f.e)
    <3> HIDE DEF g
    <3> QED BY <1>2, <2>2, <2>3
  <2> QED BY <2>1, <2>4
<1> QED BY <1>3, <1>4, <1>5

---------------------------------------------------------------------------
(* Times.                                                                  *)
LEMMA Oks ==
  /\ \A x, y : Ok(x) = Ok(y) => x = y
  /\ \A x : Ok(x) # Failed /\ Ok(x) # Panicked /\ Ok(x).out = "ok" /\ Ok(x).val = x
  /\ Failed.out = "error" /\ Panicked.out = "panic"
  BY DEF Ok, Failed, Panicked

LEMMA Types ==
  /\ \A x : /\ Type(Text(x)) = "string" /\ Type(Integer(x)) = "int" /\ Type(Boolean(x)) = "bool"
            /\ Type(Time(x)) = "time" /\ Text(x)[2] = x /\ Time(x)[2] = x
  /\ \A x, y : Type(Float(x, y)) = "float64"
  /\ Type(Nil) = "nil"
  BY DEF Type, Text, Integer, Boolean, Time, Float, Nil

LEMMA Offsets ==
  ASSUME NEW zone \in DOMAIN Changes
  PROVE  \A at \in Int :
           /\ OffsetAt(zone, at) \in Int
           /\ \E c \in Range(Changes[zone]) : OffsetAt(zone, at) = c.off
<1> TAKE at \in Int
<1> DEFINE n == Len(Changes[zone])
           past == {i \in DOMAIN Changes[zone] : Changes[zone][i].at <= at}
           k == IF past = {} THEN 1 ELSE Max(past)
<1>1. DOMAIN Changes[zone] = 1..n /\ Changes[zone] # <<>>
  BY TimeAssumption
<1>2. k \in DOMAIN Changes[zone]
  <2>1. CASE past = {}
    <3>1. n \in Nat /\ n # 0
      BY <1>1, TimeAssumption
    <3> QED BY <1>1, <2>1, <3>1
  <2>2. CASE past # {}
    <3>1. past \subseteq 1..n /\ n \in Nat
      BY <1>1, TimeAssumption
    <3> HIDE DEF past
    <3>2. past \in SUBSET (0..n)
      BY <3>1
    <3>3. PICK i \in past : \A j \in past : j <= i
      BY <2>2, <3>1, <3>2, Greatest
    <3>4. \A j \in past : i >= j
      BY <3>1, <3>3
    <3>5. Max(past) \in past
      BY <3>4 DEF Max
    <3> QED BY <1>1, <2>2, <3>1, <3>5
  <2> QED BY <2>1, <2>2
<1>3. OffsetAt(zone, at) = Changes[zone][k].off
  BY DEF OffsetAt
<1> HIDE DEF k
<1>4. Changes[zone][k] \in Range(Changes[zone])
  BY <1>2 DEF Range
<1> QED BY <1>3, <1>4, TimeAssumption

LEMMA OffsetUTC == \A at \in Int : OffsetAt("UTC", at) = 0
<1>1. "UTC" \in DOMAIN Changes /\ \A c \in Range(Changes["UTC"]) : c.off = 0
  BY TimeAssumption
<1> QED BY <1>1, Offsets

LEMMA Dates ==
  ASSUME NEW zone \in DOMAIN Changes, NEW clock \in Int
  PROVE  /\ Date(clock, zone) \in Times /\ Date(clock, zone).zone = zone
         /\ Date(clock, zone).at = clock - OffsetAt(zone, clock - OffsetAt(zone, clock))
<1>1. OffsetAt(zone, clock) \in Int
  BY Offsets
<1>2. clock - OffsetAt(zone, clock) \in Int
  BY <1>1
<1>3. OffsetAt(zone, clock - OffsetAt(zone, clock)) \in Int
  BY <1>2, Offsets
<1>4. clock - OffsetAt(zone, clock - OffsetAt(zone, clock)) \in Int
  BY <1>3
<1> QED BY <1>4 DEF Date, Times

LEMMA Clocks ==
  ASSUME NEW t \in Times
  PROVE  /\ t.at \in Int /\ t.zone \in DOMAIN Changes /\ t = [at |-> t.at, zone |-> t.zone]
         /\ Clock(t) \in Int /\ DayOf(t) \in Int
         /\ DayOf(t) * 24 <= Clock(t) /\ Clock(t) <= DayOf(t) * 24 + 23
<1>1. t.at \in Int /\ t.zone \in DOMAIN Changes /\ t = [at |-> t.at, zone |-> t.zone]
  BY DEF Times
<1>2. Clock(t) \in Int
  BY <1>1, Offsets DEF Clock
<1>3. \A c \in Int : c \div 24 \in Int /\ (c \div 24) * 24 <= c /\ c <= (c \div 24) * 24 + 23
  OBVIOUS
<1> QED BY <1>1, <1>2, <1>3 DEF DayOf

LEMMA BoundsAre ==
  ASSUME NEW t \in Times
  PROVE  StartOfDay(t) \in Times /\ EndOfDay(t) \in Times
<1>1. t.zone \in DOMAIN Changes /\ DayOf(t) * 24 \in Int /\ DayOf(t) * 24 + 23 \in Int
  BY Clocks
<1> QED BY <1>1, Dates DEF StartOfDay, EndOfDay

LEMMA DayFrom ==
  ASSUME NEW d \in Int, NEW hour \in 0..23
  PROVE  (d * 24 + hour) \div 24 = d /\ (d * 24 + hour) % 24 = hour
  OBVIOUS

(* A bound that the clock shows is the bound of its own day.               *)
LEMMA ShownTwice ==
  ASSUME NEW d \in Int, NEW zone \in DOMAIN Changes, NEW hour \in 0..23,
         LET t == Date(d * 24 + hour, zone)
         IN  /\ Clock(t) % 24 = hour
             /\ \A b, c \in Range(Changes[zone]) : b.off - c.off \in (0 - 23)..23
  PROVE  DayOf(Date(d * 24 + hour, zone)) = d
<1> DEFINE l == d * 24 + hour
           t == Date(l, zone)
           o == OffsetAt(zone, l - OffsetAt(zone, l))
           p == OffsetAt(zone, t.at)
<1>1. l \in Int /\ OffsetAt(zone, l) \in Int
  BY Offsets
<1>2. l - OffsetAt(zone, l) \in Int
  BY <1>1
<1>3. t.zone = zone /\ t.at = l - o /\ t \in Times
  BY <1>1, Dates
<1>4. t.at \in Int
  BY <1>3, Clocks
<1>5. o \in Int /\ p \in Int /\ p - o \in (0 - 23)..23
  <2>1. PICK b \in Range(Changes[zone]) : p = b.off
    BY <1>4, Offsets
  <2>2. PICK c \in Range(Changes[zone]) : o = c.off
    BY <1>2, Offsets
  <2>3. o \in Int /\ p \in Int
    BY <1>2, <1>4, Offsets
  <2> QED BY <2>1, <2>2, <2>3
<1>6. Clock(t) = t.at + p
  BY <1>3 DEF Clock
<1>7. Clock(t) % 24 = hour
  OBVIOUS
<1> HIDE DEF t, o, p
<1>8. Clock(t) = d * 24 + hour + (p - o)
  BY <1>3, <1>5, <1>6
<1>9. \A x \in (0 - 23)..23 : (d * 24 + hour + x) % 24 = hour => x = 0
  OBVIOUS
<1>10. p - o = 0
  BY <1>5, <1>7, <1>8, <1>9
<1>11. Clock(t) = d * 24 + hour
  BY <1>5, <1>8, <1>10
<1> QED BY <1>11, DayFrom DEF DayOf, t

LEMMA BoundTwice ==
  ASSUME NEW op, op.name \in {"StartOfDay", "EndOfDay"}, NEW t \in Times,
         NEW b, b = IF op.name = "StartOfDay" THEN StartOfDay(t) ELSE EndOfDay(t),
         BoundShown(op, Time(b))
  PROVE  (IF op.name = "StartOfDay" THEN StartOfDay(b) ELSE EndOfDay(b)) = b
<1> DEFINE d == DayOf(t)
           h == Hour(op)
<1>1. d \in Int /\ t.zone \in DOMAIN Changes /\ h \in 0..23
  BY Clocks DEF Hour
<1>2. /\ b = Date(d * 24 + h, t.zone)
      /\ \A x \in Times : (IF op.name = "StartOfDay" THEN StartOfDay(x) ELSE EndOfDay(x))
                         = Date(DayOf(x) * 24 + h, x.zone)
  <2>0. \A x \in Times : DayOf(x) \in Int
    BY Clocks
  <2>1. CASE op.name = "StartOfDay"
    <3>1. h = 0 /\ \A x : StartOfDay(x) = Date(DayOf(x) * 24, x.zone)
      BY <2>1 DEF StartOfDay, Hour
    <3>2. \A x \in Int : x * 24 + 0 = x * 24
      OBVIOUS
    <3>3. \A x \in Times : StartOfDay(x) = Date(DayOf(x) * 24 + h, x.zone)
      BY <2>0, <3>1, <3>2
    <3> QED BY <2>1, <3>3
  <2>2. CASE op.name = "EndOfDay"
    <3>1. h = 23 /\ \A x : EndOfDay(x) = Date(DayOf(x) * 24 + 23, x.zone)
      BY <2>2 DEF EndOfDay, Hour
    <3> QED BY <2>2, <3>1
  <2> QED BY <2>1, <2>2
<1>3. b.zone = t.zone /\ b \in Times
  BY <1>1, <1>2, Dates
<1>4. /\ Clock(b) % 24 = h
      /\ \A c, e \in Range(Changes[t.zone]) : c.off - e.off \in (0 - 23)..23
  BY <1>3, Types DEF BoundShown
<1> HIDE DEF d, h
<1>5. DayOf(b) = d
  BY <1>1, <1>2, <1>4, ShownTwice
<1> QED BY <1>2, <1>3, <1>5

(* Where the clock changes once at most and shows a bound once, time.Date   *)
(* finds it, and it lies to the right side of the time.                    *)
LEMMA OneBound ==
  ASSUME NEW t \in Times, OneChange(t), NEW hour \in 0..23,
         ShownOnce(t, DayOf(t) * 24 + hour)
  PROVE  LET b == Date(DayOf(t) * 24 + hour, t.zone)
         IN  /\ Clock(b) = DayOf(t) * 24 + hour
             /\ Clock(b) <= Clock(t) => b.at <= t.at
             /\ Clock(t) <= Clock(b) => t.at <= b.at
<1> DEFINE d == DayOf(t)
           l == d * 24 + hour
           near == Around(t)
           z == t.zone
           b == Date(l, z)
           shown == {x \in near : Clock([t EXCEPT !.at = x]) = l}
<1>1. /\ t.at \in Int /\ z \in DOMAIN Changes /\ d \in Int /\ Clock(t) \in Int
      /\ d * 24 <= Clock(t) /\ Clock(t) <= d * 24 + 23 /\ Clock(t) = t.at + OffsetAt(z, t.at)
  BY Clocks DEF Clock
<1>2. PICK change \in Range(Changes[z]), from \in (0 - 24)..24, to \in (0 - 24)..24 :
        \A x \in near : OffsetAt(z, x) = IF x < change.at THEN from ELSE to
  BY ZenonT(60) DEF OneChange
<1> DEFINE c == change.at
<1>3. c \in Int
  BY <1>1, TimeAssumption
<1>4. PICK once \in shown : shown = {once}
  BY DEF ShownOnce
<1>5. \A x \in near : x \in Int /\ (Clock([t EXCEPT !.at = x]) = l <=> x = once)
  BY <1>1, <1>4 DEF Around
<1>6. \A x \in near : Clock([t EXCEPT !.at = x]) = x + IF x < c THEN from ELSE to
  <2> TAKE x \in near
  <2>1. [t EXCEPT !.at = x].at = x /\ [t EXCEPT !.at = x].zone = z
    BY <1>1
  <2> QED BY <1>2, <2>1 DEF Clock
<1>7. near = (t.at - 72)..(t.at + 72) /\ once \in near
  BY <1>4 DEF Around
<1>8. b.at = l - OffsetAt(z, l - OffsetAt(z, l)) /\ b.zone = z /\ b \in Times
  BY <1>1, Dates
<1> HIDE DEF d, z, c, near, b, shown
<1>9. t.at \in near /\ OffsetAt(z, t.at) \in {from, to}
  BY <1>1, <1>2, <1>7 DEF c
<1>10. l \in near /\ l - from \in near /\ l - to \in near
  <2>1. PICK o \in (0 - 24)..24 : Clock(t) = t.at + o
    BY <1>1, <1>9
  <2>2. l \in Int /\ t.at - 47 <= l /\ l <= t.at + 47
    BY <1>1, <2>1
  <2>3. from \in Int /\ to \in Int /\ 0 - 24 <= from /\ from <= 24 /\ 0 - 24 <= to /\ to <= 24
    OBVIOUS
  <2>4. \A x \in Int : t.at - 72 <= x /\ x <= t.at + 72 => x \in near
    BY <1>1, <1>7
  <2>5. \A k \in {0, from, to} : l - k \in Int /\ t.at - 72 <= l - k /\ l - k <= t.at + 72
    <3> HIDE DEF l
    <3> QED BY <1>1, <2>2, <2>3
  <2>6. l - from \in near /\ l - to \in near
    BY <2>4, <2>5
  <2>7. l \in near
    BY <1>1, <2>2, <2>4
  <2> QED BY <2>6, <2>7
<1>11. l \in Int /\ from \in Int /\ to \in Int /\ once \in Int
  <2>1. l \in Int
    BY <1>1
  <2>2. from \in Int /\ to \in Int
    OBVIOUS
  <2> QED BY <1>5, <1>7, <2>1, <2>2
<1> HIDE DEF l
<1>12. \/ l - from < c /\ l - to < c /\ once = l - from
       \/ ~(l - from < c) /\ ~(l - to < c) /\ once = l - to
  <2>1. l - from < c => once = l - from
    <3> SUFFICES ASSUME l - from < c PROVE once = l - from
      OBVIOUS
    <3>1. Clock([t EXCEPT !.at = l - from]) = (l - from) + from
      BY <1>6, <1>10
    <3> QED BY <1>5, <1>10, <1>11, <3>1
  <2>2. ~(l - to < c) => once = l - to
    <3> SUFFICES ASSUME ~(l - to < c) PROVE once = l - to
      OBVIOUS
    <3>1. Clock([t EXCEPT !.at = l - to]) = (l - to) + to
      BY <1>6, <1>10
    <3> QED BY <1>5, <1>10, <1>11, <3>1
  <2>3. l = once + IF once < c THEN from ELSE to
    BY <1>5, <1>6, <1>7
  <2> QED BY <1>3, <1>11, <2>1, <2>2, <2>3
<1>13. OffsetAt(z, l) \in {from, to} /\ OffsetAt(z, l - from) = (IF l - from < c THEN from ELSE to)
       /\ OffsetAt(z, l - to) = (IF l - to < c THEN from ELSE to)
  BY <1>2, <1>10 DEF c
<1>14. b.at = once
  BY <1>8, <1>12, <1>13
<1>15. Clock(b) = l
  <2>1. b = [t EXCEPT !.at = once]
    BY <1>1, <1>8, <1>14, Clocks DEF z, Times
  <2> QED BY <1>5, <1>7, <2>1
<1>16. Clock(t) = t.at + IF t.at < c THEN from ELSE to
  BY <1>1, <1>2, <1>9 DEF c
<1>17. /\ l <= Clock(t) => once <= t.at
       /\ Clock(t) <= l => t.at <= once
  BY <1>1, <1>3, <1>11, <1>12, <1>16
<1> QED BY <1>14, <1>15, <1>17 DEF b, d, l, z

LEMMA Days ==
  ASSUME NEW t \in Times, Regular(t)
  PROVE  /\ StartOfDay(t).at <= t.at /\ t.at <= EndOfDay(t).at
         /\ DayOf(StartOfDay(t)) = DayOf(t) /\ DayOf(EndOfDay(t)) = DayOf(t)
<1> DEFINE d == DayOf(t)
           s == Date(d * 24 + 0, t.zone)
           e == Date(d * 24 + 23, t.zone)
<1>1. d \in Int /\ Clock(t) \in Int /\ d * 24 <= Clock(t) /\ Clock(t) <= d * 24 + 23
  BY Clocks
<1>2. /\ Clock(s) = d * 24 + 0 /\ (Clock(s) <= Clock(t) => s.at <= t.at)
      /\ Clock(e) = d * 24 + 23 /\ (Clock(t) <= Clock(e) => t.at <= e.at)
  BY OneBound DEF Regular
<1>3. s = StartOfDay(t) /\ e = EndOfDay(t)
  BY <1>1 DEF StartOfDay, EndOfDay
<1> HIDE DEF d, s, e
<1>4. DayOf(s) = d /\ DayOf(e) = d
  BY <1>1, <1>2, DayFrom DEF DayOf
<1> QED BY <1>1, <1>2, <1>3, <1>4 DEF d

LEMMA ReadTimes ==
  ASSUME NEW layout, NEW text
  PROVE  Read(layout, text) \subseteq Times
  BY TimeAssumption DEF Read

(* The first of some times is one of them.                                 *)
LEMMA FirstTime ==
  ASSUME NEW T, NEW v, Ok(v) = FirstOf(T)
  PROVE  \E t \in T : v = Time(t)
<1>1. T # {}
  BY DEF FirstOf, Ok, Failed
<1>2. FirstOf(T) = Ok(Time(CHOOSE t \in T : TRUE)) /\ (CHOOSE t \in T : TRUE) \in T
  BY <1>1 DEF FirstOf
<1>3. \A x, y : Ok(x) = Ok(y) => x = y
  BY DEF Ok
<1> QED BY <1>2, <1>3

LEMMA FirstOne ==
  ASSUME NEW t
  PROVE  FirstOf({t}) = Ok(Time(t))
<1>1. \A x : x \in {t} => x = t
  OBVIOUS
<1>2. (CHOOSE x \in {t} : TRUE) = t
  OBVIOUS
<1> QED BY <1>2 DEF FirstOf

(* A time that a transformer gives is one.                                 *)
Timely(v) == Type(v) = "time" => v[2] \in Times

LEMMA BoundTimes ==
  ASSUME NEW v, Timely(v), NEW end \in {"StartOfDay", "EndOfDay"}, NEW w, Ok(w) = DayBound(v, end)
  PROVE  \E t \in Times : w = Time(IF end = "StartOfDay" THEN StartOfDay(t) ELSE EndOfDay(t))
<1> DEFINE Bound(t) == IF end = "StartOfDay" THEN StartOfDay(t) ELSE EndOfDay(t)
           day == IF Len(v[2]) < 10 THEN {} ELSE Read("2006-01-02", SubSeq(v[2], 1, 10))
<1>1. CASE Type(v) = "time"
  <2>1. Ok(w) = Ok(Time(Bound(v[2])))
    BY <1>1 DEF DayBound
  <2>2. w = Time(Bound(v[2])) /\ v[2] \in Times
    BY <1>1, <2>1, Oks DEF Timely
  <2> QED BY <2>2
<1>2. CASE Type(v) = "string"
  <2>1. ~(Len(v[2]) < 10)
    BY <1>2, Oks DEF DayBound
  <2>2. Ok(w) = FirstOf({Bound(t) : t \in day})
    BY <1>2, <2>1 DEF DayBound
  <2>3. day \subseteq Times
    BY ReadTimes
  <2> HIDE DEF day, Bound
  <2>4. PICK x \in {Bound(t) : t \in day} : w = Time(x)
    BY <2>2, FirstTime
  <2>5. PICK t \in day : x = Bound(t)
    BY <2>4
  <2> QED BY <2>3, <2>4, <2>5 DEF Bound
<1>3. CASE Type(v) \notin {"time", "string"}
  <2>1. DayBound(v, end) = Failed
    BY <1>3 DEF DayBound
  <2> QED BY <2>1, Oks
<1> QED BY <1>1, <1>2, <1>3

LEMMA ZoneTimes ==
  ASSUME NEW v, Timely(v), NEW location, NEW w, Ok(w) = ToTimezone(v, location)
  PROVE  /\ location \in Locations
         /\ \E t \in Times : t.zone = location /\ w = Time(t)
<1> DEFINE times == CASE Type(v) = "time" -> {v[2]}
                      [] Type(v) = "string" -> Read("RFC3339", v[2])
                      [] OTHER -> {}
           Moved(t) == [t EXCEPT !.zone = location]
<1>1. location \in Locations
  BY Oks DEF ToTimezone
<1>2. Ok(w) = FirstOf({Moved(t) : t \in times})
  BY <1>1 DEF ToTimezone
<1>3. times \subseteq Times
  <2>1. CASE Type(v) = "time"
    BY <2>1 DEF Timely
  <2>2. CASE Type(v) = "string"
    <3>1. times = Read("RFC3339", v[2])
      BY <2>2
    <3> QED BY <3>1, ReadTimes
  <2>3. CASE Type(v) \notin {"time", "string"}
    BY <2>3
  <2> QED BY <2>1, <2>2, <2>3
<1> HIDE DEF times, Moved
<1>4. PICK x \in {Moved(t) : t \in times} : w = Time(x)
  BY <1>2, FirstTime
<1>5. PICK t \in times : x = Moved(t)
  BY <1>4
<1>6. t \in Times /\ location \in DOMAIN Changes
  BY <1>1, <1>3, TimeAssumption
<1>7. x \in Times /\ x.zone = location
  BY <1>5, <1>6 DEF Moved, Times
<1> QED BY <1>1, <1>4, <1>7

---------------------------------------------------------------------------
(* Of each transformer, what it may give.                                  *)
LEMMA ApplyIs ==
  ASSUME NEW op, NEW v
  PROVE  /\ op.name \in TextOps =>
              Apply(op, v) = {IF Type(v) = "string" THEN Ok(Text(TextOf(op, v[2]))) ELSE Failed}
         /\ op.name \in NumberOps =>
              Apply(op, v) = {IF FloatsOf(v) = {} THEN Failed
                              ELSE Ok(NumberOf(op, CHOOSE f \in FloatsOf(v) : TRUE))}
         /\ op.name = "ToInt" => Apply(op, v) = {ToInt(v)}
         /\ op.name = "ToString" => Apply(op, v) = {Ok(ToText(v))}
         /\ op.name = "ToBoolean" => Apply(op, v) = {ToBoolean(v)}
         /\ op.name = "Default" => Apply(op, v) = {Ok(Default(v, op.default))}
         /\ op.name = "ParseDate" => Apply(op, v) = {ParseDate(v, op.from)}
         /\ op.name = "DateFormat" => Apply(op, v) = {DateFormat(v, op.from, op.to)}
         /\ op.name = "ToISO8601" => Apply(op, v) = {ToISO8601(v)}
         /\ op.name = "ToTimezone" => Apply(op, v) = {ToTimezone(v, op.location)}
         /\ op.name \in {"StartOfDay", "EndOfDay"} => Apply(op, v) = {DayBound(v, op.name)}
         /\ op.name = "NormalizePhone" =>
              Apply(op, v) = Phone(v, IF Type(v) = "string" THEN NormalizePhone(v[2], op.country) ELSE {})
         /\ op.name = "NormalizePhoneWithCountry" =>
              Apply(op, v) = Phone(v, IF Type(v) = "string" THEN NormalizeForCountry(v[2], op.country) ELSE {})
         /\ op.name = "FormatPhone" => Apply(op, v) = {IF Type(v) = "string" THEN Ok(v) ELSE Failed}
<1>1. CASE op.name \in TextOps
  <2>1. Apply(op, v) = {IF Type(v) = "string" THEN Ok(Text(TextOf(op, v[2]))) ELSE Failed}
    <3>1. op.name \notin NumberOps /\ op.name \notin OtherOps
      BY <1>1 DEF TextOps, NumberOps, OtherOps
    <3> QED BY <1>1, <3>1 DEF Apply, OtherOps
  <2> QED BY <1>1, <2>1 DEF TextOps, NumberOps
<1>2. CASE op.name \in NumberOps
  <2>1. Apply(op, v) = {IF FloatsOf(v) = {} THEN Failed
                        ELSE Ok(NumberOf(op, CHOOSE f \in FloatsOf(v) : TRUE))}
    BY <1>2 DEF Apply, TextOps, NumberOps
  <2> QED BY <1>2, <2>1 DEF TextOps, NumberOps
<1>3. CASE op.name \notin TextOps \cup NumberOps
  BY <1>3 DEF Apply
<1> QED BY <1>1, <1>2, <1>3

LEMMA NumberTimely ==
  ASSUME NEW op, op.name \in NumberOps, NEW f
  PROVE  Type(NumberOf(op, f)) = "float64"
<1>1. \A m, e : Type(Decimal(m, e)) = "float64"
  BY Types DEF Decimal
<1>2. \A d : Type(Round(f, d)) = "float64"
  BY <1>1, Types DEF Round
<1>3. \A low, high : Type(Clamp(f, low, high)) = "float64"
  <2> TAKE low, high
  <2>1. CASE Less(f, low)
    BY <2>1, Types DEF Clamp
  <2>2. CASE ~Less(f, low) /\ Less(high, f)
    BY <2>2, Types DEF Clamp
  <2>3. CASE ~Less(f, low) /\ ~Less(high, f)
    BY <2>3, Types DEF Clamp
  <2> QED BY <2>1, <2>2, <2>3
<1>4. CASE op.name = "ToFloat64"
  BY <1>4, Types DEF NumberOf
<1>5. CASE op.name = "Round"
  BY <1>2, <1>5 DEF NumberOf
<1>6. CASE op.name = "Clamp"
  BY <1>3, <1>6 DEF NumberOf
<1>7. CASE op.name = "Percentage"
  BY <1>1, <1>7 DEF NumberOf
<1>8. CASE op.name = "FromPercentage"
  BY <1>1, <1>8 DEF NumberOf
<1> QED BY <1>4, <1>5, <1>6, <1>7, <1>8 DEF NumberOps

(* A transformer that is given no bad time gives none.                     *)
LEMMA TimelyApply ==
  ASSUME NEW op, IsOp(op), op.name \notin Combining, NEW v, Timely(v), NEW w, Ok(w) \in Apply(op, v)
  PROVE  Timely(w)
<1>1. CASE op.name \in TextOps
  <2>1. w = Text(TextOf(op, v[2]))
    BY <1>1, ApplyIs, Oks
  <2> QED BY <2>1, Types DEF Timely
<1>2. CASE op.name \in NumberOps
  <2>1. w = NumberOf(op, CHOOSE f \in FloatsOf(v) : TRUE)
    BY <1>2, ApplyIs, Oks
  <2> QED BY <1>2, <2>1, NumberTimely DEF Timely
<1>3. CASE op.name = "ToInt"
  <2>1. Ok(w) = ToInt(v)
    BY <1>3, ApplyIs
  <2>2. w = v \/ Type(w) = "int"
    <3>1. CASE Type(v) = "int"
      BY <2>1, <3>1, Oks DEF ToInt
    <3>2. CASE Type(v) # "int"
      <4>1. Ok(w) = Failed \/ \E x : Ok(w) = Ok(Integer(x))
        BY <2>1, <3>2 DEF ToInt
      <4> QED BY <4>1, Oks, Types
    <3> QED BY <3>1, <3>2
  <2> QED BY <2>2 DEF Timely
<1>4. CASE op.name = "ToString"
  <2>1. w = ToText(v)
    BY <1>4, ApplyIs, Oks
  <2>2. Type(w) = "string"
    <3>1. CASE Type(v) = "string"
      BY <2>1, <3>1 DEF ToText
    <3>2. CASE Type(v) # "string"
      <4>1. \E x : w = Text(x)
        <5>1. CASE Type(v) = "int"
          BY <2>1, <5>1 DEF ToText
        <5>2. CASE Type(v) = "float64"
          BY <2>1, <5>2 DEF ToText
        <5>3. CASE Type(v) = "bool"
          BY <2>1, <5>3 DEF ToText
        <5>4. CASE Type(v) = "time"
          BY <2>1, <5>4 DEF ToText
        <5>5. CASE Type(v) \notin {"string", "int", "float64", "bool", "time"}
          BY <2>1, <5>5 DEF ToText
        <5> QED BY <3>2, <5>1, <5>2, <5>3, <5>4, <5>5
      <4> QED BY <4>1, Types
    <3> QED BY <3>1, <3>2
  <2> QED BY <2>2 DEF Timely
<1>5. CASE op.name = "ToBoolean"
  <2>1. Ok(w) = ToBoolean(v)
    BY <1>5, ApplyIs
  <2>2. Type(w) = "bool"
    <3>1. CASE Type(v) = "bool"
      BY <2>1, <3>1, Oks DEF ToBoolean
    <3>2. CASE Type(v) # "bool"
      <4>1. Ok(w) = Failed \/ \E x : Ok(w) = Ok(Boolean(x))
        <5>1. CASE Type(v) = "string"
          BY <2>1, <5>1 DEF ToBoolean
        <5>2. CASE Type(v) = "int"
          BY <2>1, <5>2 DEF ToBoolean
        <5>3. CASE Type(v) = "float64"
          BY <2>1, <5>3 DEF ToBoolean
        <5>4. CASE Type(v) \notin {"bool", "string", "int", "float64"}
          BY <2>1, <5>4 DEF ToBoolean
        <5> QED BY <3>2, <5>1, <5>2, <5>3, <5>4
      <4> QED BY <4>1, Oks, Types
    <3> QED BY <3>1, <3>2
  <2> QED BY <2>2 DEF Timely
<1>6. CASE op.name = "Default"
  <2>1. w = Default(v, op.default)
    BY <1>6, ApplyIs, Oks
  <2>2. Timely(op.default)
    <3>1. IsValue(op.default)
      BY <1>6 DEF IsOp
    <3> QED BY <3>1 DEF IsValue, Timely, Type, Nil
  <2> QED BY <2>1, <2>2 DEF Default
<1>7. CASE op.name = "ParseDate"
  <2>1. Ok(w) = ParseDate(v, op.from)
    BY <1>7, ApplyIs
  <2>2. Ok(w) = FirstOf(Read(op.from, v[2]))
    BY <2>1, Oks DEF ParseDate
  <2> QED BY <2>2, FirstTime, ReadTimes, Types DEF Timely
<1>8. CASE op.name = "DateFormat"
  <2>1. Ok(w) = DateFormat(v, op.from, op.to)
    BY <1>8, ApplyIs
  <2>2. \E x : w = Text(x)
    <3> DEFINE r == ParseDate(v, op.from)
    <3>1. CASE r.out = "ok"
      <4>1. Ok(w) = Ok(Text(Write(op.to, r.val[2])))
        BY <2>1, <3>1 DEF DateFormat
      <4> QED BY <4>1, Oks
    <3>2. CASE r.out # "ok"
      <4>1. Ok(w) = r
        BY <2>1, <3>2 DEF DateFormat
      <4> QED BY <3>2, <4>1, Oks
    <3> QED BY <3>1, <3>2
  <2> QED BY <2>2, Types DEF Timely
<1>9. CASE op.name = "ToISO8601"
  <2>1. Ok(w) = ToISO8601(v)
    BY <1>9, ApplyIs
  <2>2. Ok(w) = Failed \/ \E x : Ok(w) = Ok(Text(x))
    <3>1. CASE Type(v) = "time"
      BY <2>1, <3>1 DEF ToISO8601
    <3>2. CASE Type(v) = "string"
      BY <2>1, <3>2 DEF ToISO8601
    <3>3. CASE Type(v) \notin {"time", "string"}
      BY <2>1, <3>3 DEF ToISO8601
    <3> QED BY <3>1, <3>2, <3>3
  <2> QED BY <2>2, Oks, Types DEF Timely
<1>10. CASE op.name = "ToTimezone"
  <2>1. Ok(w) = ToTimezone(v, op.location)
    BY <1>10, ApplyIs
  <2>2. \E t \in Times : w = Time(t)
    BY <2>1, ZoneTimes
  <2> QED BY <2>2, Types DEF Timely
<1>11. CASE op.name \in {"StartOfDay", "EndOfDay"}
  <2>1. Ok(w) = DayBound(v, op.name)
    BY <1>11, ApplyIs
  <2>2. PICK t \in Times : w = Time(IF op.name = "StartOfDay" THEN StartOfDay(t) ELSE EndOfDay(t))
    BY <1>11, <2>1, BoundTimes
  <2> QED BY <2>2, BoundsAre, Types DEF Timely
<1>12. CASE op.name \in {"NormalizePhone", "NormalizePhoneWithCountry"}
  <2>1. \E numbers : Apply(op, v) = Phone(v, numbers)
    BY <1>12, ApplyIs
  <2>2. PICK numbers : Ok(w) \in Phone(v, numbers)
    BY <2>1
  <2>3. \E x : w = Text(x)
    <3>1. CASE Type(v) # "string" \/ numbers = {}
      BY <2>2, <3>1, Oks DEF Phone
    <3>2. CASE ~(Type(v) # "string" \/ numbers = {})
      <4>1. \E x \in numbers : Ok(w) = Ok(Text(x))
        BY <2>2, <3>2 DEF Phone
      <4> QED BY <4>1, Oks
    <3> QED BY <3>1, <3>2
  <2> QED BY <2>3, Types DEF Timely
<1>13. CASE op.name = "FormatPhone"
  <2>1. w = v
    BY <1>13, ApplyIs, Oks
  <2> QED BY <2>1
<1> QED BY <1>1, <1>2, <1>3, <1>4, <1>5, <1>6, <1>7, <1>8, <1>9, <1>10, <1>11, <1>12, <1>13
     DEF IsOp, OtherOps

(* What was made of a value is left alone the second time.                 *)
LEMMA Reapplied ==
  ASSUME NEW op, IsOp(op), Repeatable(op), NEW u, IsValue(u), NEW v, Ok(v) \in Apply(op, u),
         BoundShown(op, v)
  PROVE  Apply(op, v) = {Ok(v)}
<1>0. Timely(u)
  BY DEF IsValue, Timely, Type, Nil
<1>1. CASE op.name \in TextOps
  <2>1. op.name # "Replace"
    BY <1>1 DEF Repeatable, TextOps
  <2>2. Type(u) = "string" /\ v = Text(TextOf(op, u[2]))
    BY <1>1, ApplyIs, Oks
  <2>3. u[2] \in Seq(Chars)
    BY <2>2 DEF IsValue, Type, Nil
  <2>4. TextOf(op, TextOf(op, u[2])) = TextOf(op, u[2])
    BY <1>1, <2>1, <2>3, TextTwice
  <2>5. Type(v) = "string" /\ Text(TextOf(op, v[2])) = v
    BY <2>2, <2>4, Types
  <2> QED BY <1>1, <2>5, ApplyIs
<1>2. CASE op.name \in NumberOps
  <2> DEFINE f == CHOOSE g \in FloatsOf(u) : TRUE
  <2>1. FloatsOf(u) # {} /\ v = NumberOf(op, f)
    BY <1>2, ApplyIs, Oks
  <2>2. f \in Floats
    BY <2>1, FloatsType
  <2> HIDE DEF f
  <2>3. Type(v) = "float64"
    BY <1>2, <2>1, NumberTimely
  <2>4. FloatsOf(v) = {v[2]}
    BY <2>3 DEF FloatsOf
  <2>5. (CHOOSE g \in {v[2]} : TRUE) = v[2]
    OBVIOUS
  <2>6. Apply(op, v) = {Ok(NumberOf(op, v[2]))}
    <3>1. FloatsOf(v) # {} /\ (CHOOSE g \in FloatsOf(v) : TRUE) = v[2]
      BY <2>4, <2>5
    <3> QED BY <1>2, <3>1, ApplyIs
  <2>7. NumberOf(op, v[2]) = v
    <3>1. CASE op.name = "ToFloat64"
      <4>1. v = Float(f.m, f.e)
        BY <2>1, <3>1 DEF NumberOf
      <4>2. v[2].m = f.m /\ v[2].e = f.e
        BY <4>1 DEF Float
      <4>3. NumberOf(op, v[2]) = Float(v[2].m, v[2].e)
        BY <3>1 DEF NumberOf
      <4> QED BY <4>1, <4>2, <4>3
    <3>2. CASE op.name = "Round"
      <4>1. op.decimals \in Int
        BY <3>2 DEF IsOp
      <4>2. \A g : NumberOf(op, g) = Round(g, op.decimals)
        BY <3>2 DEF NumberOf
      <4>3. v = Round(f, op.decimals)
        BY <2>1, <4>2
      <4>4. Round(v[2], op.decimals) = v
        BY <2>2, <4>1, <4>3, RoundTwice
      <4> QED BY <4>2, <4>4
    <3>3. CASE op.name = "Clamp"
      <4>1. op.low \in Floats /\ op.high \in Floats /\ ~Less(op.high, op.low)
        BY <3>3 DEF IsOp, Repeatable
      <4>2. \A g : NumberOf(op, g) = Clamp(g, op.low, op.high)
        BY <3>3 DEF NumberOf
      <4>3. v = Clamp(f, op.low, op.high)
        BY <2>1, <4>2
      <4>4. Clamp(v[2], op.low, op.high) = v
        BY <4>1, <4>3, ClampTwice
      <4> QED BY <4>2, <4>4
    <3>4. op.name \in {"ToFloat64", "Round", "Clamp"}
      BY <1>2 DEF Repeatable, NumberOps
    <3> QED BY <3>1, <3>2, <3>3, <3>4
  <2> QED BY <2>6, <2>7
<1>3. CASE op.name = "ToInt"
  <2>1. Ok(v) = ToInt(u)
    BY <1>3, ApplyIs
  <2>2. Type(v) = "int"
    <3>1. CASE Type(u) = "int"
      BY <2>1, <3>1, Oks DEF ToInt
    <3>2. CASE Type(u) # "int"
      <4>1. Ok(v) = Failed \/ \E x : Ok(v) = Ok(Integer(x))
        BY <2>1, <3>2 DEF ToInt
      <4> QED BY <4>1, Oks, Types
    <3> QED BY <3>1, <3>2
  <2>3. ToInt(v) = Ok(v)
    BY <2>2 DEF ToInt
  <2> QED BY <1>3, <2>3, ApplyIs
<1>4. CASE op.name = "ToString"
  <2>1. v = ToText(u)
    BY <1>4, ApplyIs, Oks
  <2>2. Type(v) = "string"
    <3>1. CASE Type(u) = "string"
      BY <2>1, <3>1 DEF ToText
    <3>2. CASE Type(u) # "string"
      <4>1. \E x : v = Text(x)
        <5>1. CASE Type(u) = "int"
          BY <2>1, <5>1 DEF ToText
        <5>2. CASE Type(u) = "float64"
          BY <2>1, <5>2 DEF ToText
        <5>3. CASE Type(u) = "bool"
          BY <2>1, <5>3 DEF ToText
        <5>4. CASE Type(u) = "time"
          BY <2>1, <5>4 DEF ToText
        <5>5. CASE Type(u) \notin {"string", "int", "float64", "bool", "time"}
          BY <2>1, <5>5 DEF ToText
        <5> QED BY <3>2, <5>1, <5>2, <5>3, <5>4, <5>5
      <4> QED BY <4>1, Types
    <3> QED BY <3>1, <3>2
  <2>3. ToText(v) = v
    BY <2>2 DEF ToText
  <2> QED BY <1>4, <2>3, ApplyIs
<1>5. CASE op.name = "ToBoolean"
  <2>1. Ok(v) = ToBoolean(u)
    BY <1>5, ApplyIs
  <2>2. Type(v) = "bool"
    <3>1. CASE Type(u) = "bool"
      BY <2>1, <3>1, Oks DEF ToBoolean
    <3>2. CASE Type(u) # "bool"
      <4>1. Ok(v) = Failed \/ \E x : Ok(v) = Ok(Boolean(x))
        <5>1. CASE Type(u) = "string"
          BY <2>1, <5>1 DEF ToBoolean
        <5>2. CASE Type(u) = "int"
          BY <2>1, <5>2 DEF ToBoolean
        <5>3. CASE Type(u) = "float64"
          BY <2>1, <5>3 DEF ToBoolean
        <5>4. CASE Type(u) \notin {"bool", "string", "int", "float64"}
          BY <2>1, <5>4 DEF ToBoolean
        <5> QED BY <3>2, <5>1, <5>2, <5>3, <5>4
      <4> QED BY <4>1, Oks, Types
    <3> QED BY <3>1, <3>2
  <2>3. ToBoolean(v) = Ok(v)
    BY <2>2 DEF ToBoolean
  <2> QED BY <1>5, <2>3, ApplyIs
<1>6. CASE op.name = "Default"
  <2>1. v = Default(u, op.default)
    BY <1>6, ApplyIs, Oks
  <2>2. Default(v, op.default) = v
    BY <2>1 DEF Default
  <2> QED BY <1>6, <2>2, ApplyIs
<1>7. CASE op.name = "ToTimezone"
  <2>1. Ok(v) = ToTimezone(u, op.location)
    BY <1>7, ApplyIs
  <2>2. /\ op.location \in Locations
        /\ \E t \in Times : t.zone = op.location /\ v = Time(t)
    BY <1>0, <2>1, ZoneTimes
  <2>3. PICK t \in Times : t.zone = op.location /\ v = Time(t)
    BY <2>2
  <2>4. Type(v) = "time" /\ v[2] = t /\ [t EXCEPT !.zone = op.location] = t
    BY <2>3, Types DEF Times
  <2>5. {[x EXCEPT !.zone = op.location] : x \in {t}} = {t}
    BY <2>4
  <2>6. ToTimezone(v, op.location) = FirstOf({[x EXCEPT !.zone = op.location] : x \in {t}})
    BY <2>2, <2>4 DEF ToTimezone
  <2>7. ToTimezone(v, op.location) = Ok(v)
    BY <2>3, <2>5, <2>6, FirstOne
  <2> QED BY <1>7, <2>7, ApplyIs
<1>8. CASE op.name \in {"StartOfDay", "EndOfDay"}
  <2>1. Ok(v) = DayBound(u, op.name)
    BY <1>8, ApplyIs
  <2>2. PICK t \in Times : v = Time(IF op.name = "StartOfDay" THEN StartOfDay(t) ELSE EndOfDay(t))
    BY <1>0, <1>8, <2>1, BoundTimes
  <2> DEFINE b == IF op.name = "StartOfDay" THEN StartOfDay(t) ELSE EndOfDay(t)
  <2>3. Type(v) = "time" /\ v[2] = b
    BY <2>2, Types
  <2>4. (IF op.name = "StartOfDay" THEN StartOfDay(b) ELSE EndOfDay(b)) = b
    BY <1>8, <2>2, BoundTwice
  <2> HIDE DEF b
  <2>5. DayBound(v, op.name) = Ok(Time(IF op.name = "StartOfDay" THEN StartOfDay(b) ELSE EndOfDay(b)))
    BY <2>3 DEF DayBound
  <2>6. DayBound(v, op.name) = Ok(v)
    BY <2>2, <2>4, <2>5 DEF b
  <2> QED BY <1>8, <2>6, ApplyIs
<1>9. CASE op.name = "FormatPhone"
  <2>1. Type(u) = "string" /\ v = u
    BY <1>9, ApplyIs, Oks
  <2> QED BY <1>9, <2>1, ApplyIs
<1> QED BY <1>1, <1>2, <1>3, <1>4, <1>5, <1>6, <1>7, <1>8, <1>9 DEF Repeatable, TextOps, NumberOps

(* What a transformer gives is a value, an error or a panic.               *)
LEMMA Results ==
  ASSUME NEW op, IsOp(op), op.name \notin Combining, NEW v, NEW r \in Apply(op, v)
  PROVE  r.out = "ok" => r = Ok(r.val)
<1> DEFINE Plain(x) == (\E y : x = Ok(y)) \/ x \in {Failed, Panicked}
<1>0. \A x : Plain(x) => (x.out = "ok" => x = Ok(x.val))
  BY Oks
<1>a. ASSUME NEW T PROVE Plain(FirstOf(T))
  BY DEF FirstOf
<1>b. ASSUME NEW layout PROVE Plain(ParseDate(v, layout))
  BY <1>a DEF ParseDate
<1> SUFFICES Plain(r)
  BY <1>0
<1>1. CASE op.name \in TextOps
  BY <1>1, ApplyIs
<1>2. CASE op.name \in NumberOps
  BY <1>2, ApplyIs
<1>3. CASE op.name = "ToInt"
  <2>1. r = ToInt(v)
    BY <1>3, ApplyIs
  <2>2. CASE Type(v) = "int"
    BY <2>1, <2>2 DEF ToInt
  <2>3. CASE Type(v) # "int"
    BY <2>1, <2>3 DEF ToInt
  <2> QED BY <2>2, <2>3
<1>4. CASE op.name = "ToString"
  BY <1>4, ApplyIs
<1>5. CASE op.name = "ToBoolean"
  <2>1. r = ToBoolean(v)
    BY <1>5, ApplyIs
  <2>2. CASE Type(v) = "bool"
    BY <2>1, <2>2 DEF ToBoolean
  <2>3. CASE Type(v) = "string"
    BY <2>1, <2>3 DEF ToBoolean
  <2>4. CASE Type(v) = "int"
    BY <2>1, <2>4 DEF ToBoolean
  <2>5. CASE Type(v) = "float64"
    BY <2>1, <2>5 DEF ToBoolean
  <2>6. CASE Type(v) \notin {"bool", "string", "int", "float64"}
    BY <2>1, <2>6 DEF ToBoolean
  <2> QED BY <2>2, <2>3, <2>4, <2>5, <2>6
<1>6. CASE op.name = "Default"
  BY <1>6, ApplyIs
<1>7. CASE op.name = "ParseDate"
  BY <1>7, <1>b, ApplyIs
<1>8. CASE op.name = "DateFormat"
  <2>1. r = DateFormat(v, op.from, op.to)
    BY <1>8, ApplyIs
  <2>2. Plain(ParseDate(v, op.from))
    BY <1>b
  <2>3. CASE ParseDate(v, op.from).out = "ok"
    BY <2>1, <2>3 DEF DateFormat
  <2>4. CASE ParseDate(v, op.from).out # "ok"
    <3>1. r = ParseDate(v, op.from)
      BY <2>1, <2>4 DEF DateFormat
    <3> HIDE DEF Plain
    <3> QED BY <2>2, <3>1
  <2> QED BY <2>3, <2>4
<1>9. CASE op.name = "ToISO8601"
  <2>1. r = ToISO8601(v)
    BY <1>9, ApplyIs
  <2>2. CASE Type(v) = "time"
    BY <2>1, <2>2 DEF ToISO8601
  <2>3. CASE Type(v) = "string"
    BY <2>1, <2>3 DEF ToISO8601
  <2>4. CASE Type(v) \notin {"time", "string"}
    BY <2>1, <2>4 DEF ToISO8601
  <2> QED BY <2>2, <2>3, <2>4
<1>10. CASE op.name = "ToTimezone"
  <2>1. r = ToTimezone(v, op.location)
    BY <1>10, ApplyIs
  <2>2. \/ r = Failed
        \/ \E T : r = FirstOf(T)
    BY <2>1 DEF ToTimezone
  <2> QED BY <1>a, <2>2
<1>11. CASE op.name \in {"StartOfDay", "EndOfDay"}
  <2>1. r = DayBound(v, op.name)
    BY <1>11, ApplyIs
  <2>2. r = Failed \/ r = Panicked \/ (\E x : r = Ok(x)) \/ \E T : r = FirstOf(T)
    <3>1. CASE Type(v) = "time"
      BY <2>1, <3>1 DEF DayBound
    <3>2. CASE Type(v) = "string"
      BY <2>1, <3>2 DEF DayBound
    <3>3. CASE Type(v) \notin {"time", "string"}
      BY <2>1, <3>3 DEF DayBound
    <3> QED BY <3>1, <3>2, <3>3
  <2> QED BY <1>a, <2>2
<1>12. CASE op.name \in {"NormalizePhone", "NormalizePhoneWithCountry"}
  <2>1. \E numbers : r \in Phone(v, numbers)
    BY <1>12, ApplyIs
  <2>2. PICK numbers : r \in Phone(v, numbers)
    BY <2>1
  <2>3. CASE Type(v) # "string" \/ numbers = {}
    BY <2>2, <2>3 DEF Phone
  <2>4. CASE ~(Type(v) # "string" \/ numbers = {})
    BY <2>2, <2>4 DEF Phone
  <2> QED BY <2>3, <2>4
<1>13. CASE op.name = "FormatPhone"
  BY <1>13, ApplyIs
<1> QED BY <1>1, <1>2, <1>3, <1>4, <1>5, <1>6, <1>7, <1>8, <1>9, <1>10, <1>11, <1>12, <1>13
     DEF IsOp, OtherOps

---------------------------------------------------------------------------
(* Through both passes: a time is one, and a field of one transformer has  *)
(* either all of its pass before it or all of it behind.                   *)
Ran(op, from, to, out) == \E r \in Apply(op, from) : out = r.out /\ to = IF r.out = "ok" THEN r.val ELSE from
Single(op) ==
  /\ todo \in {pipeline, <<>>}
  /\ todo = pipeline => outcome = "ok" /\ value = given
  /\ todo = <<>> => Ran(op, given, value, outcome)
  /\ pass = 2 => \E u : IsValue(u) /\ Ok(given) \in Apply(op, u)
PInv ==
  /\ pipeline \in Seq(Ops) /\ todo \in Seq(Ops) /\ pass \in {1, 2}
  /\ Timely(given) /\ Timely(value)
  /\ pass = 1 => IsValue(given)
  /\ Len(pipeline) = 1 /\ pipeline[1].name \notin Combining => Single(pipeline[1])

LEMMA PInvInit == Init => PInv
<1> SUFFICES ASSUME Init PROVE PInv
  OBVIOUS
<1>1. PICK c \in Cases : pipeline = c.ops /\ given \in c.inputs
  BY DEF Init
<1>2. value = given /\ todo = pipeline /\ pass = 1 /\ outcome = "ok"
  BY DEF Init
<1>3. pipeline \in Seq(Ops) /\ IsValue(given)
  BY <1>1, CasesAssumption
<1>4. Timely(given)
  BY <1>3 DEF IsValue, Timely, Type, Nil
<1>5. Len(pipeline) = 1 => pipeline # <<>>
  BY <1>3
<1>6. Len(pipeline) = 1 => Single(pipeline[1])
  BY <1>2, <1>5 DEF Single
<1> QED BY <1>2, <1>3, <1>4, <1>6 DEF PInv

LEMMA PInvTransform == PInv /\ Transform => PInv'
<1> SUFFICES ASSUME PInv, Transform PROVE PInv'
  OBVIOUS
<1> DEFINE op == Head(todo)
<1>1. outcome = "ok" /\ todo # <<>> /\ op.name \notin Combining
  BY DEF Transform
<1>2. PICK r \in Apply(op, value) : outcome' = r.out /\ value' = IF r.out = "ok" THEN r.val ELSE given
  BY DEF Transform
<1>3. todo' = Tail(todo) /\ pipeline' = pipeline /\ given' = given /\ pass' = pass
  BY DEF Transform
<1>4. /\ pipeline \in Seq(Ops) /\ todo \in Seq(Ops) /\ pass \in {1, 2} /\ Timely(given) /\ Timely(value)
      /\ (pass = 1 => IsValue(given))
  BY DEF PInv
<1>5. op \in Ops /\ IsOp(op) /\ Tail(todo) \in Seq(Ops)
  <2>1. op \in Ops /\ Tail(todo) \in Seq(Ops)
    BY <1>1, <1>4
  <2> QED BY <2>1, CasesAssumption
<1>6. Timely(value')
  <2>1. CASE r.out = "ok"
    <3>1. Ok(value') \in Apply(op, value)
      BY <1>1, <1>2, <1>5, <2>1, Results
    <3> HIDE DEF op
    <3> QED BY <1>1, <1>4, <1>5, <3>1, TimelyApply
  <2>2. CASE r.out # "ok"
    <3>1. value' = given
      BY <1>2, <2>2
    <3> QED BY <1>4, <3>1 DEF Timely
  <2> QED BY <2>1, <2>2
<1>7. ASSUME Len(pipeline) = 1, pipeline[1].name \notin Combining PROVE Single(pipeline[1])'
  <2>1. Single(pipeline[1])
    BY <1>7 DEF PInv
  <2>2. todo = pipeline /\ value = given
    BY <1>1, <2>1 DEF Single
  <2>3. op = pipeline[1] /\ Tail(todo) = <<>> /\ pipeline # <<>>
    <3>1. pipeline # <<>> /\ op = pipeline[1]
      BY <1>1, <1>4, <2>2
    <3>2. Len(Tail(pipeline)) = 0 /\ Tail(pipeline) \in Seq(Ops)
      <4>1. Tail(pipeline) \in Seq(Ops) /\ Len(Tail(pipeline)) = Len(pipeline) - 1
        BY <1>4, <3>1, HeadTailProperties
      <4> QED BY <1>7, <4>1
    <3>3. \A x \in Seq(Ops) : Len(x) = 0 => x = <<>>
      OBVIOUS
    <3> QED BY <2>2, <3>1, <3>2, <3>3
  <2>4. Ran(pipeline[1], given, value', outcome')
    BY <1>2, <2>2, <2>3 DEF Ran
  <2>5. pass = 2 => \E u : IsValue(u) /\ Ok(given) \in Apply(pipeline[1], u)
    BY <2>1 DEF Single
  <2> QED BY <1>3, <2>3, <2>4, <2>5 DEF Single
<1>8. Len(pipeline') = 1 /\ pipeline'[1].name \notin Combining => Single(pipeline[1])'
  BY <1>3, <1>7
<1>9. Timely(given') /\ (pass' = 1 => IsValue(given'))
  BY <1>3, <1>4
<1> QED BY <1>3, <1>4, <1>5, <1>6, <1>8, <1>9 DEF PInv

LEMMA PInvCombine == PInv /\ Combine => PInv'
<1> SUFFICES ASSUME PInv, Combine PROVE PInv'
  OBVIOUS
<1> DEFINE op == Head(todo)
<1>1. todo # <<>> /\ op.name \in Combining /\ outcome = "ok"
  BY DEF Combine
<1>2. /\ todo' = Behind(op) \o Tail(todo)
      /\ pipeline' = pipeline /\ given' = given /\ value' = value /\ pass' = pass /\ outcome' = outcome
  BY DEF Combine
<1>3. /\ pipeline \in Seq(Ops) /\ todo \in Seq(Ops) /\ pass \in {1, 2} /\ Timely(given) /\ Timely(value)
      /\ (pass = 1 => IsValue(given))
  BY DEF PInv
<1>4. op \in Ops /\ IsOp(op) /\ Tail(todo) \in Seq(Ops)
  <2>1. op \in Ops /\ Tail(todo) \in Seq(Ops)
    BY <1>1, <1>3
  <2> QED BY <2>1, CasesAssumption
<1>5. Behind(op) \in Seq(Ops)
  <2> HIDE DEF op
  <2>1. CASE op.name = "Chain"
    BY <1>4, <2>1 DEF Behind, IsOp
  <2>2. CASE op.name = "Conditional"
    <3>1. op.then \in Ops
      BY <1>4, <2>2 DEF IsOp
    <3>2. Behind(op) \in {<<op.then>>, <<>>}
      BY <2>2 DEF Behind
    <3>3. <<>> \in Seq(Ops) /\ \A x \in Ops : <<x>> \in Seq(Ops)
      OBVIOUS
    <3> QED BY <3>1, <3>2, <3>3
  <2> QED BY <1>1, <2>1, <2>2 DEF Combining
<1>6. todo' \in Seq(Ops)
  BY <1>2, <1>4, <1>5, ConcatProperties
<1>7. ~(Len(pipeline) = 1 /\ pipeline[1].name \notin Combining)
  <2>1. SUFFICES ASSUME Len(pipeline) = 1, pipeline[1].name \notin Combining PROVE FALSE
    OBVIOUS
  <2>2. todo = pipeline
    BY <1>1, <2>1 DEF PInv, Single
  <2>3. op = pipeline[1]
    BY <1>3, <2>1, <2>2
  <2> QED BY <1>1, <2>1, <2>3
<1>8. ~(Len(pipeline') = 1 /\ pipeline'[1].name \notin Combining)
  BY <1>2, <1>7
<1>9. Timely(given') /\ Timely(value') /\ (pass' = 1 => IsValue(given'))
  BY <1>2, <1>3
<1> QED BY <1>2, <1>3, <1>6, <1>8, <1>9 DEF PInv

LEMMA PInvSecondPass == PInv /\ SecondPass => PInv'
<1> SUFFICES ASSUME PInv, SecondPass PROVE PInv'
  OBVIOUS
<1>1. /\ outcome = "ok" /\ todo = <<>> /\ pass = 1 /\ pass' = 2 /\ todo' = pipeline /\ given' = value
      /\ pipeline' = pipeline /\ value' = value /\ outcome' = outcome
  BY DEF SecondPass, Through
<1>2. /\ pipeline \in Seq(Ops) /\ todo \in Seq(Ops) /\ pass \in {1, 2} /\ Timely(given) /\ Timely(value)
      /\ IsValue(given)
  BY <1>1 DEF PInv
<1>3. Timely(given') /\ Timely(value')
  BY <1>1, <1>2
<1>4. ASSUME Len(pipeline) = 1, pipeline[1].name \notin Combining PROVE Single(pipeline[1])'
  <2> DEFINE op == pipeline[1]
  <2>0. IsOp(op)
    <3>1. op \in Ops
      BY <1>2, <1>4
    <3> QED BY <3>1, CasesAssumption
  <2>1. Ran(op, given, value, outcome)
    BY <1>1, <1>4 DEF PInv, Single
  <2>2. PICK r \in Apply(op, given) : r.out = "ok" /\ value = r.val
    BY <1>1, <2>1 DEF Ran
  <2>3. Ok(value) \in Apply(op, given)
    BY <1>4, <2>0, <2>2, Results
  <2>4. pipeline # <<>>
    <3>1. Len(<<>>) = 0
      OBVIOUS
    <3> QED BY <1>4, <3>1
  <2>5. \E u : IsValue(u) /\ Ok(given') \in Apply(op, u)
    BY <1>1, <1>2, <2>3
  <2> QED BY <1>1, <2>4, <2>5 DEF Single
<1>5. Len(pipeline') = 1 /\ pipeline'[1].name \notin Combining => Single(pipeline[1])'
  BY <1>1, <1>4
<1> QED BY <1>1, <1>2, <1>3, <1>5 DEF PInv

(* A pipeline of any transformers, in two passes over any value: while it  *)
(* runs, what it holds are values (Transform, Combine, SecondPass), and    *)
(* one transformer alone has made of it what Apply says.                   *)
THEOREM PassesKept == Spec => []PInv
<1>1. PInv /\ UNCHANGED vars => PInv'
  <2> SUFFICES ASSUME PInv, UNCHANGED vars PROVE PInv'
    OBVIOUS
  <2> USE DEF vars
  <2> QED BY DEF PInv, Single, Ran, Timely, IsValue
<1>2. PInv /\ [Next]_vars => PInv'
  BY <1>1, PInvTransform, PInvCombine, PInvSecondPass DEF Next
<1> QED BY <1>2, PInvInit, PTL DEF Spec

LEMMA RanAgain ==
  ASSUME NEW op, Single(op), Apply(op, given) = {Ok(given)}
  PROVE  outcome = "ok" /\ value = given
<1>1. CASE todo = pipeline
  BY <1>1 DEF Single
<1>2. CASE todo # pipeline
  <2>1. Ran(op, given, value, outcome)
    BY <1>2 DEF Single
  <2>2. PICK r \in {Ok(given)} : outcome = r.out /\ value = IF r.out = "ok" THEN r.val ELSE given
    BY <2>1 DEF Ran
  <2>3. r.out = "ok" /\ r.val = given
    BY <2>2, Oks
  <2> QED BY <2>2, <2>3
<1> QED BY <1>1, <1>2

(* What the second pass of an asynchronous validation gets, a transformer  *)
(* that says what a value looks like leaves alone.                         *)
THEOREM FormsTwice == Spec => []FormReapplied
<1>1. PInv => FormReapplied
  <2> SUFFICES ASSUME PInv, pass = 2, Len(pipeline) = 1, Repeatable(pipeline[1]),
                      BoundShown(pipeline[1], given)
               PROVE  outcome = "ok" /\ value = given
    BY DEF FormReapplied
  <2> DEFINE op == pipeline[1]
  <2>1. op.name \notin Combining
    BY DEF Repeatable, Combining
  <2>2. IsOp(op)
    <3>1. op \in Ops
      <4>1. \A s \in Seq(Ops) : Len(s) = 1 => s[1] \in Ops
        OBVIOUS
      <4>2. pipeline \in Seq(Ops)
        BY DEF PInv
      <4> QED BY <4>1, <4>2
    <3> QED BY <3>1, CasesAssumption
  <2>3. Single(op) /\ Repeatable(op) /\ BoundShown(op, given)
    BY <2>1 DEF PInv
  <2> HIDE DEF op
  <2>4. PICK u : IsValue(u) /\ Ok(given) \in Apply(op, u)
    BY <2>3 DEF Single
  <2>5. Apply(op, given) = {Ok(given)}
    BY <2>2, <2>3, <2>4, Reapplied
  <2> QED BY <2>3, <2>5, RanAgain
<1> QED BY <1>1, PassesKept, PTL

(* StartOfDay and EndOfDay enclose a time within its calendar day, in every *)
(* zone, however often its clock changes, if near the time it does so once  *)
(* at most and shows the bounds of the day; and they find that day in the   *)
(* time's ISO 8601 text (date.go).                                         *)
THEOREM DaysKept == Spec => []DayKept
<1>1. PInv => DayKept
  <2> SUFFICES ASSUME PInv, Type(value) = "time" PROVE
        LET t == value[2]
            iso == ToISO8601(value).val IN
        /\ Regular(t) =>
             /\ StartOfDay(t).at <= t.at /\ t.at <= EndOfDay(t).at
             /\ DayOf(StartOfDay(t)) = DayOf(t) /\ DayOf(EndOfDay(t)) = DayOf(t)
        /\ t \in Moments =>
             \A end \in {"StartOfDay", "EndOfDay"} : DayOf(DayBound(iso, end).val[2]) = DayOf(t)
    BY DEF DayKept
  <2> DEFINE t == value[2]
             d == DayOf(t)
             iso == ToISO8601(value).val
  <2>1. t \in Times
    BY DEF PInv, Timely
  <2>3. ASSUME t \in Moments, NEW end \in {"StartOfDay", "EndOfDay"}
        PROVE  DayOf(DayBound(iso, end).val[2]) = d
    <3> DEFINE w == Write("RFC3339", t)
               x == [at |-> 24 * d, zone |-> "UTC"]
               Bound(y) == IF end = "StartOfDay" THEN StartOfDay(y) ELSE EndOfDay(y)
    <3>1. iso = Text(w)
      BY Oks DEF ToISO8601
    <3>2. Type(iso) = "string" /\ iso[2] = w
      BY <3>1, Types
    <3>3. Len(w) >= 10 /\ Read("2006-01-02", SubSeq(w, 1, 10)) = {x}
      BY <2>3, TimeAssumption
    <3> HIDE DEF iso
    <3>4. DayBound(iso, end) =
            IF Len(w) < 10 THEN Panicked
            ELSE FirstOf({Bound(y) : y \in IF Len(w) < 10 THEN {} ELSE Read("2006-01-02", SubSeq(w, 1, 10))})
      BY <3>2 DEF DayBound
    <3>5. d \in Int
      BY <2>1, Clocks
    <3> HIDE DEF w, d
    <3>6. x \in Times /\ DayOf(x) = d /\ DayOf(Bound(x)) = d
      <4>1. x \in Times /\ x.at = d * 24 /\ x.zone = "UTC"
        BY <3>5, TimeAssumption DEF Times
      <4> HIDE DEF x
      <4>2. \A y \in Times : y.zone = "UTC" => Clock(y) = y.at
        <5> SUFFICES ASSUME NEW y \in Times, y.zone = "UTC" PROVE Clock(y) = y.at
          OBVIOUS
        <5>1. y.at \in Int /\ OffsetAt("UTC", y.at) = 0
          BY Clocks, OffsetUTC
        <5> QED BY <5>1 DEF Clock
      <4>3. \A clock \in Int : Date(clock, "UTC").at = clock
        <5> TAKE clock \in Int
        <5>1. "UTC" \in DOMAIN Changes
          BY TimeAssumption
        <5>2. OffsetAt("UTC", clock) = 0 /\ clock - 0 = clock
          BY OffsetUTC
        <5> QED BY <5>1, <5>2, Dates
      <4>4. DayOf(x) = d
        BY <3>5, <4>1, <4>2, DayFrom DEF DayOf
      <4>5. \A hour \in 0..23 : DayOf(Date(d * 24 + hour, "UTC")) = d
        <5> TAKE hour \in 0..23
        <5>1. d * 24 + hour \in Int /\ "UTC" \in DOMAIN Changes
          BY <3>5, TimeAssumption
        <5>2. Clock(Date(d * 24 + hour, "UTC")) = d * 24 + hour
          BY <4>2, <4>3, <5>1, Dates
        <5> QED BY <3>5, <5>2, DayFrom DEF DayOf
      <4>6. Bound(x) = Date(d * 24 + (IF end = "StartOfDay" THEN 0 ELSE 23), "UTC")
        BY <3>5, <4>1, <4>4 DEF StartOfDay, EndOfDay
      <4> QED BY <4>1, <4>4, <4>5, <4>6
    <3> HIDE DEF x, Bound
    <3>7. ~(Len(w) < 10)
      <4>1. Len(w) \in Int \/ Len(w) \notin Int
        OBVIOUS
      <4> QED BY <3>3
    <3>8. DayBound(iso, end) = FirstOf({Bound(x)})
      <4>1. {Bound(y) : y \in {x}} = {Bound(x)}
        OBVIOUS
      <4> QED BY <3>3, <3>4, <3>7, <4>1
    <3>9. DayBound(iso, end).val[2] = Bound(x)
      <4>1. DayBound(iso, end) = Ok(Time(Bound(x)))
        BY <3>8, FirstOne
      <4>2. Ok(Time(Bound(x))).val = Time(Bound(x)) /\ Time(Bound(x))[2] = Bound(x)
        BY Oks, Types
      <4> QED BY <4>1, <4>2
    <3> QED BY <3>6, <3>9
  <2> QED BY <2>1, <2>3, Days
<1> QED BY <1>1, PassesKept, PTL

---------------------------------------------------------------------------
(* Telephone numbers.                                                      *)
LEMMA PrefixIs ==
  ASSUME NEW S, NEW p \in Seq(S), NEW t \in Seq(S)
  PROVE  IsPrefix(p, t) <=> Len(p) <= Len(t) /\ \A i \in 1..Len(p) : t[i] = p[i]
<1>1. CASE ~(Len(p) <= Len(t))
  BY <1>1 DEF IsPrefix
<1>2. CASE Len(p) <= Len(t)
  <2> DEFINE n == Len(p)
             a == SubSeq(p, 1, n)
             b == SubSeq(t, 1, n)
  <2>1. n \in Nat /\ Len(t) \in Nat /\ (\A i \in 1..n : p[i] \in S) /\ (\A i \in 1..n : t[i] \in S)
    BY <1>2
  <2>2. /\ a \in Seq(S) /\ Len(a) = n - 1 + 1 /\ \A i \in 1..(n - 1 + 1) : a[i] = p[1 + i - 1]
        /\ b \in Seq(S) /\ Len(b) = n - 1 + 1 /\ \A i \in 1..(n - 1 + 1) : b[i] = t[1 + i - 1]
    <3>1. CASE n = 0
      <4>1. a = <<>> /\ b = <<>>
        BY <2>1, <3>1, SubSeqProperties
      <4> QED BY <3>1, <4>1
    <3>2. CASE n # 0
      <4>1. 1 \in Int /\ n \in Int /\ 1 <= n + 1
        BY <2>1
      <4> QED BY <1>2, <2>1, <3>2, <4>1, SubSeqProperties
    <3> QED BY <3>1, <3>2
  <2>3. /\ a \in Seq(S) /\ Len(a) = n /\ \A i \in 1..n : a[i] = p[i]
        /\ b \in Seq(S) /\ Len(b) = n /\ \A i \in 1..n : b[i] = t[i]
    <3>1. n - 1 + 1 = n /\ \A i \in 1..n : 1 + i - 1 = i
      BY <2>1
    <3> HIDE DEF a, b, n
    <3> QED BY <2>2, <3>1
  <2> HIDE DEF a, b
  <2>4. a = b <=> \A i \in 1..n : t[i] = p[i]
    <3>1. ASSUME \A i \in 1..n : t[i] = p[i] PROVE a = b
      <4>1. Len(a) = Len(b) /\ \A i \in 1..Len(a) : a[i] = b[i]
        BY <2>3, <3>1
      <4> QED BY <2>3, <4>1, SeqEqual
    <3>2. ASSUME a = b PROVE \A i \in 1..n : t[i] = p[i]
      BY <2>3, <3>2
    <3> QED BY <3>1, <3>2
  <2> QED BY <1>2, <2>4 DEF IsPrefix, a, b
<1> QED BY <1>1, <1>2

LEMMA CodeIs ==
  /\ Countries = {"US", "UK", "MX", "AR", "BR", "CL", "CO", "PE", "VE", "BO", "GY", "EC", "GF", "PY", "SR", "UY"}
  /\ Code["US"] = <<"1">> /\ Code["UK"] = <<"4", "4">> /\ Code["MX"] = <<"5", "2">>
  /\ Code["AR"] = <<"5", "4">> /\ Code["BR"] = <<"5", "5">> /\ Code["CL"] = <<"5", "6">>
  /\ Code["CO"] = <<"5", "7">> /\ Code["PE"] = <<"5", "1">> /\ Code["VE"] = <<"5", "8">>
  /\ Code["BO"] = <<"5", "9", "1">> /\ Code["GY"] = <<"5", "9", "2">> /\ Code["EC"] = <<"5", "9", "3">>
  /\ Code["GF"] = <<"5", "9", "4">> /\ Code["PY"] = <<"5", "9", "5">> /\ Code["SR"] = <<"5", "9", "7">>
  /\ Code["UY"] = <<"5", "9", "8">>
  BY DEF Code, Countries

LEMMA CodeType ==
  ASSUME NEW c \in Countries
  PROVE  Code[c] \in Seq(Digits) /\ Len(Code[c]) \in 1..3
<1>1. \/ \E d \in Digits : Code[c] = <<d>>
      \/ \E d, e \in Digits : Code[c] = <<d, e>>
      \/ \E d, e, f \in Digits : Code[c] = <<d, e, f>>
  <2>1. {"1", "2", "3", "4", "5", "6", "7", "8", "9"} \subseteq Digits
    BY DEF Digits
  <2> QED BY <2>1, CodeIs
<1>2. \A d \in Digits : <<d>> \in Seq(Digits) /\ Len(<<d>>) = 1
  OBVIOUS
<1>3. \A d, e \in Digits : <<d, e>> \in Seq(Digits) /\ Len(<<d, e>>) = 2
  OBVIOUS
<1>4. \A d, e, f \in Digits : <<d, e, f>> \in Seq(Digits) /\ Len(<<d, e, f>>) = 3
  OBVIOUS
<1>5. CASE \E d \in Digits : Code[c] = <<d>>
  BY <1>2, <1>5
<1>6. CASE \E d, e \in Digits : Code[c] = <<d, e>>
  <2>1. PICK d \in Digits, e \in Digits : Code[c] = <<d, e>>
    BY <1>6
  <2>2. <<d, e>> \in Seq(Digits) /\ Len(<<d, e>>) = 2
    BY <1>3
  <2> QED BY <2>1, <2>2
<1>7. CASE \E d, e, f \in Digits : Code[c] = <<d, e, f>>
  <2>1. PICK d \in Digits, e \in Digits, f \in Digits : Code[c] = <<d, e, f>>
    BY <1>7
  <2>2. <<d, e, f>> \in Seq(Digits) /\ Len(<<d, e, f>>) = 3
    BY <1>4
  <2> QED BY <2>1, <2>2
<1> QED BY <1>1, <1>5, <1>6, <1>7

(* No code is the beginning of another.                                    *)
LEMMA CodesApart ==
  ASSUME NEW c \in Countries, NEW d \in Countries, Len(Code[c]) <= Len(Code[d]),
         \A i \in 1..Len(Code[c]) : Code[c][i] = Code[d][i]
  PROVE  c = d
<1> DEFINE two == {"MX", "AR", "BR", "CL", "CO", "PE", "VE"}
           three == {"BO", "GY", "EC", "GF", "PY", "SR", "UY"}
<1>1. /\ Code[c][1] = Code[d][1]
      /\ Len(Code[c]) >= 2 => Code[c][2] = Code[d][2]
      /\ Len(Code[c]) >= 3 => Code[c][3] = Code[d][3]
  BY CodeType
<1>2. c = "US" <=> Code[c][1] = "1"
  BY CodeIs
<1>3. d = "US" <=> Code[d][1] = "1"
  BY CodeIs
<1>4. c = "UK" <=> Code[c][1] = "4"
  BY CodeIs
<1>5. d = "UK" <=> Code[d][1] = "4"
  BY CodeIs
<1>a. /\ \A y : Len(<<"5", y>>) = 2 /\ <<"5", y>>[2] = y
      /\ \A y : Len(<<"5", "9", y>>) = 3 /\ <<"5", "9", y>>[2] = "9"
  OBVIOUS
<1>6. ASSUME c \in two PROVE Len(Code[c]) = 2 /\ Code[c][2] # "9"
  <2>1. PICK y : Code[c] = <<"5", y>> /\ y # "9"
    BY <1>6, CodeIs
  <2>2. Len(<<"5", y>>) = 2 /\ <<"5", y>>[2] = y
    BY <1>a
  <2> QED BY <2>1, <2>2
<1>7. ASSUME c \in three PROVE Len(Code[c]) = 3 /\ Code[c][2] = "9"
  <2>1. PICK y : Code[c] = <<"5", "9", y>>
    BY <1>7, CodeIs
  <2>2. Len(<<"5", "9", y>>) = 3 /\ <<"5", "9", y>>[2] = "9"
    BY <1>a
  <2> QED BY <2>1, <2>2
<1>8. d \in two => Code[d][2] # "9"
  BY CodeIs
<1>9. d \in three => Code[d][2] = "9"
  BY CodeIs
<1>10. \A x, y \in two : Code[x][2] = Code[y][2] => x = y
  BY CodeIs
<1>11. \A x, y \in three : Code[x][3] = Code[y][3] => x = y
  BY CodeIs
<1>12. c \in {"US", "UK"} \cup two \cup three /\ d \in {"US", "UK"} \cup two \cup three
  BY CodeIs
<1> HIDE DEF two, three
<1>13. CASE c \in two
  BY <1>1, <1>2, <1>3, <1>4, <1>5, <1>6, <1>8, <1>9, <1>10, <1>12, <1>13
<1>14. CASE c \in three
  BY <1>1, <1>2, <1>3, <1>4, <1>5, <1>7, <1>8, <1>9, <1>11, <1>12, <1>14
<1> QED BY <1>1, <1>2, <1>3, <1>4, <1>5, <1>12, <1>13, <1>14

(* Parts of a text.                                                        *)
LEMMA Slice ==
  ASSUME NEW S, NEW s \in Seq(S), NEW a \in Nat \ {0}, NEW b \in 0..Len(s), a <= b + 1
  PROVE  /\ SubSeq(s, a, b) \in Seq(S) /\ Len(SubSeq(s, a, b)) = b - a + 1
         /\ \A i \in 1..(b - a + 1) : SubSeq(s, a, b)[i] = s[a + i - 1]
<1>1. \A i \in a..b : s[i] \in S
  OBVIOUS
<1>2. a \in Int /\ b \in Int
  OBVIOUS
<1>3. CASE a <= b
  BY <1>1, <1>2, <1>3, SubSeqProperties
<1>4. CASE ~(a <= b)
  <2>1. b - a + 1 = 0 /\ a > b
    BY <1>4
  <2>2. SubSeq(s, a, b) = <<>>
    BY <1>1, <1>2, <2>1, SubSeqProperties
  <2> QED BY <2>1, <2>2
<1> QED BY <1>3, <1>4

LEMMA PrefixTrimmed ==
  ASSUME NEW S, NEW p \in Seq(S), NEW s \in Seq(S)
  PROVE  /\ TrimPrefix(s, p) \in Seq(S)
         /\ TrimPrefix(p \o s, p) = s
<1>1. TrimPrefix(s, p) \in Seq(S)
  <2>1. CASE IsPrefix(p, s)
    <3>1. Len(p) <= Len(s) /\ Len(p) \in Nat /\ Len(s) \in Nat
      BY <2>1 DEF IsPrefix
    <3>2. Len(p) + 1 \in Nat \ {0} /\ Len(s) \in 0..Len(s) /\ Len(p) + 1 <= Len(s) + 1
      BY <3>1
    <3>3. SubSeq(s, Len(p) + 1, Len(s)) \in Seq(S)
      BY <3>2, Slice
    <3> QED BY <2>1, <3>3 DEF TrimPrefix
  <2>2. CASE ~IsPrefix(p, s)
    BY <2>2 DEF TrimPrefix
  <2> QED BY <2>1, <2>2
<1>2. TrimPrefix(p \o s, p) = s
  <2> DEFINE t == p \o s
             m == Len(p)
             n == Len(t)
             r == SubSeq(t, m + 1, n)
  <2>1. /\ t \in Seq(S) /\ n = m + Len(s) /\ m \in Nat /\ Len(s) \in Nat
        /\ \A i \in 1..n : t[i] = IF i <= m THEN p[i] ELSE s[i - m]
    BY ConcatProperties
  <2> HIDE DEF t
  <2>2. IsPrefix(p, t)
    <3>1. m <= n /\ \A i \in 1..m : t[i] = p[i]
      BY <2>1
    <3> QED BY <2>1, <3>1, PrefixIs
  <2>3. m + 1 \in Nat \ {0} /\ n \in 0..Len(t) /\ m + 1 <= n + 1
    BY <2>1
  <2>4. /\ r \in Seq(S) /\ Len(r) = n - (m + 1) + 1
        /\ \A i \in 1..(n - (m + 1) + 1) : r[i] = t[m + 1 + i - 1]
    BY <2>1, <2>3, Slice
  <2>5. n - (m + 1) + 1 = Len(s) /\ \A i \in 1..Len(s) : m + 1 + i - 1 = m + i /\ m + i \in 1..n /\ ~(m + i <= m) /\ m + i - m = i
    BY <2>1
  <2> HIDE DEF r, m, n
  <2>6. Len(r) = Len(s) /\ \A i \in 1..Len(s) : r[i] = s[i]
    <3>1. Len(r) = Len(s)
      BY <2>4, <2>5
    <3>2. ASSUME NEW i \in 1..Len(s) PROVE r[i] = s[i]
      <4>1. r[i] = t[m + 1 + i - 1]
        BY <2>4, <2>5
      <4>2. m + 1 + i - 1 = m + i /\ m + i \in 1..n /\ ~(m + i <= m) /\ m + i - m = i
        BY <2>5
      <4>3. t[m + i] = s[m + i - m]
        BY <2>1, <4>2
      <4> QED BY <4>1, <4>2, <4>3
    <3> QED BY <3>1, <3>2
  <2>7. r = s
    BY <2>4, <2>6, SeqEqual
  <2> QED BY <2>2, <2>7 DEF TrimPrefix, r, t, m, n
<1> QED BY <1>1, <1>2

LEMMA EndingIs ==
  ASSUME NEW S, NEW s \in Seq(S), NEW n \in 0..Len(s)
  PROVE  /\ Ending(s, n) \in Seq(S) /\ Len(Ending(s, n)) = n
         /\ n = Len(s) => Ending(s, n) = s
<1> DEFINE a == Len(s) - n + 1
<1>1. /\ a \in Nat \ {0} /\ Len(s) \in 0..Len(s) /\ a <= Len(s) + 1 /\ Len(s) - a + 1 = n
      /\ (n = Len(s) => a = 1)
  OBVIOUS
<1> HIDE DEF a
<1>2. /\ SubSeq(s, a, Len(s)) \in Seq(S) /\ Len(SubSeq(s, a, Len(s))) = n
      /\ \A i \in 1..n : SubSeq(s, a, Len(s))[i] = s[a + i - 1]
  <2>1. /\ SubSeq(s, a, Len(s)) \in Seq(S) /\ Len(SubSeq(s, a, Len(s))) = Len(s) - a + 1
        /\ \A i \in 1..(Len(s) - a + 1) : SubSeq(s, a, Len(s))[i] = s[a + i - 1]
    BY <1>1, Slice
  <2> QED BY <1>1, <2>1
<1>3. ASSUME n = Len(s) PROVE SubSeq(s, a, Len(s)) = s
  <2>1. \A i \in 1..n : SubSeq(s, a, Len(s))[i] = s[i]
    <3>1. \A i \in 1..n : a + i - 1 = i
      BY <1>1, <1>3
    <3> QED BY <1>2, <3>1
  <2> QED BY <1>2, <1>3, <2>1, SeqEqual
<1> QED BY <1>2, <1>3 DEF Ending, a

LEMMA Without15Type ==
  ASSUME NEW d \in Seq(Digits)
  PROVE  Without15(d) \in Seq(Digits)
<1> DEFINE at == {i \in 3..(Len(d) - 1) : d[i] = "1" /\ d[i + 1] = "5"}
           i == CHOOSE j \in at : \A k \in at : j <= k
<1>1. CASE Len(d) <= 10 \/ at = {}
  BY <1>1 DEF Without15
<1>2. CASE ~(Len(d) <= 10 \/ at = {})
  <2>1. \E j \in at : \A k \in at : j <= k
    <3>1. at \subseteq Nat
      OBVIOUS
    <3>2. PICK j \in at : \A k \in at : ~(k < j)
      <4> HIDE DEF at
      <4> QED BY <1>2, <3>1, Least
    <3>3. \A k \in at : j <= k
      <4> HIDE DEF at
      <4> QED BY <3>1, <3>2
    <3> QED BY <3>3
  <2>2. i \in at
    <3> HIDE DEF at
    <3> QED BY <2>1
  <2>3. Without15(d) = SubSeq(d, 1, i - 1) \o SubSeq(d, i + 2, Len(d))
    BY <1>2 DEF Without15
  <2> HIDE DEF i
  <2>4. /\ 1 \in Nat \ {0} /\ i - 1 \in 0..Len(d) /\ 1 <= i - 1 + 1
        /\ i + 2 \in Nat \ {0} /\ Len(d) \in 0..Len(d) /\ i + 2 <= Len(d) + 1
    BY <2>2
  <2>5. SubSeq(d, 1, i - 1) \in Seq(Digits) /\ SubSeq(d, i + 2, Len(d)) \in Seq(Digits)
    BY <2>4, Slice
  <2> QED BY <2>3, <2>5, ConcatProperties
<1> QED BY <1>1, <1>2

(* The rules: at most one national number, of so many digits.              *)
LEMMA RuleOne ==
  ASSUME NEW c, NEW digits, NEW x \in Rule(c, digits), NEW y \in Rule(c, digits)
  PROVE  x = y
<1>1. \E z : Rule(c, digits) \subseteq {z}
  <2> DEFINE d == TrimPrefix(digits, <<"0">>)
             n == Len(d)
  <2>1. CASE c = "AR"
    BY <2>1 DEF Rule
  <2>2. CASE c = "BR"
    <3>1. \/ Rule(c, digits) = {SubSeq(d, 1, 2) \o <<"9">> \o SubSeq(d, 3, n)}
          \/ Rule(c, digits) = {d} \/ Rule(c, digits) = {}
      BY <2>2 DEF Rule
    <3> QED BY <3>1
  <2>3. CASE c = "CL"
    BY <2>3 DEF Rule
  <2>4. CASE c = "CO"
    BY <2>4 DEF Rule
  <2>5. CASE c = "UY"
    <3>1. \/ Rule(c, digits) = {d} \/ Rule(c, digits) = {<<"9">> \o d}
          \/ Rule(c, digits) = {Tail(d)} \/ Rule(c, digits) = {}
      <4>1. CASE n = 8 /\ d[1] = "9"
        BY <2>5, <4>1 DEF Rule
      <4>2. CASE n = 7
        BY <2>5, <4>2 DEF Rule
      <4>3. CASE n = 9 /\ IsPrefix(<<"9", "9">>, d)
        BY <2>5, <4>3 DEF Rule
      <4>4. CASE ~(n = 8 /\ d[1] = "9") /\ n # 7 /\ ~(n = 9 /\ IsPrefix(<<"9", "9">>, d))
        BY <2>5, <4>4 DEF Rule
      <4> QED BY <4>1, <4>2, <4>3, <4>4
    <3> QED BY <3>1
  <2>6. CASE c \notin {"AR", "BR", "CL", "CO", "UY"}
    BY <2>6 DEF Rule
  <2> QED BY <2>1, <2>2, <2>3, <2>4, <2>5, <2>6
<1> QED BY <1>1

LEMMA RuleIs ==
  ASSUME NEW c, Upper(c) \in Countries, NEW digits \in Seq(Digits), NEW x \in Rule(c, digits)
  PROVE  x \in Seq(Digits) /\ (c \in Countries => Len(x) = Width(c))
<1> DEFINE d == TrimPrefix(digits, <<"0">>)
           n == Len(d)
<1>1. "0" \in Digits /\ "9" \in Digits
  BY DEF Digits
<1>2. d \in Seq(Digits) /\ n \in Nat
  <2>1. <<"0">> \in Seq(Digits)
    BY <1>1
  <2>2. d \in Seq(Digits)
    BY <2>1, PrefixTrimmed
  <2> HIDE DEF d
  <2> QED BY <2>2
<1>3. ASSUME NEW t \in Seq(Digits)
      PROVE  <<"9">> \o t \in Seq(Digits) /\ Len(<<"9">> \o t) = Len(t) + 1
  <2>1. <<"9">> \in Seq(Digits) /\ Len(<<"9">>) = 1
    BY <1>1
  <2>2. <<"9">> \o t \in Seq(Digits) /\ Len(<<"9">> \o t) = Len(<<"9">>) + Len(t)
    BY <2>1, ConcatProperties
  <2>3. Len(t) \in Nat
    OBVIOUS
  <2> QED BY <2>1, <2>2, <2>3
<1>4. \A k \in Countries \ {"AR", "UY"} : Width(k) = NormalizedLen[k]
  BY DEF Width
<1>5. CASE c = "AR"
  <2>1. Len(Without15(d)) = 10 /\ x = <<"9">> \o Without15(d)
    BY <1>5 DEF Rule
  <2>2. Without15(d) \in Seq(Digits)
    BY <1>2, Without15Type
  <2>3. Width(c) = 11
    BY <1>5 DEF Width
  <2> DEFINE e == Without15(d)
  <2>4. e \in Seq(Digits) /\ Len(e) = 10 /\ x = <<"9">> \o e
    BY <2>1, <2>2
  <2> HIDE DEF e
  <2>5. x \in Seq(Digits) /\ Len(x) = Len(e) + 1
    BY <1>3, <2>4
  <2> QED BY <2>3, <2>4, <2>5
<1>6. CASE c = "BR"
  <2>1. Width(c) = 11
    BY <1>4, <1>6, CodeIs DEF NormalizedLen
  <2>2. CASE n = 10
    <3>0. n = 10 /\ n # 11
      <4> HIDE DEF n, d
      <4> QED BY <2>2
    <3>1. x = SubSeq(d, 1, 2) \o <<"9">> \o SubSeq(d, 3, n)
      <4>1. Rule(c, digits) = {SubSeq(d, 1, 2) \o <<"9">> \o SubSeq(d, 3, n)}
        BY <1>6, <3>0, Zenon DEF Rule
      <4> QED BY <4>1
    <3> HIDE DEF d
    <3>2. SubSeq(d, 1, 2) \in Seq(Digits) /\ Len(SubSeq(d, 1, 2)) = 2
      <4>1. 1 \in Nat \ {0} /\ 2 \in 0..Len(d) /\ 1 <= 2 + 1 /\ 2 - 1 + 1 = 2
        BY <2>2
      <4> QED BY <1>2, <4>1, Slice
    <3>3. SubSeq(d, 3, n) \in Seq(Digits) /\ Len(SubSeq(d, 3, n)) = 8
      <4>1. 3 \in Nat \ {0} /\ n \in 0..Len(d) /\ 3 <= n + 1 /\ n - 3 + 1 = 8
        BY <2>2
      <4> QED BY <1>2, <4>1, Slice
    <3>4. <<"9">> \in Seq(Digits) /\ Len(<<"9">>) = 1
      BY <1>1
    <3>5. SubSeq(d, 1, 2) \o <<"9">> \in Seq(Digits) /\ Len(SubSeq(d, 1, 2) \o <<"9">>) = 3
      <4>1. 2 + 1 = 3
        OBVIOUS
      <4> QED BY <3>2, <3>4, <4>1, ConcatProperties
    <3>6. x \in Seq(Digits) /\ Len(x) = 11
      <4> DEFINE a == SubSeq(d, 1, 2) \o <<"9">>
                 b == SubSeq(d, 3, n)
      <4>1. a \in Seq(Digits) /\ Len(a) = 3 /\ b \in Seq(Digits) /\ Len(b) = 8 /\ x = a \o b
        BY <3>1, <3>3, <3>5
      <4> HIDE DEF a, b
      <4>2. a \o b \in Seq(Digits) /\ Len(a \o b) = Len(a) + Len(b)
        BY <4>1, ConcatProperties
      <4> QED BY <4>1, <4>2
    <3> QED BY <2>1, <3>6
  <2>3. CASE n = 11
    <3>1. x = d
      BY <1>6, <2>3 DEF Rule
    <3> HIDE DEF d
    <3> QED BY <1>2, <2>1, <2>3, <3>1
  <2>4. CASE n # 10 /\ n # 11
    BY <1>6, <2>4 DEF Rule
  <2> QED BY <2>2, <2>3, <2>4
<1>7. CASE c = "CL"
  <2>1. Width(c) = 9
    BY <1>4, <1>7, CodeIs DEF NormalizedLen
  <2>2. x = d /\ n = 9
    BY <1>7 DEF Rule
  <2> HIDE DEF d
  <2> QED BY <1>2, <2>1, <2>2
<1>8. CASE c = "CO"
  <2>1. Width(c) = 10
    BY <1>4, <1>8, CodeIs DEF NormalizedLen
  <2>2. x = digits /\ Len(digits) = 10
    BY <1>8 DEF Rule
  <2> QED BY <2>1, <2>2
<1>9. CASE c = "UY"
  <2>1. Width(c) = 8
    BY <1>9 DEF Width
  <2>2. CASE n = 8 /\ d[1] = "9"
    <3>0. n = 8 /\ d[1] = "9" /\ n # 7 /\ n # 9
      <4> HIDE DEF n, d
      <4> QED BY <2>2
    <3>1. x = d
      <4>1. Rule(c, digits) = {d}
        BY <1>9, <3>0, Zenon DEF Rule
      <4> QED BY <4>1
    <3> HIDE DEF d
    <3> QED BY <1>2, <2>1, <2>2, <3>1
  <2>3. CASE n = 7
    <3>0. n = 7 /\ n # 8 /\ n # 9
      <4> HIDE DEF n, d
      <4> QED BY <2>3
    <3>1. x = <<"9">> \o d
      <4>1. Rule(c, digits) = {<<"9">> \o d}
        BY <1>9, <3>0, Zenon DEF Rule
      <4> QED BY <4>1
    <3>2. x \in Seq(Digits) /\ Len(x) = n + 1
      <4> HIDE DEF d
      <4> QED BY <1>2, <1>3, <3>1
    <3> HIDE DEF n
    <3> QED BY <2>1, <2>3, <3>2
  <2>4. CASE n = 9 /\ IsPrefix(<<"9", "9">>, d)
    <3>1. x = Tail(d)
      BY <1>9, <2>4 DEF Rule
    <3> HIDE DEF d
    <3>2. d # <<>>
      BY <1>2, <2>4
    <3>3. Tail(d) \in Seq(Digits) /\ Len(Tail(d)) = n - 1
      BY <1>2, <3>2, HeadTailProperties
    <3> QED BY <2>1, <2>4, <3>1, <3>3
  <2>5. CASE ~(n = 8 /\ d[1] = "9") /\ n # 7 /\ ~(n = 9 /\ IsPrefix(<<"9", "9">>, d))
    BY <1>9, <2>5 DEF Rule
  <2> QED BY <2>2, <2>3, <2>4, <2>5
<1>10. CASE c \notin {"AR", "BR", "CL", "CO", "UY"}
  <2> DEFINE len == NormalizedLen[Upper(c)]
  <2>1. Len(digits) >= len /\ x = Ending(digits, len)
    BY <1>10 DEF Rule
  <2>2. len \in Nat
    BY CodeIs DEF NormalizedLen
  <2>3. len \in 0..Len(digits)
    BY <2>1, <2>2
  <2>4. c \in Countries => Width(c) = len
    <3>1. c \in Countries => Upper(c) = c
      BY CodeIs DEF Upper
    <3> QED BY <1>4, <1>10, <3>1
  <2> HIDE DEF len
  <2>5. Ending(digits, len) \in Seq(Digits) /\ Len(Ending(digits, len)) = len
    BY <2>3, EndingIs
  <2> QED BY <2>1, <2>4, <2>5
<1> QED BY <1>5, <1>6, <1>7, <1>8, <1>9, <1>10

(* What is made of a text for a country, if anything.                      *)
Coded(c) == <<"+">> \o Code[c]

LEMMA CodedIs ==
  ASSUME NEW c \in Countries
  PROVE  /\ Coded(c) \in Seq(Chars) /\ Len(Coded(c)) = 1 + Len(Code[c])
         /\ Coded(c)[1] = "+" /\ \A i \in 1..Len(Code[c]) : Coded(c)[1 + i] = Code[c][i]
<1>1. Code[c] \in Seq(Digits) /\ Len(Code[c]) \in Nat
  BY CodeType
<1>2. Code[c] \in Seq(Chars) /\ <<"+">> \in Seq(Chars) /\ Len(<<"+">>) = 1 /\ <<"+">>[1] = "+"
  <2>1. Digits \subseteq Chars /\ "+" \in Chars
    BY CharsAssumption
  <2> QED BY <1>1, <2>1
<1> DEFINE k == Code[c]
           plus == <<"+">>
<1>3. k \in Seq(Chars) /\ plus \in Seq(Chars) /\ Len(plus) = 1 /\ plus[1] = "+" /\ Len(k) \in Nat
  BY <1>1, <1>2
<1> HIDE DEF k, plus
<1>4. /\ plus \o k \in Seq(Chars) /\ Len(plus \o k) = Len(plus) + Len(k)
      /\ \A i \in 1..(Len(plus) + Len(k)) :
           (plus \o k)[i] = IF i <= Len(plus) THEN plus[i] ELSE k[i - Len(plus)]
  BY <1>3, ConcatProperties
<1>5. (plus \o k)[1] = "+"
  <2>1. 1 \in 1..(Len(plus) + Len(k)) /\ 1 <= Len(plus)
    BY <1>3
  <2> QED BY <1>3, <1>4, <2>1
<1>6. ASSUME NEW i \in 1..Len(k) PROVE (plus \o k)[1 + i] = k[i]
  <2>1. 1 + i \in 1..(Len(plus) + Len(k)) /\ ~(1 + i <= Len(plus)) /\ 1 + i - Len(plus) = i
    BY <1>3
  <2> QED BY <1>4, <2>1
<1> QED BY <1>3, <1>4, <1>5, <1>6 DEF Coded, k, plus

(* Only one country's prefix starts a text.                                *)
LEMMA OneCountry ==
  ASSUME NEW c \in Countries, NEW d \in Countries, NEW t \in Seq(Chars),
         IsPrefix(Coded(c), t), IsPrefix(Coded(d), t)
  PROVE  c = d
<1>1. ASSUME NEW k \in Countries, IsPrefix(Coded(k), t)
      PROVE  \A i \in 1..Len(Code[k]) : t[1 + i] = Code[k][i]
  <2>1. \A i \in 1..Len(Coded(k)) : t[i] = Coded(k)[i]
    BY <1>1, CodedIs, PrefixIs
  <2> TAKE i \in 1..Len(Code[k])
  <2>2. Len(Code[k]) \in Nat
    BY CodeType
  <2>3. 1 + i \in 1..Len(Coded(k))
    BY <2>2, CodedIs
  <2> QED BY <2>1, <2>3, CodedIs
<1>2. Len(Code[c]) \in Nat /\ Len(Code[d]) \in Nat
  BY CodeType
<1>3. CASE Len(Code[c]) <= Len(Code[d])
  <2>1. \A i \in 1..Len(Code[c]) : Code[c][i] = Code[d][i]
    BY <1>1, <1>2, <1>3
  <2> QED BY <1>3, <2>1, CodesApart
<1>4. CASE Len(Code[d]) <= Len(Code[c])
  <2>1. \A i \in 1..Len(Code[d]) : Code[d][i] = Code[c][i]
    BY <1>1, <1>2, <1>4
  <2> QED BY <1>4, <2>1, CodesApart
<1> QED BY <1>2, <1>3, <1>4

LEMMA CountryOne ==
  ASSUME NEW text, NEW c, NEW x \in NormalizeForCountry(text, c), NEW y \in NormalizeForCountry(text, c)
  PROVE  x = y
<1> DEFINE k == Upper(c)
           t == TrimSpace(text)
           national == TrimPrefix(Keeping(t, Digits), Code[k])
           spaced == /\ c = "AR" /\ IsPrefix(<<"+", "5", "4", " ", "9", " ">>, t)
                     /\ Len(national) = 11 /\ national[1] = "9"
           N == IF spaced THEN {national} ELSE Rule(c, national)
<1>1. \A a, b \in N : a = b
  <2>1. CASE spaced
    <3> HIDE DEF spaced, national
    <3> QED BY <2>1
  <2>2. CASE ~spaced
    <3> HIDE DEF spaced, national
    <3> QED BY <2>2, RuleOne
  <2> QED BY <2>1, <2>2
<1>2. \/ NormalizeForCountry(text, c) = {}
      \/ NormalizeForCountry(text, c) = {<<"+">> \o Code[k] \o a : a \in N}
  BY DEF NormalizeForCountry
<1> HIDE DEF N, k
<1>3. NormalizeForCountry(text, c) = {<<"+">> \o Code[k] \o a : a \in N}
  BY <1>2
<1>4. PICK a \in N : x = <<"+">> \o Code[k] \o a
  BY <1>3
<1>5. PICK b \in N : y = <<"+">> \o Code[k] \o b
  BY <1>3
<1>6. a = b
  BY <1>1
<1> QED BY <1>4, <1>5, <1>6

LEMMA CountryIs ==
  ASSUME NEW text \in Seq(Chars), NEW c, NEW x \in NormalizeForCountry(text, c)
  PROVE  /\ Upper(c) \in Countries
         /\ \E n \in Seq(Digits) : /\ x = Coded(Upper(c)) \o n
                                   /\ c \in Countries => Len(n) = Width(c)
<1> DEFINE k == Upper(c)
           t == TrimSpace(text)
           digits == Keeping(t, Digits)
           national == TrimPrefix(digits, Code[k])
           spaced == /\ c = "AR" /\ IsPrefix(<<"+", "5", "4", " ", "9", " ">>, t)
                     /\ Len(national) = 11 /\ national[1] = "9"
<1>1. /\ k \in Countries
      /\ \E a \in IF spaced THEN {national} ELSE Rule(c, national) : x = Coded(k) \o a
  <2>1. k \in Countries /\ ~\A f \in Formats[k] : ~Matches(t, f)
    BY DEF NormalizeForCountry
  <2>2. NormalizeForCountry(text, c) =
          {<<"+">> \o Code[k] \o a : a \in IF spaced THEN {national} ELSE Rule(c, national)}
    BY <2>1 DEF NormalizeForCountry
  <2> HIDE DEF spaced, national
  <2> QED BY <2>1, <2>2 DEF Coded
<1>2. digits \in Seq(Digits)
  <2>1. t \in Seq(Chars)
    BY TrimType
  <2> HIDE DEF t
  <2>2. digits \in Seq(Chars) /\ \A i \in 1..Len(digits) : digits[i] \in Digits
    BY <2>1, KeepingOf
  <2> HIDE DEF digits
  <2> QED BY <2>2
<1>3. national \in Seq(Digits)
  <2>1. Code[k] \in Seq(Digits)
    BY <1>1, CodeType
  <2> HIDE DEF digits
  <2> QED BY <1>2, <2>1, PrefixTrimmed
<1> HIDE DEF national
<1>4. PICK a \in IF spaced THEN {national} ELSE Rule(c, national) : x = Coded(k) \o a
  BY <1>1
<1>5. CASE spaced
  <2>1. a = national /\ Len(national) = 11
    BY <1>4, <1>5
  <2>2. c \in Countries => Width(c) = 11
    BY <1>5 DEF Width
  <2> QED BY <1>1, <1>3, <1>4, <2>1, <2>2
<1>6. CASE ~spaced
  <2>1. a \in Rule(c, national)
    BY <1>4, <1>6
  <2>2. a \in Seq(Digits) /\ (c \in Countries => Len(a) = Width(c))
    BY <1>1, <1>3, <2>1, RuleIs
  <2> QED BY <1>1, <1>4, <2>2
<1> QED BY <1>5, <1>6

LEMMA CleanedType ==
  ASSUME NEW text \in Seq(Chars)
  PROVE  Cleaned(text) \in Seq(Chars)
  BY KeepingOf DEF Cleaned

(* The country of a number that NormalizePhone returns.                    *)
LEMMA NumberFrom ==
  ASSUME NEW text, NEW d, NEW x \in NormalizePhone(text, d)
  PROVE  \E c \in {d} \cup DetectCountry(Cleaned(text), d) : x \in NormalizeForCountry(text, c)
<1>1. \/ NormalizePhone(text, d) = NormalizeForCountry(text, d)
      \/ NormalizePhone(text, d) =
           UNION {NormalizeForCountry(text, c) : c \in DetectCountry(Cleaned(text), d)}
  BY DEF NormalizePhone
<1> QED BY <1>1

LEMMA NumberOne ==
  ASSUME NEW text \in Seq(Chars), NEW d, NEW x \in NormalizePhone(text, d), NEW y \in NormalizePhone(text, d)
  PROVE  x = y
<1> DEFINE t == Cleaned(text)
           prefixed == {c \in Countries : IsPrefix(<<"+">> \o Code[c], t)}
           found == DetectCountry(t, d)
<1>1. CASE NormalizeForCountry(text, d) # {}
  <2>1. NormalizePhone(text, d) = NormalizeForCountry(text, d)
    BY <1>1 DEF NormalizePhone
  <2> QED BY <2>1, CountryOne
<1>2. CASE NormalizeForCountry(text, d) = {}
  <2>1. NormalizePhone(text, d) = UNION {NormalizeForCountry(text, c) : c \in found}
    BY <1>2 DEF NormalizePhone
  <2>2. found = {d} \/ found = prefixed
    BY DEF DetectCountry
  <2>3. \A a, b \in prefixed : a = b
    <3> TAKE a \in prefixed, b \in prefixed
    <3>1. IsPrefix(Coded(a), t) /\ IsPrefix(Coded(b), t) /\ a \in Countries /\ b \in Countries
      BY DEF Coded
    <3>2. t \in Seq(Chars)
      BY CleanedType
    <3> HIDE DEF t, prefixed
    <3> QED BY <3>1, <3>2, OneCountry
  <2> HIDE DEF found, prefixed
  <2>4. PICK a \in found : x \in NormalizeForCountry(text, a)
    BY <2>1
  <2>5. PICK b \in found : y \in NormalizeForCountry(text, b)
    BY <2>1
  <2>6. a = b
    BY <2>2, <2>3
  <2> QED BY <2>4, <2>5, <2>6, CountryOne
<1> QED BY <1>1, <1>2

LEMMA NumberType ==
  ASSUME NEW text \in Seq(Chars), NEW c, NEW x \in NormalizeForCountry(text, c)
  PROVE  x \in Seq(Chars) /\ (c \in Countries => IsNumberOf(c, x))
<1> DEFINE k == Upper(c)
<1>1. k \in Countries
  BY CountryIs
<1>2. PICK n \in Seq(Digits) : x = Coded(k) \o n /\ (c \in Countries => Len(n) = Width(c))
  BY CountryIs
<1>3. /\ Coded(k) \in Seq(Chars) /\ Len(Coded(k)) = 1 + Len(Code[k]) /\ Coded(k)[1] = "+"
      /\ \A i \in 1..Len(Code[k]) : Coded(k)[1 + i] = Code[k][i]
  BY <1>1, CodedIs
<1>4. Code[k] \in Seq(Digits) /\ Len(Code[k]) \in Nat
  BY <1>1, CodeType
<1>5. n \in Seq(Chars) /\ Len(n) \in Nat
  <2>1. Digits \subseteq Chars
    BY CharsAssumption
  <2> QED BY <2>1
<1> DEFINE p == Coded(k)
           m == Len(p)
<1>6. /\ p \o n \in Seq(Chars) /\ Len(p \o n) = Len(p) + Len(n)
      /\ \A i \in 1..(Len(p) + Len(n)) : (p \o n)[i] = IF i <= Len(p) THEN p[i] ELSE n[i - Len(p)]
  <2>1. p \in Seq(Chars)
    BY <1>3
  <2> HIDE DEF p
  <2> QED BY <1>5, <2>1, ConcatProperties
<1> HIDE DEF p
<1>7. m = 1 + Len(Code[k]) /\ m \in Nat /\ x = p \o n
  BY <1>2, <1>3, <1>4 DEF p
<1>8. Len(x) = m + Len(n) /\ \A i \in 1..(m + Len(n)) : x[i] = IF i <= m THEN p[i] ELSE n[i - m]
  BY <1>6, <1>7
<1>9. IsPrefix(p, x)
  <2>1. Len(p) <= Len(x) /\ \A i \in 1..Len(p) : x[i] = p[i]
    BY <1>5, <1>7, <1>8
  <2>2. p \in Seq(Chars) /\ x \in Seq(Chars)
    BY <1>3, <1>6, <1>7 DEF p
  <2> QED BY <2>1, <2>2, PrefixIs
<1>10. \A i \in 2..Len(x) : x[i] \in Digits
  <2> TAKE i \in 2..Len(x)
  <2>0. i \in 1..(m + Len(n))
    BY <1>5, <1>7, <1>8
  <2>1. CASE i <= m
    <3>1. i - 1 \in 1..Len(Code[k]) /\ 1 + (i - 1) = i
      BY <1>4, <1>7, <2>1
    <3>2. p[i] = Code[k][i - 1]
      BY <1>3, <3>1 DEF p
    <3>3. x[i] = p[i]
      BY <1>8, <2>0, <2>1
    <3> QED BY <1>4, <3>1, <3>2, <3>3
  <2>2. CASE ~(i <= m)
    <3>1. i - m \in 1..Len(n)
      BY <1>5, <1>7, <2>0, <2>2
    <3>2. x[i] = n[i - m]
      BY <1>8, <2>0, <2>2
    <3> QED BY <3>1, <3>2
  <2> QED BY <2>1, <2>2
<1>11. ASSUME c \in Countries PROVE IsNumberOf(c, x)
  <2>1. k = c
    BY <1>11, CodeIs DEF Upper
  <2>2. IsPrefix(<<"+">> \o Code[c], x)
    BY <1>9, <2>1 DEF p, Coded
  <2>3. Len(x) = 1 + Len(Code[c]) + Width(c)
    BY <1>2, <1>4, <1>5, <1>7, <1>8, <1>11, <2>1
  <2> QED BY <1>10, <2>2, <2>3 DEF IsNumberOf
<1> QED BY <1>6, <1>7, <1>11

(* The numbers of a transformer of telephone numbers.                      *)
Numbers(op, text) ==
  IF op.name = "NormalizePhone" THEN NormalizePhone(text, op.country) ELSE NormalizeForCountry(text, op.country)

LEMMA PhonesAre ==
  ASSUME NEW op, op.name \in Phones, NEW v, Type(v) = "string" => v[2] \in Seq(Chars)
  PROVE  /\ Apply(op, v) = {Failed} \/ \E x : Apply(op, v) = {Ok(Text(x))}
         /\ \A w : Ok(w) \in Apply(op, v) =>
              /\ Type(v) = "string"
              /\ \E x \in Numbers(op, v[2]) \cap Seq(Chars) : w = Text(x)
<1> DEFINE numbers == IF Type(v) = "string" THEN Numbers(op, v[2]) ELSE {}
<1>1. Apply(op, v) = Phone(v, numbers)
  BY ApplyIs DEF Phones, Numbers
<1>2. ASSUME NEW x \in numbers, NEW y \in numbers PROVE x = y
  <2>1. Type(v) = "string" /\ x \in Numbers(op, v[2]) /\ y \in Numbers(op, v[2])
    BY <1>2
  <2> QED BY <2>1, NumberOne, CountryOne DEF Numbers
<1>3. ASSUME NEW x \in numbers PROVE Type(v) = "string" /\ x \in Numbers(op, v[2]) \cap Seq(Chars)
  <2>1. Type(v) = "string" /\ x \in Numbers(op, v[2])
    BY <1>3
  <2>2. \E c : x \in NormalizeForCountry(v[2], c)
    BY <2>1, NumberFrom DEF Numbers
  <2> QED BY <2>1, <2>2, NumberType
<1> HIDE DEF numbers
<1>4. CASE Type(v) # "string" \/ numbers = {}
  <2>1. Apply(op, v) = {Failed}
    BY <1>1, <1>4 DEF Phone
  <2> QED BY <2>1, Oks
<1>5. CASE ~(Type(v) # "string" \/ numbers = {})
  <2>1. Apply(op, v) = {Ok(Text(n)) : n \in numbers}
    BY <1>1, <1>5 DEF Phone
  <2>2. PICK x : x \in numbers
    BY <1>5
  <2>3. numbers = {x}
    BY <1>2, <2>2
  <2>4. Apply(op, v) = {Ok(Text(x))}
    BY <2>1, <2>3
  <2>5. \A w : Ok(w) \in Apply(op, v) => w = Text(x)
    BY <2>4, Oks
  <2> QED BY <1>3, <2>2, <2>4, <2>5
<1> QED BY <1>4, <1>5

(* A telephone number is its country's prefix and so many digits           *)
(* (NormalizePhone and the rules of phone.go), and which country is found  *)
(* does not depend on the order of the range over the prefixes.            *)
THEOREM PhonesShaped == Spec => []PhoneShape
<1>1. PInv => PhoneShape
  <2> SUFFICES ASSUME PInv, Alone(Phones) PROVE
        /\ Cardinality(Apply(pipeline[1], given)) = 1
        /\ Through /\ pass = 1 /\ pipeline[1].country \in Countries =>
             \E c \in {pipeline[1].country} \cup DetectCountry(Cleaned(given[2]), pipeline[1].country) :
               IsNumberOf(c, value[2])
    BY DEF PhoneShape
  <2> DEFINE op == pipeline[1]
  <2>1. Len(pipeline) = 1 /\ op.name \in Phones /\ op.name \notin Combining
    BY DEF Alone, Phones, Combining
  <2>2. Single(op) /\ pass \in {1, 2} /\ (pass = 1 => IsValue(given)) /\ pipeline \in Seq(Ops)
    BY <2>1 DEF PInv
  <2>3. IsOp(op)
    <3>1. op \in Ops
      BY <2>1, <2>2
    <3> QED BY <3>1, CasesAssumption
  <2> HIDE DEF op
  <2>4. \A u : IsValue(u) => (Type(u) = "string" => u[2] \in Seq(Chars))
    BY DEF IsValue, Type, Nil
  <2>5. Type(given) = "string" => given[2] \in Seq(Chars)
    <3>1. CASE pass = 1
      BY <2>2, <2>4, <3>1
    <3>2. CASE pass = 2
      <4>1. PICK u : IsValue(u) /\ Ok(given) \in Apply(op, u)
        BY <2>2, <3>2 DEF Single
      <4>2. \E x \in Seq(Chars) : given = Text(x)
        BY <2>1, <2>4, <4>1, PhonesAre
      <4> QED BY <4>2, Types
    <3> QED BY <2>2, <3>1, <3>2
  <2>6. Cardinality(Apply(op, given)) = 1
    <3>1. \E r : Apply(op, given) = {r}
      BY <2>1, <2>5, PhonesAre
    <3> QED BY <3>1, FS_Singleton
  <2>7. ASSUME Through, pass = 1, op.country \in Countries
        PROVE  \E c \in {op.country} \cup DetectCountry(Cleaned(given[2]), op.country) : IsNumberOf(c, value[2])
    <3>1. outcome = "ok" /\ todo = <<>>
      BY <2>7 DEF Through
    <3>2. PICK r \in Apply(op, given) : r.out = "ok" /\ value = r.val
      BY <2>2, <3>1 DEF Single, Ran
    <3>3. Ok(value) \in Apply(op, given)
      BY <2>1, <2>3, <3>2, Results
    <3>4. Type(given) = "string" /\ \E x \in Numbers(op, given[2]) : value = Text(x)
      BY <2>1, <2>5, <3>3, PhonesAre
    <3>5. value[2] \in Numbers(op, given[2]) /\ given[2] \in Seq(Chars)
      BY <2>5, <3>4, Types
    <3>6. PICK c \in {op.country} \cup DetectCountry(Cleaned(given[2]), op.country) :
            value[2] \in NormalizeForCountry(given[2], c)
      <4>1. CASE op.name = "NormalizePhone"
        BY <3>5, <4>1, NumberFrom DEF Numbers
      <4>2. CASE op.name # "NormalizePhone"
        BY <3>5, <4>2 DEF Numbers
      <4> QED BY <4>1, <4>2
    <3>7. c \in Countries
      BY <2>7 DEF DetectCountry
    <3> QED BY <3>5, <3>6, <3>7, NumberType
  <2> QED BY <2>6, <2>7 DEF op
<1> QED BY <1>1, PassesKept, PTL

---------------------------------------------------------------------------
(* Formats.  A walk is a choice of where each repetition ends.             *)
Signs == Digits \cup {"+", "-", ".", "(", ")", " "}
Patterns == [of : SUBSET Signs, min : Nat, max : Nat]
Stretch(text, r, p, q) ==
  /\ p + r.min <= q /\ q <= p + r.max /\ q <= Len(text)
  /\ \A j \in (p + 1)..q : text[j] \in r.of
Walk(text, format, path) ==
  /\ path \in [0..Len(format) -> Nat] /\ path[0] = 0
  /\ \A i \in 1..Len(format) : Stretch(text, format[i], path[i - 1], path[i])

LEMMA MatchesIs ==
  ASSUME NEW text \in Seq(Chars), NEW format \in Seq(Patterns)
  PROVE  \E f \in [0..Len(format) -> SUBSET Nat] :
           /\ f[0] = {0} /\ (Matches(text, format) <=> Len(text) \in f[Len(format)])
           /\ \A i \in 1..Len(format) : f[i] = {q \in Nat : \E p \in f[i - 1] : Stretch(text, format[i], p, q)}
<1> DEFINE n == Len(format)
           V == SUBSET Nat
           From(P, i) == UNION {{q \in (p + format[i].min)..(p + format[i].max) :
                                   q <= Len(text) /\ \A j \in (p + 1)..q : text[j] \in format[i].of} : p \in P}
           Body(g) == [i \in 0..n |-> IF i = 0 THEN {0} ELSE From(g[i - 1], i)]
           step == [P \in V |-> [i \in 1..n |-> From(P, i)]]
           h == CHOOSE g : g = Body(g)
           base == {0}
<1>1. /\ n \in Nat /\ n \in 0..n /\ 0 \in 0..n /\ base \in V
      /\ \A i \in 1..n : i \in 0..n /\ i # 0 /\ i - 1 \in 0..n
  OBVIOUS
<1>2. \A i \in 1..n : format[i] \in Patterns /\ format[i].min \in Nat /\ format[i].max \in Nat
  <2>1. \A i \in 1..n : format[i] \in Patterns
    OBVIOUS
  <2>2. \A r \in Patterns : r.min \in Nat /\ r.max \in Nat
    BY DEF Patterns
  <2> QED BY <2>1, <2>2
<1>3. \A P \in V, i \in 1..n : From(P, i) = {q \in Nat : \E p \in P : Stretch(text, format[i], p, q)}
  <2> TAKE P \in V, i \in 1..n
  <2>1. format[i].min \in Nat /\ format[i].max \in Nat /\ Len(text) \in Nat
    BY <1>2
  <2>2. \A p \in P : \A q : /\ q \in (p + format[i].min)..(p + format[i].max)
                             <=> q \in Nat /\ p + format[i].min <= q /\ q <= p + format[i].max
    BY <2>1
  <2> QED BY <2>2 DEF Stretch
<1> HIDE DEF From
<1>4. step \in [V -> [1..n -> V]]
  <2>1. \A P \in V, i \in 1..n : From(P, i) \in V
    BY <1>3
  <2> HIDE DEF V
  <2> QED BY <2>1
<1>5. PICK f \in [0..n -> V] : f[0] = base /\ \A i \in 1..n : f[i] = step[f[i - 1]][i]
  <2> HIDE DEF step, V, n, base
  <2>1. \E f : Steps(f, n, V, base, step)
    BY <1>1, <1>4, Stepwise
  <2> QED BY <2>1 DEF Steps
<1>6. \A i \in 1..n : f[i] = From(f[i - 1], i)
  <2> TAKE i \in 1..n
  <2>1. f[i - 1] \in V
    BY <1>1, <1>5
  <2> HIDE DEF V
  <2> QED BY <1>5, <2>1
<1>7. f = Body(f)
  <2>1. \A i \in 0..n : f[i] = IF i = 0 THEN {0} ELSE From(f[i - 1], i)
    BY <1>5, <1>6
  <2> QED BY <1>5, <2>1
<1>8. h = Body(h)
  BY <1>7
<1>9. Matches(text, format) <=> Len(text) \in h[n]
  BY DEF Matches, From
<1> HIDE DEF h
<1>10. h[0] = {0} /\ \A i \in 1..n : h[i] = From(h[i - 1], i)
  BY <1>1, <1>8
<1>11. SameSteps(f, h, n)
  BY <1>5, <1>6, <1>10 DEF SameSteps
<1>12. f[n] = h[n]
  <2> HIDE DEF n
  <2> QED BY <1>1, <1>11, SameRun
<1>13. \A i \in 1..n : f[i] = {q \in Nat : \E p \in f[i - 1] : Stretch(text, format[i], p, q)}
  <2> TAKE i \in 1..n
  <2>1. f[i - 1] \in V
    BY <1>1, <1>5
  <2> HIDE DEF V
  <2> QED BY <1>3, <1>6, <2>1
<1> QED BY <1>5, <1>9, <1>12, <1>13

(* A text matches if there is a walk to its end.                           *)
LEMMA WalkMatches ==
  ASSUME NEW text \in Seq(Chars), NEW format \in Seq(Patterns),
         NEW path, Walk(text, format, path), path[Len(format)] = Len(text)
  PROVE  Matches(text, format)
<1> DEFINE n == Len(format)
<1>1. PICK f \in [0..n -> SUBSET Nat] :
        /\ f[0] = {0} /\ (Matches(text, format) <=> Len(text) \in f[n])
        /\ \A i \in 1..n : f[i] = {q \in Nat : \E p \in f[i - 1] : Stretch(text, format[i], p, q)}
  BY MatchesIs
<1>2. /\ path \in [0..n -> Nat] /\ path[0] = 0 /\ n \in Nat /\ n \in 0..n
      /\ \A i \in 1..n : Stretch(text, format[i], path[i - 1], path[i])
  BY DEF Walk
<1> DEFINE Good == {i \in 0..n : path[i] \in f[i]}
<1>3. 0 \in Good
  BY <1>1, <1>2
<1>4. ASSUME NEW i \in 1..n, i - 1 \in Good PROVE i \in Good
  <2>0. path[i - 1] \in f[i - 1] /\ i \in 0..n
    BY <1>4
  <2>1. path[i - 1] \in f[i - 1] /\ path[i] \in Nat /\ i \in 0..n
    BY <1>2, <2>0
  <2>2. path[i] \in f[i]
    BY <1>1, <1>2, <2>1
  <2> QED BY <2>1, <2>2
<1> HIDE DEF Good
<1>5. n \in Good
  BY <1>2, <1>3, <1>4, UpTo
<1>6. path[n] \in f[n]
  BY <1>5 DEF Good
<1> QED BY <1>1, <1>6

LEMMA MatchesWalk ==
  ASSUME NEW text \in Seq(Chars), NEW format \in Seq(Patterns), Matches(text, format)
  PROVE  \E path : Walk(text, format, path) /\ path[Len(format)] = Len(text)
<1> DEFINE n == Len(format)
<1>1. PICK f \in [0..n -> SUBSET Nat] :
        /\ f[0] = {0} /\ (Matches(text, format) <=> Len(text) \in f[n])
        /\ \A i \in 1..n : f[i] = {q \in Nat : \E p \in f[i - 1] : Stretch(text, format[i], p, q)}
  BY MatchesIs
<1> DEFINE To(i, q) == \E path \in [0..n -> Nat] :
                         /\ path[0] = 0 /\ path[i] = q
                         /\ \A k \in 1..i : Stretch(text, format[k], path[k - 1], path[k])
           Good == {i \in 0..n : \A q \in f[i] : To(i, q)}
<1>2. n \in Nat /\ n \in 0..n /\ 0 \in 0..n /\ \A i \in 1..n : i \in 0..n /\ i # 0
  OBVIOUS
<1>3. 0 \in Good
  <2> DEFINE path == [k \in 0..n |-> 0]
  <2>1. path \in [0..n -> Nat] /\ path[0] = 0
    BY <1>2
  <2>2. To(0, 0)
    BY <2>1
  <2> QED BY <1>1, <1>2, <2>2
<1>4. ASSUME NEW i \in 1..n, i - 1 \in Good PROVE i \in Good
  <2> SUFFICES ASSUME NEW q \in f[i] PROVE To(i, q)
    BY <1>2
  <2>1. PICK p \in f[i - 1] : q \in Nat /\ Stretch(text, format[i], p, q)
    BY <1>1
  <2>2. To(i - 1, p)
    BY <1>4
  <2>3. PICK path \in [0..n -> Nat] :
          /\ path[0] = 0 /\ path[i - 1] = p
          /\ \A k \in 1..(i - 1) : Stretch(text, format[k], path[k - 1], path[k])
    BY <2>2
  <2> DEFINE longer == [path EXCEPT ![i] = q]
  <2>4. longer \in [0..n -> Nat] /\ longer[i] = q /\ \A k \in 0..(i - 1) : longer[k] = path[k]
    BY <2>1
  <2> HIDE DEF longer
  <2>5. \A k \in 1..i : k = i \/ (k \in 1..(i - 1) /\ k \in 0..(i - 1) /\ k - 1 \in 0..(i - 1))
    OBVIOUS
  <2>6. 0 \in 0..(i - 1) /\ i - 1 \in 0..(i - 1)
    OBVIOUS
  <2>7. \A k \in 1..i : Stretch(text, format[k], longer[k - 1], longer[k])
    BY <2>1, <2>3, <2>4, <2>5, <2>6
  <2> QED BY <2>3, <2>4, <2>6, <2>7
<1>5. n \in Good
  <2> HIDE DEF Good
  <2> QED BY <1>2, <1>3, <1>4, UpTo
<1>6. To(n, Len(text))
  BY <1>1, <1>5
<1> QED BY <1>6 DEF Walk

LEMMA PatternsAre ==
  /\ \A m, n \in Nat : Ds(m, n) \in Patterns /\ Ds(m, n).of = Digits /\ Ds(m, n).min = m /\ Ds(m, n).max = n
  /\ \A n \in Nat : D(n) \in Patterns /\ D(n).of = Digits /\ D(n).min = n /\ D(n).max = n
  /\ \A c \in Signs : /\ One(c) \in Patterns /\ One(c).of = {c} /\ One(c).min = 1 /\ One(c).max = 1
                      /\ Opt(c) \in Patterns /\ Opt(c).of = {c} /\ Opt(c).min = 0 /\ Opt(c).max = 1
  /\ Sep \in Patterns /\ Sep.of = {"-", ".", " "} /\ Sep.min = 0 /\ Sep.max = 1
<1>1. ASSUME NEW C \in SUBSET Signs, NEW m \in Nat, NEW n \in Nat
      PROVE  /\ Many(C, m, n) \in Patterns /\ Many(C, m, n).of = C
             /\ Many(C, m, n).min = m /\ Many(C, m, n).max = n
  BY DEF Many, Patterns
<1>2. /\ Digits \in SUBSET Signs /\ {"-", ".", " "} \in SUBSET Signs /\ (\A c \in Signs : {c} \in SUBSET Signs)
      /\ 0 \in Nat /\ 1 \in Nat
  BY DEF Signs
<1> DEFINE As(p, C, m, n) == p \in Patterns /\ p.of = C /\ p.min = m /\ p.max = n
<1>3. \A C \in SUBSET Signs : \A m, n \in Nat : As(Many(C, m, n), C, m, n)
  BY <1>1
<1> HIDE DEF As
<1>4. \A m, n \in Nat : As(Ds(m, n), Digits, m, n)
  BY <1>2, <1>3 DEF Ds
<1>5. \A n \in Nat : As(D(n), Digits, n, n)
  BY <1>2, <1>3 DEF D
<1>6. \A c \in Signs : As(One(c), {c}, 1, 1)
  BY <1>2, <1>3 DEF One
<1>7. \A c \in Signs : As(Opt(c), {c}, 0, 1)
  BY <1>2, <1>3 DEF Opt
<1>8. As(Sep, {"-", ".", " "}, 0, 1)
  BY <1>2, <1>3 DEF Sep
<1> QED BY <1>4, <1>5, <1>6, <1>7, <1>8 DEF As

(* The repetitions for a country's code.                                   *)
LEMMA HeadIs ==
  ASSUME NEW c \in Countries, NEW h \in {Full(c), Loose(c)}
  PROVE  /\ h \in Seq(Patterns) /\ Len(h) = 1 + Len(Code[c]) /\ h[1] = Opt("+")
         /\ \A i \in 1..Len(Code[c]) : h[1 + i] = One(Code[c][i]) \/ (i = Len(Code[c]) /\ h[1 + i] = Opt(Code[c][i]))
<1> DEFINE m == Len(Code[c])
           k == [i \in 1..m |-> IF h = Loose(c) /\ i = m THEN Opt(Code[c][i]) ELSE One(Code[c][i])]
           plus == <<Opt("+")>>
<1>1. Code[c] \in Seq(Digits) /\ m \in Nat /\ DOMAIN Code[c] = 1..m
  BY CodeType
<1>2. h = plus \o k
  <2>1. CASE h = Loose(c)
    <3>1. k = [i \in 1..m |-> IF i = m THEN Opt(Code[c][i]) ELSE One(Code[c][i])]
      BY <2>1
    <3> HIDE DEF k
    <3> QED BY <2>1, <3>1 DEF Loose
  <2>2. CASE h # Loose(c)
    <3>1. k = [i \in 1..m |-> One(Code[c][i])]
      BY <2>2
    <3>2. h = Full(c)
      BY <2>2
    <3> HIDE DEF k
    <3> QED BY <1>1, <3>1, <3>2 DEF Full
  <2> QED BY <2>1, <2>2
<1>3. \A i \in 1..m : One(Code[c][i]) \in Patterns /\ Opt(Code[c][i]) \in Patterns
  <2>1. \A i \in 1..m : Code[c][i] \in Signs
    <3>1. \A i \in 1..m : Code[c][i] \in Digits
      BY <1>1
    <3> QED BY <3>1 DEF Signs
  <2> QED BY <2>1, PatternsAre
<1>4. k \in Seq(Patterns) /\ Len(k) = m
  <2>1. \A i \in 1..m : (IF h = Loose(c) /\ i = m THEN Opt(Code[c][i]) ELSE One(Code[c][i])) \in Patterns
    BY <1>3
  <2> QED BY <1>1, <2>1
<1>5. \A i \in 1..m : k[i] = One(Code[c][i]) \/ (i = m /\ k[i] = Opt(Code[c][i]))
  OBVIOUS
<1>6. plus \in Seq(Patterns) /\ Len(plus) = 1 /\ plus[1] = Opt("+")
  <2>1. Opt("+") \in Patterns
    BY PatternsAre DEF Signs
  <2> QED BY <2>1
<1> HIDE DEF k, plus
<1>7. /\ plus \o k \in Seq(Patterns) /\ Len(plus \o k) = Len(plus) + Len(k)
      /\ \A i \in 1..(Len(plus) + Len(k)) : (plus \o k)[i] = IF i <= Len(plus) THEN plus[i] ELSE k[i - Len(plus)]
  BY <1>4, <1>6, ConcatProperties
<1> HIDE DEF m
<1>8. h[1] = Opt("+")
  <2>1. 1 \in 1..(Len(plus) + Len(k)) /\ 1 <= Len(plus)
    BY <1>1, <1>4, <1>6
  <2> QED BY <1>2, <1>6, <1>7, <2>1
<1>9. \A i \in 1..m : h[1 + i] = k[i]
  <2> TAKE i \in 1..m
  <2>1. 1 + i \in 1..(Len(plus) + Len(k)) /\ ~(1 + i <= Len(plus)) /\ 1 + i - Len(plus) = i
    BY <1>1, <1>4, <1>6
  <2> QED BY <1>2, <1>7, <2>1
<1> QED BY <1>2, <1>4, <1>5, <1>6, <1>7, <1>8, <1>9 DEF m

(* If the digits fit the rest of a format, so does the number the whole.   *)
LEMMA NumberMatches ==
  ASSUME NEW c \in Countries, NEW h \in {Full(c), Loose(c)}, NEW tail \in Seq(Patterns),
         NEW n \in Seq(Digits), NEW path, Walk(n, tail, path), path[Len(tail)] = Len(n)
  PROVE  Matches(Coded(c) \o n, h \o tail)
<1> DEFINE k == 1 + Len(Code[c])
           x == Coded(c) \o n
           format == h \o tail
           whole == [i \in 0..(k + Len(tail)) |-> IF i <= k THEN i ELSE k + path[i - k]]
<1>1. Code[c] \in Seq(Digits) /\ k \in Nat /\ Len(tail) \in Nat /\ Len(n) \in Nat
  BY CodeType
<1>2. n \in Seq(Chars)
  <2>1. Digits \subseteq Chars
    BY CharsAssumption
  <2> QED BY <2>1
<1>3. /\ Coded(c) \in Seq(Chars) /\ Len(Coded(c)) = k /\ Coded(c)[1] = "+"
      /\ \A i \in 1..Len(Code[c]) : Coded(c)[1 + i] = Code[c][i]
  BY CodedIs
<1>4. /\ x \in Seq(Chars) /\ Len(x) = k + Len(n)
      /\ \A i \in 1..(k + Len(n)) : x[i] = IF i <= k THEN Coded(c)[i] ELSE n[i - k]
  <2>1. \A p, s \in Seq(Chars) :
          /\ p \o s \in Seq(Chars) /\ Len(p \o s) = Len(p) + Len(s)
          /\ \A i \in 1..(Len(p) + Len(s)) : (p \o s)[i] = IF i <= Len(p) THEN p[i] ELSE s[i - Len(p)]
    BY ConcatProperties
  <2> HIDE DEF k
  <2> QED BY <1>2, <1>3, <2>1
<1>5. /\ h \in Seq(Patterns) /\ Len(h) = k /\ h[1] = Opt("+")
      /\ \A i \in 1..Len(Code[c]) :
           h[1 + i] = One(Code[c][i]) \/ (i = Len(Code[c]) /\ h[1 + i] = Opt(Code[c][i]))
  BY HeadIs
<1>6. /\ format \in Seq(Patterns) /\ Len(format) = k + Len(tail)
      /\ \A i \in 1..(k + Len(tail)) : format[i] = IF i <= k THEN h[i] ELSE tail[i - k]
  <2>0. h \in Seq(Patterns)
    BY <1>5
  <2>1. /\ h \o tail \in Seq(Patterns) /\ Len(h \o tail) = Len(h) + Len(tail)
        /\ \A i \in 1..(Len(h) + Len(tail)) : (h \o tail)[i] = IF i <= Len(h) THEN h[i] ELSE tail[i - Len(h)]
    BY <2>0, ConcatProperties
  <2> HIDE DEF k
  <2> QED BY <1>5, <2>1
<1>7. /\ path \in [0..Len(tail) -> Nat] /\ path[0] = 0
      /\ \A i \in 1..Len(tail) : Stretch(n, tail[i], path[i - 1], path[i])
  BY DEF Walk
<1> HIDE DEF x, format
<1>8. \A i \in 1..k : format[i].of = {x[i]} /\ format[i].min \in {0, 1} /\ format[i].max = 1
  <2> TAKE i \in 1..k
  <2>1. x[i] = Coded(c)[i] /\ format[i] = h[i]
    <3> HIDE DEF k
    <3>1. i \in 1..(k + Len(n)) /\ i \in 1..(k + Len(tail)) /\ i <= k
      BY <1>1
    <3> QED BY <1>4, <1>6, <3>1
  <2>2. CASE i = 1
    <3>1. "+" \in Signs
      BY DEF Signs
    <3>2. h[1] = Opt("+") /\ Coded(c)[1] = "+"
      BY <1>3, <1>5
    <3>3. Opt("+").of = {"+"} /\ Opt("+").min = 0 /\ Opt("+").max = 1
      BY <3>1, PatternsAre
    <3> QED BY <2>1, <2>2, <3>2, <3>3
  <2>3. CASE i # 1
    <3>1. i - 1 \in 1..Len(Code[c]) /\ 1 + (i - 1) = i
      BY <1>1, <2>3
    <3>2. Code[c][i - 1] \in Signs
      <4>1. Code[c][i - 1] \in Digits
        BY <1>1, <3>1
      <4> QED BY <4>1 DEF Signs
    <3>3. h[i] \in {One(Code[c][i - 1]), Opt(Code[c][i - 1])} /\ Coded(c)[i] = Code[c][i - 1]
      BY <1>3, <1>5, <3>1
    <3> DEFINE d == Code[c][i - 1]
    <3>4. /\ One(d).of = {d} /\ One(d).min = 1 /\ One(d).max = 1
          /\ Opt(d).of = {d} /\ Opt(d).min = 0 /\ Opt(d).max = 1
      <4> HIDE DEF d
      <4> QED BY <3>2, PatternsAre DEF d
    <3> QED BY <2>1, <3>3, <3>4
  <2> QED BY <2>2, <2>3
<1> HIDE DEF k
<1>9. /\ whole \in [0..(k + Len(tail)) -> Nat] /\ whole[0] = 0 /\ (\A i \in 0..k : whole[i] = i)
      /\ \A i \in 0..Len(tail) : whole[k + i] = k + path[i]
  <2>1. \A i \in 0..(k + Len(tail)) : ~(i <= k) => i - k \in 0..Len(tail) /\ path[i - k] \in Nat
    <3>1. \A i \in 0..(k + Len(tail)) : ~(i <= k) => i - k \in 0..Len(tail)
      BY <1>1
    <3> QED BY <1>7, <3>1
  <2>2. whole \in [0..(k + Len(tail)) -> Nat]
    BY <1>1, <2>1
  <2>3. \A i \in 0..k : whole[i] = i
    BY <1>1
  <2>4. ASSUME NEW i \in 0..Len(tail) PROVE whole[k + i] = k + path[i]
    <3>1. CASE i = 0
      BY <1>1, <1>7, <3>1
    <3>2. CASE i # 0
      <4>1. k + i \in 0..(k + Len(tail)) /\ ~(k + i <= k) /\ (k + i) - k = i
        BY <1>1, <3>2
      <4> DEFINE j == k + i
      <4> HIDE DEF j
      <4>2. j \in 0..(k + Len(tail)) /\ ~(j <= k) /\ j - k = i
        BY <4>1 DEF j
      <4>3. whole[j] = IF j <= k THEN j ELSE k + path[j - k]
        BY <4>2
      <4>4. whole[j] = k + path[i]
        BY <4>2, <4>3
      <4> QED BY <4>4 DEF j
    <3> QED BY <3>1, <3>2
  <2> QED BY <1>1, <2>2, <2>3, <2>4
<1> HIDE DEF whole
<1>10. ASSUME NEW i \in 1..k PROVE Stretch(x, format[i], whole[i - 1], whole[i])
  <2>1. whole[i - 1] = i - 1 /\ whole[i] = i /\ i \in 1..(k + Len(n))
    BY <1>1, <1>9
  <2> DEFINE r == format[i]
  <2>2. r.of = {x[i]} /\ r.min \in {0, 1} /\ r.max = 1
    BY <1>8
  <2> HIDE DEF r
  <2>3. i - 1 + r.min <= i /\ i <= i - 1 + r.max /\ i <= Len(x)
    BY <1>1, <1>4, <2>1, <2>2
  <2>4. \A j \in (i - 1 + 1)..i : x[j] \in r.of
    <3>1. \A j \in (i - 1 + 1)..i : j = i
      OBVIOUS
    <3> QED BY <2>2, <3>1
  <2>5. Stretch(x, r, i - 1, i)
    BY <2>3, <2>4 DEF Stretch
  <2> QED BY <2>1, <2>5 DEF r
<1>11. ASSUME NEW i \in 1..Len(tail) PROVE Stretch(x, format[k + i], whole[k + i - 1], whole[k + i])
  <2> DEFINE p == path[i - 1]
             q == path[i]
             r == tail[i]
  <2>1. i - 1 \in 0..Len(tail) /\ i \in 0..Len(tail) /\ k + (i - 1) = k + i - 1
    BY <1>1
  <2>2. whole[k + i - 1] = k + p /\ whole[k + i] = k + q /\ p \in Nat /\ q \in Nat
    BY <1>7, <1>9, <2>1
  <2>3. format[k + i] = r
    <3>1. k + i \in 1..(k + Len(tail)) /\ ~(k + i <= k) /\ (k + i) - k = i
      BY <1>1
    <3> DEFINE j == k + i
    <3> HIDE DEF j
    <3>2. j \in 1..(k + Len(tail)) /\ ~(j <= k) /\ j - k = i
      BY <3>1 DEF j
    <3>3. format[j] = IF j <= k THEN h[j] ELSE tail[j - k]
      BY <1>6, <3>2
    <3>4. format[j] = tail[i]
      BY <3>2, <3>3
    <3> QED BY <3>4 DEF j
  <2>4. Stretch(n, r, p, q)
    BY <1>7
  <2>5. r.min \in Nat /\ r.max \in Nat
    <3>1. r \in Patterns
      OBVIOUS
    <3> HIDE DEF r
    <3> QED BY <3>1 DEF Patterns
  <2> HIDE DEF p, q, r
  <2>6. p + r.min <= q /\ q <= p + r.max /\ q <= Len(n) /\ \A j \in (p + 1)..q : n[j] \in r.of
    BY <2>4 DEF Stretch
  <2>7. ASSUME NEW j \in (k + p + 1)..(k + q) PROVE x[j] \in r.of
    <3>0. q <= Len(n)
      BY <2>6
    <3>1. j - k \in (p + 1)..q /\ j \in 1..(k + Len(n)) /\ ~(j <= k)
      BY <1>1, <2>2, <3>0
    <3> QED BY <1>4, <2>6, <3>1
  <2>8. k + p + r.min <= k + q /\ k + q <= k + p + r.max /\ k + q <= Len(x)
    <3> DEFINE lo == r.min
               hi == r.max
    <3>1. lo \in Nat /\ hi \in Nat /\ p + lo <= q /\ q <= p + hi /\ q <= Len(n)
      BY <2>5, <2>6
    <3> HIDE DEF lo, hi
    <3>2. k + p + lo <= k + q /\ k + q <= k + p + hi /\ k + q <= k + Len(n)
      BY <1>1, <2>2, <3>1
    <3> QED BY <1>4, <3>2 DEF lo, hi
  <2> QED BY <2>2, <2>3, <2>7, <2>8 DEF Stretch
<1>12. ASSUME NEW i \in 1..(k + Len(tail)) PROVE Stretch(x, format[i], whole[i - 1], whole[i])
  <2>1. CASE i <= k
    <3>1. i \in 1..k
      BY <1>1, <2>1
    <3> QED BY <1>10, <3>1
  <2>2. CASE ~(i <= k)
    <3> DEFINE j == i - k
    <3>1. j \in 1..Len(tail) /\ k + j = i /\ k + j - 1 = i - 1
      BY <1>1, <2>2
    <3> HIDE DEF j
    <3>2. Stretch(x, format[k + j], whole[k + j - 1], whole[k + j])
      BY <1>11, <3>1
    <3> QED BY <3>1, <3>2
  <2> QED BY <2>1, <2>2
<1>13. Walk(x, format, whole)
  BY <1>6, <1>9, <1>12 DEF Walk
<1>14. whole[Len(format)] = Len(x)
  <2>1. Len(tail) \in 0..Len(tail)
    BY <1>1
  <2> QED BY <1>4, <1>6, <1>9, <2>1
<1> QED BY <1>4, <1>6, <1>13, <1>14, WalkMatches DEF x, format
---------------------------------------------------------------------------
(* A country's prefix and digits: nothing to trim, and digits are kept.    *)
LEMMA KeptBehind ==
  ASSUME NEW x \in Seq(Chars), NEW r \in Seq(Chars), NEW C, Len(x) = 1 + Len(r), x[1] \notin C,
         \A i \in 1..Len(r) : x[1 + i] = r[i] /\ r[i] \in C
  PROVE  Keeping(x, C) = r
<1> DEFINE m == Len(r)
<1>2. r \in Seq(Chars) /\ m \in Nat /\ \A i \in 1..m : r[i] \in Chars
  OBVIOUS
<1>3. x \in Seq(Chars) /\ Len(x) = 1 + m /\ x[1] \notin C /\ \A i \in 1..m : x[1 + i] = r[i]
  OBVIOUS
<1>4. \A i \in 1..m : r[i] \in C
  OBVIOUS
<1>7. PICK f \in [0..Len(x) -> Seq(Chars)] :
        /\ f[0] = <<>> /\ Keeping(x, C) = f[Len(x)]
        /\ \A i \in 1..Len(x) : f[i] = IF x[i] \in C THEN Append(f[i - 1], x[i]) ELSE f[i - 1]
  BY KeepingIs, ZenonT(60)
<1> DEFINE Good == {i \in 0..m : Len(f[1 + i]) = i /\ \A k \in 1..i : f[1 + i][k] = r[k]}
<1>8. 0 \in Good
  <2>1. 1 \in 1..Len(x) /\ 1 - 1 = 0 /\ 1 + 0 = 1 /\ x[1] \notin C /\ 0 \in 0..m
    BY <1>2, <1>3
  <2>2. f[1] = <<>>
    BY <1>7, <2>1
  <2>3. Len(<<>>) = 0 /\ 1..0 = {}
    OBVIOUS
  <2> QED BY <2>1, <2>2, <2>3
<1>9. ASSUME NEW i \in 1..m, i - 1 \in Good PROVE i \in Good
  <2>1. 1 + i \in 1..Len(x) /\ (1 + i) - 1 = i /\ 1 + (i - 1) = i /\ i \in 0..Len(x)
    BY <1>2, <1>3
  <2>2. x[1 + i] = r[i] /\ r[i] \in C /\ r[i] \in Chars
    BY <1>3, <1>4
  <2>3. f[i] \in Seq(Chars) /\ Len(f[i]) = i - 1 /\ \A k \in 1..(i - 1) : f[i][k] = r[k]
    BY <1>7, <1>9, <2>1
  <2>4. f[1 + i] = Append(f[i], r[i])
    BY <1>7, <2>1, <2>2
  <2>5. Len(f[1 + i]) = i /\ f[1 + i][i] = r[i] /\ \A k \in 1..(i - 1) : f[1 + i][k] = r[k]
    <3>1. /\ Len(Append(f[i], r[i])) = Len(f[i]) + 1 /\ Append(f[i], r[i])[Len(f[i]) + 1] = r[i]
          /\ \A k \in 1..Len(f[i]) : Append(f[i], r[i])[k] = f[i][k]
      BY <2>2, <2>3, OneMore
    <3> QED BY <2>3, <2>4, <3>1
  <2>6. \A k \in 1..i : k = i \/ k \in 1..(i - 1)
    OBVIOUS
  <2> QED BY <2>5, <2>6
<1>10. Len(f[1 + m]) = m /\ \A k \in 1..m : f[1 + m][k] = r[k]
  <2> HIDE DEF Good
  <2>0. m \in Nat /\ m \in 0..m
    BY <1>2
  <2>1. m \in Good
    BY <1>8, <1>9, <2>0, UpTo
  <2> QED BY <2>1 DEF Good
<1>11. f[1 + m] \in Seq(Chars)
  <2>1. 1 + m \in 0..Len(x)
    BY <1>2, <1>3
  <2> QED BY <1>7, <2>1
<1> QED BY <1>2, <1>3, <1>7, <1>10, <1>11, SeqEqual DEF m

LEMMA PlusDigits ==
  ASSUME NEW r \in Seq(Digits)
  PROVE  LET x == <<"+">> \o r IN
         x \in Seq(Chars) /\ TrimSpace(x) = x /\ Keeping(x, Digits) = r
<1> DEFINE plus == <<"+">>
           x == plus \o r
           m == Len(r)
<1>1. Digits \subseteq Chars /\ "+" \in Chars /\ "+" \notin Digits /\ "+" \notin Space /\ Digits \cap Space = {}
  BY CharsAssumption DEF Digits, Space
<1>2. r \in Seq(Chars) /\ plus \in Seq(Chars) /\ Len(plus) = 1 /\ plus[1] = "+" /\ m \in Nat
  BY <1>1
<1>3. x \in Seq(Chars) /\ Len(x) = 1 + m /\ x[1] = "+" /\ \A i \in 1..m : x[1 + i] = r[i]
  <2> HIDE DEF plus, m
  <2>1. /\ x \in Seq(Chars) /\ Len(x) = Len(plus) + Len(r)
        /\ \A i \in 1..(Len(plus) + Len(r)) : x[i] = IF i <= Len(plus) THEN plus[i] ELSE r[i - Len(plus)]
    BY <1>2, ConcatProperties
  <2> HIDE DEF x
  <2>2. /\ x \in Seq(Chars) /\ Len(x) = 1 + m
        /\ \A i \in 1..(1 + m) : x[i] = IF i <= 1 THEN plus[i] ELSE r[i - 1]
    BY <1>2, <2>1 DEF m
  <2>3. 1 \in 1..(1 + m) /\ \A i \in 1..m : 1 + i \in 1..(1 + m) /\ ~(1 + i <= 1) /\ (1 + i) - 1 = i
    BY <1>2
  <2> QED BY <1>2, <2>2, <2>3
<1>4. \A i \in 1..m : r[i] \in Digits
  OBVIOUS
<1> HIDE DEF x, m, plus
<1>5. \A i \in 1..Len(x) : x[i] \notin Space
  <2> TAKE i \in 1..Len(x)
  <2>1. CASE i = 1
    BY <1>1, <1>3, <2>1
  <2>2. CASE i # 1
    <3>1. i - 1 \in 1..m /\ 1 + (i - 1) = i
      BY <1>2, <1>3, <2>2
    <3>2. x[i] = r[i - 1]
      BY <1>3, <3>1
    <3> QED BY <1>1, <1>4, <3>1, <3>2
  <2> QED BY <2>1, <2>2
<1>6. TrimSpace(x) = x
  <2>1. 1 \in 1..Len(x) /\ Len(x) \in 1..Len(x)
    BY <1>2, <1>3
  <2>2. Trimmed(x)
    BY <1>5, <2>1 DEF Trimmed
  <2> QED BY <1>3, <2>2, TrimNone
<1>7. Keeping(x, Digits) = r
  BY <1>1, <1>2, <1>3, <1>4, KeptBehind DEF m
<1> QED BY <1>3, <1>6, <1>7 DEF x, plus

(* A number of a form that its country has, and the rule leaves alone.     *)
LEMMA Settled ==
  ASSUME NEW c \in Countries \ {"AR"}, NEW n \in Seq(Digits), Rule(c, n) = {n},
         NEW f \in Formats[c], Matches(Coded(c) \o n, f)
  PROVE  NormalizeForCountry(Coded(c) \o n, c) = {Coded(c) \o n}
<1> DEFINE x == Coded(c) \o n
           r == Code[c] \o n
<1>1. Upper(c) = c
  BY CodeIs DEF Upper
<1>2. Code[c] \in Seq(Digits) /\ r \in Seq(Digits)
  BY CodeType, ConcatProperties
<1>3. x = <<"+">> \o r
  <2>1. Digits \subseteq Chars /\ "+" \in Chars
    BY CharsAssumption
  <2>2. n \in Seq(Chars) /\ Code[c] \in Seq(Chars) /\ <<"+">> \in Seq(Chars)
    BY <1>2, <2>1
  <2>3. \A p, q, s \in Seq(Chars) : (p \o q) \o s = p \o (q \o s)
    BY ConcatAssociative, SMTT(40)
  <2> QED BY <2>2, <2>3 DEF Coded
<1>4. TrimSpace(x) = x /\ Keeping(x, Digits) = r
  <2> HIDE DEF r, x
  <2> QED BY <1>2, <1>3, PlusDigits
<1>5. TrimPrefix(r, Code[c]) = n
  BY <1>2, PrefixTrimmed
<1>6. NormalizeForCountry(x, c) = {<<"+">> \o Code[c] \o a : a \in Rule(c, n)}
  <2>1. ~\A g \in Formats[c] : ~Matches(x, g)
    OBVIOUS
  <2> HIDE DEF x, r
  <2> QED BY <1>1, <1>4, <1>5, <2>1 DEF NormalizeForCountry
<1>7. {<<"+">> \o Code[c] \o a : a \in {n}} = {x}
  BY DEF Coded
<1> QED BY <1>6, <1>7

---------------------------------------------------------------------------
(* Where the repetitions of a format end, one after the other.             *)
LEMMA Fits ==
  ASSUME NEW c \in Countries, NEW h \in {Full(c), Loose(c)}, NEW tail \in Seq(Patterns),
         NEW n \in Seq(Digits), NEW stops \in Seq(Nat), Len(stops) = Len(tail) + 1,
         stops[1] = 0, stops[Len(tail) + 1] = Len(n),
         \A i \in 1..Len(tail) : Stretch(n, tail[i], stops[i], stops[i + 1])
  PROVE  Matches(Coded(c) \o n, h \o tail)
<1> DEFINE m == Len(tail)
           path == [i \in 0..m |-> stops[i + 1]]
<1>1. m \in Nat /\ \A i \in 0..m : i + 1 \in 1..Len(stops)
  OBVIOUS
<1>2. path \in [0..m -> Nat]
  BY <1>1
<1>3. path[0] = 0 /\ path[m] = Len(n) /\ \A i \in 1..m : path[i - 1] = stops[i] /\ path[i] = stops[i + 1]
  <2>1. 0 \in 0..m /\ m \in 0..m /\ \A i \in 1..m : i \in 0..m /\ i - 1 \in 0..m /\ (i - 1) + 1 = i
    BY <1>1
  <2>2. \A i \in 0..m : path[i] = stops[i + 1]
    OBVIOUS
  <2> HIDE DEF path
  <2>3. path[0] = 0 /\ path[m] = Len(n)
    BY <2>1, <2>2
  <2>4. ASSUME NEW i \in 1..m PROVE path[i - 1] = stops[i] /\ path[i] = stops[i + 1]
    <3>1. path[i - 1] = stops[(i - 1) + 1] /\ path[i] = stops[i + 1]
      BY <2>1, <2>2
    <3> QED BY <2>1, <3>1
  <2> QED BY <2>3, <2>4
<1> HIDE DEF path
<1>4. Walk(n, tail, path)
  BY <1>2, <1>3 DEF Walk
<1> QED BY <1>3, <1>4, NumberMatches

LEMMA Stretches ==
  ASSUME NEW n \in Seq(Digits), NEW p \in 0..Len(n), NEW q \in 0..Len(n)
  PROVE  /\ q = p => Stretch(n, Sep, p, q) /\ \A d \in Signs : Stretch(n, Opt(d), p, q)
         /\ \A k \in Nat : q = p + k => Stretch(n, D(k), p, q)
         /\ \A l, m \in Nat : p + l <= q /\ q <= p + m => Stretch(n, Ds(l, m), p, q)
         /\ \A d \in Digits : q = p + 1 /\ n[q] = d => Stretch(n, One(d), p, q) /\ Stretch(n, Opt(d), p, q)
<1>1. p \in Nat /\ q \in Nat /\ Len(n) \in Nat /\ q <= Len(n)
  OBVIOUS
<1> DEFINE Long(r, l, m) == r.min = l /\ r.max = m
<1>2. ASSUME NEW r, NEW l \in Nat, NEW m \in Nat, Long(r, l, m), p + l <= q, q <= p + m,
             \A j \in (p + 1)..q : n[j] \in r.of
      PROVE  Stretch(n, r, p, q)
  BY <1>1, <1>2 DEF Stretch
<1>3. ASSUME NEW r, q = p, Long(r, 0, 1) PROVE Stretch(n, r, p, q)
  <2>1. (\A j \in (p + 1)..q : FALSE) /\ p + 0 <= q /\ q <= p + 1
    BY <1>1, <1>3
  <2> HIDE DEF Long
  <2> QED BY <1>2, <1>3, <2>1
<1>4. ASSUME NEW r, NEW l \in Nat, NEW m \in Nat, Long(r, l, m), p + l <= q, q <= p + m, r.of = Digits
      PROVE  Stretch(n, r, p, q)
  <2>1. \A j \in (p + 1)..q : n[j] \in Digits
    BY <1>1
  <2> HIDE DEF Long
  <2> QED BY <1>2, <1>4, <2>1
<1>5. ASSUME NEW r, NEW l \in {0, 1}, Long(r, l, 1), q = p + 1, r.of = {n[q]}
      PROVE  Stretch(n, r, p, q)
  <2>1. (\A j \in (p + 1)..q : j = q) /\ p + l <= q /\ q <= p + 1 /\ l \in Nat
    BY <1>1, <1>5
  <2> HIDE DEF Long
  <2> QED BY <1>2, <1>5, <2>1
<1>6. Long(Sep, 0, 1) /\ \A d \in Signs : Long(Opt(d), 0, 1)
  BY PatternsAre
<1>7. \A k \in Nat : Long(D(k), k, k) /\ D(k).of = Digits
  BY PatternsAre
<1>8. \A l, m \in Nat : Long(Ds(l, m), l, m) /\ Ds(l, m).of = Digits
  BY PatternsAre
<1>9. \A d \in Digits : Long(One(d), 1, 1) /\ One(d).of = {d} /\ Long(Opt(d), 0, 1) /\ Opt(d).of = {d}
  <2>1. Digits \subseteq Signs
    BY DEF Signs
  <2>2. \A d \in Signs : Long(One(d), 1, 1) /\ One(d).of = {d} /\ Long(Opt(d), 0, 1) /\ Opt(d).of = {d}
    BY PatternsAre
  <2> HIDE DEF Long
  <2> QED BY <2>1, <2>2
<1> HIDE DEF Long
<1>10. q = p => Stretch(n, Sep, p, q) /\ \A d \in Signs : Stretch(n, Opt(d), p, q)
  BY <1>3, <1>6
<1>11. ASSUME NEW k \in Nat, q = p + k PROVE Stretch(n, D(k), p, q)
  <2>1. p + k <= q /\ q <= p + k
    BY <1>1, <1>11
  <2> QED BY <1>4, <1>7, <2>1
<1>12. \A l, m \in Nat : p + l <= q /\ q <= p + m => Stretch(n, Ds(l, m), p, q)
  BY <1>4, <1>8
<1>13. \A d \in Digits : q = p + 1 /\ n[q] = d => Stretch(n, One(d), p, q) /\ Stretch(n, Opt(d), p, q)
  BY <1>5, <1>9
<1> QED BY <1>10, <1>11, <1>12, <1>13

LEMMA FitsUS ==
  ASSUME NEW n \in Seq(Digits), Len(n) = 10
  PROVE  \E f \in Formats["US"] : Matches(Coded("US") \o n, f)
<1> DEFINE tail == <<Sep, Opt("("), D(3), Opt(")"), Sep, D(3), Sep, D(4)>>
           stops == <<0, 0, 0, 3, 3, 3, 6, 6, 10>>
<1>0. {"(", ")"} \subseteq Signs
  BY DEF Signs
<1>1. tail \in Seq(Patterns) /\ Len(tail) = 8
  <2>1. Sep \in Patterns /\ Opt("(") \in Patterns /\ D(3) \in Patterns /\ Opt(")") \in Patterns /\ D(4) \in Patterns
    BY <1>0, PatternsAre
  <2> QED BY <2>1
<1>2. stops \in Seq(Nat) /\ Len(stops) = 9 /\ stops[1] = 0 /\ stops[9] = 10
  OBVIOUS
<1>3. \A p, q \in 0..10 :
        /\ q = p => Stretch(n, Sep, p, q) /\ \A d \in Signs : Stretch(n, Opt(d), p, q)
        /\ \A k \in Nat : q = p + k => Stretch(n, D(k), p, q)
  BY Stretches
<1>4. /\ Stretch(n, Sep, 0, 0) /\ Stretch(n, Opt("("), 0, 0) /\ Stretch(n, D(3), 0, 3) /\ Stretch(n, Opt(")"), 3, 3)
      /\ Stretch(n, Sep, 3, 3) /\ Stretch(n, D(3), 3, 6) /\ Stretch(n, Sep, 6, 6) /\ Stretch(n, D(4), 6, 10)
  BY <1>0, <1>3
<1>5. \A i \in 1..8 : Stretch(n, tail[i], stops[i], stops[i + 1])
  BY <1>4
<1>6. Loose("US") \o tail \in Formats["US"]
  BY DEF Formats
<1> HIDE DEF tail, stops
<1>7. /\ Len(stops) = Len(tail) + 1 /\ stops[Len(tail) + 1] = Len(n)
      /\ \A i \in 1..Len(tail) : Stretch(n, tail[i], stops[i], stops[i + 1])
  BY <1>1, <1>2, <1>5
<1>8. "US" \in Countries
  BY CodeIs
<1> QED BY <1>1, <1>2, <1>6, <1>7, <1>8, Fits

LEMMA FitsUK ==
  ASSUME NEW n \in Seq(Digits), Len(n) = 10
  PROVE  \E f \in Formats["UK"] : Matches(Coded("UK") \o n, f)
<1> DEFINE tail == <<Sep, Opt("("), Opt("0"), Ds(3, 4), Opt(")"), Sep, Ds(6, 7)>>
           stops == <<0, 0, 0, 0, 4, 4, 4, 10>>
<1>0. {"(", ")", "0"} \subseteq Signs
  BY DEF Signs, Digits
<1>1. tail \in Seq(Patterns) /\ Len(tail) = 7
  <2>1. /\ Sep \in Patterns /\ Opt("(") \in Patterns /\ Opt("0") \in Patterns /\ Ds(3, 4) \in Patterns
        /\ Opt(")") \in Patterns /\ Ds(6, 7) \in Patterns
    BY <1>0, PatternsAre
  <2> QED BY <2>1
<1>2. stops \in Seq(Nat) /\ Len(stops) = 8 /\ stops[1] = 0 /\ stops[8] = 10
  OBVIOUS
<1>3. \A p, q \in 0..10 :
        /\ q = p => Stretch(n, Sep, p, q) /\ \A d \in Signs : Stretch(n, Opt(d), p, q)
        /\ \A l, m \in Nat : p + l <= q /\ q <= p + m => Stretch(n, Ds(l, m), p, q)
  BY Stretches
<1>4. /\ Stretch(n, Sep, 0, 0) /\ Stretch(n, Opt("("), 0, 0) /\ Stretch(n, Opt("0"), 0, 0) /\ Stretch(n, Ds(3, 4), 0, 4)
      /\ Stretch(n, Opt(")"), 4, 4) /\ Stretch(n, Sep, 4, 4) /\ Stretch(n, Ds(6, 7), 4, 10)
  BY <1>0, <1>3
<1>5. \A i \in 1..7 : Stretch(n, tail[i], stops[i], stops[i + 1])
  BY <1>4
<1>6. Loose("UK") \o tail \in Formats["UK"]
  BY DEF Formats
<1> HIDE DEF tail, stops
<1>7. /\ Len(stops) = Len(tail) + 1 /\ stops[Len(tail) + 1] = Len(n)
      /\ \A i \in 1..Len(tail) : Stretch(n, tail[i], stops[i], stops[i + 1])
  BY <1>1, <1>2, <1>5
<1>8. "UK" \in Countries
  BY CodeIs
<1> QED BY <1>1, <1>2, <1>6, <1>7, <1>8, Fits

LEMMA FitsMX ==
  ASSUME NEW n \in Seq(Digits), Len(n) = 10
  PROVE  \E f \in Formats["MX"] : Matches(Coded("MX") \o n, f)
<1> DEFINE tail == <<Sep, Opt("1"), Sep, D(3), Sep, D(3), Sep, D(4)>>
           stops == <<0, 0, 0, 0, 3, 3, 6, 6, 10>>
<1>0. {"1"} \subseteq Signs
  BY DEF Signs, Digits
<1>1. tail \in Seq(Patterns) /\ Len(tail) = 8
  <2>1. Sep \in Patterns /\ Opt("1") \in Patterns /\ D(3) \in Patterns /\ D(4) \in Patterns
    BY <1>0, PatternsAre
  <2> QED BY <2>1
<1>2. stops \in Seq(Nat) /\ Len(stops) = 9 /\ stops[1] = 0 /\ stops[9] = 10
  OBVIOUS
<1>3. \A p, q \in 0..10 :
        /\ q = p => Stretch(n, Sep, p, q) /\ \A d \in Signs : Stretch(n, Opt(d), p, q)
        /\ \A k \in Nat : q = p + k => Stretch(n, D(k), p, q)
  BY Stretches
<1>4. /\ Stretch(n, Sep, 0, 0) /\ Stretch(n, Opt("1"), 0, 0) /\ Stretch(n, Sep, 0, 0) /\ Stretch(n, D(3), 0, 3)
      /\ Stretch(n, Sep, 3, 3) /\ Stretch(n, D(3), 3, 6) /\ Stretch(n, Sep, 6, 6) /\ Stretch(n, D(4), 6, 10)
  BY <1>0, <1>3
<1>5. \A i \in 1..8 : Stretch(n, tail[i], stops[i], stops[i + 1])
  BY <1>4
<1>6. Loose("MX") \o tail \in Formats["MX"]
  BY DEF Formats
<1> HIDE DEF tail, stops
<1>7. /\ Len(stops) = Len(tail) + 1 /\ stops[Len(tail) + 1] = Len(n)
      /\ \A i \in 1..Len(tail) : Stretch(n, tail[i], stops[i], stops[i + 1])
  BY <1>1, <1>2, <1>5
<1>8. "MX" \in Countries
  BY CodeIs
<1> QED BY <1>1, <1>2, <1>6, <1>7, <1>8, Fits

LEMMA FitsUY ==
  ASSUME NEW n \in Seq(Digits), Len(n) = 8, n[1] = "9"
  PROVE  \E f \in Formats["UY"] : Matches(Coded("UY") \o n, f)
<1> DEFINE tail == <<Sep, Opt("9"), D(1), Sep, D(3), Sep, D(3)>>
           stops == <<0, 0, 1, 2, 2, 5, 5, 8>>
<1>0. {"9"} \subseteq Signs /\ {"9"} \subseteq Digits
  BY DEF Signs, Digits
<1>1. tail \in Seq(Patterns) /\ Len(tail) = 7
  <2>1. Sep \in Patterns /\ Opt("9") \in Patterns /\ D(1) \in Patterns /\ D(3) \in Patterns
    BY <1>0, PatternsAre
  <2> QED BY <2>1
<1>2. stops \in Seq(Nat) /\ Len(stops) = 8 /\ stops[1] = 0 /\ stops[8] = 8
  OBVIOUS
<1>3. \A p, q \in 0..8 :
        /\ q = p => Stretch(n, Sep, p, q) /\ \A d \in Signs : Stretch(n, Opt(d), p, q)
        /\ \A k \in Nat : q = p + k => Stretch(n, D(k), p, q)
        /\ \A d \in Digits : q = p + 1 /\ n[q] = d => Stretch(n, One(d), p, q) /\ Stretch(n, Opt(d), p, q)
  BY Stretches
<1>4. /\ Stretch(n, Sep, 0, 0) /\ Stretch(n, Opt("9"), 0, 1) /\ Stretch(n, D(1), 1, 2) /\ Stretch(n, Sep, 2, 2)
      /\ Stretch(n, D(3), 2, 5) /\ Stretch(n, Sep, 5, 5) /\ Stretch(n, D(3), 5, 8)
  BY <1>0, <1>3
<1>5. \A i \in 1..7 : Stretch(n, tail[i], stops[i], stops[i + 1])
  BY <1>4
<1>6. Full("UY") \o tail \in Formats["UY"]
  BY DEF Formats
<1> HIDE DEF tail, stops
<1>7. /\ Len(stops) = Len(tail) + 1 /\ stops[Len(tail) + 1] = Len(n)
      /\ \A i \in 1..Len(tail) : Stretch(n, tail[i], stops[i], stops[i + 1])
  BY <1>1, <1>2, <1>5
<1>8. "UY" \in Countries
  BY CodeIs
<1> QED BY <1>1, <1>2, <1>6, <1>7, <1>8, Fits

LEMMA FitsCL ==
  ASSUME NEW n \in Seq(Digits), Len(n) = 9, n[1] = "9"
  PROVE  \E f \in Formats["CL"] : Matches(Coded("CL") \o n, f)
<1> DEFINE tail == <<Sep, One("9"), Sep, D(4), Sep, D(4)>>
           stops == <<0, 0, 1, 1, 5, 5, 9>>
<1>0. {"9"} \subseteq Signs /\ {"9"} \subseteq Digits
  BY DEF Signs, Digits
<1>1. tail \in Seq(Patterns) /\ Len(tail) = 6
  <2>1. Sep \in Patterns /\ One("9") \in Patterns /\ D(4) \in Patterns
    BY <1>0, PatternsAre
  <2> QED BY <2>1
<1>2. stops \in Seq(Nat) /\ Len(stops) = 7 /\ stops[1] = 0 /\ stops[7] = 9
  OBVIOUS
<1>3. \A p, q \in 0..9 :
        /\ q = p => Stretch(n, Sep, p, q) /\ \A d \in Signs : Stretch(n, Opt(d), p, q)
        /\ \A k \in Nat : q = p + k => Stretch(n, D(k), p, q)
        /\ \A d \in Digits : q = p + 1 /\ n[q] = d => Stretch(n, One(d), p, q) /\ Stretch(n, Opt(d), p, q)
  BY Stretches
<1>4. /\ Stretch(n, Sep, 0, 0) /\ Stretch(n, One("9"), 0, 1) /\ Stretch(n, Sep, 1, 1) /\ Stretch(n, D(4), 1, 5)
      /\ Stretch(n, Sep, 5, 5) /\ Stretch(n, D(4), 5, 9)
  BY <1>0, <1>3
<1>5. \A i \in 1..6 : Stretch(n, tail[i], stops[i], stops[i + 1])
  BY <1>4
<1>6. Full("CL") \o tail \in Formats["CL"]
  BY DEF Formats
<1> HIDE DEF tail, stops
<1>7. /\ Len(stops) = Len(tail) + 1 /\ stops[Len(tail) + 1] = Len(n)
      /\ \A i \in 1..Len(tail) : Stretch(n, tail[i], stops[i], stops[i + 1])
  BY <1>1, <1>2, <1>5
<1>8. "CL" \in Countries
  BY CodeIs
<1> QED BY <1>1, <1>2, <1>6, <1>7, <1>8, Fits

LEMMA FitsCO ==
  ASSUME NEW n \in Seq(Digits), Len(n) = 10, n[1] = "3"
  PROVE  \E f \in Formats["CO"] : Matches(Coded("CO") \o n, f)
<1> DEFINE tail == <<Sep, One("3"), D(2), Sep, D(3), Sep, D(4)>>
           stops == <<0, 0, 1, 3, 3, 6, 6, 10>>
<1>0. {"3"} \subseteq Signs /\ {"3"} \subseteq Digits
  BY DEF Signs, Digits
<1>1. tail \in Seq(Patterns) /\ Len(tail) = 7
  <2>1. Sep \in Patterns /\ One("3") \in Patterns /\ D(2) \in Patterns /\ D(3) \in Patterns /\ D(4) \in Patterns
    BY <1>0, PatternsAre
  <2> QED BY <2>1
<1>2. stops \in Seq(Nat) /\ Len(stops) = 8 /\ stops[1] = 0 /\ stops[8] = 10
  OBVIOUS
<1>3. \A p, q \in 0..10 :
        /\ q = p => Stretch(n, Sep, p, q) /\ \A d \in Signs : Stretch(n, Opt(d), p, q)
        /\ \A k \in Nat : q = p + k => Stretch(n, D(k), p, q)
        /\ \A d \in Digits : q = p + 1 /\ n[q] = d => Stretch(n, One(d), p, q) /\ Stretch(n, Opt(d), p, q)
  BY Stretches
<1>4. /\ Stretch(n, Sep, 0, 0) /\ Stretch(n, One("3"), 0, 1) /\ Stretch(n, D(2), 1, 3) /\ Stretch(n, Sep, 3, 3)
      /\ Stretch(n, D(3), 3, 6) /\ Stretch(n, Sep, 6, 6) /\ Stretch(n, D(4), 6, 10)
  BY <1>0, <1>3
<1>5. \A i \in 1..7 : Stretch(n, tail[i], stops[i], stops[i + 1])
  BY <1>4
<1>6. Full("CO") \o tail \in Formats["CO"]
  BY DEF Formats
<1> HIDE DEF tail, stops
<1>7. /\ Len(stops) = Len(tail) + 1 /\ stops[Len(tail) + 1] = Len(n)
      /\ \A i \in 1..Len(tail) : Stretch(n, tail[i], stops[i], stops[i + 1])
  BY <1>1, <1>2, <1>5
<1>8. "CO" \in Countries
  BY CodeIs
<1> QED BY <1>1, <1>2, <1>6, <1>7, <1>8, Fits

LEMMA FitsGFMobile ==
  ASSUME NEW n \in Seq(Digits), Len(n) = 9, n[1] = "6", n[2] = "9", n[3] = "4"
  PROVE  \E f \in Formats["GF"] : Matches(Coded("GF") \o n, f)
<1> DEFINE tail == <<Sep, One("6"), One("9"), One("4"), D(6)>>
           stops == <<0, 0, 1, 2, 3, 9>>
<1>0. {"4", "6", "9"} \subseteq Signs /\ {"4", "6", "9"} \subseteq Digits
  BY DEF Signs, Digits
<1>1. tail \in Seq(Patterns) /\ Len(tail) = 5
  <2>1. Sep \in Patterns /\ One("6") \in Patterns /\ One("9") \in Patterns /\ One("4") \in Patterns /\ D(6) \in Patterns
    BY <1>0, PatternsAre
  <2> QED BY <2>1
<1>2. stops \in Seq(Nat) /\ Len(stops) = 6 /\ stops[1] = 0 /\ stops[6] = 9
  OBVIOUS
<1>3. \A p, q \in 0..9 :
        /\ q = p => Stretch(n, Sep, p, q) /\ \A d \in Signs : Stretch(n, Opt(d), p, q)
        /\ \A k \in Nat : q = p + k => Stretch(n, D(k), p, q)
        /\ \A d \in Digits : q = p + 1 /\ n[q] = d => Stretch(n, One(d), p, q) /\ Stretch(n, Opt(d), p, q)
  BY Stretches
<1>4. /\ Stretch(n, Sep, 0, 0) /\ Stretch(n, One("6"), 0, 1) /\ Stretch(n, One("9"), 1, 2) /\ Stretch(n, One("4"), 2, 3)
      /\ Stretch(n, D(6), 3, 9)
  BY <1>0, <1>3
<1>5. \A i \in 1..5 : Stretch(n, tail[i], stops[i], stops[i + 1])
  BY <1>4
<1>6. Loose("GF") \o tail \in Formats["GF"]
  BY DEF Formats
<1> HIDE DEF tail, stops
<1>7. /\ Len(stops) = Len(tail) + 1 /\ stops[Len(tail) + 1] = Len(n)
      /\ \A i \in 1..Len(tail) : Stretch(n, tail[i], stops[i], stops[i + 1])
  BY <1>1, <1>2, <1>5
<1>8. "GF" \in Countries
  BY CodeIs
<1> QED BY <1>1, <1>2, <1>6, <1>7, <1>8, Fits

LEMMA FitsGFLandline ==
  ASSUME NEW n \in Seq(Digits), Len(n) = 9, n[1] = "5", n[2] = "9", n[3] = "4"
  PROVE  \E f \in Formats["GF"] : Matches(Coded("GF") \o n, f)
<1> DEFINE tail == <<Sep, One("5"), One("9"), One("4"), D(6)>>
           stops == <<0, 0, 1, 2, 3, 9>>
<1>0. {"4", "5", "9"} \subseteq Signs /\ {"4", "5", "9"} \subseteq Digits
  BY DEF Signs, Digits
<1>1. tail \in Seq(Patterns) /\ Len(tail) = 5
  <2>1. Sep \in Patterns /\ One("5") \in Patterns /\ One("9") \in Patterns /\ One("4") \in Patterns /\ D(6) \in Patterns
    BY <1>0, PatternsAre
  <2> QED BY <2>1
<1>2. stops \in Seq(Nat) /\ Len(stops) = 6 /\ stops[1] = 0 /\ stops[6] = 9
  OBVIOUS
<1>3. \A p, q \in 0..9 :
        /\ q = p => Stretch(n, Sep, p, q) /\ \A d \in Signs : Stretch(n, Opt(d), p, q)
        /\ \A k \in Nat : q = p + k => Stretch(n, D(k), p, q)
        /\ \A d \in Digits : q = p + 1 /\ n[q] = d => Stretch(n, One(d), p, q) /\ Stretch(n, Opt(d), p, q)
  BY Stretches
<1>4. /\ Stretch(n, Sep, 0, 0) /\ Stretch(n, One("5"), 0, 1) /\ Stretch(n, One("9"), 1, 2) /\ Stretch(n, One("4"), 2, 3)
      /\ Stretch(n, D(6), 3, 9)
  BY <1>0, <1>3
<1>5. \A i \in 1..5 : Stretch(n, tail[i], stops[i], stops[i + 1])
  BY <1>4
<1>6. Loose("GF") \o tail \in Formats["GF"]
  BY DEF Formats
<1> HIDE DEF tail, stops
<1>7. /\ Len(stops) = Len(tail) + 1 /\ stops[Len(tail) + 1] = Len(n)
      /\ \A i \in 1..Len(tail) : Stretch(n, tail[i], stops[i], stops[i + 1])
  BY <1>1, <1>2, <1>5
<1>8. "GF" \in Countries
  BY CodeIs
<1> QED BY <1>1, <1>2, <1>6, <1>7, <1>8, Fits

LEMMA FitsShort ==
  ASSUME NEW c \in Countries, NEW n \in Seq(Digits), NEW r \in Patterns, Stretch(n, r, 0, Len(n))
  PROVE  Matches(Coded(c) \o n, Loose(c) \o <<Sep, r>>)
<1> DEFINE tail == <<Sep, r>>
           w == Len(n)
           stops == <<0, 0, w>>
<1>0. w \in Nat
  OBVIOUS
<1>1. tail \in Seq(Patterns) /\ Len(tail) = 2
  <2>1. Sep \in Patterns
    BY PatternsAre
  <2> QED BY <2>1
<1>2. stops \in Seq(Nat) /\ Len(stops) = 3 /\ stops[1] = 0 /\ stops[3] = w
  BY <1>0
<1>3. Stretch(n, Sep, 0, 0)
  <2>1. 0 \in 0..Len(n)
    BY <1>0
  <2> QED BY <2>1, Stretches
<1>4. \A i \in 1..2 : Stretch(n, tail[i], stops[i], stops[i + 1])
  BY <1>3
<1> HIDE DEF tail, stops
<1>5. /\ Len(stops) = Len(tail) + 1 /\ stops[Len(tail) + 1] = Len(n)
      /\ \A i \in 1..Len(tail) : Stretch(n, tail[i], stops[i], stops[i + 1])
  BY <1>1, <1>2, <1>4
<1>6. Matches(Coded(c) \o n, Loose(c) \o tail)
  BY <1>1, <1>2, <1>5, Fits
<1> QED BY <1>6 DEF tail

LEMMA FitsPlain ==
  ASSUME NEW c \in {"PE", "VE", "GY", "EC", "PY", "SR"}, NEW n \in Seq(Digits), Len(n) = NormalizedLen[c]
  PROVE  \E f \in Formats[c] : Matches(Coded(c) \o n, f)
<1>1. c \in Countries
  BY CodeIs
<1>2. Len(n) \in Nat /\ 0 \in 0..Len(n) /\ Len(n) \in 0..Len(n) /\ 0 + Len(n) = Len(n)
  OBVIOUS
<1>3. /\ Stretch(n, D(Len(n)), 0, Len(n))
      /\ \A l, m \in Nat : l <= Len(n) /\ Len(n) <= m => Stretch(n, Ds(l, m), 0, Len(n))
  <2>1. /\ \A k \in Nat : Len(n) = 0 + k => Stretch(n, D(k), 0, Len(n))
        /\ \A l, m \in Nat : 0 + l <= Len(n) /\ Len(n) <= 0 + m => Stretch(n, Ds(l, m), 0, Len(n))
    BY <1>2, Stretches
  <2>2. \A l, m \in Nat : 0 + l = l /\ 0 + m = m
    OBVIOUS
  <2> QED BY <1>2, <2>1, <2>2
<1>4. \E r \in Patterns : Loose(c) \o <<Sep, r>> \in Formats[c] /\ Stretch(n, r, 0, Len(n))
  <2>0. /\ \A k \in Nat : D(k) \in Patterns
        /\ \A l, m \in Nat : Ds(l, m) \in Patterns
    BY PatternsAre
  <2>1. CASE c = "PE"
    <3>1. Len(n) = 9
      BY <2>1 DEF NormalizedLen
    <3>2. Loose("PE") \o <<Sep, D(9)>> \in Formats["PE"]
      BY DEF Formats
    <3> QED BY <1>3, <2>0, <2>1, <3>1, <3>2
  <2>2. CASE c = "VE"
    <3>1. Len(n) = 10
      BY <2>2 DEF NormalizedLen
    <3>2. Loose("VE") \o <<Sep, D(10)>> \in Formats["VE"]
      BY DEF Formats
    <3> QED BY <1>3, <2>0, <2>2, <3>1, <3>2
  <2>3. CASE c = "GY"
    <3>1. Len(n) = 7
      BY <2>3 DEF NormalizedLen
    <3>2. Loose("GY") \o <<Sep, D(7)>> \in Formats["GY"]
      BY DEF Formats
    <3> QED BY <1>3, <2>0, <2>3, <3>1, <3>2
  <2>4. CASE c \in {"EC", "PY"}
    <3>1. Len(n) = 9
      BY <2>4 DEF NormalizedLen
    <3>2. /\ Loose("EC") \o <<Sep, Ds(8, 9)>> \in Formats["EC"]
          /\ Loose("PY") \o <<Sep, Ds(8, 9)>> \in Formats["PY"]
      BY DEF Formats
    <3>3. Stretch(n, Ds(8, 9), 0, Len(n)) /\ Ds(8, 9) \in Patterns
      BY <1>3, <2>0, <3>1
    <3> QED BY <2>4, <3>2, <3>3
  <2>5. CASE c = "SR"
    <3>1. Len(n) = 7
      BY <2>5 DEF NormalizedLen
    <3>2. Loose("SR") \o <<Sep, Ds(6, 7)>> \in Formats["SR"]
      BY DEF Formats
    <3>3. Stretch(n, Ds(6, 7), 0, Len(n)) /\ Ds(6, 7) \in Patterns
      BY <1>3, <2>0, <3>1
    <3> QED BY <2>5, <3>2, <3>3
  <2> QED BY <2>1, <2>2, <2>3, <2>4, <2>5
<1> QED BY <1>1, <1>4, FitsShort

---------------------------------------------------------------------------
(* The numbers that a country's formats take: of its length, and where the *)
(* formats ask for them with its first digits.                             *)
Leads(c, n) ==
  /\ c \in {"UY", "CL"} => n[1] = "9"
  /\ c = "CO" => n[1] = "3"
  /\ c = "GF" => n[1] \in {"6", "5"} /\ n[2] = "9" /\ n[3] = "4"

LEMMA FitsOne ==
  ASSUME NEW c \in Countries \ {"AR", "BO", "BR"}, NEW n \in Seq(Digits), Len(n) = Width(c), Leads(c, n)
  PROVE  \E f \in Formats[c] : Matches(Coded(c) \o n, f)
<1>1. CASE c \in {"PE", "VE", "GY", "EC", "PY", "SR"}
  <2>1. Width(c) = NormalizedLen[c]
    BY <1>1 DEF Width
  <2> QED BY <1>1, <2>1, FitsPlain
<1>2. CASE c \in {"US", "UK", "MX"}
  <2>1. Width(c) = 10
    BY <1>2 DEF Width, NormalizedLen
  <2> QED BY <1>2, <2>1, FitsUS, FitsUK, FitsMX
<1>3. CASE c = "UY"
  <2>1. Width(c) = 8
    BY <1>3 DEF Width
  <2> QED BY <1>3, <2>1, FitsUY DEF Leads
<1>4. CASE c = "CL"
  <2>1. Width(c) = 9
    BY <1>4 DEF Width, NormalizedLen
  <2> QED BY <1>4, <2>1, FitsCL DEF Leads
<1>5. CASE c = "CO"
  <2>1. Width(c) = 10
    BY <1>5 DEF Width, NormalizedLen
  <2> QED BY <1>5, <2>1, FitsCO DEF Leads
<1>6. CASE c = "GF"
  <2>1. Width(c) = 9
    BY <1>6 DEF Width, NormalizedLen
  <2> QED BY <1>6, <2>1, FitsGFMobile, FitsGFLandline DEF Leads
<1> QED BY <1>1, <1>2, <1>3, <1>4, <1>5, <1>6, CodeIs

(* Their country's rule leaves them alone.                                 *)
LEMMA RuleTwice ==
  ASSUME NEW c \in Countries \ {"AR", "BO", "BR"}, NEW n \in Seq(Digits), Len(n) = Width(c), Leads(c, n)
  PROVE  Rule(c, n) = {n}
<1>1. CASE c \in {"UY", "CL"}
  <2>1. n[1] = "9" /\ 1 \in 1..Len(n)
    BY <1>1, CodeIs DEF Leads, Width, NormalizedLen
  <2>2. "0" \in Digits /\ Len(<<"0">>) = 1 /\ <<"0">>[1] = "0" /\ <<"0">> \in Seq(Digits)
    BY DEF Digits
  <2>3. ~IsPrefix(<<"0">>, n)
    <3>1. 1 \in 1..Len(<<"0">>)
      BY <2>2
    <3> QED BY <2>1, <2>2, <3>1, PrefixIs
  <2>4. TrimPrefix(n, <<"0">>) = n
    BY <2>3 DEF TrimPrefix
  <2>5. CASE c = "UY"
    <3>1. Len(n) = 8
      BY <2>5 DEF Width
    <3>2. Len(n) # 7 /\ Len(n) # 9
      BY <3>1
    <3> QED BY <2>1, <2>4, <2>5, <3>1, <3>2, Zenon DEF Rule
  <2>6. CASE c = "CL"
    <3>1. Len(n) = 9
      BY <2>6 DEF Width, NormalizedLen
    <3> QED BY <2>4, <2>6, <3>1, Zenon DEF Rule
  <2> QED BY <1>1, <2>5, <2>6
<1>2. CASE c = "CO"
  <2>1. Len(n) = 10
    BY <1>2 DEF Width, NormalizedLen
  <2> QED BY <1>2, <2>1, Zenon DEF Rule
<1>3. CASE c \notin {"UY", "CL", "CO"}
  <2> DEFINE len == NormalizedLen[Upper(c)]
  <2>1. Upper(c) = c
    BY CodeIs DEF Upper
  <2>2. Len(n) = len /\ len \in 0..Len(n)
    <3>1. Len(n) = len
      BY <1>3, <2>1, CodeIs DEF Width
    <3>2. Len(n) \in Nat
      OBVIOUS
    <3> HIDE DEF len
    <3> QED BY <3>1, <3>2
  <2>3. Ending(n, len) = n
    <3> HIDE DEF len
    <3> QED BY <2>2, EndingIs
  <2>4. Len(n) >= len
    BY <2>2
  <2>5. Rule(c, n) = IF Len(n) >= len THEN {Ending(n, len)} ELSE {}
    BY <1>3, Zenon DEF Rule
  <2> HIDE DEF len
  <2> QED BY <2>3, <2>4, <2>5
<1> QED BY <1>1, <1>2, <1>3

---------------------------------------------------------------------------
(* What is kept of a part of a text.                                       *)
Keeps(s, C, f) ==
  /\ f \in [0..Len(s) -> Seq(Chars)]
  /\ \A i \in 1..Len(s) : f[i] = IF s[i] \in C THEN Append(f[i - 1], s[i]) ELSE f[i - 1]

Grows(s, C, f) ==
  \A q \in 0..Len(s) : \A p \in 0..q :
    /\ Len(f[p]) <= Len(f[q]) /\ \A k \in 1..Len(f[p]) : f[q][k] = f[p][k]
    /\ (\A j \in (p + 1)..q : s[j] \notin C) => Len(f[q]) = Len(f[p])
    /\ (\A j \in (p + 1)..q : s[j] \in C) => Len(f[q]) = Len(f[p]) + (q - p)

LEMMA KeptSoFar ==
  ASSUME NEW s \in Seq(Chars), NEW C, NEW f, Keeps(s, C, f)
  PROVE  Grows(s, C, f)
<1> DEFINE n == Len(s)
           Stays(p, q) == Len(f[p]) <= Len(f[q]) /\ \A k \in 1..Len(f[p]) : f[q][k] = f[p][k]
           None(p, q) == (\A j \in (p + 1)..q : s[j] \notin C) => Len(f[q]) = Len(f[p])
           All(p, q) == (\A j \in (p + 1)..q : s[j] \in C) => Len(f[q]) = Len(f[p]) + (q - p)
           Good == {q \in 0..n : \A p \in 0..q : Stays(p, q) /\ None(p, q) /\ All(p, q)}
<1>1. n \in Nat /\ n \in 0..n /\ (\A i \in 1..n : i - 1 \in 0..n /\ i \in 0..n /\ s[i] \in Chars)
      /\ \A i \in 0..n : f[i] \in Seq(Chars) /\ Len(f[i]) \in Nat
  BY DEF Keeps
<1>2. \A q \in 0..n : Stays(q, q) /\ None(q, q) /\ All(q, q)
  <2> TAKE q \in 0..n
  <2>1. Len(f[q]) \in Nat /\ q \in Nat
    BY <1>1
  <2> QED BY <2>1
<1>3. 0 \in Good
  <2>1. \A p \in 0..0 : p = 0
    OBVIOUS
  <2> HIDE DEF Stays, None, All
  <2> QED BY <1>1, <1>2, <2>1
<1>4. ASSUME NEW i \in 1..n, i - 1 \in Good PROVE i \in Good
  <2> SUFFICES ASSUME NEW p \in 0..i PROVE Stays(p, i) /\ None(p, i) /\ All(p, i)
    BY <1>1
  <2>1. CASE p = i
    BY <1>1, <1>2, <2>1
  <2>2. CASE p # i
    <3> DEFINE a == f[p]
               b == f[i - 1]
               d == f[i]
    <3>1. p \in 0..(i - 1) /\ p \in Nat /\ i \in Nat /\ p < i
      BY <2>2
    <3>2. Stays(p, i - 1) /\ None(p, i - 1) /\ All(p, i - 1)
      BY <1>4, <3>1
    <3>3. a \in Seq(Chars) /\ b \in Seq(Chars) /\ d \in Seq(Chars) /\ Len(a) \in Nat /\ Len(b) \in Nat /\ s[i] \in Chars
      BY <1>1, <3>1
    <3>4. d = IF s[i] \in C THEN Append(b, s[i]) ELSE b
      BY DEF Keeps
    <3>5. Len(a) <= Len(b) /\ \A k \in 1..Len(a) : b[k] = a[k]
      BY <3>2
    <3>6. i \in (p + 1)..i /\ \A j \in (p + 1)..(i - 1) : j \in (p + 1)..i
      BY <3>1
    <3>7. (\A j \in (p + 1)..i : s[j] \notin C) => Len(b) = Len(a) /\ s[i] \notin C
      BY <3>2, <3>6
    <3>8. (\A j \in (p + 1)..i : s[j] \in C) => Len(b) = Len(a) + ((i - 1) - p) /\ s[i] \in C
      BY <3>2, <3>6
    <3> HIDE DEF a, b, d
    <3>9. CASE s[i] \in C
      <4>1. Len(d) = Len(b) + 1 /\ \A k \in 1..Len(b) : d[k] = b[k]
        BY <3>3, <3>4, <3>9, OneMore
      <4>2. Len(a) <= Len(d) /\ \A k \in 1..Len(a) : d[k] = a[k]
        BY <3>3, <3>5, <4>1
      <4>3. (\A j \in (p + 1)..i : s[j] \in C) => Len(d) = Len(a) + (i - p)
        BY <3>1, <3>3, <3>8, <4>1
      <4>4. ~\A j \in (p + 1)..i : s[j] \notin C
        BY <3>6, <3>9
      <4> QED BY <4>2, <4>3, <4>4 DEF a, d
    <3>10. CASE s[i] \notin C
      <4>1. d = b
        BY <3>4, <3>10
      <4>2. (\A j \in (p + 1)..i : s[j] \notin C) => Len(d) = Len(a)
        BY <3>7, <4>1
      <4>3. ~\A j \in (p + 1)..i : s[j] \in C
        BY <3>6, <3>10
      <4>4. Len(a) <= Len(d) /\ \A k \in 1..Len(a) : d[k] = a[k]
        BY <3>5, <4>1
      <4> QED BY <4>2, <4>3, <4>4 DEF a, d
    <3> QED BY <3>9, <3>10
  <2> QED BY <2>1, <2>2
<1>5. \A q \in 0..n : q \in Good
  <2> HIDE DEF Good
  <2>1. \A i \in 1..n : i - 1 \in Good => i \in Good
    BY <1>4
  <2> QED BY <1>1, <1>3, <2>1, UpTo
<1> QED BY <1>5 DEF Grows

(* How many digits there are where each repetition ends.                   *)
Counts(format, K, L) ==
  /\ L \in [0..Len(format) -> Nat]
  /\ \A i \in 1..Len(format) :
       /\ format[i] = Sep => L[i] = L[i - 1]
       /\ \A k \in Nat : format[i] = D(k) => L[i] = L[i - 1] + k
       /\ \A d \in Digits : format[i] = One(d) => L[i] = L[i - 1] + 1 /\ K[L[i]] = d

LEMMA Counted ==
  ASSUME NEW text \in Seq(Chars), NEW format \in Seq(Patterns), Matches(text, format)
  PROVE  \E L : /\ Counts(format, Keeping(text, Digits), L)
                /\ L[Len(format)] = Len(Keeping(text, Digits))
<1> DEFINE n == Len(format)
           K == Keeping(text, Digits)
<1>1. PICK path : Walk(text, format, path) /\ path[n] = Len(text)
  BY MatchesWalk
<1> DEFINE C == Digits
<1> HIDE DEF C
<1>2. PICK f \in [0..Len(text) -> Seq(Chars)] :
        /\ f[0] = <<>> /\ Keeping(text, C) = f[Len(text)]
        /\ \A i \in 1..Len(text) : f[i] = IF text[i] \in C THEN Append(f[i - 1], text[i]) ELSE f[i - 1]
  BY KeepingIs, SMTT(40)
<1>3. \A q \in 0..Len(text) : \A p \in 0..q :
           /\ Len(f[p]) <= Len(f[q]) /\ \A k \in 1..Len(f[p]) : f[q][k] = f[p][k]
           /\ (\A j \in (p + 1)..q : text[j] \notin C) => Len(f[q]) = Len(f[p])
           /\ (\A j \in (p + 1)..q : text[j] \in C) => Len(f[q]) = Len(f[p]) + (q - p)
  <2>1. Keeps(text, C, f)
    BY <1>2 DEF Keeps
  <2>2. Grows(text, C, f)
    BY <2>1, KeptSoFar
  <2> QED BY <2>2 DEF Grows
<1>a. K = f[Len(text)]
  BY <1>2 DEF C
<1> USE DEF C
<1> HIDE DEF K
<1>4. /\ path \in [0..n -> Nat] /\ path[0] = 0 /\ n \in Nat /\ Len(text) \in Nat
      /\ \A i \in 1..n : Stretch(text, format[i], path[i - 1], path[i])
  BY <1>1 DEF Walk
<1>5. \A i \in 1..n : i - 1 \in 0..n /\ i \in 0..n /\ path[i - 1] \in Nat /\ path[i] \in Nat
                      /\ path[i - 1] <= path[i] /\ path[i] <= Len(text)
  <2> TAKE i \in 1..n
  <2>1. i - 1 \in 0..n /\ i \in 0..n
    OBVIOUS
  <2>2. path[i - 1] \in Nat /\ path[i] \in Nat
    BY <1>4, <2>1
  <2>3. format[i].min \in Nat
    <3>1. format[i] \in Patterns
      OBVIOUS
    <3> QED BY <3>1 DEF Patterns
  <2>4. path[i - 1] + format[i].min <= path[i] /\ path[i] <= Len(text)
    BY <1>4 DEF Stretch
  <2> DEFINE lo == format[i].min
  <2> HIDE DEF lo
  <2>5. lo \in Nat /\ path[i - 1] + lo <= path[i]
    BY <2>3, <2>4 DEF lo
  <2> QED BY <2>1, <2>2, <2>4, <2>5
<1>6. \A i \in 0..n : path[i] \in 0..Len(text)
  <2> TAKE i \in 0..n
  <2>1. CASE i = 0
    BY <1>4, <2>1
  <2>2. CASE i # 0
    <3>1. i \in 1..n
      BY <2>2
    <3> QED BY <1>5, <3>1
  <2> QED BY <2>1, <2>2
<1> DEFINE L == [i \in 0..n |-> Len(f[path[i]])]
<1>7. L \in [0..n -> Nat] /\ \A i \in 0..n : L[i] = Len(f[path[i]])
  <2>1. \A i \in 0..n : Len(f[path[i]]) \in Nat
    BY <1>6
  <2> QED BY <2>1
<1> HIDE DEF L
<1>8. L[n] = Len(K)
  <2>1. n \in 0..n
    BY <1>4
  <2> QED BY <1>1, <1>a, <1>7, <2>1
<1>9. ASSUME NEW i \in 1..n
      PROVE  /\ format[i] = Sep => L[i] = L[i - 1]
             /\ \A k \in Nat : format[i] = D(k) => L[i] = L[i - 1] + k
             /\ \A d \in Digits : format[i] = One(d) => L[i] = L[i - 1] + 1 /\ K[L[i]] = d
  <2> DEFINE p == path[i - 1]
             q == path[i]
             r == format[i]
  <2>1. q \in 0..Len(text) /\ p \in 0..q /\ p \in Nat /\ q \in Nat
    BY <1>4, <1>5
  <2>2. /\ (\A j \in (p + 1)..q : text[j] \notin Digits) => Len(f[q]) = Len(f[p])
        /\ (\A j \in (p + 1)..q : text[j] \in Digits) => Len(f[q]) = Len(f[p]) + (q - p)
    BY <1>3, <2>1
  <2>3. p + r.min <= q /\ q <= p + r.max /\ \A j \in (p + 1)..q : text[j] \in r.of
    BY <1>4 DEF Stretch
  <2>4. L[i - 1] = Len(f[p]) /\ L[i] = Len(f[q]) /\ Len(f[p]) \in Nat
    BY <1>5, <1>7
  <2>5. Len(f[q]) <= Len(K) /\ \A k \in 1..Len(f[q]) : K[k] = f[q][k]
    <3>1. Len(text) \in 0..Len(text) /\ q \in 0..Len(text)
      BY <1>4, <2>1
    <3> QED BY <1>a, <1>3, <3>1
  <2> HIDE DEF p, q, r
  <2>6. ASSUME r = Sep PROVE L[i] = L[i - 1]
    <3>1. \A j \in (p + 1)..q : text[j] \in {"-", ".", " "}
      BY <2>3, <2>6, PatternsAre
    <3>2. {"-", ".", " "} \cap Digits = {}
      BY DEF Digits
    <3> QED BY <2>2, <2>4, <3>1, <3>2
  <2>7. ASSUME NEW k \in Nat, r = D(k) PROVE L[i] = L[i - 1] + k
    <3>1. r.of = Digits /\ r.min = k /\ r.max = k
      BY <2>7, PatternsAre
    <3>2. q - p = k
      BY <2>1, <2>3, <3>1
    <3> QED BY <2>2, <2>3, <2>4, <3>1, <3>2
  <2>8. ASSUME NEW d \in Digits, r = One(d) PROVE L[i] = L[i - 1] + 1 /\ K[L[i]] = d
    <3>1. r.of = {d} /\ r.min = 1 /\ r.max = 1
      BY <2>8, PatternsAre DEF Signs
    <3>2. q = p + 1
      BY <2>1, <2>3, <3>1
    <3>3. q \in (p + 1)..q
      BY <2>1, <3>2
    <3>4. text[q] = d /\ text[q] \in Digits /\ q \in 1..Len(text) /\ q - 1 = p
      BY <2>1, <2>3, <3>1, <3>2, <3>3
    <3>5. f[q] = Append(f[p], d)
      <4>1. f[q] = IF text[q] \in C THEN Append(f[q - 1], text[q]) ELSE f[q - 1]
        BY <1>2, <3>4
      <4> QED BY <3>4, <4>1
    <3>6. f[p] \in Seq(Chars) /\ d \in Chars
      <4>1. p \in 0..Len(text) /\ d \in Chars
        BY <2>1, <3>4
      <4> QED BY <1>2, <4>1
    <3>7. Len(f[q]) = Len(f[p]) + 1 /\ f[q][Len(f[p]) + 1] = d
      BY <3>5, <3>6, OneMore
    <3>8. Len(f[q]) \in 1..Len(f[q])
      BY <2>4, <3>7
    <3> QED BY <2>4, <2>5, <3>7, <3>8
  <2> QED BY <2>6, <2>7, <2>8 DEF r
<1> QED BY <1>7, <1>8, <1>9 DEF Counts, K

(* The same for the last repetitions of a format.                          *)
EndsWith(format, tail) ==
  \E b \in Nat : Len(format) = b + Len(tail) /\ \A i \in 1..Len(tail) : format[b + i] = tail[i]

LEMMA CountedLast ==
  ASSUME NEW text \in Seq(Chars), NEW format \in Seq(Patterns), Matches(text, format),
         NEW tail \in Seq(Patterns), EndsWith(format, tail)
  PROVE  \E L : /\ Counts(tail, Keeping(text, Digits), L)
                /\ L[Len(tail)] = Len(Keeping(text, Digits))
<1> DEFINE m == Len(tail)
           K == Keeping(text, Digits)
<1>1. PICK L : Counts(format, K, L) /\ L[Len(format)] = Len(K)
  BY Counted
<1> HIDE DEF K
<1>a. PICK b \in Nat : Len(format) = b + Len(tail) /\ \A i \in 1..Len(tail) : format[b + i] = tail[i]
  BY DEF EndsWith
<1> DEFINE M == [i \in 0..m |-> L[b + i]]
<1>2. m \in Nat /\ m \in 0..m /\ \A i \in 0..m : b + i \in 0..Len(format)
  BY <1>a
<1>3. M \in [0..m -> Nat] /\ \A i \in 0..m : M[i] = L[b + i]
  <2>1. \A i \in 0..m : L[b + i] \in Nat
    BY <1>1, <1>2 DEF Counts
  <2> QED BY <2>1
<1> HIDE DEF M
<1>4. M[m] = Len(K)
  BY <1>1, <1>2, <1>3, <1>a
<1>5. ASSUME NEW i \in 1..m
      PROVE  /\ tail[i] = Sep => M[i] = M[i - 1]
             /\ \A k \in Nat : tail[i] = D(k) => M[i] = M[i - 1] + k
             /\ \A d \in Digits : tail[i] = One(d) => M[i] = M[i - 1] + 1 /\ K[M[i]] = d
  <2> DEFINE j == b + i
  <2>1. j \in 1..Len(format) /\ i \in 0..m /\ i - 1 \in 0..m /\ b + (i - 1) = j - 1
    BY <1>2, <1>a
  <2>2. format[j] = tail[i] /\ M[i] = L[j]
    BY <1>3, <1>a, <2>1
  <2> HIDE DEF j
  <2>3. M[i - 1] = L[j - 1]
    BY <1>3, <2>1
  <2> QED BY <1>1, <2>1, <2>2, <2>3 DEF Counts
<1> QED BY <1>3, <1>4, <1>5 DEF Counts, K

LEMMA EndsConcat ==
  ASSUME NEW h \in Seq(Patterns), NEW u \in Seq(Patterns), NEW tail \in Seq(Patterns), EndsWith(u, tail)
  PROVE  EndsWith(h \o u, tail)
<1> DEFINE f == h \o u
<1>1. PICK b \in Nat : Len(u) = b + Len(tail) /\ \A i \in 1..Len(tail) : u[b + i] = tail[i]
  BY DEF EndsWith
<1>2. /\ Len(f) = Len(h) + Len(u) /\ Len(h) \in Nat /\ Len(u) \in Nat /\ Len(tail) \in Nat
      /\ \A i \in 1..(Len(h) + Len(u)) : f[i] = IF i <= Len(h) THEN h[i] ELSE u[i - Len(h)]
  BY ConcatProperties
<1> HIDE DEF f
<1> DEFINE d == Len(h) + b
<1>3. d \in Nat /\ Len(f) = d + Len(tail)
  BY <1>1, <1>2
<1>4. ASSUME NEW i \in 1..Len(tail) PROVE f[d + i] = tail[i]
  <2> DEFINE j == d + i
  <2>1. j \in 1..(Len(h) + Len(u)) /\ ~(j <= Len(h)) /\ j - Len(h) = b + i
    BY <1>1, <1>2
  <2> HIDE DEF j
  <2>2. f[j] = u[b + i]
    BY <1>2, <2>1
  <2> QED BY <1>1, <2>2 DEF j
<1> HIDE DEF d
<1> QED BY <1>3, <1>4 DEF EndsWith, f

---------------------------------------------------------------------------
(* What the formats of Chile, Colombia and French Guiana end with.         *)
ChileTail == <<One("9"), Sep, D(4), Sep, D(4)>>
ColombiaTail == <<One("3"), D(2), Sep, D(3), Sep, D(4)>>
GuianaTail(d) == <<One(d), One("9"), One("4"), D(6)>>

LEMMA TailsAre ==
  /\ ChileTail \in Seq(Patterns) /\ ColombiaTail \in Seq(Patterns)
  /\ \A d \in {"6", "5"} : GuianaTail(d) \in Seq(Patterns)
<1>0. Digits \subseteq Signs /\ {"3", "4", "5", "6", "9"} \subseteq Digits
  BY DEF Signs, Digits
<1>1. /\ Sep \in Patterns /\ (\A k \in Nat : D(k) \in Patterns)
      /\ One("9") \in Patterns /\ One("3") \in Patterns /\ One("4") \in Patterns
      /\ \A d \in {"6", "5"} : One(d) \in Patterns
  BY <1>0, PatternsAre
<1>2. ChileTail \in Seq(Patterns)
  BY <1>1 DEF ChileTail
<1>3. ColombiaTail \in Seq(Patterns)
  BY <1>1 DEF ColombiaTail
<1>4. \A d \in {"6", "5"} : GuianaTail(d) \in Seq(Patterns)
  <2> TAKE d \in {"6", "5"}
  <2>1. One(d) \in Patterns
    BY <1>1
  <2> QED BY <1>1, <2>1 DEF GuianaTail
<1> QED BY <1>2, <1>3, <1>4

LEMMA FormatEnds ==
  ASSUME NEW c \in {"CL", "CO", "GF"}, NEW f \in Formats[c]
  PROVE  /\ f \in Seq(Patterns)
         /\ c = "CL" => EndsWith(f, ChileTail)
         /\ c = "CO" => EndsWith(f, ColombiaTail)
         /\ c = "GF" => \E d \in {"6", "5"} : EndsWith(f, GuianaTail(d))
<1>0. Digits \subseteq Signs /\ {"0", "3", "4", "5", "6", "9"} \subseteq Digits
  BY DEF Signs, Digits
<1>1. /\ Sep \in Patterns /\ (\A k \in Nat : D(k) \in Patterns) /\ Opt("0") \in Patterns
      /\ One("9") \in Patterns /\ One("3") \in Patterns /\ One("4") \in Patterns
      /\ One("6") \in Patterns /\ One("5") \in Patterns
  BY <1>0, PatternsAre
<1>2. Full(c) \in Seq(Patterns) /\ Loose(c) \in Seq(Patterns)
  <2>1. c \in Countries
    BY CodeIs
  <2> QED BY <2>1, HeadIs
<1>3. ASSUME NEW u \in Seq(Patterns), NEW t \in Seq(Patterns), EndsWith(u, t), NEW h \in {Full(c), Loose(c)}
      PROVE  h \o u \in Seq(Patterns) /\ EndsWith(h \o u, t)
  <2>1. h \in Seq(Patterns)
    BY <1>2
  <2> QED BY <1>3, <2>1, EndsConcat, ConcatProperties
<1>4. CASE c = "CL"
  <2> DEFINE u == <<Sep, One("9"), Sep, D(4), Sep, D(4)>>
             w == <<Opt("0"), One("9"), Sep, D(4), Sep, D(4)>>
  <2>1. f = Full("CL") \o u \/ f = w
    BY <1>4 DEF Formats
  <2>2. u \in Seq(Patterns) /\ w \in Seq(Patterns)
    BY <1>1
  <2>3. /\ Len(u) = 1 + Len(ChileTail) /\ Len(w) = 1 + Len(ChileTail)
        /\ \A i \in 1..Len(ChileTail) : u[1 + i] = ChileTail[i] /\ w[1 + i] = ChileTail[i]
    BY DEF ChileTail
  <2> HIDE DEF u, w
  <2>4. EndsWith(u, ChileTail) /\ EndsWith(w, ChileTail)
    BY <2>3 DEF EndsWith
  <2> QED BY <1>3, <1>4, <2>1, <2>2, <2>4, TailsAre
<1>5. CASE c = "CO"
  <2> DEFINE u == <<Sep, One("3"), D(2), Sep, D(3), Sep, D(4)>>
  <2>1. f = Full("CO") \o u \/ f = ColombiaTail
    BY <1>5 DEF Formats, ColombiaTail
  <2>2. u \in Seq(Patterns)
    BY <1>1
  <2>3. /\ Len(u) = 1 + Len(ColombiaTail)
        /\ \A i \in 1..Len(ColombiaTail) : u[1 + i] = ColombiaTail[i]
    BY DEF ColombiaTail
  <2> HIDE DEF u
  <2>4. EndsWith(u, ColombiaTail)
    BY <2>3 DEF EndsWith
  <2>5. EndsWith(ColombiaTail, ColombiaTail)
    <3> DEFINE t == ColombiaTail
    <3>1. t \in Seq(Patterns)
      BY TailsAre
    <3> HIDE DEF t
    <3>2. 0 \in Nat /\ Len(t) = 0 + Len(t) /\ \A i \in 1..Len(t) : t[0 + i] = t[i]
      BY <3>1
    <3> QED BY <3>2 DEF EndsWith, t
  <2> QED BY <1>3, <1>5, <2>1, <2>2, <2>4, <2>5, TailsAre
<1>6. CASE c = "GF"
  <2> DEFINE u(d) == <<Sep, One(d), One("9"), One("4"), D(6)>>
             w == <<Opt("0"), One("6"), One("9"), One("4"), D(6)>>
  <2>1. f = Loose("GF") \o u("6") \/ f = w \/ f = Loose("GF") \o u("5")
    BY <1>6 DEF Formats
  <2>2. u("6") \in Seq(Patterns) /\ u("5") \in Seq(Patterns) /\ w \in Seq(Patterns)
    BY <1>1
  <2>3. /\ Len(w) = 1 + Len(GuianaTail("6"))
        /\ \A i \in 1..Len(GuianaTail("6")) : w[1 + i] = GuianaTail("6")[i]
    BY DEF GuianaTail
  <2>4. ASSUME NEW d \in {"6", "5"}
        PROVE  /\ Len(u(d)) = 1 + Len(GuianaTail(d))
               /\ \A i \in 1..Len(GuianaTail(d)) : u(d)[1 + i] = GuianaTail(d)[i]
    BY DEF GuianaTail
  <2> HIDE DEF u, w
  <2>5. EndsWith(w, GuianaTail("6")) /\ EndsWith(u("6"), GuianaTail("6")) /\ EndsWith(u("5"), GuianaTail("5"))
    BY <2>3, <2>4 DEF EndsWith
  <2>6. GuianaTail("6") \in Seq(Patterns) /\ GuianaTail("5") \in Seq(Patterns)
    BY TailsAre
  <2>7. CASE f = Loose("GF") \o u("6")
    BY <1>3, <1>6, <2>2, <2>5, <2>6, <2>7
  <2>8. CASE f = Loose("GF") \o u("5")
    BY <1>3, <1>6, <2>2, <2>5, <2>6, <2>8
  <2>9. CASE f = w
    BY <1>6, <2>2, <2>5, <2>9
  <2> QED BY <2>1, <2>7, <2>8, <2>9
<1> QED BY <1>4, <1>5, <1>6

(* The first of the digits that such a text ends with.                     *)
LEMMA LastDigits ==
  ASSUME NEW c \in {"CL", "CO", "GF"}, NEW f \in Formats[c], NEW text \in Seq(Chars), Matches(text, f)
  PROVE  LET K == Keeping(text, Digits) IN
         /\ Len(K) \in Nat
         /\ c = "CL" => Len(K) >= 9 /\ K[Len(K) - 8] = "9"
         /\ c = "CO" => Len(K) >= 10 /\ K[Len(K) - 9] = "3"
         /\ c = "GF" => /\ Len(K) >= 9 /\ K[Len(K) - 8] \in {"6", "5"}
                        /\ K[Len(K) - 7] = "9" /\ K[Len(K) - 6] = "4"
<1> DEFINE K == Keeping(text, Digits)
<1>1. f \in Seq(Patterns)
  BY FormatEnds
<1>2. \A t \in Seq(Patterns) : EndsWith(f, t) => \E L : Counts(t, K, L) /\ L[Len(t)] = Len(K)
  BY <1>1, CountedLast
<1>3. Len(K) \in Nat
  <2>1. K \in Seq(Chars)
    BY KeepingOf
  <2> HIDE DEF K
  <2> QED BY <2>1
<1> HIDE DEF K
<1>0. {"3", "4", "5", "6", "9"} \subseteq Digits
  BY DEF Digits
<1>4. CASE c = "CL"
  <2> DEFINE t == ChileTail
  <2>1. PICK L : Counts(t, K, L) /\ L[Len(t)] = Len(K)
    BY <1>2, <1>4, FormatEnds, TailsAre
  <2>2. /\ Len(t) = 5 /\ t[1] = One("9") /\ t[2] = Sep /\ t[3] = D(4) /\ t[4] = Sep /\ t[5] = D(4)
    BY DEF ChileTail
  <2> HIDE DEF t
  <2>3. L[0] \in Nat /\ L[1] = L[0] + 1 /\ K[L[1]] = "9"
    BY <1>0, <2>1, <2>2 DEF Counts
  <2>4. L[2] = L[1] /\ L[3] = L[2] + 4 /\ L[4] = L[3] /\ L[5] = L[4] + 4
    BY <2>1, <2>2 DEF Counts
  <2>5. Len(K) >= 9 /\ Len(K) - 8 = L[1]
    BY <1>3, <2>1, <2>2, <2>3, <2>4
  <2> QED BY <1>3, <1>4, <2>3, <2>5 DEF K
<1>5. CASE c = "CO"
  <2> DEFINE t == ColombiaTail
  <2>1. PICK L : Counts(t, K, L) /\ L[Len(t)] = Len(K)
    BY <1>2, <1>5, FormatEnds, TailsAre
  <2>2. /\ Len(t) = 6 /\ t[1] = One("3") /\ t[2] = D(2) /\ t[3] = Sep /\ t[4] = D(3) /\ t[5] = Sep /\ t[6] = D(4)
    BY DEF ColombiaTail
  <2> HIDE DEF t
  <2>3. L[0] \in Nat /\ L[1] = L[0] + 1 /\ K[L[1]] = "3"
    BY <1>0, <2>1, <2>2 DEF Counts
  <2>4. L[2] = L[1] + 2 /\ L[3] = L[2] /\ L[4] = L[3] + 3 /\ L[5] = L[4] /\ L[6] = L[5] + 4
    BY <2>1, <2>2 DEF Counts
  <2>5. Len(K) >= 10 /\ Len(K) - 9 = L[1]
    BY <1>3, <2>1, <2>2, <2>3, <2>4
  <2> QED BY <1>3, <1>5, <2>3, <2>5 DEF K
<1>6. CASE c = "GF"
  <2>0. PICK d \in {"6", "5"} : EndsWith(f, GuianaTail(d))
    BY <1>6, FormatEnds
  <2> DEFINE t == GuianaTail(d)
  <2>1. PICK L : Counts(t, K, L) /\ L[Len(t)] = Len(K)
    BY <1>2, <2>0, TailsAre
  <2>2. /\ Len(t) = 4 /\ t[1] = One(d) /\ t[2] = One("9") /\ t[3] = One("4") /\ t[4] = D(6)
    BY DEF GuianaTail
  <2> HIDE DEF t
  <2>3. d \in Digits
    BY <1>0
  <2>4. L[0] \in Nat /\ L[1] = L[0] + 1 /\ K[L[1]] = d
    BY <2>1, <2>2, <2>3 DEF Counts
  <2>5. L[2] = L[1] + 1 /\ K[L[2]] = "9" /\ L[3] = L[2] + 1 /\ K[L[3]] = "4" /\ L[4] = L[3] + 6
    BY <1>0, <2>1, <2>2 DEF Counts
  <2>6. Len(K) >= 9 /\ Len(K) - 8 = L[1] /\ Len(K) - 7 = L[2] /\ Len(K) - 6 = L[3]
    BY <1>3, <2>1, <2>2, <2>4, <2>5
  <2> QED BY <1>3, <1>6, <2>4, <2>5, <2>6 DEF K
<1> QED BY <1>4, <1>5, <1>6

---------------------------------------------------------------------------
(* The rules of these countries take the last digits.                      *)
Suffix(t, s) == Len(t) <= Len(s) /\ \A i \in 1..Len(t) : t[i] = s[(Len(s) - Len(t)) + i]

LEMMA SuffixTwice ==
  ASSUME NEW S, NEW a \in Seq(S), NEW b \in Seq(S), NEW d \in Seq(S), Suffix(a, b), Suffix(b, d)
  PROVE  Suffix(a, d)
<1> DEFINE k == Len(a)
           m == Len(b)
           n == Len(d)
<1>1. k \in Nat /\ m \in Nat /\ n \in Nat /\ k <= m /\ m <= n
  BY DEF Suffix
<1>2. (\A i \in 1..k : a[i] = b[(m - k) + i]) /\ (\A i \in 1..m : b[i] = d[(n - m) + i])
  BY DEF Suffix
<1> HIDE DEF k, m, n
<1>3. ASSUME NEW i \in 1..k PROVE a[i] = d[(n - k) + i]
  <2> DEFINE j == (m - k) + i
  <2>1. j \in 1..m /\ (n - m) + j = (n - k) + i
    BY <1>1
  <2> HIDE DEF j
  <2>2. a[i] = b[j]
    BY <1>2 DEF j
  <2>3. b[j] = d[(n - m) + j]
    BY <1>2, <2>1
  <2> QED BY <2>1, <2>2, <2>3
<1> QED BY <1>1, <1>3 DEF Suffix, k, m, n

LEMMA SliceSuffix ==
  ASSUME NEW S, NEW s \in Seq(S), NEW a \in 1..(Len(s) + 1)
  PROVE  Suffix(SubSeq(s, a, Len(s)), s)
<1> DEFINE n == Len(s)
           t == SubSeq(s, a, n)
<1>1. n \in Nat /\ a \in Nat \ {0} /\ n \in 0..Len(s) /\ a <= n + 1
  OBVIOUS
<1>2. /\ Len(t) = n - a + 1 /\ \A i \in 1..(n - a + 1) : t[i] = s[a + i - 1]
  BY <1>1, Slice
<1> HIDE DEF t, n
<1>3. Len(t) <= n /\ \A i \in 1..Len(t) : i \in 1..(n - a + 1) /\ a + i - 1 = (n - Len(t)) + i
  BY <1>1, <1>2
<1>4. ASSUME NEW i \in 1..Len(t) PROVE t[i] = s[(n - Len(t)) + i]
  <2>1. i \in 1..(n - a + 1) /\ a + i - 1 = (n - Len(t)) + i
    BY <1>3
  <2>2. t[i] = s[a + i - 1]
    BY <1>2, <2>1
  <2> QED BY <2>1, <2>2
<1> QED BY <1>3, <1>4 DEF Suffix, t, n

LEMMA TrimSuffix ==
  ASSUME NEW S, NEW p \in Seq(S), NEW s \in Seq(S)
  PROVE  Suffix(TrimPrefix(s, p), s)
<1>1. CASE IsPrefix(p, s)
  <2>1. Len(p) + 1 \in 1..(Len(s) + 1)
    BY <1>1 DEF IsPrefix
  <2> QED BY <1>1, <2>1, SliceSuffix DEF TrimPrefix
<1>2. CASE ~IsPrefix(p, s)
  <2>1. Len(s) \in Nat /\ \A i \in 1..Len(s) : (Len(s) - Len(s)) + i = i
    OBVIOUS
  <2>2. Suffix(s, s)
    BY <2>1 DEF Suffix
  <2> QED BY <1>2, <2>2 DEF TrimPrefix
<1> QED BY <1>1, <1>2

LEMMA RuleSuffix ==
  ASSUME NEW c \in {"CL", "CO", "GF"}, NEW K \in Seq(Digits),
         NEW n \in Rule(c, TrimPrefix(K, Code[c]))
  PROVE  n \in Seq(Digits) /\ Len(n) = Width(c) /\ Suffix(n, K)
<1> DEFINE g == TrimPrefix(K, Code[c])
           d == TrimPrefix(g, <<"0">>)
<1>1. c \in Countries /\ Upper(c) = c
  BY CodeIs DEF Upper
<1>2. Code[c] \in Seq(Digits) /\ <<"0">> \in Seq(Digits)
  <2>1. "0" \in Digits
    BY DEF Digits
  <2> QED BY <1>1, <2>1, CodeType
<1>3. g \in Seq(Digits) /\ Suffix(g, K)
  BY <1>2, PrefixTrimmed, TrimSuffix
<1> HIDE DEF g
<1>4. d \in Seq(Digits) /\ Suffix(d, g)
  BY <1>2, <1>3, PrefixTrimmed, TrimSuffix
<1>5. n \in Rule(c, g)
  BY DEF g
<1>6. n \in Seq(Digits) /\ Len(n) = Width(c)
  BY <1>1, <1>3, <1>5, RuleIs
<1>7. Suffix(n, g)
  <2>1. CASE c = "CL"
    <3>1. n = d
      BY <1>5, <2>1 DEF Rule
    <3> QED BY <1>4, <3>1
  <2>2. CASE c = "CO"
    <3>1. n = g
      BY <1>5, <2>2 DEF Rule
    <3>2. Len(g) \in Nat /\ \A i \in 1..Len(g) : (Len(g) - Len(g)) + i = i
      BY <1>3
    <3> QED BY <3>1, <3>2 DEF Suffix
  <2>3. CASE c = "GF"
    <3> DEFINE len == NormalizedLen[Upper(c)]
    <3>1. Len(g) >= len /\ n = Ending(g, len)
      BY <1>5, <2>3 DEF Rule
    <3>2. len = 9
      BY <1>1, <2>3 DEF NormalizedLen
    <3>3. Len(g) - 9 + 1 \in 1..(Len(g) + 1)
      BY <1>3, <3>1, <3>2
    <3>4. n = SubSeq(g, Len(g) - 9 + 1, Len(g))
      BY <3>1, <3>2 DEF Ending
    <3> QED BY <1>3, <3>3, <3>4, SliceSuffix
  <2> QED BY <2>1, <2>2, <2>3
<1> QED BY <1>3, <1>6, <1>7, SuffixTwice

LEMMA LeadsIs ==
  ASSUME NEW c \in Countries \ {"AR", "BO", "BR"}, NEW text \in Seq(Chars),
         NEW f \in Formats[c], Matches(text, f),
         NEW n \in Rule(c, TrimPrefix(Keeping(text, Digits), Code[c]))
  PROVE  Leads(c, n)
<1> DEFINE K == Keeping(text, Digits)
           g == TrimPrefix(K, Code[c])
<1>1. K \in Seq(Digits)
  <2>1. K \in Seq(Chars) /\ \A i \in 1..Len(K) : K[i] \in Digits
    BY KeepingOf
  <2> HIDE DEF K
  <2> QED BY <2>1
<1>2. CASE c = "UY"
  <2> DEFINE d == TrimPrefix(g, <<"0">>)
  <2>1. g \in Seq(Digits)
    <3>1. Code[c] \in Seq(Digits)
      BY CodeType
    <3> HIDE DEF K
    <3> QED BY <1>1, <3>1, PrefixTrimmed
  <2>2. d \in Seq(Digits)
    <3>1. <<"0">> \in Seq(Digits)
      <4>1. "0" \in Digits
        BY DEF Digits
      <4> QED BY <4>1
    <3> HIDE DEF g
    <3> QED BY <2>1, <3>1, PrefixTrimmed
  <2>3. n \in Rule("UY", g)
    BY <1>2
  <2> HIDE DEF g
  <2>4. \/ n = d /\ d[1] = "9"
        \/ n = <<"9">> \o d
        \/ n = Tail(d) /\ Len(d) = 9 /\ IsPrefix(<<"9", "9">>, d)
    <3> HIDE DEF d
    <3>1. n \in Rule("UY", g) /\ d = TrimPrefix(g, <<"0">>)
      BY <2>3 DEF d
    <3>2. CASE Len(d) = 8 /\ d[1] = "9"
      BY <3>1, <3>2 DEF Rule
    <3>3. CASE Len(d) = 7
      <4>1. Len(d) # 8 /\ Len(d) # 9
        BY <3>3
      <4>2. Rule("UY", g) = {<<"9">> \o d}
        BY <3>1, <3>3, <4>1, Zenon DEF Rule
      <4> QED BY <3>1, <4>2
    <3>4. CASE Len(d) = 9 /\ IsPrefix(<<"9", "9">>, d)
      <4>1. Len(d) # 8 /\ Len(d) # 7
        BY <3>4
      <4>2. Rule("UY", g) = {Tail(d)}
        BY <3>1, <3>4, <4>1, Zenon DEF Rule
      <4> QED BY <3>1, <3>4, <4>2
    <3>5. CASE ~(Len(d) = 8 /\ d[1] = "9") /\ Len(d) # 7 /\ ~(Len(d) = 9 /\ IsPrefix(<<"9", "9">>, d))
      BY <3>1, <3>5 DEF Rule
    <3> QED BY <3>2, <3>3, <3>4, <3>5
  <2> HIDE DEF d
  <2>5. (<<"9">> \o d)[1] = "9"
    <3>1. "9" \in Digits
      BY DEF Digits
    <3>2. <<"9">> \in Seq(Digits) /\ Len(<<"9">>) = 1 /\ <<"9">>[1] = "9" /\ Len(d) \in Nat
      BY <2>2, <3>1
    <3> DEFINE h == <<"9">>
    <3>3. h \in Seq(Digits) /\ Len(h) = 1 /\ h[1] = "9" /\ 1 \in 1..(Len(h) + Len(d)) /\ 1 <= Len(h)
      BY <3>2
    <3> HIDE DEF h
    <3>4. (h \o d)[1] = "9"
      BY <2>2, <3>3, ConcatProperties
    <3> QED BY <3>4 DEF h
  <2>6. ASSUME Len(d) = 9, IsPrefix(<<"9", "9">>, d) PROVE Tail(d)[1] = "9"
    <3> DEFINE h == <<"9", "9">>
    <3>1. h \in Seq(Digits) /\ Len(h) = 2 /\ h[2] = "9"
      <4>1. "9" \in Digits
        BY DEF Digits
      <4> QED BY <4>1
    <3> HIDE DEF h
    <3>2. d[2] = "9"
      <4>1. 2 \in 1..Len(h) /\ IsPrefix(h, d)
        BY <2>6, <3>1 DEF h
      <4> QED BY <2>2, <3>1, <4>1, PrefixIs
    <3>3. d # <<>> /\ Len(d) - 1 = 8
      <4>1. Len(<<>>) = 0
        OBVIOUS
      <4> QED BY <2>6, <4>1
    <3>4. Len(Tail(d)) = 8 /\ Tail(d)[1] = d[1 + 1]
      <4>1. Len(Tail(d)) = Len(d) - 1 /\ \A i \in 1..Len(Tail(d)) : Tail(d)[i] = d[i + 1]
        BY <2>2, <3>3, HeadTailProperties
      <4> QED BY <3>3, <4>1
    <3> QED BY <3>2, <3>4
  <2> QED BY <1>2, <2>4, <2>5, <2>6 DEF Leads
<1>3. CASE c \in {"CL", "CO", "GF"}
  <2>1. n \in Seq(Digits) /\ Len(n) = Width(c) /\ Suffix(n, K)
    <3> HIDE DEF K
    <3> QED BY <1>1, <1>3, RuleSuffix DEF K
  <2>2. /\ Len(K) \in Nat
        /\ c = "CL" => Len(K) >= 9 /\ K[Len(K) - 8] = "9"
        /\ c = "CO" => Len(K) >= 10 /\ K[Len(K) - 9] = "3"
        /\ c = "GF" => /\ Len(K) >= 9 /\ K[Len(K) - 8] \in {"6", "5"}
                       /\ K[Len(K) - 7] = "9" /\ K[Len(K) - 6] = "4"
    BY <1>3, LastDigits
  <2> HIDE DEF K
  <2> DEFINE k == Len(K)
             w == Len(n)
  <2>3. \A i \in 1..w : n[i] = K[(k - w) + i]
    BY <2>1 DEF Suffix
  <2>4. CASE c = "CL"
    <3>1. w = 9
      BY <2>1, <2>4 DEF Width, NormalizedLen
    <3> HIDE DEF w, k
    <3>2. 1 \in 1..w /\ (k - w) + 1 = k - 8
      BY <2>2, <3>1 DEF k
    <3> QED BY <2>2, <2>3, <2>4, <3>2 DEF Leads, k
  <2>5. CASE c = "CO"
    <3>1. w = 10
      BY <2>1, <2>5 DEF Width, NormalizedLen
    <3> HIDE DEF w, k
    <3>2. 1 \in 1..w /\ (k - w) + 1 = k - 9
      BY <2>2, <3>1 DEF k
    <3> QED BY <2>2, <2>3, <2>5, <3>2 DEF Leads, k
  <2>6. CASE c = "GF"
    <3>1. w = 9
      BY <2>1, <2>6 DEF Width, NormalizedLen
    <3> HIDE DEF w, k
    <3>2. 1 \in 1..w /\ 2 \in 1..w /\ 3 \in 1..w /\ (k - w) + 1 = k - 8 /\ (k - w) + 2 = k - 7 /\ (k - w) + 3 = k - 6
      BY <2>2, <3>1 DEF k
    <3>3. n[1] = K[k - 8] /\ n[2] = K[k - 7] /\ n[3] = K[k - 6]
      BY <2>3, <3>2
    <3> QED BY <2>2, <2>6, <3>3 DEF Leads, k
  <2> QED BY <1>3, <2>4, <2>5, <2>6
<1>4. CASE c \notin {"UY", "CL", "CO", "GF"}
  BY <1>4 DEF Leads
<1> QED BY <1>2, <1>3, <1>4

---------------------------------------------------------------------------
(* A number of such a country is left alone when it is normalised again.   *)
LEMMA CountryTwice ==
  ASSUME NEW c \in Countries \ {"AR", "BO", "BR"}, NEW text \in Seq(Chars),
         NEW x \in NormalizeForCountry(text, c)
  PROVE  NormalizeForCountry(x, c) = {x}
<1> DEFINE t == TrimSpace(text)
           national == TrimPrefix(Keeping(t, Digits), Code[c])
<1>1. Upper(c) = c /\ c # "AR"
  BY CodeIs DEF Upper
<1>2. PICK f \in Formats[c] : Matches(t, f)
  BY <1>1 DEF NormalizeForCountry
<1>3. PICK n \in Rule(c, national) : x = Coded(c) \o n
  <2>1. NormalizeForCountry(text, c) = {<<"+">> \o Code[c] \o a : a \in Rule(c, national)}
    BY <1>1, <1>2 DEF NormalizeForCountry
  <2> HIDE DEF national
  <2> QED BY <2>1 DEF Coded
<1>4. t \in Seq(Chars)
  BY TrimType
<1> HIDE DEF t
<1>5. Leads(c, n)
  BY <1>2, <1>3, <1>4, LeadsIs
<1>6. national \in Seq(Digits)
  <2> DEFINE K == Keeping(t, Digits)
  <2>1. K \in Seq(Chars) /\ \A i \in 1..Len(K) : K[i] \in Digits
    BY <1>4, KeepingOf
  <2>2. Code[c] \in Seq(Digits)
    BY CodeType
  <2> HIDE DEF K
  <2>3. K \in Seq(Digits)
    BY <2>1
  <2>4. TrimPrefix(K, Code[c]) \in Seq(Digits)
    BY <2>2, <2>3, PrefixTrimmed
  <2> QED BY <2>4 DEF K
<1> HIDE DEF national
<1>7. n \in Seq(Digits) /\ Len(n) = Width(c)
  BY <1>1, <1>3, <1>6, RuleIs
<1>8. Rule(c, n) = {n} /\ \E g \in Formats[c] : Matches(Coded(c) \o n, g)
  BY <1>5, <1>7, FitsOne, RuleTwice
<1> QED BY <1>1, <1>3, <1>7, <1>8, Settled

(* The second pass of an asynchronous validation finds nothing to change   *)
(* in a telephone number of the default country, and nothing wrong with    *)
(* it: what the rule of a country makes of a text is of a form that this   *)
(* country has (NormalizeForCountry of phone.go).                          *)
THEOREM PhonesTwice == Spec => []PhoneReapplied
<1>1. PInv => PhoneReapplied
  <2> SUFFICES ASSUME PInv, pass = 2, Len(pipeline) = 1, OfDefault(pipeline[1], given)
               PROVE  outcome = "ok" /\ value = given
    BY DEF PhoneReapplied
  <2> DEFINE op == pipeline[1]
             c == op.country
  <2>1. op.name \in Phones /\ c \in Countries \ {"AR", "BO", "BR"} /\ IsPrefix(Coded(c), given[2])
    BY DEF OfDefault, Coded
  <2>2. Single(op)
    <3>1. op.name \notin Combining
      BY <2>1 DEF Phones, Combining
    <3> QED BY <3>1 DEF PInv
  <2> HIDE DEF op
  <2>3. PICK u : IsValue(u) /\ Ok(given) \in Apply(op, u)
    BY <2>2 DEF Single
  <2>4. Type(u) = "string" => u[2] \in Seq(Chars)
    BY <2>3 DEF IsValue, Type, Nil
  <2>5. Type(u) = "string" /\ \E x \in Numbers(op, u[2]) \cap Seq(Chars) : given = Text(x)
    BY <2>1, <2>3, <2>4, PhonesAre
  <2>6. PICK x \in Numbers(op, u[2]) \cap Seq(Chars) : given = Text(x)
    BY <2>5
  <2>7. x = given[2] /\ Type(given) = "string"
    BY <2>6, Types
  <2>8. PICK d \in {c} \cup DetectCountry(Cleaned(u[2]), c) : x \in NormalizeForCountry(u[2], d)
    <3>1. CASE op.name = "NormalizePhone"
      BY <2>6, <3>1, NumberFrom DEF Numbers
    <3>2. CASE op.name # "NormalizePhone"
      BY <2>6, <3>2 DEF Numbers
    <3> QED BY <3>1, <3>2
  <2>9. d = c
    <3>1. d \in Countries
      BY <2>1 DEF DetectCountry
    <3>2. IsPrefix(Coded(d), x)
      <4>1. IsNumberOf(d, x)
        BY <2>4, <2>5, <2>8, <3>1, NumberType
      <4> QED BY <4>1 DEF IsNumberOf, Coded
    <3> QED BY <2>1, <2>6, <2>7, <3>1, <3>2, OneCountry
  <2>10. NormalizeForCountry(x, c) = {x}
    BY <2>1, <2>4, <2>5, <2>8, <2>9, CountryTwice
  <2>11. Numbers(op, x) = {x}
    BY <2>10 DEF Numbers, NormalizePhone
  <2>12. Apply(op, given) = {Ok(given)}
    <3>1. Apply(op, given) = Phone(given, Numbers(op, given[2]))
      BY <2>1, <2>7, ApplyIs DEF Phones, Numbers
    <3>2. Phone(given, {x}) = {Ok(Text(y)) : y \in {x}}
      BY <2>7 DEF Phone
    <3> QED BY <2>6, <2>7, <2>11, <3>1, <3>2
  <2> QED BY <2>2, <2>12, RanAgain
<1> QED BY <1>1, PassesKept, PTL

(* A field with one transformer of form, or one that normalises the        *)
(* telephone numbers of its country, comes out of both passes of an        *)
(* asynchronous validation (TransformSchema and the descent) as out of the *)
(* first.                                                                  *)
THEOREM SecondPassSafe == Spec => []ReapplySafe
<1>1. FormReapplied /\ PhoneReapplied => ReapplySafe
  BY DEF ReapplySafe
<1> QED BY <1>1, FormsTwice, PhonesTwice, PTL
=============================================================================
