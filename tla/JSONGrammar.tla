----------------------------- MODULE JSONGrammar -----------------------------
(***************************************************************************)
(* JSON as a grammar: which stretches of a text are values.  The strings   *)
(* are those of the prototypes, which take any byte and decode no escape;  *)
(* numbers are read as far as they go, so that 1e is none.                 *)
(***************************************************************************)
EXTENDS Superjson

AllBlank(d, i, j) == \A k \in i..j - 1 : d[k] \in Blank

\* A backslash escapes what follows unless it is escaped itself.
Escaped(d, i, k) ==
  LET run == Max({n \in 0..k - i - 1 : \A m \in 1..n : d[k - m] = Backslash})
  IN run % 2 = 1

StringEnds(d, i) ==
  LET closing == {k \in i + 1..Len(d) : d[k] = Quote /\ ~Escaped(d, i, k)}
  IN IF d[i] # Quote \/ closing = {} THEN {} ELSE {Min(closing) + 1}

IsDigits(s) == s # <<>> /\ \A i \in DOMAIN s : s[i] \in Digits
IsInteger(s) == IsDigits(s) /\ (s[1] = Zero => Len(s) = 1)
Cut(s, i) == SubSeq(s, 1, i)
Rest(s, i) == SubSeq(s, i + 1, Len(s))
IsFraction(s) == s = <<>> \/ (s[1] = "." /\ IsDigits(Rest(s, 1)))
IsExponent(s) ==
  s = <<>> \/ (s[1] = "e" /\ \E k \in {1, 2} : /\ IsDigits(Rest(s, k))
                                               /\ k = 2 => ByteAt(s, 2) \in {"+", "-"})
IsNumber(s) ==
  \E a \in 0..1, b \in 0..Len(s), c \in 0..Len(s) :
    /\ a <= b /\ b <= c
    /\ a = 1 => ByteAt(s, 1) = "-"
    /\ IsInteger(SubSeq(s, a + 1, b))
    /\ IsFraction(SubSeq(s, b + 1, c))
    /\ IsExponent(Rest(s, c))

\* Some number begins with s.
BeginsNumber(s) == IsNumber(s) \/ IsNumber(Append(s, "1"))

NumberEnds(d, i) ==
  {j \in i + 1..Len(d) + 1 : /\ IsNumber(SubSeq(d, i, j - 1))
                             /\ j <= Len(d) => ~BeginsNumber(SubSeq(d, i, j))}

LiteralEnds(d, i) == {i + Len(l) : l \in LiteralsAt(d, i)}

\* G[i]: where the values that begin at i end, and where the lists of
\* values and of members do, with blanks around each of their items.
Derivations(d) ==
  LET Skip(i, j) == i <= j /\ AllBlank(d, i, j)
      G[i \in 1..Len(d) + 2] ==
        IF i > Len(d) THEN [value |-> {}, values |-> {}, members |-> {}]
        ELSE
        LET places == i..Len(d) + 1
            \* Ends of the values that begin at k or later, after blanks.
            From(k) == UNION {G[b].value : b \in {c \in k..Len(d) : Skip(k, c)}}
            Padded1(ends) == {j \in places : \E e \in ends : Skip(e, j)}
            At(k, b) == ByteAt(d, k) = b
            list(open, close) ==
              IF ~At(i, open) THEN {}
              ELSE {j + 1 : j \in {k \in i + 1..Len(d) : At(k, close) /\ Skip(i + 1, k)}}
                   \cup {j + 1 : j \in {k \in IF open = "{" THEN G[i + 1].members
                                              ELSE G[i + 1].values : At(k, close)}}
            value == IF d[i] \in Blank THEN {}
                     ELSE StringEnds(d, i) \cup NumberEnds(d, i) \cup LiteralEnds(d, i)
                          \cup list("{", "}") \cup list("[", "]")
            keyed == UNION {From(k + 1) : k \in {c \in Padded1(
                       UNION {StringEnds(d, b) : b \in {c \in i..Len(d) : Skip(i, c)}}) : At(c, ":")}}
            items == Padded1(value \cup UNION {G[b].value : b \in {c \in i + 1..Len(d) : Skip(i, c)}})
            then(ends, more(_)) == ends \cup UNION {more(j + 1) : j \in {k \in ends : At(k, ",")}}
        IN [value |-> value,
            values |-> then(items, LAMBDA k : G[k].values),
            members |-> then(Padded1(keyed), LAMBDA k : G[k].members)]
  IN G

\* The ends of a value that opens the text, after blanks.
ValueEnds(d) ==
  UNION {Derivations(d)[i].value : i \in {j \in DOMAIN d : AllBlank(d, 1, j)}}
=============================================================================
