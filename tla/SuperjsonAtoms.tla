--------------------------- MODULE SuperjsonAtoms ---------------------------
(***************************************************************************)
(* The first parser with atoms, superjsonic_atomenabled.go.  It looks for  *)
(* a comma after a member instead of before it, tells keys from values by  *)
(* two flags instead of a stack of contexts, and keeps a cache of atoms    *)
(* that the pool hands on with the parser.                                 *)
(***************************************************************************)
EXTENDS Superjson

EmptyCache == [k \in {} |-> <<>>]

LaxFresh(cache) ==
  [pos |-> 1, tokens |-> <<>>, inObject |-> FALSE, expectKey |-> FALSE,
   cache |-> cache, end |-> "none"]

LaxBlanks(p, d) == [p EXCEPT !.pos = skipWhitespaceSIMD(d, @)]

\* The second word of an atom repeats the bytes of the first.
LaxAtom128(key) ==
  [i \in 1..2 * Word |-> IF i > Len(key) THEN NUL
                         ELSE IF i > Word THEN key[i - Word] ELSE key[i]]

\* An atom comes from the cache if it holds one of the right width.
CachedAtom(p, kind, key, atom) ==
  LET known == key \in DOMAIN p.cache /\ Len(p.cache[key]) = Len(atom)
      found == IF known THEN p.cache[key] ELSE atom
  IN [addToken(p, kind, 0, 0, found) EXCEPT !.cache = (key :> found) @@ @]

LaxKey(p, d, from) ==
  LET key == SubSeq(d, from, p.pos - 1)
  IN IF Len(key) <= Word THEN CachedAtom(p, "key64", key, makeAtom64(key))
     ELSE IF Len(key) <= 2 * Word THEN CachedAtom(p, "key128", key, LaxAtom128(key))
     ELSE addToken(p, "string", from - 1, Len(key) + 2, <<>>)

\* The byte at the start is taken for a quote, whatever it is.
LaxString(p0, d) ==
  LET p == [p0 EXCEPT !.pos = scanStringSIMD(d, p0.pos + 1, 1)]
      q == IF p.expectKey /\ p.inObject THEN LaxKey(p, d, p0.pos + 1)
           ELSE addToken(p, "string", p0.pos, p.pos - p0.pos + 1, <<>>)
  IN IF p.pos > Len(d) THEN Fail(p) ELSE [q EXCEPT !.pos = @ + 1]

LaxFraction(d, i) == IF ByteAt(d, i) = "." THEN AfterDigits(d, i + 1) ELSE i

LaxExponent(d, i) ==
  IF ByteAt(d, i) # "e" THEN i
  ELSE AfterDigits(d, IF ByteAt(d, i + 1) \in {"+", "-"} THEN i + 2 ELSE i + 1)

\* No digit is required anywhere.
LaxNumber(p, d) ==
  LET int == AfterDigits(d, IF d[p.pos] = "-" THEN p.pos + 1 ELSE p.pos)
      end == LaxExponent(d, LaxFraction(d, int))
  IN [addToken(p, "number", p.pos, end - p.pos, <<>>) EXCEPT !.pos = end]

RECURSIVE LaxValue(_, _), LaxObjectTurn(_, _), LaxArrayTurn(_, _)

LaxObject(p, d) == LaxObjectTurn([Mark(p, d) EXCEPT !.inObject = TRUE], d)

LaxValue(p0, d) ==
  LET p == LaxBlanks(p0, d)
      b == ByteAt(d, p.pos)
  IN CASE b = "{"                           -> LaxObject(p, d)
       [] b = "["                           -> LaxArrayTurn(Mark(p, d), d)
       [] b = Quote                         -> LaxString(p, d)
       [] \E l \in Literals : l[1] = b      -> parseLiteral(p, d)
       [] b \in Digits \cup {"-"}           -> LaxNumber(p, d)
       [] OTHER                             -> Fail(p)

\* After a member or an element: a comma is consumed, and may be the last.
Separated(p0, d, close) ==
  LET p == LaxBlanks(p0, d)
      b == ByteAt(d, p.pos)
  IN CASE Stopped(p0) -> p0
       [] b = ","     -> Mark(p, d)
       [] b = close   -> p
       [] OTHER       -> Fail(p)

LaxMember(p, d) ==
  LET key == LaxString([p EXCEPT !.expectKey = TRUE], d)
      colon == LaxBlanks([key EXCEPT !.expectKey = FALSE], d)
  IN IF Stopped(key) THEN key
     ELSE IF ByteAt(d, colon.pos) # ":" THEN Fail(colon)
     ELSE Separated(LaxValue(Mark(colon, d), d), d, "}")

LaxObjectTurn(p0, d) ==
  LET p == LaxBlanks(p0, d)
      b == ByteAt(d, p.pos)
      q == LaxMember(p, d)
  IN CASE p.pos > Len(d)       -> Fail(p)
       [] b = "}"              -> [Mark(p, d) EXCEPT !.inObject = FALSE]
       [] OTHER                -> IF Stopped(q) THEN q ELSE LaxObjectTurn(q, d)

LaxArrayTurn(p0, d) ==
  LET p == LaxBlanks(p0, d)
      b == ByteAt(d, p.pos)
      q == Separated(LaxValue(p, d), d, "]")
  IN CASE p.pos > Len(d)       -> Fail(p)
       [] b = "]"              -> Mark(p, d)
       [] OTHER                -> IF Stopped(q) THEN q ELSE LaxArrayTurn(q, d)

\* What Parse of a parser with this cache leaves behind.
LaxParse(cache, d) ==
  LET p == LaxValue(LaxFresh(cache), d)
  IN IF Stopped(p) THEN p ELSE [p EXCEPT !.end = "ok"]
=============================================================================
