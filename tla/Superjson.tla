------------------------------ MODULE Superjson ------------------------------
(***************************************************************************)
(* The configurable JSON parser of superjsonic_multi.go, as functions from *)
(* a text to the parser it leaves behind.  A text is a sequence of bytes;  *)
(* positions count from 1, the code's from 0.  A configuration is fixed    *)
(* when a parser is created: how many words its string scanner reads at a  *)
(* time, and whether keys become atoms.                                    *)
(*                                                                         *)
(* Word is the 8 of the code: the bytes of a uint64, and so of an Atom64.  *)
(* Literals are the texts of true, false and null.                         *)
(***************************************************************************)
EXTENDS Naturals, Sequences, SequencesExt

CONSTANTS Word, Literals

ASSUME SuperjsonAssumption == Word \in Nat \ {0}

Quote == "\""
Backslash == "\\"
NUL == "0x00"
Blank == {" "}
Zero == "0"
Digits == {Zero, "1"}

\* The byte at i, or one that is in no text.
ByteAt(d, i) == IF i <= Len(d) THEN d[i] ELSE "none"

\* The literals that stand at i.
LiteralsAt(d, i) ==
  {l \in Literals : i + Len(l) - 1 <= Len(d) /\ SubSeq(d, i, i + Len(l) - 1) = l}

Configs == [words : 0..2, atoms : BOOLEAN]

\* A parser that is about to read d[1].
Fresh == [pos |-> 1, tokens |-> <<>>, ctx |-> "Value", stack |-> <<>>, end |-> "none"]

Stopped(p) == p.end # "none"
Fail(p) == [p EXCEPT !.end = "error"]
Panics(p) == [p EXCEPT !.end = "panic"]

pushContext(p, ctx) == [p EXCEPT !.stack = Append(@, p.ctx), !.ctx = ctx]

popContext(p) ==
  IF p.stack = <<>> THEN [p EXCEPT !.ctx = "Value"]
  ELSE [p EXCEPT !.ctx = p.stack[Len(p.stack)], !.stack = Front(@)]

Token(kind, at, len, atom) == [kind |-> kind, at |-> at, len |-> len, atom |-> atom]

addToken(p, kind, at, len, atom) ==
  [p EXCEPT !.tokens = Append(@, Token(kind, at, len, atom))]

\* A token of one byte, which is also its kind.
Mark(p, d) ==
  [addToken(p, d[p.pos], p.pos, 1, <<>>) EXCEPT !.pos = @ + 1]

-----------------------------------------------------------------------------
(* Atoms: the bytes of a short key in one or two words, filled up with 0. *)

\* Variant: a text that is too long is cut off instead of becoming 0.
MutPadded(s, n) == [i \in 1..n |-> IF i <= Len(s) THEN s[i] ELSE NUL]

Padded(s, n) ==
  IF Len(s) > n THEN [i \in 1..n |-> NUL]
  ELSE [i \in 1..n |-> IF i <= Len(s) THEN s[i] ELSE NUL]

makeAtom64(s) == Padded(s, Word)
makeAtom128(s) == Padded(s, 2 * Word)

\* The key an atom spells, which ends at its first 0.
AtomString(a) ==
  SubSeq(a, 1, Min({i \in DOMAIN a : a[i] = NUL} \cup {Len(a) + 1}) - 1)

processKey(c, p, d, from) ==
  LET key == SubSeq(d, from, p.pos - 1)
  IN IF ~c.atoms \/ Len(key) > 2 * Word
     THEN addToken(p, "string", from - 1, Len(key) + 2, <<>>)
     ELSE IF Len(key) <= Word
     THEN addToken(p, "key64", 0, 0, makeAtom64(key))
     ELSE addToken(p, "key128", 0, 0, makeAtom128(key))

-----------------------------------------------------------------------------
(* Scanners.  Each returns a position, past the end when the text ends     *)
(* first; for the number scanners 0 means that digits are missing.         *)

skipWhitespaceBasic(d, i) ==
  Min({j \in i..Len(d) : d[j] \notin Blank} \cup {IF i > Len(d) THEN i ELSE Len(d) + 1})

RECURSIVE skipWhitespaceSIMD(_, _)
skipWhitespaceSIMD(d, i) ==
  LET chunk == i..i + Word - 1
      solid == {j \in chunk : ByteAt(d, j) \notin Blank}
  IN IF i + Word - 1 > Len(d) THEN skipWhitespaceBasic(d, i)
     ELSE IF solid = chunk THEN i
     ELSE IF solid # {} THEN Min(solid)
     ELSE skipWhitespaceSIMD(d, i + Word)

\* Variant: no loop over the bytes that are left when no word is.
MutSkipWhitespace(c, p, d) ==
  [p EXCEPT !.pos = IF c.words = 0 THEN skipWhitespaceBasic(d, @)
                    ELSE IF @ + Word - 1 > Len(d) THEN @ ELSE skipWhitespaceSIMD(d, @)]

skipWhitespace(c, p, d) ==
  [p EXCEPT !.pos = IF c.words = 0 THEN skipWhitespaceBasic(d, @)
                                   ELSE skipWhitespaceSIMD(d, @)]

RECURSIVE scanStringBasic(_, _)
scanStringBasic(d, i) ==
  CASE i > Len(d)       -> i
    [] d[i] = Quote     -> i
    [] d[i] = Backslash -> scanStringBasic(d, i + 2)
    [] OTHER            -> scanStringBasic(d, i + 1)

\* An escape moves two bytes on from where it stands, wherever the chunk ends.
RECURSIVE scanStringSIMD(_, _, _)
scanStringSIMD(d, i, words) ==
  LET hits == {j \in i..i + words * Word - 1 : ByteAt(d, j) \in {Quote, Backslash}}
      first == Min(hits)
  IN IF i + words * Word - 1 > Len(d)
     THEN IF words = 2 THEN scanStringSIMD(d, i, 1) ELSE scanStringBasic(d, i)
     ELSE IF hits = {} THEN scanStringSIMD(d, i + words * Word, words)
     ELSE IF d[first] = Quote THEN first
     ELSE scanStringSIMD(d, first + 2, words)

scanString(c, d, i) ==
  IF c.words = 0 THEN scanStringBasic(d, i) ELSE scanStringSIMD(d, i, c.words)

finishString(c, p, d, start) ==
  LET q == IF p.ctx = "ObjectKey" THEN processKey(c, p, d, start + 1)
           ELSE addToken(p, "string", start, p.pos - start + 1, <<>>)
  IN [q EXCEPT !.pos = @ + 1]

parseString(c, p, d) ==
  LET close == scanString(c, d, p.pos + 1)
  IN IF close > Len(d) THEN Fail(p)
     ELSE finishString(c, [p EXCEPT !.pos = close], d, p.pos)

parseLiteral(p, d) ==
  LET l == CHOOSE l \in LiteralsAt(d, p.pos) : TRUE
  IN IF LiteralsAt(d, p.pos) = {} THEN Fail(p)
     ELSE [addToken(p, "literal", p.pos, Len(l), <<>>) EXCEPT !.pos = @ + Len(l)]

IsDigit(d, i) == ByteAt(d, i) \in Digits
AfterDigits(d, i) == Min({j \in i..Len(d) : ~IsDigit(d, j)} \cup {Len(d) + 1})

\* Variant: leading zeros are taken.
MutAfterInteger(d, i) == AfterDigits(d, i)

AfterInteger(d, i) == IF ByteAt(d, i) = Zero THEN i + 1 ELSE AfterDigits(d, i)

\* A fraction or an exponent may be absent, but not have no digits.
AfterFraction(d, i) ==
  IF ByteAt(d, i) # "." THEN i
  ELSE IF IsDigit(d, i + 1) THEN AfterDigits(d, i + 1) ELSE 0

AfterExponent(d, i) ==
  LET digits == IF ByteAt(d, i + 1) \in {"+", "-"} THEN i + 2 ELSE i + 1
  IN IF ByteAt(d, i) # "e" THEN i
     ELSE IF IsDigit(d, digits) THEN AfterDigits(d, digits) ELSE 0

parseNumber(p, d) ==
  LET int == IF d[p.pos] = "-" THEN p.pos + 1 ELSE p.pos
      frac == AfterFraction(d, AfterInteger(d, int))
      end == IF frac = 0 THEN 0 ELSE AfterExponent(d, frac)
  IN IF ~IsDigit(d, int) \/ end = 0 THEN Fail(p)
     ELSE [addToken(p, "number", p.pos, end - p.pos, <<>>) EXCEPT !.pos = end]

-----------------------------------------------------------------------------
(* The recursive descent.  A turn is one iteration of the loop over the    *)
(* members of an object or the elements of an array.                       *)

RECURSIVE parseValue(_, _, _), ObjectTurn(_, _, _, _), ArrayTurn(_, _, _, _)

parseObject(c, p, d) == ObjectTurn(c, pushContext(Mark(p, d), "ObjectStart"), d, TRUE)
parseArray(c, p, d) == ArrayTurn(c, pushContext(Mark(p, d), "ArrayStart"), d, TRUE)

parseValue(c, p0, d) ==
  LET p == skipWhitespace(c, p0, d)
      b == ByteAt(d, p.pos)
  IN CASE b = "{"                           -> parseObject(c, p, d)
       [] b = "["                           -> parseArray(c, p, d)
       [] b = Quote                         -> parseString(c, p, d)
       [] \E l \in Literals : l[1] = b      -> parseLiteral(p, d)
       [] b \in Digits \cup {"-"}           -> parseNumber(p, d)
       [] OTHER                             -> Fail(p)

\* The key is read where the comma ended, whether or not the text goes on.
Member(c, p, d) ==
  LET key == parseString(c, [p EXCEPT !.ctx = "ObjectKey"], d)
      colon == skipWhitespace(c, key, d)
  IN IF p.pos > Len(d) THEN Panics(p)
     ELSE IF d[p.pos] # Quote THEN Fail(p)
     ELSE IF Stopped(key) THEN key
     ELSE IF ByteAt(d, colon.pos) # ":" THEN Fail(colon)
     ELSE parseValue(c, [Mark(colon, d) EXCEPT !.ctx = "ObjectValue"], d)

Element(c, p, d) == parseValue(c, [p EXCEPT !.ctx = "ArrayValue"], d)

AfterComma(c, p, d) == skipWhitespace(c, Mark(p, d), d)

ObjectTurn(c, p0, d, first) ==
  LET p == skipWhitespace(c, p0, d)
      b == ByteAt(d, p.pos)
      q == Member(c, IF first THEN p ELSE AfterComma(c, p, d), d)
  IN CASE p.pos > Len(d)       -> Fail(p)
       [] b = "}"              -> popContext(Mark(p, d))
       [] ~first /\ b \notin {",", "}"} -> Fail(p)
       [] OTHER                -> IF Stopped(q) THEN q
                                  ELSE ObjectTurn(c, [q EXCEPT !.ctx = "ObjectComma"], d, FALSE)

ArrayTurn(c, p0, d, first) ==
  LET p == skipWhitespace(c, p0, d)
      b == ByteAt(d, p.pos)
      q == Element(c, IF first THEN p ELSE AfterComma(c, p, d), d)
  IN CASE p.pos > Len(d)       -> Fail(p)
       [] b = "]"              -> popContext(Mark(p, d))
       [] ~first /\ b \notin {",", "]"} -> Fail(p)
       [] OTHER                -> IF Stopped(q) THEN q
                                  ELSE ArrayTurn(c, [q EXCEPT !.ctx = "ArrayComma"], d, FALSE)

\* Parse resets the parser and reads one value; what follows it is not read.
Parse(c, d) ==
  LET p == parseValue(c, Fresh, d) IN IF Stopped(p) THEN p ELSE [p EXCEPT !.end = "ok"]

-----------------------------------------------------------------------------
(* Reading the tokens. *)

GetTokenValue(t, d) ==
  IF t.kind \in {"key64", "key128"} THEN AtomString(t.atom)
  ELSE SubSeq(d, t.at, t.at + t.len - 1)

\* CompareToken with EnableFastCompare.
CompareFast(t, d, target) ==
  CASE t.kind = "key64"  -> t.atom = makeAtom64(target)
    [] t.kind = "key128" -> t.atom = makeAtom128(target)
    [] OTHER             -> /\ t.len = Len(target)
                            /\ \A i \in 1..t.len : d[t.at + i - 1] = target[i]

CompareToken(fast, t, d, target) ==
  IF fast THEN CompareFast(t, d, target) ELSE GetTokenValue(t, d) = target
=============================================================================
