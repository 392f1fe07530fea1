---------------------------- MODULE SuperjsonFlat ----------------------------
(***************************************************************************)
(* The tokenizers of the two stress programs: one loop with no grammar.    *)
(* An iteration that recognises nothing leaves the position where it is,   *)
(* so that the loop never ends; Tokenize then says "hang".                 *)
(*                                                                         *)
(* superjsonic_stressoptimized.go first guesses how many elements the text *)
(* has, to allocate room for the tokens, and tokenizes the first element   *)
(* for that.  Large, ElementSize, PatternWindow and SampleWindow are its   *)
(* 1000, 50, 200 and 10240, and Patterns its names of array fields.        *)
(***************************************************************************)
EXTENDS Superjson

CONSTANTS Large, ElementSize, PatternWindow, SampleWindow, Patterns

ASSUME FlatAssumption == {Large, ElementSize, PatternWindow, SampleWindow} \subseteq Nat \ {0}

Structural == {"{", "}", "[", "]", ":", ","}
NumberBytes == Digits \cup {"-", ".", "e", "+"}

AfterNumber(d, i) == Min({j \in i..Len(d) : d[j] \notin NumberBytes} \cup {Len(d) + 1})

\* One token at i, where a byte that is not blank stands, or no progress.
TokenAt(d, i, words) ==
  LET close == IF words = 0 THEN scanStringBasic(d, i + 1) ELSE scanStringSIMD(d, i + 1, words)
      literal == LiteralsAt(d, i)
  IN CASE d[i] \in Structural              -> [kind |-> d[i], next |-> i + 1]
       [] d[i] = Quote                     -> [kind |-> "string", next |-> close + 1]
       [] literal # {}                     -> [kind |-> "literal",
                                               next |-> i + Len(CHOOSE l \in literal : TRUE)]
       [] d[i] \in Digits \cup {"-"}       -> [kind |-> "number", next |-> AfterNumber(d, i)]
       [] OTHER                            -> [kind |-> "none", next |-> i]

SkipBlanks(d, i, words) ==
  IF words = 0 THEN skipWhitespaceBasic(d, i) ELSE skipWhitespaceSIMD(d, i)

RECURSIVE Tokenize(_, _, _, _)
Tokenize(d, i0, words, tokens) ==
  LET i == SkipBlanks(d, i0, words)
      t == TokenAt(d, i, words)
  IN CASE i > Len(d)     -> [tokens |-> tokens, end |-> "ok"]
       [] t.next = i     -> [tokens |-> tokens, end |-> "hang"]
       [] OTHER          ->
            Tokenize(d, t.next, words, Append(tokens, Token(t.kind, i, t.next - i, <<>>)))

WithEOF(r, d) ==
  IF r.end = "ok" THEN [r EXCEPT !.tokens = Append(@, Token("EOF", Len(d) + 1, 0, <<>>))] ELSE r

\* Parse of superjsonic_stresstest.go.
StressParse(d) == WithEOF(Tokenize(d, 1, 1, <<>>), d)

-----------------------------------------------------------------------------
(* The guesses.  They scan by their own rule for where strings end: at a   *)
(* quote that no backslash precedes, even if that is escaped itself.       *)

\* The bytes of d from i to hi that the rule places outside all strings.
RECURSIVE Outside(_, _, _)
Outside(d, i, hi) ==
  LET closed == {j \in i + 1..hi : d[j] = Quote /\ d[j - 1] # Backslash}
  IN IF i > hi THEN {}
     ELSE IF d[i] # Quote THEN {i} \cup Outside(d, i + 1, hi)
     ELSE IF closed = {} THEN {} ELSE Outside(d, Min(closed) + 1, hi)

\* How deep in brackets position j is, counting the one at j.
Depth(d, outside, j) ==
  LET upTo(B) == Cardinality({k \in outside : k <= j /\ d[k] \in B})
  IN upTo({"{", "["}) - upTo({"}", "]"})

estimateArraySize(d, start) ==
  LET hi == Min({start + SampleWindow - 1, Len(d)})
      out == Outside(d, start, hi)
      commas == Cardinality({j \in out : d[j] = "," /\ Depth(d, out, j) = 1})
  IN IF commas > 0 THEN Len(d) \div ((hi - start + 1) \div (commas + 1))
     ELSE Len(d) \div ElementSize

\* The first position after the first element, 0 if the rule finds none.
findFirstElementEnd(d, start) ==
  LET out == Outside(d, start, Len(d))
      ends == {j \in out : d[j] = "," /\ Depth(d, out, j) = 0}
              \cup {j + 1 : j \in {k \in out : /\ d[k] \in {"}", "]"}
                                               /\ Depth(d, out, k) = 0
                                               /\ ByteAt(d, k + 1) \in {","} \cup Blank}}
  IN IF ends = {} THEN 0 ELSE Min(ends)

\* Variant: the last byte of the range is left out.
MutParseRange(d, lo, hi) == Tokenize(SubSeq(d, 1, hi - 2), lo, 0, <<>>)

\* The bytes of d before hi, from lo on.
parseRange(d, lo, hi) == Tokenize(SubSeq(d, 1, hi - 1), lo, 0, <<>>)

PatternAt(d, lo, hi, p) ==
  {j \in lo..hi - Len(p) + 1 : SubSeq(d, j, j + Len(p) - 1) = p}

NoArray == [large |-> FALSE, elements |-> 0, perElement |-> 0, end |-> "ok"]

\* The first pattern of the list that occurs decides.
detectLargeArray(d) ==
  LET i == skipWhitespaceBasic(d, 1)
      hi == Min({i + PatternWindow - 1, Len(d)})
      hits == {n \in DOMAIN Patterns : PatternAt(d, i, hi, Patterns[n]) # {}}
      p == Patterns[Min(hits)]
      start == Min(PatternAt(d, i, hi, p)) + Len(p) - 1
      first == findFirstElementEnd(d, start + 1)
      sample == parseRange(d, start + 1, first)
      sampled == start < Len(d) /\ first > 0
  IN CASE ByteAt(d, i) = "[" ->
            [NoArray EXCEPT !.large = TRUE, !.elements = estimateArraySize(d, i)]
       [] ByteAt(d, i) = "{" /\ hits # {} ->
            [large |-> TRUE, elements |-> estimateArraySize(d, start),
             perElement |-> IF sampled THEN Len(sample.tokens) ELSE 0,
             end |-> IF sampled THEN sample.end ELSE "ok"]
       [] OTHER -> NoArray

\* The room for tokens is a guess, and append goes past it.
parseOptimizedArray(d, info) ==
  LET guess == info.elements * info.perElement
  IN [parsed |-> WithEOF(Tokenize(d, 1, 1, <<>>), d),
      room |-> (IF guess = 0 THEN info.elements * 5 ELSE guess) + 100]

parseStandard(d) ==
  [parsed |-> WithEOF(Tokenize(d, 1, 1, <<>>), d), room |-> Len(d) \div 10]

\* Parse of superjsonic_stressoptimized.go.
OptimizedParse(d) ==
  LET info == detectLargeArray(d)
  IN IF info.end = "hang" THEN [tokens |-> <<>>, end |-> "hang"]
     ELSE IF info.large /\ info.elements > Large THEN parseOptimizedArray(d, info).parsed
     ELSE parseStandard(d).parsed
=============================================================================
