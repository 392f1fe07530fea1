---------------------------- MODULE MCSuperjson ----------------------------
(***************************************************************************)
(* The tokenizers of the prototype side by side on one text at a time.     *)
(***************************************************************************)
EXTENDS SuperjsonAtoms, SuperjsonFlat, JSONGrammar

VARIABLES text, read

vars == <<text, read>>

Q == Quote
B == Backslash
MCLiterals == {<<"t", "u">>, <<"n", "t", "u">>}
MCPatterns == <<<<Q, "k", Q, ":", "[">>, <<Q, "0", Q, ":", "[">>>>

Alphabet == {"{", "}", "[", "]", ":", ",", Q, B, " ", "t", "u", "0", "1", "-", ".", "e", "+", "x", NUL}

Documents == {
  <<"{", Q, "x", Q, ":", "[", "1", ",", "t", "u", "]", ",", Q, "x", "t", Q, ":", "{", "}", "}">>,
  <<"{", Q, "x", "t", "u", Q, " ", ":", Q, "x", B, Q, "x", Q, ",", Q, Q, ":", "1", "}">>,
  <<" ", " ", " ", "[", " ", " ", "1", ",", "[", Q, B, B, Q, "]", " ", " ", ",", "0", "]", " ">>,
  <<"{", Q, "k", Q, ":", "[", Q, B, B, Q, ",", "t", "u", ",", Q, "x", ",", "1", Q, "]", "}">>,
  <<"{", Q, "k", Q, ":", "[", "{", "}", ",", "0", "]", "}">>,
  <<"{", Q, "k", Q, ":", "[", "t", "u", ",", Q, B, Q, ",", Q, "]", "}">>,
  <<"{", Q, "x", "x", "t", "u", "x", Q, ":", "{", Q, "x", Q, ":", "1", "}", ",", Q, "u", Q, ":", "0", "}">>,
  <<"{", Q, "x", "x", "t", "u", "x", "x", "t", Q, ":", Q, "x", "x", "x", B, Q, B, B, Q, ",", Q, "x", "x", "x", Q, ":", "0", " ", "}">>,
  <<"[", "-", "1", "0", ".", "0", "1", "e", "+", "1", ",", "n", "t", "u", "]">>}

Short(S, n) == UNION {[1..k -> S] : k \in 0..n}

Edited(d) ==
  {Cut(d, i) : i \in DOMAIN d}
  \cup {Cut(d, i - 1) \o Rest(d, i) : i \in DOMAIN d}
  \cup {[d EXCEPT ![i] = b] : i \in DOMAIN d, b \in Alphabet}
  \cup {Cut(d, i) \o <<b>> \o Rest(d, i) : i \in DOMAIN d, b \in Alphabet}

Texts == UNION {Edited(d) : d \in Documents} \cup Short(Alphabet, 3)
         \cup Short({"0", "1", "-", ".", "e"}, 5) \cup Short({"{", "}", "[", "]", ","}, 4)

\* The cache that another text left in the parser.
Warm == LaxParse(EmptyCache, CHOOSE d \in Documents : Len(d) = 23).cache

Plain == [words |-> 0, atoms |-> FALSE]
WithAtoms == [words |-> 1, atoms |-> TRUE]

Init == text \in Texts /\ read = [end |-> "none"]

ReadText ==
  /\ read.end = "none"
  /\ read' = [end |-> "read",
              multi |-> [c \in Configs |-> Parse(c, text)],
              lax |-> LaxParse(Warm, text),
              stress |-> StressParse(text),
              optimized |-> OptimizedParse(text),
              ends |-> ValueEnds(text)]
  /\ UNCHANGED text

Done == read.end = "read" /\ UNCHANGED vars

Next == ReadText \/ Done

Spec == Init /\ [][Next]_vars

IsRead == read.end = "read"
Json == \E j \in read.ends : AllBlank(text, j, Len(text) + 1)
Kinds(r) == [i \in DOMAIN r.tokens |->
               IF r.tokens[i].kind \in {"key64", "key128"} THEN "string" ELSE r.tokens[i].kind]

(***************************************************************************)
(* The parser accepts a text exactly when it begins with a JSON value, and *)
(* stops right after it (parseValue and what it calls).                    *)
(***************************************************************************)
AcceptsGrammar ==
  IsRead => LET p == read.multi[Plain]
            IN IF p.end = "ok" THEN read.ends = {p.pos} ELSE read.ends = {}

(***************************************************************************)
(* Reading a byte, a word or two words at a time, with an escape or a      *)
(* quote anywhere in the chunk, finds the same tokens and the same end.    *)
(***************************************************************************)
ScannersAgree ==
  IsRead => \A c \in Configs :
    LET p == read.multi[c]
        q == read.multi[[c EXCEPT !.words = 0]]
    IN p.end = q.end /\ p.tokens = q.tokens /\ (p.end = "ok" => p.pos = q.pos)

(***************************************************************************)
(* On a JSON document all tokenizers of the prototype end, and find the    *)
(* same tokens: the flat loops, also after sampling the first element of   *)
(* an array, and the parser that takes any byte for the quote of a key.    *)
(***************************************************************************)
TokenizersAgree ==
  IsRead /\ Json =>
    LET p == read.multi[Plain]
    IN /\ read.lax.end = "ok" /\ Kinds(read.lax) = Kinds(p)
       /\ read.stress.end = "ok" /\ Front(read.stress.tokens) = p.tokens
       /\ read.optimized = read.stress

(***************************************************************************)
(* A key of up to two words compares equal to its own text and to no       *)
(* other, through the atom and its zero padding (CompareToken with         *)
(* fastcompare), if neither holds a zero byte and an empty key is not      *)
(* compared with a text longer than a word.                                *)
(***************************************************************************)
Targets == {<<>>, <<"x">>, <<"u">>, <<"x", "t">>, <<"x", "t", "u">>, <<"x", "x", "t", "u">>, <<"x", "t", "u", " ">>}

KeysCompareExactly ==
  IsRead => \A i \in DOMAIN read.multi[WithAtoms].tokens :
    LET t == read.multi[WithAtoms].tokens[i]
        source == read.multi[Plain].tokens[i]
        key == SubSeq(text, source.at + 1, source.at + source.len - 2)
    IN t.kind \in {"key64", "key128"} /\ ~Contains(key, NUL) =>
         \A target \in Targets \cup {key} :
           \A fast \in BOOLEAN :
             (key = <<>> => Len(target) <= Word) =>
               (CompareToken(fast, t, text, target) <=> target = key)
=============================================================================
