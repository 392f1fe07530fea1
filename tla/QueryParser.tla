---------------------------- MODULE QueryParser ----------------------------
(***************************************************************************)
(* ParseQuery and SimplifyNode: the recursive descent of Parser over the   *)
(* tokens of a query, one step per production, building the path that the  *)
(* executor walks.  The DotNodes lean to the left, so that SimplifyNode's  *)
(* walk yields the segments in the order the parser met them.              *)
(***************************************************************************)
EXTENDS Naturals, Sequences

CONSTANTS
  Names,     \* identifier tokens
  Indices,   \* number tokens that strconv.Atoi accepts
  Huge,      \* number tokens it rejects as out of range
  Inputs     \* sequences of tokens; an error token is the last of its input

Tokens == Names \cup Indices \cup Huge \cup {"dot", "[", "]", "star", "error"}

ASSUME TokenAssumption ==
  /\ Inputs \subseteq Seq(Tokens)
  /\ {"begin", "dot", "[", "]", "star", "error", "eof"} \cap (Names \cup Indices \cup Huge) = {}
  /\ Names \cap Indices = {} /\ Names \cap Huge = {} /\ Indices \cap Huge = {}
  /\ \A in \in Inputs : \A i \in DOMAIN in : in[i] = "error" => i = Len(in)

VARIABLES
  input,     \* the tokens
  pos,       \* how many the lexer has handed out, ends included
  current,   \* Parser.current
  peek,      \* Parser.peek
  at,        \* the production the parser is in
  built,     \* the segments of the nodes built so far
  refused    \* the place of the token an error names, 0 if none

parserVars == <<input, pos, current, peek, at, built, refused>>

States == {"prime", "parse", "primary", "postfix", "bracket", "close", "chain", "end",
           "accepted", "rejected"}

TypeOK ==
  /\ input \in Seq(Tokens)
  /\ pos \in Nat
  /\ current \in Tokens \cup {"eof"} /\ peek \in Tokens \cup {"eof"}
  /\ at \in States
  /\ built \in Seq(Names \cup Indices \cup {"star"})
  /\ refused \in Nat

Init ==
  /\ input \in Inputs
  /\ pos = 0 /\ current = "eof" /\ peek = "eof"
  /\ at = "prime" /\ built = <<>> /\ refused = 0

(* Lexer.Next: the same end or error again once it has met one.            *)
LexerNext(n) ==
  IF n < Len(input) THEN input[n + 1]
  ELSE IF input # <<>> /\ input[Len(input)] = "error" THEN "error" ELSE "eof"

advance == current' = peek /\ peek' = LexerNext(pos) /\ pos' = pos + 1

(* The parser holds two tokens: current is the one before the last lexed.   *)
Place == pos - 1

Consume(from, to) == at = from /\ advance /\ at' = to /\ UNCHANGED <<input, refused>>
Reject(from) ==
  /\ at = from
  /\ at' = "rejected" /\ refused' = Place
  /\ UNCHANGED <<input, pos, current, peek, built>>
Turn(from, to) == at = from /\ at' = to /\ UNCHANGED <<input, pos, current, peek, built, refused>>

(* NewParser fills current and peek.                                       *)
NewParser == Consume("prime", IF pos = 0 THEN "prime" ELSE "parse") /\ UNCHANGED built

Parse ==
  \/ current = "eof" /\ Reject("parse")
  \/ current # "eof" /\ Turn("parse", "primary")

parsePrimary ==
  \/ current \notin Names /\ Reject("primary")
  \/ current \in Names /\ Consume("primary", "postfix") /\ built' = Append(built, current)

Postfix ==
  \/ current = "[" /\ Consume("postfix", "bracket") /\ UNCHANGED built
  \/ current # "[" /\ Turn("postfix", "chain")

Subscripts == {"star"} \cup Indices
Bracket ==
  \/ current \notin Subscripts /\ Reject("bracket")
  \/ current \in Subscripts /\ Consume("bracket", "close") /\ built' = Append(built, current)

Close ==
  \/ current # "]" /\ Reject("close")
  \/ current = "]" /\ Consume("close", "postfix") /\ UNCHANGED built

MutDotKept ==
  \/ current = "dot" /\ Turn("chain", "chain")
  \/ current # "dot" /\ Turn("chain", "end")
parseExpression ==
  \/ current = "dot" /\ Consume("chain", "primary") /\ UNCHANGED built
  \/ current # "dot" /\ Turn("chain", "end")

MutEnd == Turn("end", "accepted")
End ==
  \/ current # "eof" /\ Reject("end")
  \/ current = "eof" /\ Turn("end", "accepted")

Production ==
  NewParser \/ Parse \/ parsePrimary \/ Postfix \/ Bracket \/ Close \/ parseExpression \/ End
Spec == Init /\ [][Production]_parserVars

---------------------------------------------------------------------------
(* The grammar, without a parser: which token may follow which.            *)
Padded == <<"begin">> \o input \o <<"eof">>
MayFollow(a, b) ==
  \/ a \in {"begin", "dot"} /\ b \in Names
  \/ a \in Names \cup {"]"} /\ b \in {"dot", "[", "eof"}
  \/ a = "[" /\ b \in Subscripts
  \/ a \in Subscripts /\ b = "]"
Grammatical(n) == \A i \in 1..n : MayFollow(Padded[i], Padded[i + 1])
(* p has the names, indices and wildcards of the first n tokens, in        *)
(* order: some increasing map leads from its places onto theirs.           *)
Places(n) == {i \in 1..n : input[i] \in Names \cup Subscripts}
Segments(p, n) ==
  \E place \in [DOMAIN p -> Places(n)] :
    /\ \A i, j \in DOMAIN p : i < j => place[i] < place[j]
    /\ \A k \in Places(n) : \E i \in DOMAIN p : place[i] = k
    /\ \A i \in DOMAIN p : p[i] = input[place[i]]

(* A query is accepted exactly when its tokens follow the grammar to the   *)
(* end, and its path is its names, indices and wildcards in order: the two *)
(* tokens the parser holds and its three loops lose and invent nothing.    *)
(* The place an error names is that of the first token that cannot follow  *)
(* what precedes it, not of one the lexer has read ahead.                  *)
ParsesGrammar ==
  /\ at = "accepted" => Grammatical(Len(input) + 1) /\ Segments(built, Len(input))
  /\ at = "rejected" =>
       /\ refused \in 1..(Len(input) + 1)
       /\ Grammatical(refused - 1) /\ ~Grammatical(refused)
===========================================================================
