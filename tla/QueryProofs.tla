---------------------------- MODULE QueryProofs ----------------------------
(***************************************************************************)
(* Of a call from its query to its return, for every set of names, indices *)
(* and tokens and for every finite or infinite graph of data.              *)
(*                                                                         *)
(* The parser accepts the grammar: the invariant says where the parser is, *)
(* the token before the current one decides which production it is in,    *)
(* everything up to there follows the grammar, and the path has its        *)
(* segments.  The executor's descent is the breadth-first expansion, by    *)
(* induction on the length of the path.  A walk has handed over a prefix of *)
(* the matches and gathered what belongs to them.                          *)
(***************************************************************************)
EXTENDS Query, Recursion

Ending == Names \cup {"]"}    \* what may be the last token of a query

(* The last token of a production that has been read, when it is in from.  *)
Before ==
  [parse |-> {"begin"}, primary |-> {"begin", "dot"}, postfix |-> Ending, bracket |-> {"["},
   close |-> Subscripts, chain |-> Ending, end |-> Ending]

Running == DOMAIN Before

ReadSoFar ==
  /\ Place \in 1..(Len(input) + 1)
  /\ Padded[Place] \in Before[at]
  /\ Grammatical(Place - 1)
  /\ Segments(built, Place - 1)
  /\ current = LexerNext(Place - 1) /\ peek = LexerNext(pos - 1)
  /\ at \in {"chain", "end"} => current # "["
  /\ at = "end" => current # "dot"

IInv ==
  /\ input \in Inputs /\ at \in States /\ pos \in Nat
  /\ built \in Seq(Names \cup Subscripts)
  /\ at = "prime" =>
       pos \in {0, 1} /\ built = <<>> /\ (pos = 1 => peek = LexerNext(0))
  /\ at \in Running => ReadSoFar
  /\ ParsesGrammar

---------------------------------------------------------------------------
(* The padded input holds the tokens between its two ends.                 *)
LEMMA PaddedIs ==
  ASSUME input \in Seq(Tokens)
  PROVE  /\ Padded[1] = "begin"
         /\ \A i \in 1..Len(input) : Padded[i + 1] = input[i]
         /\ Padded[Len(input) + 2] = "eof"
         /\ Len(input) \in Nat
<1> DEFINE left == <<"begin">> \o input
<1>0. Len(input) \in Nat
  BY LenProperties
<1>1. /\ left \in Seq(Tokens \cup {"begin"}) /\ Len(left) = Len(input) + 1
      /\ left[1] = "begin" /\ \A i \in 1..Len(input) : left[i + 1] = input[i]
  <2>1. <<"begin">> \in Seq(Tokens \cup {"begin"}) /\ input \in Seq(Tokens \cup {"begin"})
    BY SMT
  <2>2. /\ Len(<<"begin">>) = 1 /\ <<"begin">>[1] = "begin"
    OBVIOUS
  <2> QED
    BY <1>0, <2>1, <2>2, ConcatProperties
<1> HIDE DEF left
<1>2. <<"eof">> \in Seq(Tokens \cup {"begin", "eof"}) /\ left \in Seq(Tokens \cup {"begin", "eof"})
  BY <1>1
<1>3. Len(<<"eof">>) = 1 /\ <<"eof">>[1] = "eof"
  OBVIOUS
<1>4. /\ \A i \in 1..Len(left) : (left \o <<"eof">>)[i] = left[i]
      /\ (left \o <<"eof">>)[Len(left) + 1] = "eof"
  BY <1>0, <1>1, <1>2, <1>3, ConcatProperties
<1>5. Padded = left \o <<"eof">>
  BY DEF Padded, left
<1>6. /\ Padded[1] = left[1] /\ Padded[Len(input) + 2] = "eof"
      /\ \A i \in 1..Len(input) : Padded[i + 1] = left[i + 1]
  BY <1>0, <1>1, <1>4, <1>5
<1> QED
  BY <1>0, <1>1, <1>6

(* The names of the other tokens are no identifiers and no numbers.        *)
LEMMA Disjoint ==
  /\ \A x \in {"begin", "dot", "[", "]", "star", "error", "eof"} : x \notin Names \cup Indices
  /\ Names \cap Subscripts = {} /\ "eof" \notin Tokens /\ Subscripts \subseteq Tokens
  BY TokenAssumption DEF Subscripts, Tokens

(* The lexer hands out the padded input, up to the first error.            *)
LEMMA NextToken ==
  ASSUME input \in Seq(Tokens), NEW p \in 1..(Len(input) + 1), Padded[p] # "error"
  PROVE  /\ LexerNext(p - 1) = Padded[p + 1]
         /\ LexerNext(p - 1) = "eof" => p = Len(input) + 1
         /\ p <= Len(input) => LexerNext(p - 1) = input[p]
<1>1. Len(input) \in Nat /\ \A i \in 1..Len(input) : input[i] \in Tokens
  BY PaddedIs, ElementOfSeq
<1>2. CASE p <= Len(input)
  <2>1. LexerNext(p - 1) = input[p] /\ p \in 1..Len(input)
    BY <1>1, <1>2 DEF LexerNext
  <2> QED
    BY <1>1, <2>1, PaddedIs, Disjoint
<1>3. CASE p = Len(input) + 1
  <2>1. input # <<>> => Len(input) \in 1..Len(input) /\ input[Len(input)] # "error"
    BY <1>1, <1>3, PaddedIs, EmptySeq
  <2>2. LexerNext(p - 1) = "eof"
    BY <1>1, <1>3, <2>1 DEF LexerNext
  <2> QED
    BY <1>1, <1>3, <2>2, PaddedIs
<1> QED
  BY <1>1, <1>2, <1>3

---------------------------------------------------------------------------
(* A name, index or wildcard adds its segment, another token adds none.    *)
LEMMA OneMoreSegment ==
  ASSUME input \in Seq(Tokens), NEW b \in Seq(Names \cup Subscripts), NEW p \in 1..Len(input),
         Segments(b, p - 1), input[p] \in Names \cup Subscripts
  PROVE  Segments(Append(b, input[p]), p)
<1> DEFINE n == Len(b)
           new == Append(b, input[p])
<1>1. PICK place \in [DOMAIN b -> Places(p - 1)] :
        /\ \A i, j \in DOMAIN b : i < j => place[i] < place[j]
        /\ \A k \in Places(p - 1) : \E i \in DOMAIN b : place[i] = k
        /\ \A i \in DOMAIN b : b[i] = input[place[i]]
  BY DEF Segments
<1>2. /\ n \in Nat /\ DOMAIN b = 1..n /\ DOMAIN new = 1..(n + 1)
      /\ new[n + 1] = input[p] /\ \A i \in 1..n : new[i] = b[i]
  BY LenProperties, AppendProperties
<1>3. p \in Nat /\ Places(p) = Places(p - 1) \cup {p} /\ \A k \in Places(p - 1) : k \in Nat /\ k < p
  BY DEF Places
<1> DEFINE longer == [i \in 1..(n + 1) |-> IF i = n + 1 THEN p ELSE place[i]]
<1> HIDE DEF n, new
<1>4. \A i \in 1..n : longer[i] = place[i] /\ place[i] \in Places(p - 1)
  BY <1>1, <1>2
<1>5. longer[n + 1] = p
  BY <1>2
<1>6. longer \in [DOMAIN new -> Places(p)]
  BY <1>2, <1>3, <1>4, <1>5
<1> HIDE DEF longer
<1>7. \A i, j \in DOMAIN new : i < j => longer[i] < longer[j]
  <2> SUFFICES ASSUME NEW i \in 1..(n + 1), NEW j \in 1..(n + 1), i < j
               PROVE  longer[i] < longer[j]
    BY <1>2
  <2>1. i \in 1..n
    BY <1>2
  <2>2. CASE j = n + 1
    BY <1>3, <1>4, <1>5, <2>1, <2>2
  <2>3. CASE j \in 1..n
    BY <1>1, <1>2, <1>4, <2>1, <2>3
  <2> QED
    BY <1>2, <2>2, <2>3
<1>8. \A k \in Places(p) : \E i \in DOMAIN new : longer[i] = k
  <2> SUFFICES ASSUME NEW k \in Places(p)
               PROVE  \E i \in 1..(n + 1) : longer[i] = k
    BY <1>2
  <2>1. CASE k = p
    BY <1>2, <1>5, <2>1
  <2>2. CASE k \in Places(p - 1)
    <3>1. PICK i \in 1..n : place[i] = k
      BY <1>1, <1>2, <2>2
    <3> QED
      BY <1>2, <1>4, <3>1
  <2> QED
    BY <1>3, <2>1, <2>2
<1>9. \A i \in DOMAIN new : new[i] = input[longer[i]]
  BY <1>1, <1>2, <1>4, <1>5
<1>10. Segments(new, p)
  BY <1>6, <1>7, <1>8, <1>9 DEF Segments
<1> QED
  BY <1>10 DEF new

LEMMA NoSegment ==
  ASSUME NEW b, NEW p \in Nat \ {0}, Segments(b, p - 1), input[p] \notin Names \cup Subscripts
  PROVE  Segments(b, p)
<1>1. Places(p) = Places(p - 1)
  BY DEF Places
<1> QED
  BY <1>1 DEF Segments

---------------------------------------------------------------------------
LEMMA InitInv == Init => IInv
<1> SUFFICES ASSUME Init PROVE IInv
  OBVIOUS
<1>1. <<>> \in Seq(Names \cup Subscripts)
  BY EmptySeq
<1> QED
  BY <1>1 DEF Init, IInv, States, Running, Before, ParsesGrammar

(* What the invariant says of the current token.                           *)
LEMMA CurrentToken ==
  ASSUME IInv, at \in Running
  PROVE  /\ input \in Seq(Tokens) /\ Len(input) \in Nat /\ ReadSoFar
         /\ current = Padded[Place + 1]
         /\ current = "eof" => Place = Len(input) + 1
         /\ Place <= Len(input) => current = input[Place]
<1>1. input \in Seq(Tokens) /\ ReadSoFar
  BY TokenAssumption DEF IInv
<1>2. Padded[Place] # "error"
  BY <1>1, Disjoint DEF ReadSoFar, Running, Before, Ending, Subscripts
<1> QED
  BY <1>1, <1>2, PaddedIs, NextToken DEF ReadSoFar

(* A token that may come next is read, in the production it belongs to.    *)
LEMMA ConsumeInv ==
  ASSUME IInv, at \in Running, NEW to \in {"primary", "postfix", "bracket", "close"},
         Consume(at, to), current # "eof",
         MayFollow(Padded[Place], current), current \in Before[to],
         built' = IF current \in Names \cup Subscripts THEN Append(built, current) ELSE built
  PROVE  IInv'
<1>1. /\ input' = input /\ refused' = refused /\ at' = to /\ Place \in 1..Len(input)
      /\ pos \in Nat /\ Len(input) \in Nat /\ Place = pos - 1 /\ current = input[Place]
      /\ current = Padded[Place + 1]
  BY CurrentToken, NextToken, TokenAssumption, PaddedIs DEF Consume, ReadSoFar, IInv, Place
<1>2. /\ Place' = Place + 1 /\ pos' = pos + 1
      /\ current' = LexerNext(Place' - 1) /\ peek' = LexerNext(pos' - 1)
  BY <1>1, CurrentToken DEF Consume, advance, Place, ReadSoFar
<1>3. Grammatical(Place)
  BY <1>1, CurrentToken DEF Grammatical, ReadSoFar
<1>4. built' \in Seq(Names \cup Subscripts) /\ Segments(built', Place)
  <2>1. built \in Seq(Names \cup Subscripts) /\ Segments(built, Place - 1) /\ input \in Seq(Tokens)
    BY CurrentToken DEF IInv, ReadSoFar
  <2>2. CASE current \in Names \cup Subscripts
    BY <1>1, <2>1, <2>2, OneMoreSegment, AppendProperties
  <2>3. CASE current \notin Names \cup Subscripts
    <3>1. Place \in Nat \ {0} /\ input[Place] \notin Names \cup Subscripts /\ built' = built
      BY <1>1, <2>3
    <3> QED
      BY <2>1, <3>1, NoSegment
  <2> QED
    BY <2>2, <2>3
<1>5. Padded' = Padded /\ (\A n : LexerNext(n)' = LexerNext(n))
  BY <1>1 DEF Padded, LexerNext
<1>6. Place' - 1 = Place /\ Place' \in 1..(Len(input') + 1)
  BY <1>1, <1>2
<1>7. Grammatical(Place - 1)'
  BY <1>3, <1>5, <1>6 DEF Grammatical
<1>8. Segments(built, Place - 1)'
  <2>1. Places(Place - 1)' = Places(Place)
    BY <1>1, <1>6 DEF Places
  <2>2. PICK place \in [DOMAIN built' -> Places(Place)] :
          /\ \A i, j \in DOMAIN built' : i < j => place[i] < place[j]
          /\ \A k \in Places(Place) : \E i \in DOMAIN built' : place[i] = k
          /\ \A i \in DOMAIN built' : built'[i] = input[place[i]]
    BY <1>4 DEF Segments
  <2>3. input' = input
    BY <1>1
  <2>4. place \in [DOMAIN built' -> Places(Place - 1)']
    BY <2>1
  <2> QED
    BY <2>1, <2>2, <2>3, <2>4 DEF Segments
<1>9. Padded'[Place'] = current /\ at' = to /\ to \notin {"chain", "end"}
  BY <1>1, <1>2, <1>5
<1>10. ReadSoFar'
  BY <1>2, <1>5, <1>6, <1>7, <1>8, <1>9 DEF ReadSoFar
<1> QED
  BY <1>1, <1>2, <1>4, <1>10 DEF IInv, States, Running, Before, ParsesGrammar

(* A step that reads nothing keeps what the invariant says of the tokens.  *)
LEMMA TurnInv ==
  ASSUME IInv, at \in Running, NEW to \in Running, Turn(at, to), Padded[Place] \in Before[to],
         to \in {"chain", "end"} => current # "[", to = "end" => current # "dot"
  PROVE  IInv'
<1>1. /\ UNCHANGED <<input, pos, current, peek, built, refused>> /\ at' = to /\ Place' = Place
      /\ Padded' = Padded
  BY DEF Turn, Place, Padded
<1>2. (\A n : LexerNext(n)' = LexerNext(n)) /\ LexerNext(Place - 1)' = LexerNext(Place - 1)
  BY <1>1 DEF LexerNext
<1>3. Grammatical(Place - 1)' /\ Segments(built, Place - 1)'
  BY <1>1, CurrentToken DEF ReadSoFar, Grammatical, Segments, Places
<1>4. ReadSoFar'
  BY <1>1, <1>2, <1>3, CurrentToken DEF ReadSoFar
<1> QED
  BY <1>1, <1>4 DEF IInv, States, Running, Before, ParsesGrammar

(* A token that cannot come next is refused at its own place.              *)
LEMMA RejectInv ==
  ASSUME IInv, at \in Running, Reject(at), ~MayFollow(Padded[Place], current)
  PROVE  IInv'
<1>1. /\ UNCHANGED <<input, pos, current, peek, built>> /\ at' = "rejected" /\ refused' = Place
      /\ Padded' = Padded
  BY DEF Reject, Padded
<1>2. Grammatical(Place - 1) /\ ~Grammatical(Place) /\ Place \in 1..(Len(input) + 1)
  BY CurrentToken DEF ReadSoFar, Grammatical
<1>3. Grammatical(refused - 1)' /\ ~Grammatical(refused)'
  BY <1>1, <1>2 DEF Grammatical
<1> QED
  BY <1>1, <1>2, <1>3 DEF IInv, States, Running, Before, ParsesGrammar

LEMMA AcceptInv ==
  ASSUME IInv, at = "end", current = "eof", Turn("end", "accepted")
  PROVE  IInv'
<1>1. /\ UNCHANGED <<input, pos, current, peek, built, refused>> /\ at' = "accepted"
      /\ Padded' = Padded
  BY DEF Turn, Padded
<1>2. at \in Running /\ Before[at] = Ending
  BY DEF Running, Before
<1>3. /\ Len(input) \in Nat /\ Place = Len(input) + 1 /\ Grammatical(Len(input))
      /\ Segments(built, Len(input)) /\ Padded[Place] \in Ending /\ Padded[Place + 1] = "eof"
  <2>1. ReadSoFar /\ Place = Len(input) + 1 /\ Len(input) \in Nat /\ current = Padded[Place + 1]
    BY <1>2, CurrentToken
  <2>2. Place - 1 = Len(input)
    BY <2>1
  <2> QED
    BY <1>2, <2>1, <2>2 DEF ReadSoFar
<1>4. MayFollow(Padded[Place], Padded[Place + 1])
  BY <1>3 DEF MayFollow, Ending
<1>5. Grammatical(Len(input) + 1)
  BY <1>3, <1>4 DEF Grammatical
<1>6. Grammatical(Len(input) + 1)' /\ Segments(built, Len(input))'
  BY <1>1, <1>3, <1>5 DEF Grammatical, Segments, Places
<1> QED
  BY <1>1, <1>6 DEF IInv, States, Running, Before, ParsesGrammar

---------------------------------------------------------------------------
LEMMA ProductionInv == IInv /\ [Production]_parserVars => IInv'
<1> SUFFICES ASSUME IInv, [Production]_parserVars PROVE IInv'
  OBVIOUS
<1> USE DEF Running
<1>0. /\ DOMAIN Before = {"parse", "primary", "postfix", "bracket", "close", "chain", "end"}
      /\ at \in Running => Padded[Place] \in Before[at]
  BY CurrentToken DEF Before, ReadSoFar
<1>1. CASE NewParser
  <2>1. /\ at = "prime" /\ pos \in {0, 1} /\ built = <<>> /\ (pos = 1 => peek = LexerNext(0))
        /\ UNCHANGED <<input, refused, built>> /\ pos' = pos + 1
        /\ current' = peek /\ peek' = LexerNext(pos) /\ input \in Seq(Tokens)
    BY <1>1, TokenAssumption DEF NewParser, Consume, advance, IInv
  <2>2. \A n : LexerNext(n)' = LexerNext(n)
    BY <2>1 DEF LexerNext
  <2>3. CASE pos = 0
    <3>1. at' = "prime" /\ pos' = 1 /\ peek' = LexerNext(0)' /\ built' \in Seq(Names \cup Subscripts)
      BY <1>1, <2>1, <2>2, <2>3 DEF NewParser, Consume, IInv
    <3> QED
      BY <2>1, <3>1 DEF IInv, States, Before, ParsesGrammar
  <2>4. CASE pos = 1
    <3>1. /\ at' = "parse" /\ Place' = 1 /\ pos' = 2 /\ Len(input) \in Nat /\ Padded'[1] = "begin"
          /\ current' = LexerNext(0)' /\ peek' = LexerNext(1)' /\ input' = input
      BY <1>1, <2>1, <2>2, <2>4, PaddedIs DEF NewParser, Consume, Place, Padded
    <3>2. Place' - 1 = 0 /\ pos' - 1 = 1
      BY <3>1
    <3>3. Grammatical(Place - 1)'
      BY <3>2 DEF Grammatical
    <3>4. Segments(built, Place - 1)'
      <4>1. Places(Place - 1)' = {} /\ built' = <<>> /\ DOMAIN built' = {}
        BY <2>1, <3>2 DEF Places
      <4>2. <<>> \in [DOMAIN built' -> Places(Place - 1)']
        BY <4>1
      <4> QED
        BY <4>1, <4>2 DEF Segments
    <3>5. ReadSoFar'
      BY <3>1, <3>2, <3>3, <3>4 DEF ReadSoFar, Before
    <3> QED
      BY <2>1, <3>1, <3>5 DEF IInv, States, Before, ParsesGrammar
  <2> QED
    BY <2>1, <2>3, <2>4
<1>2. CASE Parse
  <2>1. at = "parse" /\ Padded[Place] = "begin"
    BY <1>0, <1>2 DEF Parse, Reject, Turn, Before
  <2>2. CASE current = "eof" /\ Reject("parse")
    BY <1>0, <2>1, <2>2, RejectInv, Disjoint DEF MayFollow, Subscripts
  <2>3. CASE Turn("parse", "primary")
    BY <1>0, <2>1, <2>3, TurnInv DEF Before
  <2> QED
    BY <1>2, <2>2, <2>3 DEF Parse
<1>3. CASE parsePrimary
  <2>1. at = "primary" /\ Padded[Place] \in {"begin", "dot"}
    BY <1>0, <1>3 DEF parsePrimary, Reject, Consume, Before
  <2>2. CASE current \notin Names /\ Reject("primary")
    BY <1>0, <2>1, <2>2, RejectInv, Disjoint DEF MayFollow, Subscripts
  <2>3. CASE current \in Names /\ Consume("primary", "postfix") /\ built' = Append(built, current)
    <3>1. current # "eof" /\ MayFollow(Padded[Place], current) /\ current \in Before["postfix"]
      BY <2>1, <2>3, Disjoint DEF MayFollow, Before, Ending
    <3> QED
      BY <1>0, <2>1, <2>3, <3>1, ConsumeInv
  <2> QED
    BY <1>3, <2>2, <2>3 DEF parsePrimary
<1>4. CASE Postfix
  <2>1. at = "postfix" /\ Padded[Place] \in Ending
    BY <1>0, <1>4 DEF Postfix, Consume, Turn, Before
  <2>2. CASE current = "[" /\ Consume("postfix", "bracket") /\ UNCHANGED built
    <3>1. /\ MayFollow(Padded[Place], current) /\ current \in Before["bracket"]
          /\ current \notin Names \cup Subscripts
      BY <2>1, <2>2, Disjoint DEF MayFollow, Before, Ending, Subscripts
    <3> QED
      BY <1>0, <2>1, <2>2, <3>1, ConsumeInv
  <2>3. CASE current # "[" /\ Turn("postfix", "chain")
    BY <1>0, <2>1, <2>3, TurnInv DEF Before
  <2> QED
    BY <1>4, <2>2, <2>3 DEF Postfix
<1>5. CASE Bracket
  <2>1. at = "bracket" /\ Padded[Place] = "["
    BY <1>0, <1>5 DEF Bracket, Reject, Consume, Before
  <2>2. CASE current \notin Subscripts /\ Reject("bracket")
    BY <1>0, <2>1, <2>2, RejectInv, Disjoint DEF MayFollow, Subscripts
  <2>3. CASE current \in Subscripts /\ Consume("bracket", "close") /\ built' = Append(built, current)
    <3>1. current # "eof" /\ MayFollow(Padded[Place], current) /\ current \in Before["close"]
      BY <2>1, <2>3, Disjoint DEF MayFollow, Before
    <3> QED
      BY <1>0, <2>1, <2>3, <3>1, ConsumeInv
  <2> QED
    BY <1>5, <2>2, <2>3 DEF Bracket
<1>6. CASE Close
  <2>1. at = "close" /\ Padded[Place] \in Subscripts
    BY <1>0, <1>6 DEF Close, Reject, Consume, Before
  <2>2. CASE current # "]" /\ Reject("close")
    BY <1>0, <2>1, <2>2, RejectInv, Disjoint DEF MayFollow, Subscripts
  <2>3. CASE current = "]" /\ Consume("close", "postfix") /\ UNCHANGED built
    <3>1. /\ MayFollow(Padded[Place], current) /\ current \in Before["postfix"]
          /\ current \notin Names \cup Subscripts
      BY <2>1, <2>3, Disjoint DEF MayFollow, Before, Ending, Subscripts
    <3> QED
      BY <1>0, <2>1, <2>3, <3>1, ConsumeInv
  <2> QED
    BY <1>6, <2>2, <2>3 DEF Close
<1>7. CASE parseExpression
  <2>1. at = "chain" /\ Padded[Place] \in Ending
    BY <1>0, <1>7 DEF parseExpression, Consume, Turn, Before
  <2>2. CASE current = "dot" /\ Consume("chain", "primary") /\ UNCHANGED built
    <3>1. /\ MayFollow(Padded[Place], current) /\ current \in Before["primary"]
          /\ current \notin Names \cup Subscripts
      BY <2>1, <2>2, Disjoint DEF MayFollow, Before, Ending, Subscripts
    <3> QED
      BY <1>0, <2>1, <2>2, <3>1, ConsumeInv
  <2>3. CASE current # "dot" /\ Turn("chain", "end")
    <3>1. current # "["
      BY <1>0, <2>1, CurrentToken DEF ReadSoFar
    <3> QED
      BY <1>0, <2>1, <2>3, <3>1, TurnInv DEF Before
  <2> QED
    BY <1>7, <2>2, <2>3 DEF parseExpression
<1>8. CASE End
  <2>1. at = "end" /\ Padded[Place] \in Ending /\ current # "[" /\ current # "dot"
    BY <1>0, <1>8, CurrentToken DEF End, Reject, Turn, Before, ReadSoFar
  <2>2. CASE current # "eof" /\ Reject("end")
    BY <1>0, <2>1, <2>2, RejectInv, Disjoint DEF MayFollow, Ending, Subscripts
  <2>3. CASE current = "eof" /\ Turn("end", "accepted")
    BY <2>1, <2>3, AcceptInv
  <2> QED
    BY <1>8, <2>2, <2>3 DEF End
<1>9. CASE UNCHANGED parserVars
  <2>1. UNCHANGED <<input, pos, current, peek, at, built, refused>>
    BY <1>9 DEF parserVars
  <2>4. Padded' = Padded /\ Place' = Place
    BY <2>1 DEF Padded, Place
  <2>5. \A n : LexerNext(n)' = LexerNext(n) /\ (Grammatical(n)' <=> Grammatical(n))
    BY <2>1, <2>4 DEF LexerNext, Grammatical
  <2>6. \A n : Segments(built, n)' <=> Segments(built, n)
    BY <2>1, <2>4 DEF Segments, Places
  <2>2. ReadSoFar => ReadSoFar'
    BY <2>1, <2>4, <2>5, <2>6 DEF ReadSoFar
  <2>3. ParsesGrammar => ParsesGrammar'
    BY <2>1 DEF ParsesGrammar, Grammatical, Segments, Places, Padded
  <2> QED
    BY <2>1, <2>2, <2>3 DEF IInv, LexerNext
<1> QED
  BY <1>1, <1>2, <1>3, <1>4, <1>5, <1>6, <1>7, <1>8, <1>9 DEF Production

(* The parser accepts the queries of the grammar with the path they name,  *)
(* and refuses any other at the first token that cannot stand where it     *)
(* does: for every vocabulary, and every query over it.                    *)
THEOREM Parses == Spec => []ParsesGrammar
<1>1. IInv => ParsesGrammar
  BY DEF IInv
<1> QED
  BY <1>1, InitInv, ProductionInv, PTL DEF Spec

---------------------------------------------------------------------------
(* A path, and what going down it gives: one node, many, or the error.     *)
Paths == Seq(Call!Segments)
Outcomes ==
  {r \in Call!Fronts : (r.kind = "one" => Len(r.of) = 1) /\ (r.kind = "error" => r = Call!Err)}

LEMMA DataFacts ==
  /\ Missing \notin Nodes /\ Refused \subseteq Nodes
  /\ \A n \in Nodes : NodeKind[n] \in {"nil", "scalar", "map", "list"} /\ Items[n] \in Seq(Nodes)
  /\ \A n \in Nodes, seg \in Call!Segments \ {Call!Star} : Call!Get(n, seg) \in Nodes \cup {Missing}
<1>1. /\ Missing \notin Nodes /\ Refused \subseteq Nodes
      /\ NodeKind \in [Nodes -> {"nil", "scalar", "map", "list"}]
      /\ Field \in [Nodes -> [Names -> Nodes \cup {Missing}]]
      /\ Items \in [Nodes -> Seq(Nodes)] /\ Number \in [Indices -> Nat]
  BY DataAssumption DEF Call!WellFormed
<1>2. ASSUME NEW n \in Nodes, NEW seg \in Call!Segments \ {Call!Star}
      PROVE  Call!Get(n, seg) \in Nodes \cup {Missing}
  <2>1. CASE seg \in Names
    BY <1>1, <2>1 DEF Call!Get, Call!GetField
  <2>2. CASE seg \notin Names
    <3>1. seg \in Indices /\ Number[seg] \in Nat /\ Items[n] \in Seq(Nodes)
      BY <1>1, <1>2, <2>2 DEF Call!Segments
    <3>2. Number[seg] < Len(Items[n]) => Items[n][Number[seg] + 1] \in Nodes
      BY <3>1
    <3> QED BY <2>2, <3>2 DEF Call!Get, Call!GetIndex
  <2> QED BY <2>1, <2>2
<1> QED BY <1>1, <1>2

LEMMA OutcomeKinds ==
  /\ \A n \in Nodes : Call!One(n) \in Outcomes
  /\ \A s \in Seq(Nodes) : Call!Many(s) \in Outcomes
  /\ Call!Err \in Outcomes
  BY DEF Outcomes, Call!Fronts, Call!One, Call!Many, Call!Err

(* The library is the same inside the instance.                            *)
LEMMA SameFlatten == \A ss : Call!FlattenSeq(ss) = FlattenSeq(ss)
  BY DEF Call!FlattenSeq, FlattenSeq

(* What one result adds is a sequence of nodes, whatever path remains.     *)
LEMMA ContributionType ==
  ASSUME NEW r \in Outcomes, NEW p
  PROVE  Call!Contribution(r, p) \in Seq(Nodes)
<1>1. r.of \in Seq(Nodes) /\ (r.kind = "one" => r.of[1] \in Nodes)
  BY DEF Outcomes, Call!Fronts
<1>2. Call!IsSlice(r) => Call!Elements(r) \in Seq(Nodes)
  BY <1>1, DataFacts DEF Call!IsSlice, Call!Elements
<1> QED BY <1>1, <1>2 DEF Call!Contribution

(* One segment of the descent, when below gives the rest of it.            *)
Descent(below, p, n) ==
  IF p = <<>> THEN Call!One(n)
  ELSE IF NodeKind[n] = "nil" THEN Call!Err
  ELSE IF Head(p) # Call!Star
  THEN LET next == Call!Get(n, Head(p))
       IN  IF next = Missing THEN Call!Err ELSE below[next]
  ELSE LET results == [i \in DOMAIN Items[n] |-> below[Items[n][i]]]
       IN  IF NodeKind[n] # "list" \/ Call!Err \in Call!ToSet(results) THEN Call!Err
           ELSE Call!Many(Call!FlattenSeq([i \in DOMAIN results |-> Call!Contribution(results[i], Tail(p))]))

LEMMA DescentType ==
  ASSUME NEW below \in [Nodes -> Outcomes], NEW p \in Paths, NEW n \in Nodes
  PROVE  Descent(below, p, n) \in Outcomes
<1> DEFINE results == [i \in DOMAIN Items[n] |-> below[Items[n][i]]]
           parts == [i \in DOMAIN results |-> Call!Contribution(results[i], Tail(p))]
<1>1. results \in Seq(Outcomes)
  BY DataFacts
<1>2. parts \in Seq(Seq(Nodes))
  <2>1. \A i \in 1..Len(results) : Call!Contribution(results[i], Tail(p)) \in Seq(Nodes)
    <3> HIDE DEF results
    <3> QED BY <1>1, ContributionType
  <2> HIDE DEF results
  <2> QED BY <1>1, <2>1
<1>3. Call!Many(Call!FlattenSeq(parts)) \in Outcomes
  <2> HIDE DEF parts
  <2> QED BY <1>2, FlattenType, SameFlatten, OutcomeKinds
<1>4. p # <<>> /\ Head(p) # Call!Star => Call!Get(n, Head(p)) \in Nodes \cup {Missing}
  BY HeadTailProperties, DataFacts DEF Paths
<1> HIDE DEF parts, results
<1> QED BY <1>3, <1>4, OutcomeKinds DEF Descent, parts, results

(* Going down a path is well defined: each segment asks for a shorter path. *)
LEMMA ExecuteEquation ==
  /\ \A p \in Paths : Call!ExecutePath[p] \in [Nodes -> Outcomes]
  /\ \A p \in Paths, n \in Nodes :
       Call!ExecutePath[p][n] = Descent(Call!ExecutePath[Tail(p)], p, n)
<1> DEFINE V == [Nodes -> Outcomes]
           rank == [p \in Paths |-> Len(p)]
           F == [g \in [Paths -> V] |-> [p \in Paths |-> [n \in Nodes |-> Descent(g[Tail(p)], p, n)]]]
<1>1. Descends(Paths, V, rank, F)
  <2>1. rank \in [Paths -> Nat] /\ V # {}
    <3>1. rank \in [Paths -> Nat]
      BY DEF Paths
    <3>2. [n \in Nodes |-> Call!Err] \in V
      BY OutcomeKinds
    <3> QED BY <3>1, <3>2
  <2>2. F \in [[Paths -> V] -> [Paths -> V]]
    <3>1. ASSUME NEW g \in [Paths -> V], NEW p \in Paths, NEW n \in Nodes
          PROVE  Descent(g[Tail(p)], p, n) \in Outcomes
      <4>1. CASE p = <<>>
        BY <4>1, OutcomeKinds DEF Descent
      <4>2. CASE p # <<>>
        <5>1. Tail(p) \in Paths
          BY <4>2, HeadTailProperties DEF Paths
        <5> QED BY <5>1, DescentType
      <4> QED BY <4>1, <4>2
    <3> QED BY <3>1
  <2>3. ASSUME NEW g \in [Paths -> V], NEW h \in [Paths -> V], NEW p \in Paths,
               \A q \in Paths : rank[q] < rank[p] => g[q] = h[q]
        PROVE  F[g][p] = F[h][p]
    <3>1. CASE p = <<>>
      BY <3>1 DEF Descent
    <3>2. CASE p # <<>>
      <4>1. Tail(p) \in Paths /\ Len(Tail(p)) < Len(p)
        BY <3>2, HeadTailProperties DEF Paths
      <4> QED BY <2>3, <4>1
    <3> QED BY <3>1, <3>2
  <2> QED BY <2>1, <2>2, <2>3 DEF Descends
<1>2. PICK g \in [Paths -> V] : g = F[g]
  <2> HIDE DEF V, rank, F
  <2> QED BY <1>1, FixedPoint
<1> DEFINE e == Call!ExecutePath
<1>3. e = [p \in Paths |-> [n \in Nodes |-> Descent(e[Tail(p)], p, n)]]
  <2>1. g = [p \in Paths |-> [n \in Nodes |-> Descent(g[Tail(p)], p, n)]]
    BY <1>2
  <2>2. \E h : h = [p \in Paths |-> [n \in Nodes |-> Descent(h[Tail(p)], p, n)]]
    BY <2>1
  <2> HIDE DEF e
  <2>3. e = CHOOSE h : h = [p \in Paths |-> [n \in Nodes |-> Descent(h[Tail(p)], p, n)]]
    BY Zenon DEF e, Call!ExecutePath, Descent, Paths
  <2> QED BY <2>2, <2>3
<1> HIDE DEF e
<1>4. \A p \in Paths : g[p] = [n \in Nodes |-> Descent(g[Tail(p)], p, n)]
  BY <1>2
<1>5. \A p \in Paths : e[p] = [n \in Nodes |-> Descent(e[Tail(p)], p, n)]
  BY <1>3
<1> HIDE DEF F, V, rank
<1>6. \A p \in Paths : e[p] = g[p]
  <2> DEFINE B == {p \in Paths : e[p] # g[p]}
  <2>1. SUFFICES ASSUME B # {} PROVE FALSE
    OBVIOUS
  <2>2. PICK p \in B : \A q \in B : Len(p) <= Len(q)
    BY <2>1, Shortest DEF Paths
  <2>3. CASE p = <<>>
    <3>1. \A n \in Nodes : Descent(g[Tail(p)], p, n) = Descent(e[Tail(p)], p, n)
      BY <2>3 DEF Descent
    <3> QED BY <2>2, <3>1, <1>4, <1>5
  <2>4. CASE p # <<>>
    <3>1. Tail(p) \in Paths /\ ~(Len(p) <= Len(Tail(p)))
      BY <2>2, <2>4, HeadTailProperties DEF Paths
    <3>2. e[Tail(p)] = g[Tail(p)]
      BY <2>2, <3>1
    <3> QED BY <2>2, <3>2, <1>4, <1>5
  <2> QED BY <2>3, <2>4
<1>7. \A p \in Paths : e[p] \in [Nodes -> Outcomes]
  BY <1>2, <1>6 DEF V
<1>8. \A p \in Paths, n \in Nodes : e[p][n] = Descent(e[Tail(p)], p, n)
  BY <1>5
<1> QED BY <1>7, <1>8 DEF e

---------------------------------------------------------------------------
LEMMA WidenType ==
  ASSUME NEW front \in Call!Fronts, NEW seg \in Call!Segments
  PROVE  Call!Widen(front, seg) \in Call!Fronts
<1> DEFINE parts == [i \in DOMAIN front.of |-> Call!Below(front.of[i], seg)]
<1>1. front.of \in Seq(Nodes) /\ Call!Err \in Call!Fronts
  BY DEF Call!Fronts, Call!Err
<1>2. ASSUME \A i \in DOMAIN front.of : ~Call!Faulty(front.of[i], seg)
      PROVE  Call!Many(Call!FlattenSeq(parts)) \in Call!Fronts
  <2>1. \A i \in DOMAIN front.of : Call!Below(front.of[i], seg) \in Seq(Nodes)
    <3> TAKE i \in DOMAIN front.of
    <3>1. front.of[i] \in Nodes
      BY <1>1
    <3> DEFINE n == front.of[i]
    <3>2. seg # Call!Star => Call!Get(n, seg) \in Nodes
      BY <1>2, <3>1, DataFacts DEF Call!Faulty
    <3> HIDE DEF n
    <3>3. Call!Below(n, seg) \in Seq(Nodes)
      BY <3>1, <3>2, DataFacts DEF Call!Below, n
    <3> QED BY <3>3 DEF n
  <2>2. parts \in Seq(Seq(Nodes))
    <3> DEFINE e(i) == Call!Below(front.of[i], seg)
    <3>1. DOMAIN front.of = 1..Len(front.of) /\ Len(front.of) \in Nat
      BY <1>1
    <3> QED BY <2>1, <3>1
  <2> HIDE DEF parts
  <2>3. Call!FlattenSeq(parts) \in Seq(Nodes)
    BY <2>2, FlattenType, SameFlatten
  <2> QED BY <2>3 DEF Call!Many, Call!Fronts
<1> QED BY <1>1, <1>2 DEF Call!Widen

(* The reference is well defined in the same way.                          *)
Widening(rest, p, front) == IF p = <<>> THEN front ELSE rest[Call!Widen(front, Head(p))]

LEMMA MatchesEquation ==
  /\ \A p \in Paths : Call!Matches[p] \in [Call!Fronts -> Call!Fronts]
  /\ \A p \in Paths, front \in Call!Fronts :
       Call!Matches[p][front] = Widening(Call!Matches[Tail(p)], p, front)
<1> DEFINE V == [Call!Fronts -> Call!Fronts]
           rank == [p \in Paths |-> Len(p)]
           F == [g \in [Paths -> V] |->
                   [p \in Paths |-> [front \in Call!Fronts |-> Widening(g[Tail(p)], p, front)]]]
<1>1. Descends(Paths, V, rank, F)
  <2>1. rank \in [Paths -> Nat] /\ V # {}
    <3>1. rank \in [Paths -> Nat]
      BY DEF Paths
    <3>2. [front \in Call!Fronts |-> front] \in V
      OBVIOUS
    <3> QED BY <3>1, <3>2
  <2>2. F \in [[Paths -> V] -> [Paths -> V]]
    <3>1. ASSUME NEW g \in [Paths -> V], NEW p \in Paths, NEW front \in Call!Fronts
          PROVE  Widening(g[Tail(p)], p, front) \in Call!Fronts
      <4>1. CASE p = <<>>
        BY <4>1 DEF Widening
      <4>2. CASE p # <<>>
        <5>1. Tail(p) \in Paths /\ Head(p) \in Call!Segments
          BY <4>2, HeadTailProperties DEF Paths
        <5>2. Call!Widen(front, Head(p)) \in Call!Fronts
          BY <5>1, WidenType
        <5> QED BY <4>2, <5>1, <5>2 DEF Widening
      <4> QED BY <4>1, <4>2
    <3> QED BY <3>1
  <2>3. ASSUME NEW g \in [Paths -> V], NEW h \in [Paths -> V], NEW p \in Paths,
               \A q \in Paths : rank[q] < rank[p] => g[q] = h[q]
        PROVE  F[g][p] = F[h][p]
    <3>1. CASE p = <<>>
      BY <3>1 DEF Widening
    <3>2. CASE p # <<>>
      <4>1. Tail(p) \in Paths /\ Len(Tail(p)) < Len(p)
        BY <3>2, HeadTailProperties DEF Paths
      <4> QED BY <2>3, <4>1
    <3> QED BY <3>1, <3>2
  <2> QED BY <2>1, <2>2, <2>3 DEF Descends
<1>2. PICK g \in [Paths -> V] : g = F[g]
  <2> HIDE DEF V, rank, F
  <2> QED BY <1>1, FixedPoint
<1> DEFINE e == Call!Matches
<1>3. e = [p \in Paths |-> [front \in Call!Fronts |-> Widening(e[Tail(p)], p, front)]]
  <2>1. g = [p \in Paths |-> [front \in Call!Fronts |-> Widening(g[Tail(p)], p, front)]]
    BY <1>2
  <2>2. \E h : h = [p \in Paths |-> [front \in Call!Fronts |-> Widening(h[Tail(p)], p, front)]]
    BY <2>1
  <2> HIDE DEF e
  <2>3. e = CHOOSE h :
              h = [p \in Paths |-> [front \in Call!Fronts |-> Widening(h[Tail(p)], p, front)]]
    BY Zenon DEF e, Call!Matches, Widening, Paths
  <2> QED BY <2>2, <2>3
<1> HIDE DEF e
<1>4. \A p \in Paths : g[p] = [front \in Call!Fronts |-> Widening(g[Tail(p)], p, front)]
  BY <1>2
<1>5. \A p \in Paths : e[p] = [front \in Call!Fronts |-> Widening(e[Tail(p)], p, front)]
  BY <1>3
<1> HIDE DEF F, V, rank
<1>6. \A p \in Paths : e[p] = g[p]
  <2> DEFINE B == {p \in Paths : e[p] # g[p]}
  <2>1. SUFFICES ASSUME B # {} PROVE FALSE
    OBVIOUS
  <2>2. PICK p \in B : \A q \in B : Len(p) <= Len(q)
    BY <2>1, Shortest DEF Paths
  <2>3. CASE p = <<>>
    <3>1. \A front \in Call!Fronts : Widening(g[Tail(p)], p, front) = Widening(e[Tail(p)], p, front)
      BY <2>3 DEF Widening
    <3> QED BY <2>2, <3>1, <1>4, <1>5
  <2>4. CASE p # <<>>
    <3>1. Tail(p) \in Paths /\ ~(Len(p) <= Len(Tail(p)))
      BY <2>2, <2>4, HeadTailProperties DEF Paths
    <3>2. e[Tail(p)] = g[Tail(p)]
      BY <2>2, <3>1
    <3> QED BY <2>2, <3>2, <1>4, <1>5
  <2> QED BY <2>3, <2>4
<1>7. \A p \in Paths : e[p] \in [Call!Fronts -> Call!Fronts]
  BY <1>2, <1>6 DEF V
<1>8. \A p \in Paths, front \in Call!Fronts : e[p][front] = Widening(e[Tail(p)], p, front)
  BY <1>5
<1> QED BY <1>7, <1>8 DEF e

(* The descent never yields one node for a path with a wildcard, nor many   *)
(* for a path without.                                                     *)
LEMMA WildcardTail ==
  ASSUME NEW p \in Paths, p # <<>>
  PROVE  /\ Head(p) \in Call!Segments /\ Tail(p) \in Paths /\ Len(Tail(p)) < Len(p)
         /\ Call!ContainsWildcard(p) <=> Head(p) = Call!Star \/ Call!ContainsWildcard(Tail(p))
<1>1. /\ Head(p) = p[1] /\ Tail(p) \in Paths /\ Len(Tail(p)) = Len(p) - 1 /\ Head(p) \in Call!Segments
      /\ \A i \in 1..Len(Tail(p)) : Tail(p)[i] = p[i + 1]
  BY HeadTailProperties DEF Paths
<1>2. /\ DOMAIN p = 1..Len(p) /\ DOMAIN Tail(p) = 1..Len(Tail(p)) /\ Len(p) \in Nat \ {0}
  BY <1>1 DEF Paths
<1>3. Call!ContainsWildcard(p) <=> \E i \in 1..Len(p) : p[i] = Call!Star
  BY <1>2 DEF Call!ContainsWildcard, Call!ToSet
<1>4. Call!ContainsWildcard(Tail(p)) <=> \E i \in 1..Len(Tail(p)) : Tail(p)[i] = Call!Star
  BY <1>2 DEF Call!ContainsWildcard, Call!ToSet
<1>5. ASSUME NEW i \in 1..Len(p), p[i] = Call!Star
      PROVE  Head(p) = Call!Star \/ Call!ContainsWildcard(Tail(p))
  <2>1. CASE i = 1
    BY <1>1, <1>5, <2>1
  <2>2. CASE i # 1
    <3>1. i - 1 \in 1..Len(Tail(p)) /\ (i - 1) + 1 = i
      BY <1>1, <1>2, <2>2
    <3>2. Tail(p)[i - 1] = Call!Star
      BY <1>1, <1>5, <3>1
    <3> QED BY <1>4, <3>1, <3>2
  <2> QED BY <2>1, <2>2
<1>6. ASSUME NEW i \in 1..Len(Tail(p)), Tail(p)[i] = Call!Star
      PROVE  Call!ContainsWildcard(p)
  <2>1. i + 1 \in 1..Len(p) /\ p[i + 1] = Call!Star
    BY <1>1, <1>2, <1>6
  <2> QED BY <1>3, <2>1
<1>7. Head(p) = Call!Star => Call!ContainsWildcard(p)
  <2>1. 1 \in 1..Len(p)
    BY <1>2
  <2> QED BY <1>1, <1>3, <2>1
<1> QED BY <1>1, <1>2, <1>3, <1>4, <1>5, <1>6, <1>7

LEMMA OutcomeShape ==
  \A p \in Paths : \A n \in Nodes :
    LET r == Call!ExecutePath[p][n]
    IN  r # Call!Err => r.kind = IF Call!ContainsWildcard(p) THEN "many" ELSE "one"
<1> DEFINE Shape(p, n) ==
             Call!ExecutePath[p][n] # Call!Err =>
               Call!ExecutePath[p][n].kind = IF Call!ContainsWildcard(p) THEN "many" ELSE "one"
           B == {p \in Paths : ~ \A n \in Nodes : Shape(p, n)}
<1>1. SUFFICES ASSUME B # {} PROVE FALSE
  OBVIOUS
<1>2. PICK p \in B : \A q \in B : Len(p) <= Len(q)
  BY <1>1, Shortest DEF Paths
<1>3. PICK n \in Nodes : ~Shape(p, n)
  BY <1>2
<1> DEFINE r == Call!ExecutePath[p][n]
<1>4. r = Descent(Call!ExecutePath[Tail(p)], p, n)
  BY <1>2, ExecuteEquation
<1>5. CASE p = <<>>
  <2>1. ~Call!ContainsWildcard(p)
    BY <1>5 DEF Call!ContainsWildcard, Call!ToSet
  <2>2. r.kind = "one"
    BY <1>4, <1>5 DEF Descent, Call!One
  <2> QED BY <1>3, <2>1, <2>2
<1>6. CASE p # <<>> /\ Head(p) = Call!Star
  <2>1. r = Call!Err \/ r.kind = "many"
    BY <1>4, <1>6 DEF Descent, Call!Many
  <2> QED BY <1>2, <1>3, <1>6, <2>1, WildcardTail
<1>7. CASE p # <<>> /\ Head(p) # Call!Star
  <2> DEFINE next == Call!Get(n, Head(p))
  <2>1. r = Call!Err \/ (next # Missing /\ r = Call!ExecutePath[Tail(p)][next])
    BY <1>4, <1>7 DEF Descent
  <2>2. next # Missing => next \in Nodes
    BY <1>2, <1>7, WildcardTail, DataFacts
  <2>3. \A x \in Nodes : Shape(Tail(p), x)
    <3>1. Tail(p) \in Paths /\ ~(Len(p) <= Len(Tail(p)))
      BY <1>2, <1>7, WildcardTail DEF Paths
    <3> QED BY <1>2, <3>1
  <2>4. Call!ContainsWildcard(p) <=> Call!ContainsWildcard(Tail(p))
    BY <1>2, <1>7, WildcardTail
  <2> HIDE DEF next
  <2> QED BY <1>3, <2>1, <2>2, <2>3, <2>4
<1> QED BY <1>5, <1>6, <1>7

---------------------------------------------------------------------------
Found(p) == [n \in Nodes |-> Call!ExecutePath[p][n].of]

LEMMA FoundType ==
  ASSUME NEW p \in Paths
  PROVE  Maps(Found(p), Nodes, Seq(Nodes))
  BY ExecuteEquation DEF Maps, Found, Outcomes, Call!Fronts

(* An error of what is below.                                              *)
Fails(p, s) == \E i \in DOMAIN s : Call!ExecutePath[p][s[i]] = Call!Err

LEMMA OneStep ==
  ASSUME NEW p \in Paths, p # <<>>, NEW n \in Nodes, ~Call!Faulty(n, Head(p))
  PROVE  LET r == Call!ExecutePath[p][n]
             b == Call!Below(n, Head(p))
         IN  /\ b \in Seq(Nodes)
             /\ Fails(Tail(p), b) => r = Call!Err
             /\ ~Fails(Tail(p), b) => r # Call!Err /\ r.of = FlattenSeq(Map(Found(Tail(p)), b))
<1> DEFINE r == Call!ExecutePath[p][n]
           b == Call!Below(n, Head(p))
           q == Tail(p)
<1>1. q \in Paths /\ Head(p) \in Call!Segments
  BY WildcardTail
<1>2. r = Descent(Call!ExecutePath[q], p, n) /\ NodeKind[n] # "nil"
  BY ExecuteEquation DEF Call!Faulty
<1>3. CASE Head(p) # Call!Star
  <2> DEFINE next == Call!Get(n, Head(p))
  <2>1. next \in Nodes /\ next # Missing /\ b = <<next>>
    BY <1>1, <1>3, DataFacts DEF Call!Faulty, Call!Below
  <2>2. r = Call!ExecutePath[q][next]
    BY <1>2, <1>3, <2>1 DEF Descent
  <2> HIDE DEF next, r, b
  <2>3. b \in Seq(Nodes) /\ DOMAIN b = {1} /\ b[1] = next
    BY <2>1
  <2>4. Fails(q, b) <=> r = Call!Err
    BY <2>2, <2>3 DEF Fails
  <2>5. FlattenSeq(Map(Found(q), b)) = r.of
    <3>1. Found(q)[next] = r.of
      BY <2>1, <2>2 DEF Found
    <3>2. Map(Found(q), b) = <<r.of>>
      BY <2>1, <3>1 DEF Map
    <3>3. r.of \in Seq(Nodes)
      BY <1>1, <2>1, <3>1, FoundType DEF Maps
    <3> QED BY <3>2, <3>3, FlattenOne
  <2> QED BY <2>3, <2>4, <2>5 DEF r, b
<1>4. CASE Head(p) = Call!Star
  <2> DEFINE results == [i \in DOMAIN Items[n] |-> Call!ExecutePath[q][Items[n][i]]]
             parts == [i \in DOMAIN results |-> Call!Contribution(results[i], q)]
  <2>1. b = Items[n] /\ NodeKind[n] = "list" /\ b \in Seq(Nodes)
    BY <1>4, DataFacts DEF Call!Below, Call!Faulty
  <2>2. r = IF Call!Err \in Call!ToSet(results) THEN Call!Err ELSE Call!Many(Call!FlattenSeq(parts))
    BY <1>2, <1>4, <2>1 DEF Descent
  <2>3. Call!Err \in Call!ToSet(results) <=> Fails(q, b)
    BY <2>1 DEF Call!ToSet, Fails
  <2>4. ASSUME ~Fails(q, b)
        PROVE  parts = Map(Found(q), b)
    <3>1. \A i \in DOMAIN b : Call!Contribution(results[i], q) = Found(q)[b[i]]
      <4> TAKE i \in DOMAIN b
      <4> DEFINE x == Call!ExecutePath[q][b[i]]
      <4>1. b[i] \in Nodes /\ results[i] = x /\ x # Call!Err
        BY <2>1, <2>4 DEF Fails
      <4>2. x.kind = IF Call!ContainsWildcard(q) THEN "many" ELSE "one"
        BY <1>1, <4>1, OutcomeShape
      <4>3. Call!Contribution(x, q) = x.of
        <5> HIDE DEF x
        <5> QED BY <4>2 DEF Call!Contribution, Call!Elements
      <4>4. Found(q)[b[i]] = x.of
        BY <4>1 DEF Found
      <4> QED BY <4>1, <4>3, <4>4
    <3>2. DOMAIN results = DOMAIN b
      BY <2>1
    <3> HIDE DEF results, b
    <3> QED BY <3>1, <3>2 DEF Map
  <2>5. \/ r # Call!Err /\ r.of = Call!FlattenSeq(parts)
        \/ Fails(q, b)
    <3> HIDE DEF parts, results
    <3> QED BY <2>2, <2>3 DEF Call!Many, Call!Err
  <2> HIDE DEF parts, results, r, b
  <2> QED BY <2>1, <2>2, <2>3, <2>4, <2>5, SameFlatten DEF r, b
<1> QED BY <1>3, <1>4

LEMMA ErrStays == \A p \in Paths : Call!Matches[p][Call!Err] = Call!Err
<1> DEFINE B == {p \in Paths : Call!Matches[p][Call!Err] # Call!Err}
<1>1. SUFFICES ASSUME B # {} PROVE FALSE
  OBVIOUS
<1>2. PICK p \in B : \A q \in B : Len(p) <= Len(q)
  BY <1>1, Shortest DEF Paths
<1>3. Call!Err \in Call!Fronts
  BY DEF Call!Err, Call!Fronts
<1>4. Call!Matches[p][Call!Err] = Widening(Call!Matches[Tail(p)], p, Call!Err)
  BY <1>2, <1>3, MatchesEquation
<1>5. p # <<>>
  BY <1>2, <1>4 DEF Widening
<1>6. Call!Matches[p][Call!Err] = Call!Matches[Tail(p)][Call!Err]
  BY <1>4, <1>5 DEF Widening, Call!Widen
<1>7. Tail(p) \in Paths /\ ~(Len(p) <= Len(Tail(p)))
  BY <1>2, <1>5, WildcardTail DEF Paths
<1> QED BY <1>2, <1>6, <1>7

(* The expansion of a front, all at once and node by node.                 *)
Agrees(p, front) ==
  LET all == Call!Matches[p][front]
  IN  /\ Fails(p, front.of) => all = Call!Err
      /\ ~Fails(p, front.of) => all # Call!Err /\ all.of = FlattenSeq(Map(Found(p), front.of))

LEMMA AgreesEmpty ==
  ASSUME NEW front \in Call!Fronts, front # Call!Err
  PROVE  Agrees(<<>>, front)
<1>1. <<>> \in Paths /\ front.of \in Seq(Nodes)
  BY DEF Paths, Call!Fronts
<1>2. Call!Matches[<<>>][front] = front
  BY <1>1, MatchesEquation DEF Widening
<1> DEFINE e == Call!ExecutePath[<<>>]
<1>3. \A n \in Nodes : e[n].kind = "one" /\ e[n].of = <<n>>
  <2>1. \A n \in Nodes : e[n] = Call!One(n)
    BY <1>1, ExecuteEquation DEF Descent
  <2>2. \A n \in Nodes : Call!One(n).kind = "one" /\ Call!One(n).of = <<n>>
    BY DEF Call!One
  <2> HIDE DEF e
  <2> QED BY <2>1, <2>2
<1> DEFINE s == front.of
<1>0. \A i \in DOMAIN s : s[i] \in Nodes
  BY <1>1
<1>4. ~Fails(<<>>, s)
  <2>1. Call!Err.kind = "error"
    BY DEF Call!Err
  <2>2. \A n \in Nodes : e[n] # Call!Err
    <3> HIDE DEF e
    <3> QED BY <1>3, <2>1
  <2> HIDE DEF s
  <2> QED BY <1>0, <2>2 DEF Fails
<1>5. Map(Found(<<>>), front.of) = [i \in DOMAIN front.of |-> <<front.of[i]>>]
  <2>1. \A i \in DOMAIN front.of : Found(<<>>)[front.of[i]] = <<front.of[i]>>
    <3>1. \A n \in Nodes : Found(<<>>)[n] = <<n>>
      <4>1. \A n \in Nodes : Found(<<>>)[n] = e[n].of
        BY DEF Found
      <4> HIDE DEF e
      <4> QED BY <1>3, <4>1
    <3> HIDE DEF s
    <3> QED BY <1>0, <3>1 DEF s
  <2> QED BY <2>1 DEF Map
<1>6. FlattenSeq(Map(Found(<<>>), front.of)) = front.of
  BY <1>1, <1>5, FlattenSingles
<1> QED BY <1>2, <1>4, <1>6 DEF Agrees

LEMMA AgreesStep ==
  ASSUME NEW p \in Paths, p # <<>>, NEW front \in Call!Fronts, front # Call!Err,
         \A f \in Call!Fronts \ {Call!Err} : Agrees(Tail(p), f)
  PROVE  Agrees(p, front)
<1> DEFINE q == Tail(p)
           seg == Head(p)
           s == front.of
           parts == [i \in DOMAIN s |-> Call!Below(s[i], seg)]
           wide == Call!Widen(front, seg)
           whole == FlattenSeq(parts)
<1>1. q \in Paths /\ seg \in Call!Segments /\ s \in Seq(Nodes)
  BY WildcardTail DEF Call!Fronts
<1>2. Call!Matches[p][front] = Call!Matches[q][wide] /\ wide \in Call!Fronts
  BY <1>1, WidenType, MatchesEquation DEF Widening
<1>3. CASE \E i \in DOMAIN s : Call!Faulty(s[i], seg)
  <2>1. wide = Call!Err
    BY <1>3 DEF Call!Widen
  <2>2. PICK i \in DOMAIN s : Call!Faulty(s[i], seg)
    BY <1>3
  <2>3. s[i] \in Nodes
    BY <1>1
  <2>4. Call!ExecutePath[p][s[i]] = Call!Err
    <3> DEFINE n == s[i]
    <3>1. Call!ExecutePath[p][n] = Descent(Call!ExecutePath[q], p, n)
      BY <2>3, ExecuteEquation
    <3> QED BY <2>2, <3>1 DEF Descent, Call!Faulty
  <2>5. Fails(p, s)
    BY <2>4 DEF Fails
  <2>6. Call!Matches[q][Call!Err] = Call!Err
    BY <1>1, ErrStays
  <2> QED BY <1>2, <2>1, <2>5, <2>6 DEF Agrees
<1>4. CASE ~ \E i \in DOMAIN s : Call!Faulty(s[i], seg)
  <2>1. \A i \in DOMAIN s :
          /\ s[i] \in Nodes /\ parts[i] \in Seq(Nodes)
          /\ Fails(q, parts[i]) => Call!ExecutePath[p][s[i]] = Call!Err
          /\ ~Fails(q, parts[i]) => /\ Call!ExecutePath[p][s[i]] # Call!Err
                                    /\ Found(p)[s[i]] = FlattenSeq(Map(Found(q), parts[i]))
    <3> TAKE i \in DOMAIN s
    <3>1. s[i] \in Nodes /\ ~Call!Faulty(s[i], seg)
      BY <1>1, <1>4
    <3>2. parts[i] = Call!Below(s[i], seg) /\ Found(p)[s[i]] = Call!ExecutePath[p][s[i]].of
      BY <3>1 DEF Found
    <3> QED BY <3>1, <3>2, OneStep
  <2>2. parts \in Seq(Seq(Nodes)) /\ DOMAIN parts = DOMAIN s
    <3>1. DOMAIN s = 1..Len(s) /\ Len(s) \in Nat
      BY <1>1
    <3> DEFINE e(i) == Call!Below(s[i], seg)
    <3>2. \A i \in 1..Len(s) : e(i) \in Seq(Nodes)
      BY <2>1, <3>1
    <3>3. parts = [i \in 1..Len(s) |-> e(i)]
      BY <3>1
    <3> HIDE DEF e, s, parts
    <3> QED BY <3>1, <3>2, <3>3
  <2>3. wide # Call!Err /\ wide.of = whole
    <3>1. wide = Call!Many(Call!FlattenSeq(parts))
      BY <1>4 DEF Call!Widen
    <3> HIDE DEF wide, parts
    <3> QED BY <3>1, SameFlatten DEF Call!Many, Call!Err
  <2> HIDE DEF parts, wide, q, seg, s
  <2>4. Fails(q, whole) <=> \E i \in DOMAIN s : Fails(q, parts[i])
    <3>1. ToSet(whole) = UNION {ToSet(parts[i]) : i \in DOMAIN parts}
      BY <2>2, FlattenElements
    <3>2. \A t : Fails(q, t) <=> \E x \in ToSet(t) : Call!ExecutePath[q][x] = Call!Err
      BY DEF Fails, ToSet
    <3> HIDE DEF whole
    <3> QED BY <2>2, <3>1, <3>2
  <2>5. Agrees(q, wide)
    BY <1>2, <2>3 DEF q
  <2>6. Fails(p, s) <=> Fails(q, whole)
    BY <2>1, <2>4 DEF Fails
  <2>7. ASSUME ~Fails(p, s)
        PROVE  FlattenSeq(Map(Found(q), whole)) = FlattenSeq(Map(Found(p), s))
    <3>1. FlattenSeq(Map(Found(q), whole)) = FlattenSeq(Spread(Found(q), parts))
      BY <1>1, <2>2, FoundType, FlattenSpread
    <3>2. \A i \in DOMAIN s : Found(p)[s[i]] = FlattenSeq(Map(Found(q), parts[i]))
      BY <2>1, <2>4, <2>6, <2>7
    <3>3. Spread(Found(q), parts) = Map(Found(p), s)
      BY <2>2, <3>2 DEF Spread, Map
    <3> QED BY <3>1, <3>3
  <2>8. CASE Fails(p, s)
    <3>1. Call!Matches[q][wide] = Call!Err
      BY <2>3, <2>5, <2>6, <2>8 DEF Agrees
    <3> QED BY <1>2, <2>8, <3>1 DEF Agrees, s
  <2>9. CASE ~Fails(p, s)
    <3>1. /\ Call!Matches[q][wide] # Call!Err
          /\ Call!Matches[q][wide].of = FlattenSeq(Map(Found(q), whole))
      BY <2>3, <2>5, <2>6, <2>9 DEF Agrees
    <3> QED BY <1>2, <2>7, <2>9, <3>1 DEF Agrees, s
  <2> QED BY <2>8, <2>9
<1> QED BY <1>3, <1>4

LEMMA AllAgree == \A p \in Paths : \A front \in Call!Fronts \ {Call!Err} : Agrees(p, front)
<1> DEFINE B == {p \in Paths : ~ \A front \in Call!Fronts \ {Call!Err} : Agrees(p, front)}
<1>1. SUFFICES ASSUME B # {} PROVE FALSE
  OBVIOUS
<1>2. PICK p \in B : \A q \in B : Len(p) <= Len(q)
  BY <1>1, Shortest DEF Paths
<1>3. p # <<>>
  BY <1>2, AgreesEmpty
<1>4. Tail(p) \in Paths /\ ~(Len(p) <= Len(Tail(p)))
  BY <1>2, <1>3, WildcardTail DEF Paths
<1>5. \A f \in Call!Fronts \ {Call!Err} : Agrees(Tail(p), f)
  BY <1>2, <1>4
<1> QED BY <1>2, <1>3, <1>5, AgreesStep

(* Depth first and breadth first come to the same matches.                 *)
LEMMA DepthIsBreadth ==
  ASSUME NEW n \in Nodes, NEW p \in Paths
  PROVE  LET r == Call!ExecutePath[p][n]
             front == Call!Matches[p][Call!One(n)]
         IN  /\ front = Call!Err <=> r = Call!Err
             /\ r # Call!Err => front.of = r.of
<1> DEFINE r == Call!ExecutePath[p][n]
           one == Call!One(n)
<1>1. one \in Call!Fronts \ {Call!Err} /\ one.of = <<n>>
  BY DEF Call!One, Call!Fronts, Call!Err
<1>2. Agrees(p, one)
  BY <1>1, AllAgree
<1>3. Fails(p, <<n>>) <=> r = Call!Err
  BY DEF Fails
<1>4. FlattenSeq(Map(Found(p), <<n>>)) = r.of
  <2>1. Map(Found(p), <<n>>) = <<r.of>>
    BY DEF Map, Found
  <2>2. r.of \in Seq(Nodes)
    BY FoundType DEF Maps, Found
  <2> QED BY <2>1, <2>2, FlattenOne
<1> HIDE DEF r, one
<1> QED BY <1>1, <1>2, <1>3, <1>4 DEF Agrees, r, one

---------------------------------------------------------------------------
(* The refused elements of a sequence, in order.                           *)
Kept == [x \in Nodes |-> IF x \in Refused THEN <<x>> ELSE <<>>]

LEMMA KeptType == Maps(Kept, Nodes, Seq(Nodes))
<1>1. \A x \in Nodes : (IF x \in Refused THEN <<x>> ELSE <<>>) \in Seq(Nodes)
  OBVIOUS
<1> QED BY <1>1 DEF Kept, Maps

LEMMA BadKept == \A s \in Seq(Nodes) : Call!Bad(s) = FlattenSeq(Map(Kept, s))
<1> TAKE s \in Seq(Nodes)
<1>1. \A i \in DOMAIN s : s[i] \in Nodes
  OBVIOUS
<1>2. Map(Kept, s) = [i \in DOMAIN s |-> IF s[i] \in Refused THEN <<s[i]>> ELSE <<>>]
  BY <1>1 DEF Map, Kept
<1> QED BY <1>2, SameFlatten DEF Call!Bad

LEMMA BadAppend ==
  ASSUME NEW s \in Seq(Nodes), NEW x \in Nodes
  PROVE  Call!Bad(Append(s, x)) = IF x \in Refused THEN Append(Call!Bad(s), x) ELSE Call!Bad(s)
<1>1. Map(Kept, Append(s, x)) = Append(Map(Kept, s), Kept[x])
  BY KeptType, MapAppend
<1>2. Map(Kept, s) \in Seq(Seq(Nodes)) /\ Kept[x] \in Seq(Nodes)
  BY KeptType, MapType DEF Maps
<1>3. Call!Bad(Append(s, x)) = FlattenSeq(Map(Kept, Append(s, x))) /\ Call!Bad(s) = FlattenSeq(Map(Kept, s))
  <2>1. Append(s, x) \in Seq(Nodes)
    OBVIOUS
  <2> QED BY <2>1, BadKept
<1>4. Call!Bad(Append(s, x)) = Call!Bad(s) \o Kept[x]
  BY <1>1, <1>2, <1>3, FlattenAppend
<1>5. Call!Bad(s) \in Seq(Nodes)
  BY <1>2, <1>3, FlattenType
<1> QED BY <1>4, <1>5, AppendIsConcat, ConcatEmptySeq DEF Kept

LEMMA BadEmpty == Call!Bad(<<>>) = <<>>
<1>1. Map(Kept, <<>>) = <<>>
  BY DEF Map
<1>2. <<>> \in Seq(Nodes)
  OBVIOUS
<1> QED BY <1>1, <1>2, BadKept, FlattenEmpty

LEMMA BadElements ==
  ASSUME NEW s \in Seq(Nodes)
  PROVE  /\ Call!Bad(s) \in Seq(Nodes)
         /\ Call!Bad(s) # <<>> <=> \E i \in DOMAIN s : s[i] \in Refused
<1> DEFINE parts == Map(Kept, s)
<1>1. parts \in Seq(Seq(Nodes)) /\ DOMAIN parts = DOMAIN s /\ \A i \in DOMAIN s : parts[i] = Kept[s[i]]
  BY KeptType, MapType DEF Map
<1>2. Call!Bad(s) = FlattenSeq(parts) /\ \A i \in DOMAIN s : s[i] \in Nodes
  BY BadKept
<1> HIDE DEF parts
<1>3. Call!Bad(s) \in Seq(Nodes)
  BY <1>1, <1>2, FlattenType
<1>4. ToSet(Call!Bad(s)) = UNION {ToSet(parts[i]) : i \in DOMAIN parts}
  BY <1>1, <1>2, FlattenElements
<1>5. \A i \in DOMAIN s : ToSet(parts[i]) = IF s[i] \in Refused THEN {s[i]} ELSE {}
  <2> TAKE i \in DOMAIN s
  <2>1. CASE s[i] \in Refused
    <3>1. parts[i] = <<s[i]>>
      BY <1>1, <1>2, <2>1 DEF Kept
    <3> QED BY <2>1, <3>1 DEF ToSet
  <2>2. CASE s[i] \notin Refused
    <3>1. parts[i] = <<>>
      BY <1>1, <1>2, <2>2 DEF Kept
    <3> QED BY <2>2, <3>1 DEF ToSet
  <2> QED BY <2>1, <2>2
<1>6. Call!Bad(s) = <<>> <=> ToSet(Call!Bad(s)) = {}
  <2> DEFINE b == Call!Bad(s)
  <2> HIDE DEF b
  <2>1. b \in Seq(Nodes) => (b = <<>> <=> ToSet(b) = {})
    <3>1. b \in Seq(Nodes) /\ b # <<>> => 1 \in DOMAIN b
      OBVIOUS
    <3>2. <<>> \in Seq(Nodes) /\ DOMAIN <<>> = {}
      OBVIOUS
    <3> QED BY <3>1, <3>2 DEF ToSet
  <2> QED BY <1>3, <2>1 DEF b
<1>7. UNION {ToSet(parts[i]) : i \in DOMAIN parts} = {} <=> ~ \E i \in DOMAIN s : s[i] \in Refused
  <2> DEFINE elements(i) == ToSet(parts[i])
  <2>1. \A i \in DOMAIN s : elements(i) = IF s[i] \in Refused THEN {s[i]} ELSE {}
    BY <1>5
  <2> HIDE DEF elements
  <2>2. UNION {elements(i) : i \in DOMAIN s} = {} <=> ~ \E i \in DOMAIN s : s[i] \in Refused
    BY <2>1
  <2> QED BY <1>1, <2>2 DEF elements
<1> QED BY <1>3, <1>4, <1>6, <1>7

---------------------------------------------------------------------------
(* What has been handed over is what comes first in the matches.           *)
LEMMA PrefixIs ==
  ASSUME NEW s \in Seq(Nodes), NEW t \in Seq(Nodes)
  PROVE  Call!IsPrefix(s, t) <=> Len(s) <= Len(t) /\ \A i \in 1..Len(s) : s[i] = t[i]
<1>1. SUFFICES ASSUME Len(s) <= Len(t)
               PROVE  SubSeq(s, 1, Len(s)) = SubSeq(t, 1, Len(s)) <=> \A i \in 1..Len(s) : s[i] = t[i]
  BY DEF Call!IsPrefix
<1>2. SubSeq(s, 1, Len(s)) = [i \in 1..Len(s) |-> s[i]]
  OBVIOUS
<1>3. SubSeq(t, 1, Len(s)) = [i \in 1..Len(s) |-> t[i]]
  BY <1>1
<1>4. [i \in 1..Len(s) |-> s[i]] = [i \in 1..Len(s) |-> t[i]] <=> \A i \in 1..Len(s) : s[i] = t[i]
  <2> DEFINE f == [i \in 1..Len(s) |-> s[i]]
             g == [i \in 1..Len(s) |-> t[i]]
  <2>1. \A i \in 1..Len(s) : f[i] = s[i] /\ g[i] = t[i]
    OBVIOUS
  <2>2. f = g => \A i \in 1..Len(s) : s[i] = t[i]
    <3> HIDE DEF f, g
    <3> QED BY <2>1
  <2> QED BY <2>2
<1> QED BY <1>2, <1>3, <1>4

(* What the call has gathered after these elements.                        *)
Gathered(s) ==
  CASE op = "each" -> <<>> [] op = "collect" -> s [] OTHER -> Call!Bad(s)

(* A walk: the elements so far come first in what is walked over, and none *)
(* but ValidateEach goes past one that is refused.                         *)
Walked ==
  /\ stage \in {"parse", "query", "walk", "done"}
  /\ items \in Seq(Nodes) /\ seen \in Seq(Nodes)
  /\ stage \in {"parse", "query"} => items = <<>> /\ seen = <<>> /\ collected = <<>> /\ ~failed
  /\ stage = "walk" =>
       /\ op \in Call!Ops /\ ~failed
       /\ Call!IsPrefix(seen, items) /\ collected = Gathered(seen)
       /\ op # "validateEach" => Call!Bad(seen) = <<>>
  /\ Call!WalkExact

(* What is walked over is what ExecutePath found.                          *)
Expanded ==
  /\ stage \in {"query", "walk"} => at # "rejected"
  /\ stage = "query" => op \in Call!Ops
  /\ stage # "parse" /\ at # "rejected" => root \in Nodes /\ path \in Paths
  /\ stage \in {"walk", "done"} /\ at # "rejected" =>
       LET result == Call!ExecutePath[path][root]
       IN  IF result = Call!Err THEN stage = "done" /\ failed
           ELSE items = IF Call!IsSlice(result) THEN Call!Elements(result) ELSE result.of

CInv == IInv /\ Walked /\ Expanded

LEMMA ExpandedExact == Expanded => ExpansionExact
<1> DEFINE r == Call!ExecutePath[path][root]
           front == Call!Matches[path][Call!One(root)]
<1> SUFFICES ASSUME Expanded, at # "rejected", stage \in {"walk", "done"}
             PROVE  IF front = Call!Err THEN stage = "done" /\ failed
                    ELSE items = (IF Call!ContainsWildcard(path) \/ NodeKind[front.of[1]] # "list"
                                  THEN front.of ELSE Items[front.of[1]])
  BY DEF ExpansionExact, Call!ExpansionExact
<1>1. root \in Nodes /\ path \in Paths
  BY DEF Expanded
<1>2. (front = Call!Err <=> r = Call!Err) /\ (r # Call!Err => front.of = r.of)
  BY <1>1, DepthIsBreadth
<1>3. r # Call!Err => r.kind = IF Call!ContainsWildcard(path) THEN "many" ELSE "one"
  BY <1>1, OutcomeShape
<1>4. IF r = Call!Err THEN stage = "done" /\ failed
      ELSE items = IF Call!IsSlice(r) THEN Call!Elements(r) ELSE r.of
  BY DEF Expanded
<1> HIDE DEF r, front
<1>5. CASE r = Call!Err
  BY <1>2, <1>4, <1>5
<1>6. CASE r # Call!Err /\ r.kind = "many"
  <2>1. Call!IsSlice(r) /\ Call!Elements(r) = r.of
    BY <1>6 DEF Call!IsSlice, Call!Elements
  <2>2. Call!ContainsWildcard(path) /\ front # Call!Err /\ front.of = r.of
    BY <1>2, <1>3, <1>6
  <2> QED BY <1>4, <1>6, <2>1, <2>2
<1>7. CASE r # Call!Err /\ r.kind = "one"
  <2>1. /\ Call!IsSlice(r) <=> NodeKind[r.of[1]] = "list"
        /\ Call!Elements(r) = Items[r.of[1]]
    BY <1>7 DEF Call!IsSlice, Call!Elements
  <2>2. ~Call!ContainsWildcard(path) /\ front # Call!Err /\ front.of = r.of
    BY <1>2, <1>3, <1>7
  <2> QED BY <1>4, <1>7, <2>1, <2>2
<1> QED BY <1>3, <1>5, <1>6, <1>7

LEMMA CallInit == QueryInit => CInv
<1> SUFFICES ASSUME QueryInit PROVE CInv
  OBVIOUS
<1>1. IInv
  BY InitInv DEF QueryInit
<1>2. stage = "parse" /\ items = <<>> /\ seen = <<>> /\ collected = <<>> /\ failed = FALSE
  BY DEF QueryInit, Call!Init
<1> QED BY <1>1, <1>2 DEF CInv, Walked, Expanded, Call!WalkExact

(* Until it is done with its query, the call has not walked at all.        *)
LEMMA NotYet ==
  ASSUME Walked, stage \in {"parse", "query"}, stage' \in {"parse", "query", "done"},
         UNCHANGED <<items, seen, collected>>, stage' # "done" => UNCHANGED failed
  PROVE  Walked'
<1>1. items' = <<>> /\ seen' = <<>> /\ collected' = <<>>
  BY DEF Walked
<1> QED BY <1>1 DEF Walked, Call!WalkExact

(* What the walk hands over next.                                          *)
LEMMA NextElement ==
  ASSUME CInv, Call!More
  PROVE  /\ Call!Current \in Nodes /\ Len(seen) + 1 \in DOMAIN items
         /\ Append(seen, Call!Current) \in Seq(Nodes)
         /\ Call!IsPrefix(Append(seen, Call!Current), items)
<1> DEFINE x == Call!Current
           more == Append(seen, x)
<1>1. items \in Seq(Nodes) /\ seen \in Seq(Nodes) /\ Len(seen) < Len(items) /\ Call!IsPrefix(seen, items)
  BY DEF CInv, Walked, Call!More
<1>2. Len(seen) + 1 \in DOMAIN items /\ x \in Nodes /\ x = items[Len(seen) + 1]
  BY <1>1 DEF Call!Current
<1> HIDE DEF x
<1>3. more \in Seq(Nodes) /\ Len(more) = Len(seen) + 1 /\ more[Len(seen) + 1] = x
      /\ \A i \in 1..Len(seen) : more[i] = seen[i]
  BY <1>1, <1>2
<1>4. \A i \in 1..Len(seen) : seen[i] = items[i]
  BY <1>1, PrefixIs
<1>5. \A i \in 1..(Len(seen) + 1) : more[i] = items[i]
  BY <1>1, <1>2, <1>3, <1>4
<1> HIDE DEF more
<1>6. Call!IsPrefix(more, items)
  BY <1>1, <1>3, <1>5, PrefixIs
<1> QED BY <1>2, <1>3, <1>6 DEF x, more

LEMMA AcceptWalked == CInv /\ Call!Accept => Walked'
<1> SUFFICES ASSUME CInv, Call!Accept PROVE Walked'
  OBVIOUS
<1> DEFINE x == Call!Current
<1>1. /\ stage = "walk" /\ Call!More /\ x \notin Refused
      /\ seen' = Append(seen, x)
      /\ collected' = IF op = "collect" THEN Append(collected, x) ELSE collected
      /\ UNCHANGED <<op, root, path, stage, items, failed>>
  BY DEF Call!Accept, Call!More
<1>2. /\ x \in Nodes /\ Append(seen, x) \in Seq(Nodes) /\ Call!IsPrefix(Append(seen, x), items)
  BY <1>1, NextElement
<1>3. /\ items \in Seq(Nodes) /\ seen \in Seq(Nodes) /\ op \in Call!Ops /\ ~failed
      /\ collected = Gathered(seen) /\ (op # "validateEach" => Call!Bad(seen) = <<>>)
  BY <1>1 DEF CInv, Walked
<1>4. Call!Bad(Append(seen, x)) = Call!Bad(seen)
  BY <1>1, <1>2, <1>3, BadAppend
<1> HIDE DEF x
<1>5. collected' = Gathered(Append(seen, x))
  BY <1>1, <1>3, <1>4 DEF Gathered, Call!Ops
<1>6. Call!IsPrefix(seen, items)' /\ Call!Bad(seen)' = Call!Bad(seen) /\ Gathered(seen)' = Gathered(Append(seen, x))
  BY <1>1, <1>2, <1>4 DEF Call!IsPrefix, Call!Bad, Gathered
<1> QED BY <1>1, <1>2, <1>3, <1>5, <1>6 DEF Walked, Call!WalkExact

LEMMA NoteWalked == CInv /\ Call!Note => Walked'
<1> SUFFICES ASSUME CInv, Call!Note PROVE Walked'
  OBVIOUS
<1> DEFINE x == Call!Current
<1>1. /\ stage = "walk" /\ Call!More /\ x \in Refused /\ op = "validateEach"
      /\ seen' = Append(seen, x) /\ collected' = Append(collected, x)
      /\ UNCHANGED <<op, root, path, stage, items, failed>>
  BY DEF Call!Note, Call!More
<1>2. /\ x \in Nodes /\ Append(seen, x) \in Seq(Nodes) /\ Call!IsPrefix(Append(seen, x), items)
  BY <1>1, NextElement
<1>3. /\ items \in Seq(Nodes) /\ seen \in Seq(Nodes) /\ op \in Call!Ops /\ ~failed
      /\ collected = Gathered(seen)
  BY <1>1 DEF CInv, Walked
<1>4. Call!Bad(Append(seen, x)) = Append(Call!Bad(seen), x)
  BY <1>1, <1>2, <1>3, BadAppend
<1> HIDE DEF x
<1>5. collected' = Gathered(Append(seen, x))
  BY <1>1, <1>3, <1>4 DEF Gathered
<1>6. Call!IsPrefix(seen, items)' /\ Gathered(seen)' = Gathered(Append(seen, x))
  BY <1>1, <1>2 DEF Call!IsPrefix, Call!Bad, Gathered
<1> QED BY <1>1, <1>2, <1>3, <1>5, <1>6 DEF Walked, Call!WalkExact

LEMMA StopWalked == CInv /\ Call!Stop => Walked'
<1> SUFFICES ASSUME CInv, Call!Stop PROVE Walked'
  OBVIOUS
<1> DEFINE x == Call!Current
           more == Append(seen, x)
<1>1. /\ stage = "walk" /\ Call!More /\ x \in Refused /\ op # "validateEach"
      /\ seen' = more /\ collected' = <<>> /\ stage' = "done" /\ failed' = TRUE
      /\ UNCHANGED <<op, root, path, items>>
  BY DEF Call!Stop, Call!More, Call!Return
<1>2. /\ x \in Nodes /\ more \in Seq(Nodes) /\ Call!IsPrefix(more, items)
      /\ Len(seen) + 1 \in DOMAIN items
  BY <1>1, NextElement
<1>3. items \in Seq(Nodes) /\ seen \in Seq(Nodes) /\ Call!Bad(seen) = <<>>
  BY <1>1 DEF CInv, Walked
<1>4. Call!Bad(more) = <<x>> /\ Call!Last(more) = x
  <2>1. Call!Bad(more) = Append(<<>>, x)
    BY <1>1, <1>2, <1>3, BadAppend
  <2> HIDE DEF x
  <2>2. Append(<<>>, x) = <<x>> /\ more[Len(more)] = x
    BY <1>2, <1>3
  <2> QED BY <2>1, <2>2 DEF Call!Last
<1>5. Call!Bad(items) # <<>>
  BY <1>1, <1>2, <1>3, BadElements DEF Call!Current
<1> HIDE DEF x, more
<1>6. Call!IsPrefix(seen, items)' /\ Call!Bad(seen)' = <<x>> /\ Call!Last(seen)' = x
      /\ Call!Bad(items)' # <<>>
  BY <1>1, <1>2, <1>4, <1>5 DEF Call!IsPrefix, Call!Bad, Call!Last
<1> QED BY <1>1, <1>2, <1>3, <1>6 DEF Walked, Call!WalkExact

LEMMA FinishWalked == CInv /\ Call!Finish => Walked'
<1> SUFFICES ASSUME CInv, Call!Finish PROVE Walked'
  OBVIOUS
<1>1. /\ stage = "walk" /\ seen = items /\ stage' = "done"
      /\ failed' = (op = "validateEach" /\ collected # <<>>)
      /\ UNCHANGED <<op, root, path, items, seen, collected>>
  BY DEF Call!Finish, Call!Return
<1>2. /\ items \in Seq(Nodes) /\ op \in Call!Ops /\ Call!IsPrefix(items, items)
      /\ collected = Gathered(items) /\ (op # "validateEach" => Call!Bad(items) = <<>>)
  BY <1>1 DEF CInv, Walked
<1>3. failed' <=> Call!Bad(items) # <<>>
  BY <1>1, <1>2 DEF Gathered, Call!Ops
<1>4. Call!IsPrefix(seen, items)' /\ Call!Bad(items)' = Call!Bad(items)
  BY <1>1, <1>2 DEF Call!IsPrefix, Call!Bad
<1> QED BY <1>1, <1>2, <1>3, <1>4 DEF Walked, Call!WalkExact, Gathered, Call!Ops

LEMMA MatchItems ==
  ASSUME NEW n \in Nodes, NEW p \in Paths
  PROVE  LET r == Call!ExecutePath[p][n]
         IN  (IF Call!IsSlice(r) THEN Call!Elements(r) ELSE r.of) \in Seq(Nodes)
<1> DEFINE r == Call!ExecutePath[p][n]
<1>1. r \in Outcomes
  BY ExecuteEquation
<1> HIDE DEF r
<1>2. r.of \in Seq(Nodes) /\ (r.kind = "one" => r.of[1] \in Nodes)
  BY <1>1 DEF Outcomes, Call!Fronts
<1>3. Call!IsSlice(r) => Call!Elements(r) \in Seq(Nodes)
  BY <1>2, DataFacts DEF Call!IsSlice, Call!Elements
<1> QED BY <1>2, <1>3 DEF r

LEMMA MatchInv == CInv /\ Call!Match => Walked' /\ (UNCHANGED parserVars => Expanded')
<1> SUFFICES ASSUME CInv, Call!Match PROVE Walked' /\ (UNCHANGED parserVars => Expanded')
  OBVIOUS
<1> DEFINE r == Call!ExecutePath[path][root]
           found == IF Call!IsSlice(r) THEN Call!Elements(r) ELSE r.of
<1>1. /\ stage = "query" /\ UNCHANGED <<op, root, path, seen, collected>>
      /\ \/ r = Call!Err /\ stage' = "done" /\ failed' = TRUE /\ UNCHANGED items
         \/ r # Call!Err /\ items' = found /\ stage' = "walk" /\ UNCHANGED failed
  BY DEF Call!Match, Call!Return
<1>2. root \in Nodes /\ path \in Paths /\ at # "rejected" /\ op \in Call!Ops
  BY <1>1 DEF CInv, Expanded
<1>3. items = <<>> /\ seen = <<>> /\ collected = <<>> /\ ~failed
  BY <1>1 DEF CInv, Walked
<1>4. found \in Seq(Nodes)
  BY <1>2, MatchItems
<1>5. Call!ExecutePath[path][root]' = r
  BY <1>1 DEF Call!ExecutePath, Call!Err, Call!One, Call!Many, Call!Get, Call!GetField, Call!GetIndex
<1>6. UNCHANGED parserVars => UNCHANGED at
  BY DEF parserVars
<1> HIDE DEF r
<1>7. (IF Call!IsSlice(r) THEN Call!Elements(r) ELSE r.of) = found
  OBVIOUS
<1>8. Walked'
  <2>1. CASE stage' = "done"
    <3>1. items' = <<>> /\ seen' = <<>>
      BY <1>1, <1>3, <2>1
    <3> QED BY <2>1, <3>1 DEF Walked, Call!WalkExact
  <2>2. CASE stage' = "walk"
    <3>1. items' = found /\ UNCHANGED failed
      BY <1>1, <2>2
    <3> HIDE DEF found
    <3>2. Call!IsPrefix(<<>>, found)
      <4> DEFINE e == <<>>
      <4>1. e \in Seq(Nodes) /\ Len(e) = 0 /\ Len(found) \in Nat
        BY <1>4
      <4> HIDE DEF e
      <4>2. Len(e) <= Len(found) /\ \A i \in 1..Len(e) : e[i] = found[i]
        BY <4>1
      <4>3. Call!IsPrefix(e, found)
        BY <1>4, <4>1, <4>2, PrefixIs
      <4> QED BY <4>3 DEF e
    <3>3. seen' = <<>> /\ collected' = <<>> /\ op' \in Call!Ops /\ Gathered(seen)' = <<>>
          /\ Call!Bad(seen)' = <<>> /\ Call!IsPrefix(seen, items)' /\ ~failed'
      BY <1>1, <1>2, <1>3, <3>1, <3>2, BadEmpty DEF Gathered, Call!Bad, Call!IsPrefix
    <3> QED BY <1>4, <2>2, <3>1, <3>3 DEF Walked, Call!WalkExact
  <2> QED BY <1>1, <2>1, <2>2
<1>9. ASSUME UNCHANGED parserVars
      PROVE  Expanded'
  <2>1. stage' \in {"walk", "done"} /\ root' = root /\ path' = path /\ at' = at
    BY <1>1, <1>6, <1>9
  <2>2. IF r = Call!Err THEN stage' = "done" /\ failed' ELSE items' = found
    BY <1>1
  <2> HIDE DEF found
  <2>3. (LET result == Call!ExecutePath[path][root]
         IN  IF result = Call!Err THEN stage = "done" /\ failed
             ELSE items = IF Call!IsSlice(result) THEN Call!Elements(result) ELSE result.of)'
    BY <1>5, <1>7, <2>2
  <2> QED BY <1>2, <2>1, <2>3 DEF Expanded
<1> QED BY <1>8, <1>9

---------------------------------------------------------------------------
(* The walk begins with the path of the query.                             *)
LEMMA Begun ==
  ASSUME CInv, stage = "parse", Argument, NEW p \in Paths, Call!Execute(p), UNCHANGED parserVars,
         at # "rejected"
  PROVE  CInv'
<1>1. /\ stage' = "query" /\ path' = p /\ root' \in Nodes /\ op' \in Call!Ops /\ at' = at
      /\ UNCHANGED <<items, seen, collected, failed>>
  BY DEF Argument, Call!Execute, parserVars
<1>2. IInv'
  BY ProductionInv DEF CInv
<1>3. Walked'
  BY <1>1, NotYet DEF CInv
<1> QED BY <1>1, <1>2, <1>3 DEF CInv, Expanded

LEMMA CallInv == CInv /\ [Work \/ Done]_vars => CInv'
<1> SUFFICES ASSUME CInv, [Work \/ Done]_vars PROVE CInv'
  OBVIOUS
<1>0. IInv /\ Walked /\ Expanded
  BY DEF CInv
<1>1. CASE NoQuery
  <2>1. <<>> \in Paths /\ at # "rejected"
    BY <1>1 DEF NoQuery, Paths
  <2> QED BY <1>1, <2>1, Begun DEF NoQuery
<1>2. CASE ParseQuery
  <2>1. stage = "parse" /\ UNCHANGED callVars /\ Production
    BY <1>2 DEF ParseQuery
  <2>2. stage' = "parse" /\ UNCHANGED <<items, seen, collected, failed>>
    BY <2>1 DEF callVars
  <2>3. Walked'
    BY <1>0, <2>1, <2>2, NotYet
  <2>4. IInv'
    BY <1>0, <2>1, ProductionInv
  <2> QED BY <2>2, <2>3, <2>4 DEF CInv, Expanded
<1>3. CASE ParseReturns
  <2>1. stage = "parse" /\ Argument /\ UNCHANGED parserVars
    BY <1>3 DEF ParseReturns
  <2>2. CASE at = "accepted" /\ Call!Execute(built)
    <3>1. built \in Paths
      BY <1>0 DEF IInv, Paths, Call!Segments, Call!Star, Subscripts
    <3> QED BY <2>1, <2>2, <3>1, Begun
  <2>3. CASE at = "rejected" /\ Call!InvalidQuery
    <3>1. stage' = "done" /\ at' = at /\ UNCHANGED <<items, seen, collected>>
      BY <2>1, <2>3 DEF Call!InvalidQuery, Call!Return, parserVars
    <3>2. Walked'
      BY <1>0, <2>1, <3>1, NotYet
    <3>3. IInv'
      BY <1>0, <2>1, ProductionInv
    <3> QED BY <2>3, <3>1, <3>2, <3>3 DEF CInv, Expanded
  <2> QED BY <1>3, <2>2, <2>3 DEF ParseReturns
<1>4. CASE Walk
  <2>1. UNCHANGED parserVars /\ Call!Walk
    BY <1>4 DEF Walk
  <2>2. IInv' /\ at' = at
    BY <1>0, <2>1, ProductionInv DEF parserVars
  <2>3. CASE Call!Match
    BY <2>1, <2>2, <2>3, MatchInv DEF CInv
  <2>4. CASE Call!Accept \/ Call!Stop \/ Call!Note \/ Call!Finish
    <3>1. Walked'
      BY <2>4, AcceptWalked, StopWalked, NoteWalked, FinishWalked
    <3>2. /\ stage = "walk" /\ stage' \in {"walk", "done"}
          /\ UNCHANGED <<root, path, items>>
      BY <2>4 DEF Call!Accept, Call!Stop, Call!Note, Call!Finish, Call!More, Call!Return
    <3>3. at # "rejected" /\ root \in Nodes /\ path \in Paths
      BY <1>0, <3>2 DEF Expanded
    <3>4. Call!ExecutePath[path][root]' = Call!ExecutePath[path][root]
      BY <3>2 DEF Call!ExecutePath, Call!Err, Call!One, Call!Many, Call!Get, Call!GetField, Call!GetIndex
    <3> DEFINE r == Call!ExecutePath[path][root]
    <3>5. r # Call!Err /\ items = IF Call!IsSlice(r) THEN Call!Elements(r) ELSE r.of
      BY <1>0, <3>2, <3>3 DEF Expanded
    <3> HIDE DEF r
    <3>6. (LET result == Call!ExecutePath[path][root]
           IN  IF result = Call!Err THEN stage = "done" /\ failed
               ELSE items = IF Call!IsSlice(result) THEN Call!Elements(result) ELSE result.of)'
      BY <3>2, <3>4, <3>5 DEF r
    <3>7. Expanded'
      BY <2>2, <3>2, <3>3, <3>6 DEF Expanded
    <3> QED BY <2>2, <3>1, <3>7 DEF CInv
  <2> QED BY <2>1, <2>3, <2>4 DEF Call!Walk
<1>5. CASE UNCHANGED vars
  <2>1. UNCHANGED parserVars /\ UNCHANGED callVars
    BY <1>5 DEF vars
  <2>2. UNCHANGED <<op, root, path, stage, items, seen, collected, failed>> /\ at' = at
    BY <2>1 DEF callVars, parserVars
  <2>3. IInv'
    BY <1>0, <2>1, ProductionInv
  <2>4. Walked'
    BY <1>0, <2>2 DEF Walked, Call!WalkExact, Call!IsPrefix, Call!Bad, Gathered, Call!Last
  <2>5. Expanded'
    BY <1>0, <2>2 DEF Expanded, Call!ExecutePath, Call!Err, Call!One, Call!Many, Call!Get,
                      Call!GetField, Call!GetIndex, Call!IsSlice, Call!Elements
  <2> QED BY <2>3, <2>4, <2>5 DEF CInv
<1> QED BY <1>1, <1>2, <1>3, <1>4, <1>5 DEF Work, Done

LEMMA CallAlways == QuerySpec => []CInv
  BY CallInit, CallInv, PTL DEF QuerySpec

(* The queries that a call parses are those of the grammar.                *)
THEOREM CallParses == QuerySpec => []ParsesGrammar
<1>1. CInv => ParsesGrammar
  BY DEF CInv, IInv
<1> QED BY <1>1, CallAlways, PTL

(* Wildcards expand to exactly the matches that a breadth-first expansion   *)
(* finds, in order, whatever the data; a fault anywhere is the call's. A    *)
(* slice that is matched without a wildcard, which Each and its companions  *)
(* take apart although iterate.go says that it is one match, is left out.   *)
THEOREM Expands == QuerySpec => []ExpansionExact
<1>1. CInv => ExpansionExact
  BY ExpandedExact DEF CInv
<1> QED BY <1>1, CallAlways, PTL

(* Each, Collect and ValidateEach hand over the matches once and in order   *)
(* and return what they gathered, up to the first error or the last element.*)
THEOREM Walks == QuerySpec => []WalkExact
<1>1. CInv => WalkExact
  BY DEF CInv, Walked, WalkExact
<1> QED BY <1>1, CallAlways, PTL
=============================================================================
