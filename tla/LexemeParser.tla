---------------------------- MODULE LexemeParser ----------------------------
(***************************************************************************)
(* The parser of superjsonic_atomenhanced.go, one step at a time, over a   *)
(* text of lexemes: brackets, ":" and ",", and what its scanners make of   *)
(* the rest ("str", "num", "lit", or "bad" where they report an error).    *)
(* Blanks are skipped before every lexeme and do not appear.               *)
(*                                                                         *)
(* A machine is a parser with the goroutine that runs it.  Fields of the   *)
(* parser: text, pos, tokens (their kinds), ctx and stack (currentContext  *)
(* and contextStack), keys (atomStats.totalKeys).  Fields of the goroutine *)
(* inside Parse: status, whether a value or a turn of the innermost loop   *)
(* is next, and the frames of parseObject and parseArray, each with        *)
(* whether it is in its first turn.                                        *)
(***************************************************************************)
EXTENDS Naturals, Sequences

Scalars == {"str", "num", "lit"}
Lexemes == Scalars \cup {"{", "}", "[", "]", ":", ",", "bad"}
Kinds == Lexemes \cup {"key"}
Contexts == {"Value", "ObjectStart", "ObjectKey", "ObjectValue", "ObjectComma",
             "ArrayStart", "ArrayValue", "ArrayComma"}
Frames == [loop : {"{", "["}, first : BOOLEAN]
Statuses == {"idle", "running", "ok", "error", "panic"}

Machines == [text : Seq(Lexemes), pos : Nat \ {0}, tokens : Seq(Kinds), ctx : Contexts,
             stack : Seq(Contexts), keys : Nat,
             status : Statuses, next : {"value", "turn"}, frames : Seq(Frames)]

Fresh == [text |-> <<>>, pos |-> 1, tokens |-> <<>>, ctx |-> "Value", stack |-> <<>>, keys |-> 0,
          status |-> "idle", next |-> "value", frames |-> <<>>]

Lexeme(m) == IF m.pos <= Len(m.text) THEN m.text[m.pos] ELSE "end"

Ends(m, status) == [m EXCEPT !.status = status, !.frames = <<>>, !.next = "value"]

addToken(m, kind) == [m EXCEPT !.tokens = Append(@, kind), !.pos = @ + 1]

pushContext(m, ctx) == [m EXCEPT !.stack = Append(@, m.ctx), !.ctx = ctx]

popContext(m) ==
  IF m.stack = <<>> THEN [m EXCEPT !.ctx = "Value"]
  ELSE [m EXCEPT !.ctx = m.stack[Len(m.stack)], !.stack = SubSeq(@, 1, Len(@) - 1)]

\* Variant: the context of the last parse is kept.
MutParse(m, text) ==
  [m EXCEPT !.text = text, !.tokens = <<>>, !.pos = 1, !.stack = <<>>,
            !.status = "running", !.next = "value", !.frames = <<>>]

\* Parse: everything is reset but the statistics.
Parse(m, text) ==
  [m EXCEPT !.text = text, !.tokens = <<>>, !.pos = 1, !.stack = <<>>, !.ctx = "Value",
            !.status = "running", !.next = "value", !.frames = <<>>]

\* What ReturnParser leaves in the parser.
Reset(m) ==
  [m EXCEPT !.text = <<>>, !.tokens = <<>>, !.pos = 1, !.stack = <<>>, !.ctx = "Value", !.keys = 0,
            !.status = "idle", !.next = "value", !.frames = <<>>]

Depth(m) == Len(m.frames)

\* A value has been read: the caller's loop goes on, or Parse is done.
Returned(m) ==
  IF m.frames = <<>> THEN Ends(m, "ok")
  ELSE [m EXCEPT !.next = "turn", !.frames[Depth(m)].first = FALSE,
                 !.ctx = IF m.frames[Depth(m)].loop = "{" THEN "ObjectComma" ELSE "ArrayComma"]

Enters(m, loop, ctx) ==
  [pushContext(addToken(m, loop), ctx)
     EXCEPT !.frames = Append(@, [loop |-> loop, first |-> TRUE]), !.next = "turn"]

parseString(m) ==
  IF m.ctx = "ObjectKey" THEN [addToken(m, "key") EXCEPT !.keys = @ + 1] ELSE addToken(m, "str")

parseValue(m) ==
  CASE Lexeme(m) = "{"            -> Enters(m, "{", "ObjectStart")
    [] Lexeme(m) = "["            -> Enters(m, "[", "ArrayStart")
    [] Lexeme(m) = "str"          -> Returned(parseString(m))
    [] Lexeme(m) \in {"num", "lit"} -> Returned(addToken(m, Lexeme(m)))
    [] OTHER                      -> Ends(m, "error")

\* parseObject or parseArray has read its closing bracket.
Leaves(m) ==
  LET closed == popContext(addToken(m, Lexeme(m)))
  IN Returned([closed EXCEPT !.frames = SubSeq(@, 1, Depth(m) - 1)])

\* A key and its colon; the byte after a comma is read even at the end.
Member(m) ==
  LET key == parseString([m EXCEPT !.ctx = "ObjectKey"])
  IN IF Lexeme(m) = "end" THEN Ends(m, "panic")
     ELSE IF Lexeme(m) # "str" THEN Ends(m, "error")
     ELSE IF Lexeme(key) # ":" THEN Ends(key, "error")
     ELSE [addToken(key, ":") EXCEPT !.ctx = "ObjectValue", !.next = "value"]

Element(m) == [m EXCEPT !.ctx = "ArrayValue", !.next = "value"]

Close(loop) == IF loop = "{" THEN "}" ELSE "]"

\* Variant: an element that cannot start here is tried again.
MutTurn(m) ==
  LET frame == m.frames[Depth(m)]
      Item(n) == IF frame.loop = "{" THEN Member(n) ELSE Element(n)
  IN IF Lexeme(m) = Close(frame.loop) THEN Leaves(m)
     ELSE IF frame.first /\ Lexeme(m) # "end" THEN Item(m)
     ELSE IF ~frame.first /\ Lexeme(m) = "," THEN Item(addToken(m, ","))
     ELSE m

\* A turn of the loop of parseObject or parseArray.
Turn(m) ==
  LET frame == m.frames[Depth(m)]
      Item(n) == IF frame.loop = "{" THEN Member(n) ELSE Element(n)
  IN IF Lexeme(m) = Close(frame.loop) THEN Leaves(m)
     ELSE IF frame.first /\ Lexeme(m) # "end" THEN Item(m)
     ELSE IF ~frame.first /\ Lexeme(m) = "," THEN Item(addToken(m, ","))
     ELSE Ends(m, "error")

\* One step of a parse.
Step(m) == IF m.next = "value" THEN parseValue(m) ELSE Turn(m)
=============================================================================
