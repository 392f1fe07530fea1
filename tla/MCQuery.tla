------------------------------ MODULE MCQuery ------------------------------
(* An order with a list of two lines, one of which holds a list of lists;   *)
(* an empty list, a nil, and a name that only one of the lines has.  The    *)
(* queries are all sequences of at most MaxTokens tokens, ended or not by   *)
(* an error token, and all proper queries of at most MaxPath segments.      *)
EXTENDS Query, SequencesExt
CONSTANTS MaxTokens, MaxPath

MCTokens == {"a", "7", "huge", "dot", "[", "]", "star"}
UpTo(n, S) == UNION {[1..k -> S] : k \in 0..n}
MCShort == UpTo(MaxTokens, MCTokens) \cup {Append(s, "error") : s \in UpTo(MaxTokens - 1, MCTokens)}

Spelled(seg) == IF seg \in {"a", "b"} THEN <<"dot", seg>> ELSE <<"[", seg, "]">>
MCProper ==
  {<<first>> \o FlattenSeq([i \in DOMAIN p |-> Spelled(p[i])]) :
     first \in {"a", "b"}, p \in UpTo(MaxPath - 1, {"a", "b", "0", "1", "2", "star"})}
MCInputs == MCShort \cup MCProper

MCNodes == {"order", "lines", "line0", "line1", "grid", "row", "none", "x", "y", "null"}
MCKind == [n \in MCNodes |->
  CASE n \in {"order", "line0", "line1"} -> "map" [] n \in {"lines", "grid", "row", "none"} -> "list"
    [] n = "null" -> "nil" [] OTHER -> "scalar"]
MCFields == [n \in MCNodes |-> [name \in {"a", "b"} |->
  CASE n = "order" /\ name = "a" -> "lines" [] n = "order" -> "none"
    [] n = "line0" /\ name = "a" -> "grid" [] n = "line1" /\ name = "a" -> "row"
    [] n = "line1" -> "null" [] OTHER -> "missing"]]
MCItems == [n \in MCNodes |->
  CASE n = "lines" -> <<"line0", "line1">> [] n = "grid" -> <<"row", "row">>
    [] n = "row" -> <<"x", "y">> [] OTHER -> <<>>]
MCNumber == [i \in {"0", "1", "2", "7"} |->
  CASE i = "0" -> 0 [] i = "1" -> 1 [] i = "2" -> 2 [] i = "7" -> 7]
=============================================================================
