------------------------------- MODULE Query -------------------------------
(***************************************************************************)
(* A call of Each, Collect or ValidateEach from the text of its query to   *)
(* its return: query.Execute parses the query, ExecutePath goes down the   *)
(* data along the path that the parser built, and the call walks over what *)
(* that finds.  The parser and the walks are modules of their own.         *)
(***************************************************************************)
EXTENDS QueryParser

CONSTANTS Nodes, Missing, NodeKind, Field, Items, Number, Refused   \* as in QueryEach

VARIABLES op, root, path, stage, items, seen, collected, failed     \* as in QueryEach

Call == INSTANCE QueryEach

ASSUME DataAssumption == Call!WellFormed

callVars == <<op, root, path, stage, items, seen, collected, failed>>
vars == <<parserVars, callVars>>

QueryInit == Init /\ Call!Init

(* Nothing the parser does depends on the data, nor on what is wanted of   *)
(* it: they are chosen when it is done.                                    *)
Argument == root' \in Nodes /\ op' \in Call!Ops

(* The empty query is the data itself, and the parser never sees it; one   *)
(* of blanks has no tokens either, and is parsed.                          *)
NoQuery ==
  /\ stage = "parse" /\ input = <<>> /\ at = "prime" /\ pos = 0
  /\ Argument /\ Call!Execute(<<>>)
  /\ UNCHANGED parserVars

ParseQuery ==
  /\ stage = "parse"
  /\ Production
  /\ UNCHANGED callVars

(* PathFromQuery hands over the path, or its error ends the call.          *)
ParseReturns ==
  /\ stage = "parse"
  /\ Argument
  /\ \/ at = "accepted" /\ Call!Execute(built)
     \/ at = "rejected" /\ Call!InvalidQuery
  /\ UNCHANGED parserVars

Walk == Call!Walk /\ UNCHANGED parserVars

Work == NoQuery \/ ParseQuery \/ ParseReturns \/ Walk
Done == stage = "done" /\ UNCHANGED vars
QuerySpec == QueryInit /\ [][Work \/ Done]_vars /\ WF_vars(Work)

---------------------------------------------------------------------------
(* The matches that the recursive expansion finds are those of a breadth-  *)
(* first reference, in the order of the data.                              *)
ExpansionExact == at # "rejected" => Call!ExpansionExact

(* Each element is handed over once and in order, and what is returned is  *)
(* that of the elements, up to the first error or to the last element.     *)
WalkExact == Call!WalkExact

(* The call returns, whatever the query and the data.                      *)
CallReturns == <>(stage = "done")
=============================================================================
