--------------------------- MODULE MCAsyncArrays ---------------------------
(* An object with a nullable array of two transformed elements that must be *)
(* unique, and a nullable array of plain elements.  lower maps both A and B *)
(* to lower case and rendering keeps the case, so that Aa and aA differ     *)
(* until they are transformed.                                              *)
EXTENDS AsyncValidation

MCSlots == {"root", "list", "e0", "e1", "tags", "t0"}
MCParent == [s \in MCSlots |->
  CASE s = "root" -> "none" [] s \in {"e0", "e1"} -> "list" [] s = "t0" -> "tags" [] OTHER -> "root"]
MCAbove == [s \in MCSlots |->
  CASE s = "root" -> {} [] s \in {"e0", "e1"} -> {"root", "list"}
    [] s = "t0" -> {"root", "tags"} [] OTHER -> {"root"}]
MCKind == [s \in MCSlots |->
  CASE s = "root" -> "object" [] s \in {"list", "tags"} -> "array"
    [] s = "t0" -> "plain" [] OTHER -> "transform"]
MCIndex == [s \in MCSlots |-> IF s = "e1" THEN 1 ELSE 0]
MCMinItems == [s \in MCSlots |-> 0]
MCMaxItems == [s \in MCSlots |-> 2]
MCLeaf == {"Aa", "aA", "aa", "bb", "bad"}
MCLower == [v \in MCLeaf \cup {"nil"} |->
  CASE v \in {"Aa", "aA"} -> "aa" [] v = "bad" -> "failed" [] OTHER -> v]
MCTrans == [s \in MCSlots |-> MCLower]
MCAccepts == [s \in MCSlots |-> {"aa", "bb"}]
MCShown(v) == v
MCCustomOK(s, data) == s = "tags" => data["t0"] # "bb"

Doc(list, e0, e1, tags, t0) == [s \in MCSlots |->
  CASE s = "root" -> "tree" [] s = "list" -> list [] s = "e0" -> e0 [] s = "e1" -> e1
    [] s = "tags" -> tags [] OTHER -> t0]
MCInputs ==
  {Doc("tree", e0, e1, "tree", "aa") : e0 \in {"Aa", "bb"}, e1 \in {"absent", "aA", "aa", "bb", "bad"}}
    \cup {Doc("nil", "absent", "absent", "nil", "absent"),
          Doc("absent", "absent", "absent", "nil", "absent"),
          Doc("tree", "absent", "absent", "tree", "absent"),
          Doc("tree", "absent", "absent", "tree", "bb"),
          Doc("nil", "absent", "absent", "tree", "aa")}

MCAsyncs(list, e, tags) == [s \in MCSlots |->
  CASE s = "list" -> list [] s \in {"e0", "e1"} -> e [] s = "tags" -> tags [] OTHER -> 0]
MCAsyncChoices == {MCAsyncs(2, 1, 0), MCAsyncs(0, 2, 1), MCAsyncs(1, 0, 2)}
===========================================================================
