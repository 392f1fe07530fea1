--------------------------- MODULE MCAsyncFields ---------------------------
(* An object with a transformed field, a nested object holding another, a   *)
(* plain field and a key the schema does not define.  The transformer maps  *)
(* raw to clean, keeps clean, cannot parse bad, and halves what it can.     *)
EXTENDS AsyncValidation

MCSlots == {"root", "a", "sub", "b", "p", "x"}
MCParent == [s \in MCSlots |->
  CASE s = "root" -> "none" [] s = "b" -> "sub" [] OTHER -> "root"]
MCAbove == [s \in MCSlots |->
  CASE s = "root" -> {} [] s = "b" -> {"root", "sub"} [] OTHER -> {"root"}]
MCKind == [s \in MCSlots |->
  CASE s \in {"root", "sub"} -> "object" [] s \in {"a", "b"} -> "transform"
    [] s = "p" -> "plain" [] OTHER -> "extra"]
MCIndex == [s \in MCSlots |-> 0]
MCLeaf == {"raw", "clean", "bad", "odd", "whole", "half", "quarter"}
MCChanged == [v \in MCLeaf \cup {"nil"} |->
  CASE v = "raw" -> "clean" [] v = "bad" -> "failed"
    [] v = "whole" -> "half" [] v = "half" -> "quarter" [] OTHER -> v]
MCTrans == [s \in MCSlots |-> MCChanged]
MCAccepts == [s \in MCSlots |-> {"clean", "half", "quarter"}]
MCShown(v) == v
MCCustomOK(s, data) == s = "sub" => data["b"] # "absent"

(* A good document, and the documents that differ from it in one or two     *)
(* slots.                                                                   *)
Good == [s \in MCSlots |->
  CASE s \in {"root", "sub"} -> "tree" [] s = "x" -> "absent"
    [] s \in {"a", "b"} -> "raw" [] OTHER -> "clean"]
Puts(data, s, vs) == {[data EXCEPT ![s] = v] : v \in vs}
NoSub == [Good EXCEPT !["b"] = "absent"]
MCInputs ==
  {Good, [Good EXCEPT !["a"] = "absent"], [Good EXCEPT !["a"] = "bad", !["b"] = "bad"],
   [[Good EXCEPT !["x"] = "odd"] EXCEPT !["p"] = "absent"]}
    \cup Puts(Good, "a", {"clean", "bad", "nil"})
    \cup Puts(Good, "b", {"odd", "absent", "whole"})
    \cup Puts(NoSub, "sub", {"absent", "nil", "odd"})
    \cup Puts([s \in MCSlots |-> "absent"], "root", {"nil", "odd"})

MCAsyncs(root, sub, a, b) == [s \in MCSlots |->
  CASE s = "root" -> root [] s = "sub" -> sub [] s = "a" -> a [] s = "b" -> b [] OTHER -> 0]
MCAsyncChoices == {MCAsyncs(0, 0, 0, 0), MCAsyncs(1, 1, 1, 1), MCAsyncs(2, 0, 0, 2), MCAsyncs(0, 1, 2, 0)}
===========================================================================
