--------------------------- MODULE MCQueryCache ---------------------------
(* Four keys, one of which does not parse, and a limit of one: the cache    *)
(* passes it with its second key and is emptied for the third.              *)
EXTENDS QueryCache

CONSTANTS g1, g2

MCKeys == {"name", "items", "tags", "a..b"}
MCDocs == {"doc"}
MCQueries == {"$name", "$items", "$tags"}
MCResults == {"Ann", "list", "error"}
MCParseOf == [k \in MCKeys |->
  CASE k = "name" -> "$name" [] k = "items" -> "$items" [] k = "tags" -> "$tags" [] OTHER -> "none"]
MCRun == [q \in MCQueries |-> [d \in MCDocs |-> 
  CASE q = "$name" -> "Ann" [] q = "$items" -> "list" [] OTHER -> "error"]]
===========================================================================
