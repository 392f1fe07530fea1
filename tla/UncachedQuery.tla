--------------------------- MODULE UncachedQuery ---------------------------
(* query execution as its callers see it: a goroutine asks, and is answered *)
(* with what parsing and running its query gives.  There is no cache.       *)
CONSTANTS Threads, Keys, Docs, Answer(_, _), NoReply

VARIABLES key, doc, reply
uvars == <<key, doc, reply>>

Init ==
  /\ key \in [Threads -> Keys] /\ doc \in [Threads -> Docs]
  /\ reply = [t \in Threads |-> NoReply]

Ask(t) ==
  /\ \E k \in Keys, d \in Docs : key' = [key EXCEPT ![t] = k] /\ doc' = [doc EXCEPT ![t] = d]
  /\ reply' = [reply EXCEPT ![t] = NoReply]

Respond(t) ==
  /\ reply[t] = NoReply
  /\ reply' = [reply EXCEPT ![t] = Answer(key[t], doc[t])]
  /\ UNCHANGED <<key, doc>>

Next == \E t \in Threads : Ask(t) \/ Respond(t)
Spec == Init /\ [][Next]_uvars
===========================================================================
