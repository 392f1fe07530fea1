---------------------------- MODULE PrivateParser ----------------------------
(***************************************************************************)
(* What a session may assume of the parser it holds: that it is new and    *)
(* nobody else's.  A session without a parser has None.  Fresh is a new    *)
(* parser, Parse(m, t) starts it on a text, Step(m) is one of its steps.   *)
(***************************************************************************)
CONSTANTS Sessions, Texts, None, Fresh, Parse(_, _), Step(_)

VARIABLE view

Init == view = [s \in Sessions |-> None]

Holds(s) == view[s] # None

\* GetParser.
Obtain(s) == view[s] = None /\ view' = [view EXCEPT ![s] = Fresh]

Begin(s) ==
  /\ Holds(s) /\ view[s].status # "running"
  /\ \E t \in Texts : view' = [view EXCEPT ![s] = Parse(@, t)]

Work(s) ==
  /\ Holds(s) /\ view[s].status = "running"
  /\ view' = [view EXCEPT ![s] = Step(@)]

\* ReturnParser, or the end of a session that never calls it.
Release(s) ==
  /\ Holds(s) /\ view[s].status # "running"
  /\ view' = [view EXCEPT ![s] = None]

Next == \E s \in Sessions : Obtain(s) \/ Begin(s) \/ Work(s) \/ Release(s)

Spec == Init /\ [][Next]_view
=============================================================================
