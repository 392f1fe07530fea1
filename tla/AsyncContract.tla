--------------------------- MODULE AsyncContract ---------------------------
(***************************************************************************)
(* What a call of ValidateAndTransformAsync promises, with no schema tree, *)
(* no call stack and no order: the data is rejected at once, or the due    *)
(* validators are put one by one, and the call succeeds only when each of  *)
(* them has accepted.  types.go states it of AsyncTransformableSchema.     *)
(***************************************************************************)
CONSTANT Validators

VARIABLES
  stage,      \* "sync", "async" or "done"
  due,        \* the validators the data calls for
  refusing,   \* those that are going to refuse it
  answered,   \* those that have answered
  rejected,   \* some error is reported
  cancelled

cvars == <<stage, due, refusing, answered, rejected, cancelled>>

Init ==
  /\ stage = "sync"
  /\ due \in SUBSET Validators /\ refusing \in SUBSET Validators
  /\ answered = {} /\ rejected = FALSE
  /\ cancelled \in BOOLEAN

RejectData ==
  /\ stage = "sync"
  /\ stage' = "done" /\ rejected' = TRUE
  /\ UNCHANGED <<due, refusing, answered, cancelled>>

AcceptData ==
  /\ stage = "sync"
  /\ \/ stage' = "async"
     \/ due = {} /\ stage' = "done"
  /\ UNCHANGED <<due, refusing, answered, rejected, cancelled>>

Put(v) ==
  /\ stage = "async" /\ v \in due \ answered
  /\ answered' = answered \cup {v}
  /\ \/ v \in refusing /\ rejected' = TRUE
     \/ v \notin refusing /\ UNCHANGED rejected
     \/ cancelled /\ rejected' = TRUE
  /\ UNCHANGED <<stage, due, refusing, cancelled>>

(* A cancellation that is noticed is reported, and may end the call.       *)
Notice ==
  /\ stage = "async" /\ cancelled
  /\ stage' \in {"async", "done"} /\ rejected' = TRUE
  /\ UNCHANGED <<due, refusing, answered, cancelled>>

Return ==
  /\ stage = "async"
  /\ rejected \/ answered = due
  /\ stage' = "done"
  /\ UNCHANGED <<due, refusing, answered, rejected, cancelled>>

Cancel ==
  /\ ~cancelled /\ stage # "done"
  /\ cancelled' = TRUE
  /\ UNCHANGED <<stage, due, refusing, answered, rejected>>

Next == RejectData \/ AcceptData \/ (\E v \in Validators : Put(v)) \/ Notice \/ Return \/ Cancel
Spec == Init /\ [][Next]_cvars
===========================================================================
