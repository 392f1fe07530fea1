-------------------------- MODULE AsyncValidation --------------------------
(***************************************************************************)
(* One call of queryfy.ValidateAndTransformAsync: the descent of           *)
(* ObjectSchema, ArraySchema and TransformSchema.ValidateAndTransformAsync *)
(* over a tree of slots, the user's async validators answering in their    *)
(* own time, and the caller cancelling the context at any moment.          *)
(*                                                                         *)
(* A slot's frame is called at most once, so the call stack is the chain   *)
(* of slots above cur and pc holds the line each frame stands at:          *)
(*   idle      not called                                                  *)
(*   called    about to run the sync pass                                  *)
(*   gate      before the cancellation check that opens the async phase    *)
(*   kids      in the loop over fields or elements                         *)
(*   own       at the head of the loop over the slot's async validators    *)
(*   cleared   past that loop's cancellation check, validator not started  *)
(*   awaiting  inside the validator                                        *)
(*   returned  done                                                        *)
(***************************************************************************)
EXTENDS SchemaTree, Sequences

CONSTANTS
  Inputs,           \* the data of the calls, well formed
  AsyncChoices,     \* how many async validators each slot's schema has
  CompiledChoices,  \* whether the caller passes Compile(schema)
  MaxAsync          \* bound on the validators of one slot

Validators == Slots \X (1..MaxAsync)

ASSUME CallAssumption ==
  /\ MaxAsync \in Nat
  /\ \A data \in Inputs : WellFormed(data)
  /\ AsyncChoices \subseteq [Slots -> 0..MaxAsync]
  /\ \A asyncs \in AsyncChoices : \A s \in Slots :
       /\ ~AsyncCapable(s) => asyncs[s] = 0
       /\ Kind[s] = "array" => \A c, d \in Kids(s) : Kind[c] = Kind[d] /\ asyncs[c] = asyncs[d]
  /\ CompiledChoices \subseteq BOOLEAN

VARIABLES
  job,        \* what the call was made with; it never changes
  cancelled,  \* goCtx.Err() # nil
  cur,        \* the slot whose frame is on top of the stack
  pc,         \* [Slots -> Pcs]
  todo,       \* [Slots -> SUBSET Slots]: the rest of a frame's range loop
  own,        \* [Slots -> 0..MaxAsync]: own validators that have answered
  val,        \* [Slots -> data]: the result of each frame's sync pass
  errors,     \* ctx.errors
  asked,      \* history: the validators started, in order, and what they were given
  late,       \* history: how many of them started after the cancellation
  outcome     \* "running", "returned" or "panicked"

vars == <<job, cancelled, cur, pc, todo, own, val, errors, asked, late, outcome>>

Pcs == {"idle", "called", "gate", "kids", "own", "cleared", "awaiting", "returned"}
Jobs == [input : Inputs, asyncs : AsyncChoices, compiled : CompiledChoices,
         refusing : SUBSET Validators]
AllErrors == [slot : Slots, why : Whys \cup {"cancelled", "refused"}, n : 0..MaxAsync]
Asks == [slot : Slots, n : 1..MaxAsync, value : [Slots -> Values]]

TypeOK ==
  /\ job \in Jobs
  /\ cancelled \in BOOLEAN
  /\ cur \in Slots \cup {NoSlot}
  /\ pc \in [Slots -> Pcs]
  /\ todo \in [Slots -> SUBSET Slots]
  /\ own \in [Slots -> 0..MaxAsync]
  /\ val \in [Slots -> [Slots -> Values]]
  /\ errors \in SUBSET AllErrors
  /\ asked \in Seq(Asks)
  /\ late \in Nat
  /\ outcome \in {"running", "returned", "panicked"}

Init ==
  /\ \E data \in Inputs, asyncs \in AsyncChoices, compiled \in CompiledChoices :
       \E refusing \in SUBSET {v \in Validators : v[2] <= asyncs[v[1]]} :
         job = [input |-> data, asyncs |-> asyncs, compiled |-> compiled, refusing |-> refusing]
  /\ cancelled \in BOOLEAN
  /\ cur = Root
  /\ pc = [s \in Slots |-> IF s = Root THEN "called" ELSE "idle"]
  /\ todo = [s \in Slots |-> {}]
  /\ own = [s \in Slots |-> 0]
  /\ val = [s \in Slots |-> [m \in Slots |-> Absent]]
  /\ errors = {} /\ asked = <<>> /\ late = 0
  /\ outcome = "running"

---------------------------------------------------------------------------
At(s, where) == outcome = "running" /\ cur = s /\ pc[s] = where
Goto(s, where) == pc' = [pc EXCEPT ![s] = where] /\ UNCHANGED <<cur, outcome>>

(* return: PopPath, and back to the caller's loop.                         *)
Leave(s) ==
  /\ pc' = [pc EXCEPT ![s] = "returned"]
  /\ cur' = Parent[s]
  /\ outcome' = IF s = Root THEN "returned" ELSE outcome

(* schema.(AsyncTransformableSchema) && HasAsyncValidators(); a            *)
(* CompiledSchema has no async methods.                                    *)
HasAsyncValidators == \E s \in Slots : job.asyncs[s] > 0
SyncFallback ==
  /\ At(Root, "called")
  /\ job.compiled \/ ~HasAsyncValidators
  /\ val' = [val EXCEPT ![Root] = SyncOut(Root, job.input)]
  /\ errors' = SyncErrs(Root, job.input)
  /\ Leave(Root)
  /\ UNCHANGED <<job, cancelled, todo, own, asked, late>>

(* What the frame is given: the caller's data, or the parent's result.     *)
Arg(s) == IF s = Root THEN job.input ELSE val[Parent[s]]

(* The sync pass each frame starts with.  It runs to the end whatever the  *)
(* context says, and it stops the frame when ctx holds any error, from     *)
(* this frame or from one that returned earlier.                           *)
NilObject(s) == Kind[s] = "object" /\ Arg(s)[s] = Nil
MutStopsAtNil(s, errs) == NilObject(s)
Stops(s, errs) == errs # {} \/ NilObject(s)

SyncPass(s) ==
  /\ At(s, "called")
  /\ s = Root => ~job.compiled /\ HasAsyncValidators
  /\ val' = [val EXCEPT ![s] = SyncOut(s, Arg(s))]
  /\ errors' = errors \cup SyncErrs(s, Arg(s))
  /\ IF Stops(s, errors')
     THEN Leave(s)
     ELSE Goto(s, IF Kind[s] = "transform" THEN "own" ELSE "gate")
  /\ UNCHANGED <<job, cancelled, todo, own, asked, late>>

(* The range of the async loop: every defined field in the result map, or  *)
(* every element when the element schema has async methods.                *)
MutLeavesOnly(s) == {c \in Kids(s) : val[s][c] # Absent /\ Kind[c] = "transform"}
LoopRange(s) ==
  {c \in Kids(s) : /\ val[s][c] # Absent
                   /\ Kind[c] # "extra"
                   /\ Kind[s] = "array" => AsyncCapable(c)}

NilSlice(s) == Kind[s] = "array" /\ val[s][s] = Nil /\ \E c \in Kids(s) : AsyncCapable(c)

OpenGate(s) ==
  /\ At(s, "gate") /\ ~cancelled /\ ~NilSlice(s)
  /\ todo' = [todo EXCEPT ![s] = LoopRange(s)]
  /\ Goto(s, "kids")
  /\ UNCHANGED <<job, cancelled, own, val, errors, asked, late>>

(* result.([]interface{}) on the nil a nullable array returns.             *)
Panic(s) ==
  /\ At(s, "gate") /\ ~cancelled /\ NilSlice(s)
  /\ outcome' = "panicked"
  /\ UNCHANGED <<job, cancelled, cur, pc, todo, own, val, errors, asked, late>>

(* One turn of the loop: fields in any order, elements by index.           *)
MutDescendForever(s, c) ==
  /\ At(s, "kids") /\ c \in todo[s] /\ AsyncCapable(c) /\ ~cancelled
  /\ cur' = c /\ pc' = [pc EXCEPT ![c] = "called"]
  /\ UNCHANGED <<job, cancelled, todo, own, val, errors, asked, late, outcome>>
Descend(s, c) ==
  /\ At(s, "kids") /\ ~cancelled
  /\ c \in todo[s]
  /\ Kind[s] = "array" => \A d \in todo[s] : Index[c] <= Index[d]
  /\ todo' = [todo EXCEPT ![s] = @ \ {c}]
  /\ IF AsyncCapable(c)
     THEN cur' = c /\ pc' = [pc EXCEPT ![c] = "called"]
     ELSE UNCHANGED <<cur, pc>>
  /\ UNCHANGED <<job, cancelled, own, val, errors, asked, late, outcome>>

KidsDone(s) ==
  /\ At(s, "kids") /\ todo[s] = {}
  /\ Goto(s, "own")
  /\ UNCHANGED <<job, cancelled, todo, own, val, errors, asked, late>>

(* The loop over asyncValidators: check the context, then call.            *)
MutClearUnchecked(s) ==
  /\ At(s, "own") /\ own[s] < job.asyncs[s]
  /\ Goto(s, "cleared")
  /\ UNCHANGED <<job, cancelled, todo, own, val, errors, asked, late>>
Clear(s) ==
  /\ At(s, "own") /\ own[s] < job.asyncs[s] /\ ~cancelled
  /\ Goto(s, "cleared")
  /\ UNCHANGED <<job, cancelled, todo, own, val, errors, asked, late>>

MutGivenOriginal(s) == job.input
Given(s) == val[s]
Ask(s) ==
  /\ At(s, "cleared")
  /\ asked' = Append(asked, [slot |-> s, n |-> own[s] + 1, value |-> Given(s)])
  /\ late' = IF cancelled THEN late + 1 ELSE late
  /\ Goto(s, "awaiting")
  /\ UNCHANGED <<job, cancelled, todo, own, val, errors>>

(* The validator returns.  One that watches the context may also fail on   *)
(* its account.                                                            *)
MutRetryRefused(n, ok) == IF ok THEN n + 1 ELSE n
Advance(n, ok) == n + 1
Answer(s) ==
  /\ At(s, "awaiting")
  /\ \E ok \in BOOLEAN :
       /\ ok => <<s, own[s] + 1>> \notin job.refusing
       /\ ~ok => <<s, own[s] + 1>> \in job.refusing \/ cancelled
       /\ errors' = IF ok THEN errors ELSE errors \cup {Error(s, "refused", own[s] + 1)}
       /\ own' = [own EXCEPT ![s] = Advance(@, ok)]
  /\ Goto(s, "own")
  /\ UNCHANGED <<job, cancelled, todo, val, asked, late>>

Finish(s) ==
  /\ At(s, "own") /\ own[s] = job.asyncs[s]
  /\ Leave(s)
  /\ UNCHANGED <<job, cancelled, todo, own, val, errors, asked, late>>

(* goCtx.Err() # nil at any of the checks: this frame alone returns.       *)
MutCancelledSilently(s) == UNCHANGED errors
ReportCancelled(s) == errors' = errors \cup {Error(s, "cancelled", 0)}
GiveUp(s) ==
  /\ cancelled
  /\ \/ At(s, "gate")
     \/ At(s, "kids") /\ todo[s] # {}
     \/ At(s, "own") /\ own[s] < job.asyncs[s]
  /\ ReportCancelled(s)
  /\ Leave(s)
  /\ UNCHANGED <<job, cancelled, todo, own, val, asked, late>>

Cancel ==
  /\ outcome = "running" /\ ~cancelled
  /\ cancelled' = TRUE
  /\ UNCHANGED <<job, cur, pc, todo, own, val, errors, asked, late, outcome>>

Terminated == outcome # "running" /\ UNCHANGED vars

Step ==
  \/ SyncFallback
  \/ \E s \in Slots :
       \/ SyncPass(s) \/ OpenGate(s) \/ Panic(s) \/ KidsDone(s) \/ Clear(s)
       \/ Ask(s) \/ Answer(s) \/ Finish(s) \/ GiveUp(s)
       \/ \E c \in Kids(s) : Descend(s, c)

Next == Step \/ Cancel \/ Terminated
Spec == Init /\ [][Next]_vars
FairSpec == Spec /\ WF_vars(Step)

---------------------------------------------------------------------------
(* What the caller may rely on.                                            *)

Silent(s) == Kind[s] = "object" /\ job.input[s] = Nil
Due == {v \in Validators : /\ v[1] \in Reached(Root, job.input)
                           /\ ~Silent(v[1])
                           /\ v[2] <= job.asyncs[v[1]]}
Answered == {v \in Validators : v[2] <= own[v[1]]}
SyncClean == SyncErrs(Root, job.input) = {}

(* A validator that does I/O is never started on data the synchronous      *)
(* rules reject, however deep the slot it is attached to (the early return *)
(* of every ValidateAndTransformAsync).                                    *)
AsyncOnlyAfterCleanSync == asked # <<>> => SyncClean

(* A call that returns without an error has put the question to every      *)
(* async validator of the data and each of them accepted: no early return, *)
(* skipped field or cancellation is mistaken for success.                  *)
NoSilentSkip ==
  outcome = "returned" /\ errors = {} /\ ~job.compiled
    => SyncClean /\ Answered = Due /\ Due \cap job.refusing = {}

(* The verdict of an uncancelled call is the conjunction of the sync rules *)
(* and of all async validators, in whatever order the maps are ranged      *)
(* over, provided a second sync pass over an accepted result is a no-op.   *)
(* On a compiled schema, which has no async methods, it is that of the     *)
(* rules alone (README.md has it that compiling changes nothing).          *)
VerdictExact ==
  outcome = "returned" /\ ~cancelled /\ (SyncClean => Stable(job.input))
    => (errors = {} <=> SyncClean /\ (job.compiled \/ Due \cap job.refusing = {}))

(* Each async validator judges the value that the call goes on to return   *)
(* for its slot, provided a second sync pass over the result is a no-op.   *)
AskedOnReturnedValue ==
  \A i \in DOMAIN asked : \A m \in Under(asked[i].slot) :
    asked[i].value[m] = val[Root][m] \/ ~Stable(job.input)

(* However deep the descent, at most one validator starts after the        *)
(* context is cancelled: the one whose check came just before.             *)
OneLateStart == late <= 1

(* Validators run strictly from the leaves up, one slot's in the order     *)
(* they were registered: none is started below or before one that was      *)
(* already started, and none is started twice.                             *)
InOrder ==
  \A i, j \in DOMAIN asked : i < j =>
    /\ asked[i].slot \notin Above[asked[j].slot]
    /\ asked[i].slot = asked[j].slot => asked[i].n < asked[j].n

(* Every call returns or panics once the validators it waits for return.   *)
Termination == <>(outcome # "running")

(* A nullable array may be nil: the call returns rather than panics.       *)
NeverPanics == outcome # "panicked"

(* What the caller sees of a call: AsyncContract, without the tree and the *)
(* stack.                                                                  *)
Contract == INSTANCE AsyncContract WITH
  stage <- IF outcome # "running" THEN "done"
           ELSE IF pc[Root] = "called" THEN "sync" ELSE "async",
  due <- Due,
  refusing <- job.refusing,
  answered <- Answered,
  rejected <- errors # {}

(* The call implements its contract: whatever the tree, the order of the    *)
(* maps and the moment of the cancellation, each step of the descent is a   *)
(* step of the contract or none.                                            *)
ImplementsContract == Contract!Spec
===========================================================================
