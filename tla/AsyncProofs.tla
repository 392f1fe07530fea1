---------------------------- MODULE AsyncProofs ----------------------------
(***************************************************************************)
(* Safety of one asynchronous validation for any tree of schemas, any data *)
(* and any number of async validators.  AInv joins the typing, the place   *)
(* where a validator may be running (FrameInv), what has to hold for a     *)
(* frame to be past its sync pass (CleanInv), and the count of validators  *)
(* that started after the cancellation (LateInv).                          *)
(***************************************************************************)
EXTENDS AsyncValidation, SequenceTheorems, TLAPS

(* A validator is about to be called, or runs, only in the frame on top of  *)
(* the stack, and only while one of the slot's is left.                    *)
FrameInv ==
  \A s \in Slots : pc[s] \in {"cleared", "awaiting"} => cur = s /\ own[s] < job.asyncs[s]

(* Past the gate of a frame, and in any frame below the root's, the sync    *)
(* rules have accepted the whole document.                                 *)
PastSync == {"gate", "kids", "own", "cleared", "awaiting"}
CleanInv ==
  /\ \A s \in Slots : pc[s] \in PastSync \/ (s # Root /\ pc[s] = "called") => SyncClean
  /\ asked # <<>> => SyncClean

LateInv ==
  /\ late \in {0, 1}
  /\ late = 1 => cancelled /\ \A s \in Slots : pc[s] # "cleared"

AInv == TypeOK /\ FrameInv /\ CleanInv /\ LateInv

---------------------------------------------------------------------------
(* A sync pass turns data into data.                                       *)
LEMMA SyncOutType ==
  ASSUME NEW s \in Slots, NEW data \in [Slots -> Values]
  PROVE  SyncOut(s, data) \in [Slots -> Values]
<1>1. ASSUME NEW m \in Slots PROVE Transformed(m, data[m]) \in Values
  <2>1. data[m] \in DOMAIN Trans[m] => Trans[m][data[m]] \in Leaf \cup {Nil, Failed}
    BY ValueAssumption
  <2> QED BY <2>1 DEF Transformed, Values
<1>2. \A m \in Slots : data[m] \in Values /\ Absent \in Values
  BY DEF Values
<1> QED
  BY <1>1, <1>2 DEF SyncOut

(* The errors of a sync pass are errors of the slots it was given.          *)
LEMMA SyncErrsType ==
  ASSUME NEW s \in Slots, NEW data \in [Slots -> Values]
  PROVE  SyncErrs(s, data) \subseteq AllErrors
<1>1. Reached(s, data) \subseteq Slots /\ Under(s) \subseteq Slots
  BY DEF Reached, Under
<1>2. 0 \in 0..MaxAsync
  BY CallAssumption
<1>3. \A m \in Slots, why \in Whys : Error(m, why, 0) \in AllErrors
  BY <1>2 DEF Error, AllErrors
<1>4. {"null", "type", "items", "custom", "missing", "extra", "transform", "inner"} \subseteq Whys
  BY DEF Whys
<1> QED
  BY <1>1, <1>3, <1>4 DEF SyncErrs

(* What a call is made with, and what each of its frames is given.          *)
LEMMA ArgType ==
  ASSUME TypeOK, NEW s \in Slots
  PROVE  Arg(s) \in [Slots -> Values] /\ job.asyncs[s] \in 0..MaxAsync
<1>1. job.input \in [Slots -> Values] /\ job.asyncs \in [Slots -> 0..MaxAsync]
  BY CallAssumption DEF TypeOK, Jobs, WellFormed
<1>2. s # Root => Parent[s] \in Slots
  BY TreeAssumption
<1> QED
  BY <1>1, <1>2 DEF Arg, TypeOK

LEMMA Typing == TypeOK /\ FrameInv /\ [Next]_vars => TypeOK'
<1> SUFFICES ASSUME TypeOK, FrameInv, [Next]_vars PROVE TypeOK'
  OBVIOUS
<1> USE TreeAssumption, CallAssumption DEF Pcs
<1>1. ASSUME NEW s \in Slots, Leave(s)
      PROVE  /\ pc' \in [Slots -> Pcs] /\ cur' \in Slots \cup {NoSlot}
             /\ outcome' \in {"running", "returned", "panicked"}
  BY <1>1 DEF TypeOK, Leave
<1>2. CASE UNCHANGED vars \/ Terminated
  BY <1>2 DEF TypeOK, vars, Terminated
<1>3. CASE SyncFallback
  <2>1. SyncOut(Root, job.input) \in [Slots -> Values] /\ SyncErrs(Root, job.input) \subseteq AllErrors
    BY ArgType, SyncOutType, SyncErrsType DEF Arg
  <2> QED BY <1>1, <1>3, <2>1 DEF TypeOK, SyncFallback
<1>4. ASSUME NEW s \in Slots, SyncPass(s) PROVE TypeOK'
  <2>1. SyncOut(s, Arg(s)) \in [Slots -> Values] /\ SyncErrs(s, Arg(s)) \subseteq AllErrors
    BY ArgType, SyncOutType, SyncErrsType
  <2>2. /\ pc' \in [Slots -> Pcs] /\ cur' \in Slots \cup {NoSlot}
        /\ outcome' \in {"running", "returned", "panicked"}
    BY <1>1, <1>4 DEF TypeOK, SyncPass, Goto
  <2> QED BY <1>4, <2>1, <2>2 DEF TypeOK, SyncPass
<1>5. ASSUME NEW s \in Slots, OpenGate(s) PROVE TypeOK'
  <2>1. LoopRange(s) \in SUBSET Slots
    BY DEF LoopRange, Kids
  <2> QED BY <1>5, <2>1 DEF TypeOK, OpenGate, Goto
<1>13. ASSUME NEW s \in Slots, KidsDone(s) \/ Clear(s) PROVE TypeOK'
  BY <1>13, ZenonT(60) DEF TypeOK, KidsDone, Clear, Goto
<1>6. ASSUME NEW s \in Slots, Panic(s) PROVE TypeOK'
  BY <1>6 DEF TypeOK, Panic
<1>7. ASSUME NEW s \in Slots, NEW c \in Kids(s), Descend(s, c) PROVE TypeOK'
  <2>1. c \in Slots
    BY DEF Kids
  <2> QED BY <1>7, <2>1 DEF TypeOK, Descend
<1>8. ASSUME NEW s \in Slots, Ask(s) PROVE TypeOK'
  <2>1. own[s] + 1 \in 1..MaxAsync
    <3>1. job.asyncs[s] \in 0..MaxAsync
      BY ArgType
    <3>2. own[s] \in 0..MaxAsync /\ own[s] < job.asyncs[s]
      BY <1>8 DEF TypeOK, FrameInv, Ask, At
    <3> QED BY <3>1, <3>2
  <2> DEFINE question == [slot |-> s, n |-> own[s] + 1, value |-> Given(s)]
  <2>2. question \in Asks
    BY <2>1 DEF TypeOK, Given, Asks
  <2>5. asked \in Seq(Asks) /\ asked' = Append(asked, question)
    BY <1>8 DEF TypeOK, Ask
  <2>3. asked' \in Seq(Asks)
    <3> HIDE DEF question
    <3> QED BY <2>2, <2>5
  <2>4. late' \in Nat
    BY <1>8 DEF TypeOK, Ask
  <2> QED BY <1>8, <2>3, <2>4 DEF TypeOK, Ask, Goto
<1>9. ASSUME NEW s \in Slots, Answer(s) PROVE TypeOK'
  <2>1. own[s] + 1 \in 0..MaxAsync
    <3>1. job.asyncs[s] \in 0..MaxAsync
      BY ArgType
    <3>2. own[s] \in 0..MaxAsync /\ own[s] < job.asyncs[s]
      BY <1>9 DEF TypeOK, FrameInv, Answer, At
    <3> QED BY <3>1, <3>2
  <2>2. Error(s, "refused", own[s] + 1) \in AllErrors
    BY <2>1 DEF Error, AllErrors
  <2>3. errors' \in SUBSET AllErrors
    BY <1>9, <2>2 DEF TypeOK, Answer
  <2>4. own' \in [Slots -> 0..MaxAsync]
    <3>1. own' = [own EXCEPT ![s] = own[s] + 1] /\ own \in [Slots -> 0..MaxAsync]
      BY <1>9 DEF TypeOK, Answer, Advance
    <3> QED BY <2>1, <3>1
  <2> QED BY <1>9, <2>3, <2>4 DEF TypeOK, Answer, Goto
<1>10. ASSUME NEW s \in Slots, Finish(s) PROVE TypeOK'
  BY <1>1, <1>10 DEF TypeOK, Finish
<1>11. ASSUME NEW s \in Slots, GiveUp(s) PROVE TypeOK'
  <2>1. Error(s, "cancelled", 0) \in AllErrors
    BY DEF Error, AllErrors
  <2> QED BY <1>1, <1>11, <2>1 DEF TypeOK, GiveUp, ReportCancelled
<1>12. CASE Cancel
  BY <1>12 DEF TypeOK, Cancel
<1> QED
  BY <1>2, <1>3, <1>4, <1>5, <1>6, <1>7, <1>8, <1>9, <1>10, <1>11, <1>12, <1>13
     DEF Next, Step

(* The frame at the top alone can be about to ask or waiting for an answer. *)
LEMMA Frames == TypeOK /\ FrameInv /\ [Next]_vars => FrameInv'
<1> SUFFICES ASSUME TypeOK, FrameInv, [Next]_vars PROVE FrameInv'
  OBVIOUS
<1>1. pc \in [Slots -> Pcs] /\ own \in [Slots -> 0..MaxAsync] /\ job' = job
  BY DEF TypeOK, vars, Next, Step, SyncFallback, SyncPass, OpenGate, Panic, Descend, KidsDone,
         Clear, Ask, Answer, Finish, GiveUp, Cancel, Terminated
<1> USE <1>1 DEF FrameInv, At
<1>2. CASE UNCHANGED vars \/ Terminated \/ Cancel
  BY <1>2 DEF vars, Terminated, Cancel
<1>3. ASSUME NEW s \in Slots, Leave(s), UNCHANGED own,
             cur = s, pc[s] \notin {"cleared", "awaiting"}
      PROVE  FrameInv'
  BY <1>3 DEF Leave
<1>4. CASE SyncFallback
  <2>1. Root \in Slots
    BY TreeAssumption
  <2> QED BY <1>3, <1>4, <2>1 DEF SyncFallback
<1>5. ASSUME NEW s \in Slots, SyncPass(s) PROVE FrameInv'
  <2>1. CASE Leave(s)
    BY <1>3, <1>5, <2>1 DEF SyncPass
  <2>2. CASE ~Leave(s)
    BY <1>5, <2>2 DEF SyncPass, Goto
  <2> QED BY <2>1, <2>2
<1>6. ASSUME NEW s \in Slots, OpenGate(s) \/ KidsDone(s) PROVE FrameInv'
  BY <1>6 DEF OpenGate, KidsDone, Goto
<1>7. ASSUME NEW s \in Slots, Panic(s) PROVE FrameInv'
  BY <1>7 DEF Panic
<1>8. ASSUME NEW s \in Slots, NEW c \in Kids(s), Descend(s, c) PROVE FrameInv'
  BY <1>8 DEF Descend, Kids
<1>9. ASSUME NEW s \in Slots, Clear(s) PROVE FrameInv'
  BY <1>9 DEF Clear, Goto
<1>10. ASSUME NEW s \in Slots, Ask(s) PROVE FrameInv'
  BY <1>10 DEF Ask, Goto
<1>11. ASSUME NEW s \in Slots, Answer(s) PROVE FrameInv'
  <2>1. \A u \in Slots \ {s} : pc[u] \notin {"cleared", "awaiting"}
    BY <1>11 DEF Answer
  <2>2. \A u \in Slots : pc'[u] \notin {"cleared", "awaiting"}
    BY <1>11, <2>1 DEF Answer, Goto
  <2> QED BY <2>2
<1>12. ASSUME NEW s \in Slots, Finish(s) \/ GiveUp(s) PROVE FrameInv'
  BY <1>3, <1>12 DEF Finish, GiveUp
<1> QED
  BY <1>2, <1>4, <1>5, <1>6, <1>7, <1>8, <1>9, <1>10, <1>11, <1>12 DEF Next, Step

(* The root's sync pass is the only way past the gate.                      *)
LEMMA Cleans == TypeOK /\ CleanInv /\ [Next]_vars => CleanInv'
<1> SUFFICES ASSUME TypeOK, CleanInv, [Next]_vars PROVE CleanInv'
  OBVIOUS
<1>1. pc \in [Slots -> Pcs] /\ job' = job
  BY DEF TypeOK, vars, Next, Step, SyncFallback, SyncPass, OpenGate, Panic, Descend, KidsDone,
         Clear, Ask, Answer, Finish, GiveUp, Cancel, Terminated
<1>2. SyncClean' = SyncClean
  BY <1>1 DEF SyncClean
<1> USE <1>1, <1>2 DEF CleanInv, PastSync, At
<1>3. ASSUME UNCHANGED <<pc, asked>> PROVE CleanInv'
  BY <1>3
<1>4. CASE UNCHANGED vars \/ Terminated \/ Cancel
  BY <1>3, <1>4 DEF vars, Terminated, Cancel
<1>5. ASSUME NEW s \in Slots, Leave(s), UNCHANGED asked PROVE CleanInv'
  BY <1>5 DEF Leave
<1>6. CASE SyncFallback
  BY <1>5, <1>6, TreeAssumption DEF SyncFallback
<1>7. ASSUME NEW s \in Slots, SyncPass(s) PROVE CleanInv'
  <2>1. CASE Leave(s)
    BY <1>5, <1>7, <2>1 DEF SyncPass
  <2>2. CASE ~Leave(s)
    <3>1. SyncErrs(s, Arg(s)) = {}
      BY <1>7, <2>2 DEF SyncPass, Stops
    <3>2. SyncClean
      <4>1. CASE s = Root
        BY <3>1, <4>1 DEF SyncClean, Arg
      <4>2. CASE s # Root
        BY <1>7, <4>2 DEF SyncPass
      <4> QED BY <4>1, <4>2
    <3> QED BY <3>2
  <2> QED BY <2>1, <2>2
<1>8. ASSUME NEW s \in Slots, pc[s] \in PastSync PROVE CleanInv'
  BY <1>8
<1>9. ASSUME NEW s \in Slots,
             OpenGate(s) \/ Panic(s) \/ KidsDone(s) \/ Clear(s) \/ Ask(s) \/ Answer(s) \/ Finish(s)
      PROVE  CleanInv'
  BY <1>8, <1>9 DEF OpenGate, Panic, KidsDone, Clear, Ask, Answer, Finish
<1>10. ASSUME NEW s \in Slots, GiveUp(s) PROVE CleanInv'
  BY <1>8, <1>10 DEF GiveUp
<1>11. ASSUME NEW s \in Slots, NEW c \in Kids(s), Descend(s, c) PROVE CleanInv'
  BY <1>8, <1>11 DEF Descend
<1> QED
  BY <1>4, <1>6, <1>7, <1>9, <1>10, <1>11 DEF Next, Step

(* Once the late validator has started, no frame is past its check.         *)
LEMMA Lates == TypeOK /\ FrameInv /\ LateInv /\ [Next]_vars => LateInv'
<1> SUFFICES ASSUME TypeOK, FrameInv, LateInv, [Next]_vars PROVE LateInv'
  OBVIOUS
<1>1. pc \in [Slots -> Pcs] /\ cancelled \in BOOLEAN
  BY DEF TypeOK
<1> USE <1>1 DEF LateInv, At
<1>2. ASSUME UNCHANGED late, cancelled => cancelled',
             \A u \in Slots : pc'[u] = "cleared" => pc[u] = "cleared"
      PROVE  LateInv'
  BY <1>2
<1>3. CASE UNCHANGED vars \/ Terminated \/ Cancel
  BY <1>2, <1>3 DEF vars, Terminated, Cancel
<1>4. ASSUME NEW s \in Slots, Leave(s), UNCHANGED <<late, cancelled>> PROVE LateInv'
  BY <1>2, <1>4 DEF Leave
<1>5. CASE SyncFallback
  BY <1>4, <1>5, TreeAssumption DEF SyncFallback
<1>6. ASSUME NEW s \in Slots, SyncPass(s) PROVE LateInv'
  <2>1. CASE Leave(s)
    BY <1>4, <1>6, <2>1 DEF SyncPass
  <2>2. CASE ~Leave(s)
    BY <1>2, <1>6, <2>2 DEF SyncPass, Goto
  <2> QED BY <2>1, <2>2
<1>7. ASSUME NEW s \in Slots, OpenGate(s) \/ Panic(s) \/ KidsDone(s) \/ Answer(s) PROVE LateInv'
  BY <1>2, <1>7 DEF OpenGate, Panic, KidsDone, Answer, Goto
<1>8. ASSUME NEW s \in Slots, NEW c \in Kids(s), Descend(s, c) PROVE LateInv'
  BY <1>2, <1>8 DEF Descend
<1>9. ASSUME NEW s \in Slots, Clear(s) PROVE LateInv'
  BY <1>9 DEF Clear, Goto
<1>10. ASSUME NEW s \in Slots, Ask(s) PROVE LateInv'
  <2>1. \A u \in Slots : pc'[u] # "cleared"
    BY <1>10 DEF Ask, Goto, FrameInv
  <2>2. late' = IF cancelled THEN 1 ELSE late
    BY <1>10 DEF Ask
  <2> QED BY <1>10, <2>1, <2>2 DEF Ask
<1>11. ASSUME NEW s \in Slots, Finish(s) \/ GiveUp(s) PROVE LateInv'
  BY <1>4, <1>11 DEF Finish, GiveUp
<1> QED
  BY <1>3, <1>5, <1>6, <1>7, <1>8, <1>9, <1>10, <1>11 DEF Next, Step

---------------------------------------------------------------------------
LEMMA Initially == Init => AInv
<1> SUFFICES ASSUME Init PROVE AInv
  OBVIOUS
<1> USE TreeAssumption, CallAssumption
<1>1. job \in Jobs
  <2>1. PICK data \in Inputs, asyncs \in AsyncChoices, compiled \in CompiledChoices :
          \E refusing \in SUBSET {v \in Validators : v[2] <= asyncs[v[1]]} :
            job = [input |-> data, asyncs |-> asyncs, compiled |-> compiled, refusing |-> refusing]
    BY DEF Init
  <2> QED BY <2>1 DEF Jobs
<1>2. val \in [Slots -> [Slots -> Values]]
  BY DEF Init, Values
<1>3. TypeOK
  BY <1>1, <1>2 DEF Init, TypeOK, Pcs
<1>4. FrameInv /\ CleanInv /\ LateInv
  BY DEF Init, FrameInv, CleanInv, PastSync, LateInv
<1> QED
  BY <1>3, <1>4 DEF AInv

LEMMA Inductive == AInv /\ [Next]_vars => AInv'
  BY Typing, Frames, Cleans, Lates DEF AInv

(* AInv holds in every reachable state of a call.                          *)
THEOREM CallInvariant == Spec => []AInv
  BY Initially, Inductive, PTL DEF Spec

(* The variables keep their types.                                         *)
THEOREM TypeCorrect == Spec => []TypeOK
  BY CallInvariant, PTL DEF AInv

(* No async validator is ever started on a document the sync rules reject,  *)
(* whatever the shape of the schema.                                       *)
THEOREM NoAsyncOnBadData == Spec => []AsyncOnlyAfterCleanSync
<1>1. AInv => AsyncOnlyAfterCleanSync
  BY DEF AInv, CleanInv, AsyncOnlyAfterCleanSync
<1> QED
  BY CallInvariant, <1>1, PTL

(* However deep and wide the schema, one validator at most starts after the *)
(* cancellation.                                                           *)
THEOREM PromptCancellation == Spec => []OneLateStart
<1>1. AInv => OneLateStart
  BY DEF AInv, LateInv, OneLateStart
<1> QED
  BY CallInvariant, <1>1, PTL

---------------------------------------------------------------------------
(***************************************************************************)
(* The order in which a call starts its async validators.  The frames      *)
(* above the running one stand in their loops, the slots still to come     *)
(* have not been called, and a slot that has asked is past its loop over   *)
(* the slots below it.                                                     *)
(***************************************************************************)
OwnPhase == {"own", "cleared", "awaiting", "returned"}

StackInv == cur \in Slots => \A a \in Above[cur] : pc[a] = "kids"

(* The loop of s has not come to its kid c yet.                            *)
Ahead(s, c) == pc[s] \in {"idle", "called", "gate"} \/ (pc[s] = "kids" /\ c \in todo[s])
FreshInv ==
  \A s \in Slots : todo[s] \subseteq Kids(s) /\ \A c \in Kids(s) : Ahead(s, c) => pc[c] = "idle"

AskedUpTo(s) == IF pc[s] = "awaiting" THEN own[s] + 1 ELSE own[s]
AskedInv ==
  \A i \in DOMAIN asked :
    /\ asked[i].slot \in Slots /\ asked[i].n \in Nat /\ pc[asked[i].slot] \in OwnPhase
    /\ asked[i].n <= AskedUpTo(asked[i].slot)

OInv == AInv /\ StackInv /\ FreshInv /\ AskedInv /\ InOrder

---------------------------------------------------------------------------
(* Of the tree: a kid is below its parent and has only one.                *)
LEMMA KidsBelow ==
  ASSUME NEW s \in Slots, NEW c \in Kids(s)
  PROVE  /\ c \in Slots /\ c # s /\ Above[c] = {s} \cup Above[s] /\ c \notin Above[c]
         /\ \A p \in Slots : c \in Kids(p) => p = s
<1>1. c \in Slots /\ Parent[c] = s /\ c # Root
  BY TreeAssumption DEF Kids
<1> QED
  BY <1>1, TreeAssumption DEF Kids

LEMMA NotAboveItself ==
  ASSUME NEW s \in Slots
  PROVE  /\ s \notin Above[s] /\ Above[s] \subseteq Slots
         /\ Parent[s] \in Slots => Above[Parent[s]] \subseteq Above[s]
  BY TreeAssumption

(* A step moves the frame on top, by itself or back to its parent, or goes  *)
(* down to a kid its loop has come to.                                     *)
Move(s, where) ==
  /\ cur = s /\ pc[s] \notin {"idle", "returned"} /\ pc' = [pc EXCEPT ![s] = where]
  /\ cur' = s \/ (cur' = Parent[s] /\ where = "returned")
EnterLoop(s) == cur' = s /\ pc[s] = "gate" /\ pc'[s] = "kids" /\ todo' = [todo EXCEPT ![s] = LoopRange(s)]

LEMMA MoveStack ==
  ASSUME TypeOK, StackInv, NEW s \in Slots, NEW w, Move(s, w)
  PROVE  StackInv'
<1>1. \A a \in Above[s] : a \in Slots /\ pc[a] = "kids" /\ pc'[a] = "kids"
  BY NotAboveItself DEF StackInv, Move, TypeOK
<1>2. cur' \in Slots => Above[cur'] \subseteq Above[s]
  BY NotAboveItself DEF Move
<1> QED
  BY <1>1, <1>2 DEF StackInv

LEMMA MoveFresh ==
  ASSUME TypeOK, FreshInv, NEW s \in Slots, NEW w, Move(s, w),
         \/ UNCHANGED todo /\ (w \in OwnPhase \/ (w = "gate" /\ pc[s] = "called"))
         \/ EnterLoop(s)
  PROVE  FreshInv'
<1>1. /\ pc'[s] = w /\ w # "idle" /\ pc[s] # "idle" /\ \A t \in Slots \ {s} : pc'[t] = pc[t] /\ todo'[t] = todo[t]
      /\ w \in OwnPhase \/ (w = "gate" /\ pc[s] = "called" /\ todo'[s] = todo[s])
           \/ (w = "kids" /\ pc[s] = "gate" /\ todo'[s] \subseteq Kids(s))
  BY DEF Move, EnterLoop, TypeOK, OwnPhase, LoopRange
<1>2. todo'[s] \subseteq Kids(s)
  BY DEF FreshInv, EnterLoop, TypeOK, LoopRange
<1> SUFFICES ASSUME NEW p \in Slots, NEW c \in Kids(p), Ahead(p, c)'
             PROVE  pc'[c] = "idle"
  BY <1>1, <1>2 DEF FreshInv, Kids
<1>3. c \in Slots /\ c # p
  BY KidsBelow
<1>4. CASE p = s
  <2>1. pc[s] \in {"called", "gate"}
    BY <1>1, <1>4 DEF Ahead, OwnPhase
  <2> QED
    BY <1>1, <1>3, <1>4, <2>1 DEF FreshInv, Ahead
<1>5. CASE p # s
  <2>1. Ahead(p, c)
    BY <1>1, <1>5 DEF Ahead
  <2> QED
    BY <1>1, <1>3, <2>1 DEF FreshInv
<1> QED
  BY <1>4, <1>5

LEMMA DescendKeeps ==
  ASSUME TypeOK, StackInv, FreshInv, AskedInv, NEW s \in Slots, NEW c \in Kids(s), Descend(s, c)
  PROVE  StackInv' /\ FreshInv' /\ AskedInv'
<1>1. /\ cur = s /\ pc[s] = "kids" /\ c \in todo[s] /\ todo' = [todo EXCEPT ![s] = @ \ {c}]
      /\ UNCHANGED <<asked, own>>
      /\ \/ UNCHANGED <<cur, pc>>
         \/ cur' = c /\ pc' = [pc EXCEPT ![c] = "called"]
  BY DEF Descend, At
<1>2. c \in Slots /\ c # s /\ Above[c] = {s} \cup Above[s] /\ c \notin Above[c] /\ pc[c] = "idle"
  BY <1>1, KidsBelow DEF FreshInv, Ahead
<1>3. /\ \A t \in Slots \ {c} : pc'[t] = pc[t]
      /\ pc'[c] \in {"idle", "called"}
  BY <1>1, <1>2 DEF TypeOK
<1>4. StackInv'
  <2>1. \A a \in Above[s] : a \in Slots /\ pc'[a] = "kids"
    BY <1>1, <1>2, <1>3, NotAboveItself DEF StackInv
  <2> QED
    BY <1>1, <1>2, <1>3, <2>1 DEF StackInv
<1>5. FreshInv'
  <2>1. \A p \in Slots : todo'[p] \subseteq todo[p] /\ todo'[p] \subseteq Kids(p)
    BY <1>1 DEF FreshInv, TypeOK
  <2> SUFFICES ASSUME NEW p \in Slots, NEW d \in Kids(p), Ahead(p, d)'
               PROVE  pc'[d] = "idle"
    BY <2>1 DEF FreshInv, Kids
  <2>2. Ahead(p, d) /\ d \in Slots
    BY <1>1, <1>2, <1>3, <2>1, KidsBelow DEF Ahead
  <2>3. d # c
    BY <1>1, <1>2, <1>3, KidsBelow DEF Ahead, TypeOK
  <2> QED
    BY <1>3, <2>2, <2>3 DEF FreshInv
<1>6. AskedInv'
  BY <1>1, <1>2, <1>3 DEF AskedInv, AskedUpTo, OwnPhase
<1> QED
  BY <1>4, <1>5, <1>6

(* A frame that moves without asking keeps what has been asked in bounds.   *)
LEMMA MoveAsked ==
  ASSUME TypeOK, AskedInv, NEW s \in Slots, NEW w, Move(s, w), UNCHANGED asked,
         pc[s] \in OwnPhase => w \in OwnPhase,
         \/ UNCHANGED own /\ pc[s] # "awaiting"
         \/ pc[s] = "awaiting" /\ own' = [own EXCEPT ![s] = own[s] + 1]
  PROVE  AskedInv'
<1>1. /\ pc'[s] = w /\ \A t \in Slots \ {s} : pc'[t] = pc[t] /\ own'[t] = own[t]
      /\ own[s] \in Nat /\ own'[s] \in Nat
      /\ pc[s] = "awaiting" => own'[s] = own[s] + 1
      /\ pc[s] # "awaiting" => own'[s] = own[s]
  BY CallAssumption DEF Move, TypeOK
<1>2. /\ \A t \in Slots \ {s} : AskedUpTo(t)' = AskedUpTo(t)
      /\ AskedUpTo(s)' \in Nat /\ AskedUpTo(s) \in Nat /\ AskedUpTo(s) <= AskedUpTo(s)'
  BY <1>1 DEF AskedUpTo
<1> SUFFICES ASSUME NEW i \in DOMAIN asked
             PROVE  /\ asked[i].slot \in Slots /\ asked[i].n \in Nat
                    /\ pc'[asked[i].slot] \in OwnPhase
                    /\ asked[i].n <= AskedUpTo(asked[i].slot)'
  BY DEF AskedInv
<1>3. CASE asked[i].slot = s
  BY <1>1, <1>2, <1>3 DEF AskedInv
<1>4. CASE asked[i].slot # s
  BY <1>1, <1>2, <1>4 DEF AskedInv
<1> QED
  BY <1>3, <1>4

(* A validator is started in the running frame, below no slot that asked    *)
(* before, and after the slot's own that did.                              *)
LEMMA AskKeeps ==
  ASSUME TypeOK, FrameInv, StackInv, AskedInv, InOrder, NEW s \in Slots, Ask(s)
  PROVE  AskedInv' /\ InOrder'
<1> DEFINE question == [slot |-> s, n |-> own[s] + 1, value |-> Given(s)]
           k == Len(asked)
<1>1. /\ cur = s /\ pc[s] = "cleared" /\ pc' = [pc EXCEPT ![s] = "awaiting"]
      /\ asked' = Append(asked, question) /\ own' = own /\ own[s] \in Nat
  BY CallAssumption DEF Ask, At, Goto, TypeOK
<1>2. question.slot = s /\ question.n = own[s] + 1
  OBVIOUS
<1> HIDE DEF question
<1>3. /\ k \in Nat /\ DOMAIN asked = 1..k /\ DOMAIN asked' = 1..(k + 1)
      /\ asked'[k + 1] = question /\ \A i \in 1..k : asked'[i] = asked[i]
  <2>1. asked \in Seq(Asks \cup {question})
    BY SeqMonotonic DEF TypeOK
  <2> QED
    BY <1>1, <2>1, AppendProperties, LenProperties
<1> HIDE DEF k
<1>4. /\ \A t \in Slots \ {s} : pc'[t] = pc[t]
      /\ pc'[s] = "awaiting"
  BY <1>1 DEF TypeOK
<1>5. \A i \in 1..k :
        /\ asked[i].slot \in Slots /\ asked[i].n \in Nat /\ pc[asked[i].slot] \in OwnPhase
        /\ asked[i].n <= AskedUpTo(asked[i].slot)
        /\ asked[i].slot \notin Above[s]
        /\ asked[i].slot = s => asked[i].n < own[s] + 1
  <2>1. \A a \in Above[s] : pc[a] \notin OwnPhase
    BY <1>1 DEF StackInv, OwnPhase
  <2>2. AskedUpTo(s) = own[s]
    BY <1>1 DEF AskedUpTo
  <2> QED
    BY <1>1, <1>3, <2>1, <2>2 DEF AskedInv
<1>6. AskedInv'
  <2> SUFFICES ASSUME NEW i \in 1..(k + 1)
               PROVE  LET t == asked'[i].slot IN
                      /\ t \in Slots /\ asked'[i].n \in Nat /\ pc'[t] \in OwnPhase
                      /\ asked'[i].n <= IF pc'[t] = "awaiting" THEN own'[t] + 1 ELSE own'[t]
    BY <1>3 DEF AskedInv, AskedUpTo
  <2>1. CASE i = k + 1
    BY <1>1, <1>2, <1>3, <1>4, <2>1 DEF OwnPhase
  <2>2. CASE i \in 1..k
    <3>1. asked'[i] = asked[i]
      BY <1>3, <2>2
    <3>2. CASE asked[i].slot = s
      <4>1. asked[i].n \in Nat /\ asked[i].n < own[s] + 1
        BY <1>5, <2>2, <3>2
      <4> QED
        BY <1>1, <1>4, <3>1, <3>2, <4>1 DEF OwnPhase
    <3>3. CASE asked[i].slot # s
      <4>1. pc'[asked[i].slot] = pc[asked[i].slot]
        BY <1>4, <1>5, <2>2, <3>3
      <4> QED
        BY <1>1, <1>5, <2>2, <3>1, <4>1 DEF AskedUpTo
    <3> QED
      BY <3>2, <3>3
  <2> QED
    BY <1>3, <2>1, <2>2
<1>7. InOrder'
  <2> SUFFICES ASSUME NEW i \in 1..(k + 1), NEW j \in 1..(k + 1), i < j
               PROVE  /\ asked'[i].slot \notin Above[asked'[j].slot]
                      /\ asked'[i].slot = asked'[j].slot => asked'[i].n < asked'[j].n
    BY <1>3 DEF InOrder
  <2>1. i \in 1..k /\ asked'[i] = asked[i]
    BY <1>3
  <2>2. CASE j = k + 1
    BY <1>2, <1>3, <1>5, <2>1, <2>2
  <2>3. CASE j \in 1..k
    BY <1>3, <2>1, <2>3 DEF InOrder
  <2> QED
    BY <1>3, <2>2, <2>3
<1> QED
  BY <1>6, <1>7

---------------------------------------------------------------------------
LEMMA OrderInit == Init => OInv
<1> SUFFICES ASSUME Init PROVE OInv
  OBVIOUS
<1>1. AInv
  BY Initially
<1>2. asked = <<>> /\ DOMAIN asked = {}
  BY DEF Init
<1>3. StackInv
  BY TreeAssumption DEF Init, StackInv
<1>4. FreshInv
  BY TreeAssumption DEF Init, FreshInv, Kids
<1> QED
  BY <1>1, <1>2, <1>3, <1>4 DEF OInv, AskedInv, InOrder

(* Every step of a call but a descent is a move of the running frame.       *)
LEMMA MoveKeeps ==
  ASSUME OInv, AInv', NEW s \in Slots, NEW w, Move(s, w), UNCHANGED asked,
         pc[s] \in OwnPhase => w \in OwnPhase,
         \/ UNCHANGED own /\ pc[s] # "awaiting"
         \/ pc[s] = "awaiting" /\ own' = [own EXCEPT ![s] = own[s] + 1],
         \/ UNCHANGED todo /\ (w \in OwnPhase \/ (w = "gate" /\ pc[s] = "called"))
         \/ EnterLoop(s)
  PROVE  OInv'
<1>1. TypeOK /\ StackInv /\ FreshInv /\ AskedInv
  BY DEF OInv, AInv
<1>2. StackInv'
  BY <1>1, MoveStack
<1>3. FreshInv'
  BY <1>1, MoveFresh
<1>4. AskedInv'
  BY <1>1, MoveAsked
<1> QED
  BY <1>2, <1>3, <1>4 DEF OInv, InOrder

LEMMA OrderNext == OInv /\ [Next]_vars => OInv'
<1> SUFFICES ASSUME OInv, [Next]_vars PROVE OInv'
  OBVIOUS
<1>1. AInv /\ TypeOK /\ FrameInv /\ AInv'
  BY Inductive DEF OInv, AInv
<1>2. ASSUME UNCHANGED <<cur, pc, todo, own, asked>> PROVE OInv'
  BY <1>1, <1>2 DEF OInv, StackInv, FreshInv, Ahead, AskedInv, AskedUpTo, InOrder
<1>3. CASE UNCHANGED vars \/ Terminated \/ Cancel
  BY <1>2, <1>3 DEF vars, Terminated, Cancel
<1>4. CASE SyncFallback
  <2>1. Root \in Slots /\ Move(Root, "returned")
    BY <1>4, TreeAssumption DEF SyncFallback, At, Leave, Move
  <2> QED
    BY <1>1, <1>4, <2>1, MoveKeeps DEF SyncFallback, At, OwnPhase
<1>5. ASSUME NEW s \in Slots, SyncPass(s) PROVE OInv'
  <2>1. /\ pc[s] = "called" /\ UNCHANGED <<todo, own, asked>>
        /\ Move(s, "returned") \/ Move(s, "own") \/ Move(s, "gate")
    BY <1>5 DEF SyncPass, At, Leave, Goto, Move
  <2> QED
    BY <1>1, <2>1, MoveKeeps DEF OwnPhase
<1>6. ASSUME NEW s \in Slots, OpenGate(s) PROVE OInv'
  <2>1. /\ pc[s] = "gate" /\ UNCHANGED <<own, asked>> /\ Move(s, "kids") /\ EnterLoop(s)
    BY <1>1, <1>6 DEF OpenGate, At, Goto, Move, EnterLoop, TypeOK
  <2> QED
    BY <1>1, <2>1, MoveKeeps DEF OwnPhase
<1>7. ASSUME NEW s \in Slots, Panic(s) PROVE OInv'
  BY <1>2, <1>7 DEF Panic
<1>8. ASSUME NEW s \in Slots, KidsDone(s) \/ Clear(s) PROVE OInv'
  <2>1. /\ pc[s] \in {"kids", "own"} /\ UNCHANGED <<todo, own, asked>>
        /\ (pc[s] = "kids" /\ Move(s, "own")) \/ (pc[s] = "own" /\ Move(s, "cleared"))
    BY <1>8 DEF KidsDone, Clear, At, Goto, Move
  <2> QED
    BY <1>1, <2>1, MoveKeeps DEF OwnPhase
<1>9. ASSUME NEW s \in Slots, Ask(s) PROVE OInv'
  <2>1. pc[s] = "cleared" /\ UNCHANGED <<todo, own>> /\ Move(s, "awaiting")
    BY <1>9 DEF Ask, At, Goto, Move
  <2>2. StackInv' /\ FreshInv'
    BY <1>1, <2>1, MoveStack, MoveFresh DEF OInv, OwnPhase
  <2>3. AskedInv' /\ InOrder'
    BY <1>1, <1>9, AskKeeps DEF OInv
  <2> QED
    BY <1>1, <2>2, <2>3 DEF OInv
<1>10. ASSUME NEW s \in Slots, Answer(s) PROVE OInv'
  <2>1. /\ pc[s] = "awaiting" /\ UNCHANGED <<todo, asked>> /\ Move(s, "own")
        /\ own' = [own EXCEPT ![s] = own[s] + 1]
    BY <1>10 DEF Answer, Advance, At, Goto, Move
  <2> QED
    BY <1>1, <2>1, MoveKeeps DEF OwnPhase
<1>11. ASSUME NEW s \in Slots, Finish(s) \/ GiveUp(s) PROVE OInv'
  <2>1. /\ pc[s] \in {"gate", "kids", "own"} /\ UNCHANGED <<todo, own, asked>>
        /\ Move(s, "returned")
    BY <1>11 DEF Finish, GiveUp, At, Leave, Move
  <2> QED
    BY <1>1, <2>1, MoveKeeps DEF OwnPhase
<1>12. ASSUME NEW s \in Slots, NEW c \in Kids(s), Descend(s, c) PROVE OInv'
  <2>1. StackInv' /\ FreshInv' /\ AskedInv'
    BY <1>1, <1>12, DescendKeeps DEF OInv
  <2> QED
    BY <1>1, <1>12, <2>1 DEF OInv, InOrder, Descend
<1> QED
  BY <1>3, <1>4, <1>5, <1>6, <1>7, <1>8, <1>9, <1>10, <1>11, <1>12 DEF Next, Step

(* For every schema tree, the async validators start from the leaves up,    *)
(* those of one slot in the order they were registered, and none twice.     *)
THEOREM LeavesFirst == Spec => []InOrder
<1>1. OInv => InOrder
  BY DEF OInv
<1> QED
  BY <1>1, OrderInit, OrderNext, PTL DEF Spec

---------------------------------------------------------------------------
(* A call that succeeds has put its question to every async validator of   *)
(* the data, for any tree, data and number of validators.  A slot whose    *)
(* validators have not all answered is pending: it is on the stack, or the *)
(* loop of a slot above it has not come to it yet.                         *)
Early == {"idle", "called", "gate"}
Active(s) == pc[s] \notin {"idle", "returned"}

(* Where the frames are: the active ones make up the stack, and nothing is  *)
(* called below a slot that has not opened its loop.                       *)
Positions ==
  /\ \A s \in Slots : Active(s) => cur \in Slots /\ s \in {cur} \cup Above[cur]
  /\ outcome = "returned" => cur \notin Slots
  /\ \A s, m \in Slots : pc[s] \in Early /\ s \in Above[m] => pc[m] = "idle"
  /\ \A s \in Slots : own[s] <= job.asyncs[s] /\ (pc[s] \in Early \cup {"kids"} => own[s] = 0)

(* A sync pass moves no slot in or out of the data but undefined keys.      *)
Shape(data) ==
  \A m \in Slots : /\ Composite(m) => data[m] = job.input[m]
                   /\ Kind[m] # "extra" => (data[m] = Absent <=> job.input[m] = Absent)
Visits ==
  \A s \in Slots :
    /\ pc[s] \notin {"idle", "called"} => Shape(val[s])
    /\ pc[s] # "idle" => s \in Reached(Root, job.input)
    /\ pc[s] \notin {"idle", "called", "returned"} => ~Silent(s)
    /\ pc[s] = "kids" => todo[s] \subseteq Reached(Root, job.input)

(* How many of its validators the data calls for, and what is still to be   *)
(* visited.                                                                *)
Need(m) == IF m \in Reached(Root, job.input) /\ ~Silent(m) THEN job.asyncs[m] ELSE 0
Waits(m, a) ==
  \/ pc[a] \in {"called", "gate"}
  \/ pc[a] = "kids" /\ \E c \in todo[a] : c = m \/ c \in Above[m]
Pending(m) == Active(m) \/ (pc[m] = "idle" /\ \E a \in Above[m] : Waits(m, a))

Complete ==
  /\ ~job.compiled /\ errors = {} => \A m \in Slots : own[m] = Need(m) \/ Pending(m)
  /\ \A v \in job.refusing : v[2] <= own[v[1]] => errors # {}
  /\ errors = {} /\ pc[Root] # "called" => SyncClean

KInv == OInv /\ Positions /\ Visits /\ Complete

---------------------------------------------------------------------------
(* Of the data a call is made with.                                        *)
LEMMA JobType ==
  ASSUME TypeOK
  PROVE  /\ WellFormed(job.input) /\ job.input \in [Slots -> Values]
         /\ job.asyncs \in [Slots -> 0..MaxAsync] /\ MaxAsync \in Nat
         /\ job.refusing \subseteq Validators /\ job.compiled \in BOOLEAN
         /\ \A s \in Slots : ~AsyncCapable(s) => job.asyncs[s] = 0
  BY CallAssumption DEF TypeOK, Jobs, WellFormed

LEMMA Distinct == Absent # Nil /\ Absent # Tree /\ Nil # Tree
  BY ValueAssumption

(* Of the tree: all slots are below the root, only composites have slots    *)
(* below them, and a way down leads through a kid.                         *)
LEMMA TreeIs ==
  /\ Under(Root) = Slots
  /\ \A s, m \in Slots : s \in Above[m] =>
       Composite(s) /\ \E c \in Kids(s) : c = m \/ c \in Above[m]
<1>1. Under(Root) = Slots
  BY TreeAssumption DEF Under
<1>2. ASSUME NEW s \in Slots, NEW m \in Slots, s \in Above[m]
      PROVE  Composite(s) /\ \E c \in Kids(s) : c = m \/ c \in Above[m]
  <2>1. m # Root
    BY <1>2, TreeAssumption
  <2>2. PICK c \in {m} \cup Above[m] : Parent[c] = s
    BY <1>2, <2>1, PathAssumption
  <2>3. c \in Slots /\ c # Root
    BY <2>2, TreeAssumption
  <2> QED
    BY <2>2, <2>3, SchemaAssumption DEF Kids
<1> QED
  BY <1>1, <1>2

LEMMA ReachedIs ==
  ASSUME NEW data \in [Slots -> Values], NEW m \in Slots
  PROVE  m \in Reached(Root, data) <=> data[m] # Absent /\ \A a \in Above[m] : data[a] = Tree
  BY TreeIs, TreeAssumption DEF Reached

(* A pass leaves composites alone, and slots where they are.               *)
LEMMA SyncOutShape ==
  ASSUME NEW s \in Slots, NEW data \in [Slots -> Values], NEW m \in Slots
  PROVE  /\ Composite(m) => SyncOut(s, data)[m] = data[m]
         /\ Kind[m] # "extra" => (SyncOut(s, data)[m] = Absent <=> data[m] = Absent)
<1>1. SyncOut(s, data)[m] = data[m] \/ Kind[m] = "extra"
        \/ (Kind[m] = "transform" /\ data[m] # Absent /\ SyncOut(s, data)[m] = Transformed(m, data[m]))
  BY DEF SyncOut, Reached
<1>2. data[m] # Absent => Transformed(m, data[m]) # Absent
  BY ValueAssumption DEF Transformed
<1> QED
  BY <1>1, <1>2 DEF Composite

---------------------------------------------------------------------------
(* Positions, one kind of step at a time.                                  *)
MovesOn(s, w) == Move(s, w) /\ (w \notin Early \/ (w = "gate" /\ pc[s] = "called"))
Ends == outcome' = outcome \/ (outcome' = "returned" /\ cur' \notin Slots)

LEMMA MovePositions ==
  ASSUME TypeOK, Positions, NEW s \in Slots, NEW w, MovesOn(s, w), job' = job, Ends,
         outcome = "running",
         \/ UNCHANGED own /\ (w = "kids" => pc[s] \in Early)
         \/ w = "own" /\ own' = [own EXCEPT ![s] = own[s] + 1] /\ own[s] < job.asyncs[s]
  PROVE  Positions'
<1>1. /\ pc'[s] = w /\ pc[s] # "idle" /\ cur = s /\ \A t \in Slots \ {s} : pc'[t] = pc[t]
      /\ cur' = s \/ (cur' = Parent[s] /\ w = "returned")
  BY DEF MovesOn, Move, TypeOK
<1>2. \A t \in Slots : own[t] \in Nat /\ job.asyncs[t] \in Nat
  BY JobType DEF TypeOK
<1>3. ASSUME NEW t \in Slots, Active(t)' PROVE cur' \in Slots /\ t \in {cur'} \cup Above[cur']
  <2>1. CASE cur' = s
    BY <1>1, <1>3, <2>1 DEF Positions, Active
  <2>2. CASE cur' = Parent[s] /\ w = "returned"
    <3>1. t # s /\ t \in Above[s]
      BY <1>1, <1>3, <2>2 DEF Positions, Active
    <3>2. s # Root
      BY <3>1, TreeAssumption
    <3> QED
      BY <2>2, <3>1, <3>2, TreeAssumption
  <2> QED
    BY <1>1, <2>1, <2>2
<1>4. outcome' = "returned" => cur' \notin Slots
  BY DEF Ends
<1>5. ASSUME NEW t \in Slots, NEW m \in Slots, pc'[t] \in Early, t \in Above[m] PROVE pc'[m] = "idle"
  <2>1. pc[t] \in Early
    BY <1>1, <1>5 DEF MovesOn, Early
  <2>2. pc[m] = "idle"
    BY <1>5, <2>1 DEF Positions
  <2> QED
    BY <1>1, <2>2
<1>6. ASSUME NEW t \in Slots
      PROVE  own'[t] <= job.asyncs[t] /\ (pc'[t] \in Early \cup {"kids"} => own'[t] = 0)
  <2>1. CASE t = s
    BY <1>1, <1>2, <2>1 DEF MovesOn, Early, Positions, TypeOK
  <2>2. CASE t # s
    BY <1>1, <1>2, <2>2 DEF Positions, TypeOK
  <2> QED
    BY <2>1, <2>2
<1> QED
  BY <1>3, <1>4, <1>5, <1>6 DEF Positions

LEMMA DescendPositions ==
  ASSUME TypeOK, StackInv, FreshInv, Positions, NEW s \in Slots, NEW c \in Kids(s), Descend(s, c)
  PROVE  Positions'
<1>1. /\ cur = s /\ pc[s] = "kids" /\ c \in todo[s] /\ UNCHANGED <<job, own, outcome>>
      /\ \/ UNCHANGED <<cur, pc>>
         \/ cur' = c /\ pc' = [pc EXCEPT ![c] = "called"]
      /\ outcome = "running"
  BY DEF Descend, At
<1>2. c \in Slots /\ c # s /\ Above[c] = {s} \cup Above[s] /\ c \notin Above[c] /\ pc[c] = "idle"
  BY <1>1, KidsBelow DEF FreshInv, Ahead
<1>3. CASE UNCHANGED <<cur, pc>>
  BY <1>1, <1>3 DEF Positions, Active
<1>4. CASE cur' = c /\ pc' = [pc EXCEPT ![c] = "called"]
  <2>1. pc'[c] = "called" /\ \A t \in Slots \ {c} : pc'[t] = pc[t]
    BY <1>2, <1>4 DEF TypeOK
  <2>2. \A t \in Slots : Active(t)' => cur' \in Slots /\ t \in {cur'} \cup Above[cur']
    BY <1>1, <1>2, <1>4, <2>1 DEF Positions, Active
  <2>3. ASSUME NEW t \in Slots, NEW m \in Slots, pc'[t] \in Early, t \in Above[m] PROVE pc'[m] = "idle"
    <3>1. pc[t] \in Early
      BY <1>2, <2>1, <2>3 DEF Early
    <3>2. m # c
      BY <1>1, <1>2, <2>1, <2>3, NotAboveItself DEF StackInv, Early
    <3> QED
      BY <2>1, <2>3, <3>1, <3>2 DEF Positions
  <2>4. \A t \in Slots : own'[t] <= job.asyncs[t] /\ (pc'[t] \in Early \cup {"kids"} => own'[t] = 0)
    BY <1>1, <1>2, <2>1 DEF Positions, Early
  <2> QED
    BY <1>1, <2>2, <2>3, <2>4 DEF Positions
<1> QED
  BY <1>1, <1>3, <1>4

LEMMA PositionsNext ==
  ASSUME OInv, Positions, [Next]_vars
  PROVE  Positions'
<1>1. TypeOK /\ FrameInv /\ StackInv /\ FreshInv /\ OInv'
  BY OrderNext DEF OInv, AInv
<1>2. ASSUME UNCHANGED <<job, cur, pc, own>>, outcome' # "returned" \/ outcome' = outcome
      PROVE  Positions'
  BY <1>2 DEF Positions, Active
<1>3. CASE UNCHANGED vars \/ Terminated \/ Cancel
  BY <1>2, <1>3 DEF vars, Terminated, Cancel
<1>4. ASSUME NEW s \in Slots, Leave(s) PROVE cur' = Parent[s] /\ (outcome = "running" => Ends)
  BY <1>4, TreeAssumption DEF Leave, Ends
<1>5. CASE SyncFallback
  <2>1. Root \in Slots /\ MovesOn(Root, "returned") /\ Ends
    BY <1>4, <1>5, TreeAssumption DEF SyncFallback, At, Leave, Move, MovesOn, Early
  <2> QED
    BY <1>1, <1>5, <2>1, MovePositions DEF SyncFallback, At
<1>6. ASSUME NEW s \in Slots, SyncPass(s) PROVE Positions'
  <2>1. /\ MovesOn(s, "returned") \/ MovesOn(s, "own") \/ MovesOn(s, "gate")
        /\ Ends /\ UNCHANGED <<job, own>> /\ outcome = "running"
    BY <1>4, <1>6 DEF SyncPass, At, Leave, Goto, Move, MovesOn, Early, Ends
  <2> QED
    BY <1>1, <2>1, MovePositions
<1>7. ASSUME NEW s \in Slots, OpenGate(s) PROVE Positions'
  <2>1. /\ MovesOn(s, "kids") /\ pc[s] \in Early /\ Ends
        /\ UNCHANGED <<job, own>> /\ outcome = "running"
    BY <1>7 DEF OpenGate, At, Goto, Move, MovesOn, Early, Ends
  <2> QED
    BY <1>1, <2>1, MovePositions
<1>8. ASSUME NEW s \in Slots, Panic(s) PROVE Positions'
  BY <1>2, <1>8 DEF Panic
<1>9. ASSUME NEW s \in Slots, KidsDone(s) \/ Clear(s) \/ Ask(s) PROVE Positions'
  <2>1. /\ MovesOn(s, "own") \/ MovesOn(s, "cleared") \/ MovesOn(s, "awaiting")
        /\ Ends /\ UNCHANGED <<job, own>> /\ outcome = "running"
    BY <1>9 DEF KidsDone, Clear, Ask, At, Goto, Move, MovesOn, Early, Ends
  <2> QED
    BY <1>1, <2>1, MovePositions
<1>10. ASSUME NEW s \in Slots, Answer(s) PROVE Positions'
  <2>1. /\ MovesOn(s, "own") /\ Ends /\ UNCHANGED job /\ outcome = "running"
        /\ own' = [own EXCEPT ![s] = own[s] + 1] /\ own[s] < job.asyncs[s]
    BY <1>1, <1>10 DEF Answer, Advance, At, Goto, Move, MovesOn, Early, Ends, FrameInv
  <2> QED
    BY <1>1, <2>1, MovePositions
<1>11. ASSUME NEW s \in Slots, Finish(s) \/ GiveUp(s) PROVE Positions'
  <2>1. MovesOn(s, "returned") /\ Ends /\ UNCHANGED <<job, own>> /\ outcome = "running"
    BY <1>4, <1>11 DEF Finish, GiveUp, At, Leave, Move, MovesOn, Early
  <2> QED
    BY <1>1, <2>1, MovePositions
<1>12. ASSUME NEW s \in Slots, NEW c \in Kids(s), Descend(s, c) PROVE Positions'
  BY <1>1, <1>12, DescendPositions
<1> QED
  BY <1>3, <1>5, <1>6, <1>7, <1>8, <1>9, <1>10, <1>11, <1>12 DEF Next, Step

---------------------------------------------------------------------------
(* The visits: what a frame is given has the shape of the input.           *)
LEMMA ArgShape ==
  ASSUME TypeOK, StackInv, Visits, NEW s \in Slots, cur = s
  PROVE  Shape(Arg(s))
<1>1. CASE s = Root
  BY <1>1 DEF Arg, Shape
<1>2. CASE s # Root
  <2>1. Parent[s] \in Slots /\ pc[Parent[s]] = "kids"
    BY <1>2, TreeAssumption DEF StackInv
  <2> QED
    BY <1>2, <2>1 DEF Arg, Visits
<1> QED
  BY <1>1, <1>2

LEMMA MoveVisits ==
  ASSUME TypeOK, Visits, NEW s \in Slots, NEW w, Move(s, w), job' = job,
         \A t \in Slots \ {s} : todo'[t] = todo[t] /\ val'[t] = val[t],
         pc[s] # "called" => val'[s] = val[s],
         pc[s] = "called" => Shape(val[s])' /\ (w # "returned" => ~Silent(s)),
         w = "kids" => todo'[s] \subseteq Reached(Root, job.input)
  PROVE  Visits'
<1>1. pc'[s] = w /\ pc[s] \notin {"idle", "returned"} /\ \A t \in Slots \ {s} : pc'[t] = pc[t]
  BY DEF Move, TypeOK
<1>2. \A t \in Slots : val'[t] = val[t] => (Shape(val[t])' <=> Shape(val[t]))
  BY DEF Shape
<1>3. \A t \in Slots : Silent(t)' <=> Silent(t)
  BY DEF Silent
<1> SUFFICES ASSUME NEW t \in Slots
             PROVE  /\ pc'[t] \notin {"idle", "called"} => Shape(val[t])'
                    /\ pc'[t] # "idle" => t \in Reached(Root, job.input)
                    /\ pc'[t] \notin {"idle", "called", "returned"} => ~Silent(t)
                    /\ pc'[t] = "kids" => todo'[t] \subseteq Reached(Root, job.input)
  BY <1>3 DEF Visits
<1>4. CASE t = s
  BY <1>1, <1>2, <1>4 DEF Visits
<1>5. CASE t # s
  BY <1>1, <1>2, <1>5 DEF Visits
<1> QED
  BY <1>4, <1>5

LEMMA SyncPassVisits ==
  ASSUME TypeOK, StackInv, Visits, NEW s \in Slots, NEW w, Move(s, w), pc[s] = "called",
         job' = job, todo' = todo, val' = [val EXCEPT ![s] = SyncOut(s, Arg(s))],
         w = "returned" \/ (w # "kids" /\ ~NilObject(s))
  PROVE  Visits'
<1>1. Arg(s) \in [Slots -> Values] /\ Shape(Arg(s))
  BY ArgType, ArgShape DEF Move
<1>2. val'[s] = SyncOut(s, Arg(s)) /\ \A t \in Slots \ {s} : val'[t] = val[t]
  BY DEF TypeOK
<1>3. Shape(val[s])'
  BY <1>1, <1>2, SyncOutShape DEF Shape
<1>4. ~NilObject(s) => ~Silent(s)
  BY <1>1 DEF NilObject, Silent, Shape, Composite
<1> QED
  BY <1>2, <1>3, <1>4, MoveVisits

LEMMA LoopReached ==
  ASSUME TypeOK, Visits, NEW s \in Slots, pc[s] = "gate"
  PROVE  LoopRange(s) \subseteq Reached(Root, job.input)
<1> SUFFICES ASSUME NEW c \in LoopRange(s) PROVE c \in Reached(Root, job.input)
  OBVIOUS
<1>1. c \in Kids(s) /\ c \in Slots /\ Above[c] = {s} \cup Above[s] /\ job.input[c] # Absent
  BY KidsBelow DEF LoopRange, Visits, Shape
<1>2. job.input[s] = Tree
  BY <1>1, JobType DEF WellFormed
<1> QED
  BY <1>1, <1>2, JobType, ReachedIs DEF Visits

LEMMA VisitsNext ==
  ASSUME OInv, Visits, [Next]_vars
  PROVE  Visits'
<1>1. TypeOK /\ StackInv /\ FreshInv
  BY DEF OInv, AInv
<1>2. ASSUME UNCHANGED <<job, pc, val, todo>> PROVE Visits'
  BY <1>2 DEF Visits, Shape, Silent
<1>3. CASE UNCHANGED vars \/ Terminated \/ Cancel
  BY <1>2, <1>3 DEF vars, Terminated, Cancel
<1>4. CASE SyncFallback
  <2>1. /\ Root \in Slots /\ Move(Root, "returned") /\ pc[Root] = "called" /\ UNCHANGED <<job, todo>>
        /\ val' = [val EXCEPT ![Root] = SyncOut(Root, Arg(Root))]
    BY <1>4, TreeAssumption DEF SyncFallback, At, Leave, Move, Arg
  <2> QED
    BY <1>1, <2>1, SyncPassVisits
<1>5. ASSUME NEW s \in Slots, SyncPass(s) PROVE Visits'
  <2>1. /\ pc[s] = "called" /\ UNCHANGED <<job, todo>>
        /\ val' = [val EXCEPT ![s] = SyncOut(s, Arg(s))]
        /\ \/ Move(s, "returned")
           \/ ~NilObject(s) /\ (Move(s, "own") \/ Move(s, "gate"))
    BY <1>5 DEF SyncPass, Stops, At, Leave, Goto, Move
  <2> QED
    BY <1>1, <2>1, SyncPassVisits
<1>6. ASSUME NEW s \in Slots, OpenGate(s) PROVE Visits'
  <2>1. /\ Move(s, "kids") /\ pc[s] = "gate" /\ UNCHANGED <<job, val>>
        /\ todo'[s] = LoopRange(s) /\ \A t \in Slots \ {s} : todo'[t] = todo[t]
    BY <1>1, <1>6 DEF OpenGate, At, Goto, Move, TypeOK
  <2> QED
    BY <1>1, <2>1, LoopReached, MoveVisits
<1>7. ASSUME NEW s \in Slots, Panic(s) PROVE Visits'
  BY <1>2, <1>7 DEF Panic
<1>8. ASSUME NEW s \in Slots, KidsDone(s) \/ Clear(s) \/ Ask(s) \/ Answer(s) \/ Finish(s) \/ GiveUp(s)
      PROVE  Visits'
  <2>1. /\ pc[s] # "called" /\ UNCHANGED <<job, val, todo>>
        /\ \E w \in {"own", "cleared", "awaiting", "returned"} : Move(s, w)
    BY <1>8 DEF KidsDone, Clear, Ask, Answer, Finish, GiveUp, At, Goto, Leave, Move
  <2> QED
    BY <1>1, <2>1, MoveVisits
<1>9. ASSUME NEW s \in Slots, NEW c \in Kids(s), Descend(s, c) PROVE Visits'
  <2>1. /\ pc[s] = "kids" /\ c \in todo[s] /\ todo' = [todo EXCEPT ![s] = todo[s] \ {c}]
        /\ UNCHANGED <<job, val>> /\ (UNCHANGED pc \/ pc' = [pc EXCEPT ![c] = "called"])
    BY <1>9 DEF Descend, At
  <2>2. c \in Slots /\ pc[c] = "idle" /\ c \in Reached(Root, job.input)
    BY <1>1, <2>1, KidsBelow DEF FreshInv, Ahead, Visits
  <2>3. \A t \in Slots : todo'[t] \subseteq todo[t] /\ (pc'[t] = pc[t] \/ (t = c /\ pc'[t] = "called"))
    BY <1>1, <2>1, <2>2 DEF TypeOK
  <2>4. \A t \in Slots : (Shape(val[t])' <=> Shape(val[t])) /\ (Silent(t)' <=> Silent(t))
    BY <2>1 DEF Shape, Silent
  <2> QED
    BY <2>1, <2>2, <2>3, <2>4 DEF Visits
<1> QED
  BY <1>3, <1>4, <1>5, <1>6, <1>7, <1>8, <1>9 DEF Next, Step

---------------------------------------------------------------------------
(* What is still to come.                                                  *)
LEMMA NeedIs ==
  ASSUME TypeOK, NEW m \in Slots
  PROVE  /\ ~AsyncCapable(m) => Need(m) = 0
         /\ Silent(m) => Need(m) = 0
         /\ \A a \in Above[m] : job.input[a] # Tree => Need(m) = 0
         /\ job.input[m] = Absent => Need(m) = 0
  BY JobType, ReachedIs DEF Need

LEMMA PendingKept ==
  ASSUME TypeOK, NEW s \in Slots, NEW w, Move(s, w), NEW m \in Slots \ {s}, Pending(m),
         \A t \in Slots \ {s} : todo'[t] = todo[t],
         pc[m] = "idle" /\ s \in Above[m] /\ Waits(m, s) => Waits(m, s)'
  PROVE  Pending(m)'
<1>1. \A t \in Slots \ {s} : pc'[t] = pc[t]
  BY DEF Move, TypeOK
<1>2. CASE Active(m)
  BY <1>1, <1>2 DEF Active, Pending
<1>3. CASE ~Active(m)
  <2>1. PICK a \in Above[m] : Waits(m, a)
    BY <1>3 DEF Pending
  <2>2. pc'[m] = "idle"
    BY <1>1, <1>3 DEF Pending
  <2>3. CASE a = s
    BY <1>3, <2>1, <2>2, <2>3 DEF Pending
  <2>4. CASE a # s
    <3>1. a \in Slots
      BY NotAboveItself
    <3>2. Waits(m, a)'
      BY <1>1, <2>1, <2>4, <3>1 DEF Waits
    <3> QED
      BY <2>2, <3>2 DEF Pending
  <2> QED
    BY <2>3, <2>4
<1> QED
  BY <1>2, <1>3

(* A frame that moves on keeps the count, when it leaves nothing behind.    *)
LEMMA MovePending ==
  ASSUME TypeOK, Complete, NEW s \in Slots, NEW w, Move(s, w), w # "idle", job' = job,
         errors' = {} => errors = {},
         \A t \in Slots \ {s} : todo'[t] = todo[t] /\ own'[t] = own[t],
         \A m \in Slots : pc[m] = "idle" /\ s \in Above[m] /\ Waits(m, s) /\ errors' = {}
           => Waits(m, s)' \/ own[m] = Need(m),
         w = "returned" /\ errors' = {} => own'[s] = Need(s)
  PROVE  ~job'.compiled /\ errors' = {} => \A m \in Slots : own'[m] = Need(m)' \/ Pending(m)'
<1> SUFFICES ASSUME ~job.compiled, errors' = {}, NEW m \in Slots
             PROVE  own'[m] = Need(m) \/ Pending(m)'
  BY DEF Need, Silent
<1>1. own[m] = Need(m) \/ Pending(m)
  BY DEF Complete
<1>2. CASE m = s
  BY <1>2 DEF Move, TypeOK, Pending, Active
<1>3. CASE m # s
  <2>1. CASE own[m] = Need(m)
    BY <1>3, <2>1
  <2>2. CASE Pending(m) /\ own[m] # Need(m)
    BY <1>3, <2>2, PendingKept
  <2> QED
    BY <1>1, <2>1, <2>2
<1> QED
  BY <1>2, <1>3

LEMMA SyncPassPending ==
  ASSUME OInv, Positions, Visits, Complete, NEW s \in Slots, SyncPass(s)
  PROVE  ~job'.compiled /\ errors' = {} => \A m \in Slots : own'[m] = Need(m)' \/ Pending(m)'
<1>1. TypeOK /\ StackInv
  BY DEF OInv, AInv
<1>2. /\ pc[s] = "called" /\ cur = s /\ UNCHANGED <<job, todo, own>> /\ errors \subseteq errors'
      /\ \/ Move(s, "returned") /\ (errors' = {} => NilObject(s))
         \/ Move(s, "own") /\ Kind[s] = "transform"
         \/ Move(s, "gate")
  BY DEF SyncPass, Stops, At, Leave, Goto, Move
<1>3. own[s] = 0 /\ \A m \in Slots : s \in Above[m] => own[m] = 0
  BY <1>2 DEF Positions, Early
<1>4. CASE Move(s, "returned") /\ (errors' = {} => NilObject(s))
  <2>1. ASSUME errors' = {} PROVE Silent(s) /\ job.input[s] # Tree
    <3>1. Kind[s] = "object" /\ Arg(s)[s] = Nil /\ Shape(Arg(s))
      BY <1>1, <1>2, <1>4, <2>1, ArgShape DEF NilObject, Move
    <3> QED
      BY <3>1, Distinct DEF Silent, Shape, Composite
  <2>2. \A m \in Slots : errors' = {} /\ (m = s \/ s \in Above[m]) => own[m] = Need(m)
    BY <1>1, <1>3, <2>1, NeedIs
  <2> QED
    BY <1>1, <1>2, <1>4, <2>2, MovePending
<1>5. CASE Move(s, "own") /\ Kind[s] = "transform"
  <2>1. \A m \in Slots : s \notin Above[m]
    BY <1>5, TreeIs DEF Composite
  <2> QED
    BY <1>1, <1>2, <1>5, <2>1, MovePending
<1>6. CASE Move(s, "gate")
  <2>1. \A m \in Slots : Waits(m, s)'
    BY <1>1, <1>6 DEF Move, TypeOK, Waits
  <2> QED
    BY <1>1, <1>2, <1>6, <2>1, MovePending
<1> QED
  BY <1>2, <1>4, <1>5, <1>6

LEMMA OpenGatePending ==
  ASSUME OInv, Positions, Visits, Complete, NEW s \in Slots, OpenGate(s)
  PROVE  ~job'.compiled /\ errors' = {} => \A m \in Slots : own'[m] = Need(m)' \/ Pending(m)'
<1>1. TypeOK /\ StackInv
  BY DEF OInv, AInv
<1>2. /\ pc[s] = "gate" /\ UNCHANGED <<job, own, errors>> /\ Move(s, "kids")
      /\ pc'[s] = "kids" /\ todo'[s] = LoopRange(s) /\ \A t \in Slots \ {s} : todo'[t] = todo[t]
  BY <1>1 DEF OpenGate, At, Goto, Move, TypeOK
<1>3. ASSUME NEW m \in Slots, s \in Above[m] PROVE Waits(m, s)' \/ own[m] = Need(m)
  <2>1. PICK c \in Kids(s) : c = m \/ c \in Above[m]
    BY <1>3, TreeIs
  <2>2. c \in Slots /\ own[m] = 0 /\ (~Composite(c) => c = m)
    BY <1>2, <1>3, <2>1, KidsBelow, TreeIs DEF Positions, Early
  <2>3. CASE c \in LoopRange(s)
    BY <1>2, <2>1, <2>3 DEF Waits
  <2>4. CASE ~AsyncCapable(c)
    BY <1>1, <2>2, <2>4, NeedIs DEF AsyncCapable, Composite
  <2>5. CASE AsyncCapable(c) /\ c \notin LoopRange(s)
    <3>1. job.input[c] = Absent
      BY <1>2, <2>2, <2>5 DEF LoopRange, AsyncCapable, Visits, Shape
    <3> QED
      BY <1>1, <2>1, <2>2, <3>1, NeedIs, Distinct
  <2> QED
    BY <2>3, <2>4, <2>5
<1>4. \A m \in Slots : s \in Above[m] => Waits(m, s)' \/ own[m] = Need(m)
  BY <1>3
<1> QED
  BY <1>1, <1>2, <1>4, MovePending

LEMMA DescendPending ==
  ASSUME OInv, Positions, Visits, Complete, NEW s \in Slots, NEW c \in Kids(s), Descend(s, c)
  PROVE  ~job'.compiled /\ errors' = {} => \A m \in Slots : own'[m] = Need(m)' \/ Pending(m)'
<1>1. TypeOK /\ StackInv /\ FreshInv
  BY DEF OInv, AInv
<1>2. /\ pc[s] = "kids" /\ c \in todo[s] /\ todo' = [todo EXCEPT ![s] = todo[s] \ {c}]
      /\ UNCHANGED <<job, own, errors>>
      /\ IF AsyncCapable(c) THEN pc' = [pc EXCEPT ![c] = "called"] ELSE UNCHANGED pc
  BY DEF Descend, At
<1>3. c \in Slots /\ c # s /\ pc[c] = "idle"
  BY <1>1, <1>2, KidsBelow DEF FreshInv, Ahead
<1>4. /\ \A t \in Slots \ {c} : pc'[t] = pc[t]
      /\ todo'[s] = todo[s] \ {c} /\ \A t \in Slots \ {s} : todo'[t] = todo[t]
      /\ pc'[c] = IF AsyncCapable(c) THEN "called" ELSE "idle"
  BY <1>1, <1>2, <1>3 DEF TypeOK
<1> SUFFICES ASSUME ~job.compiled, errors = {}, NEW m \in Slots
             PROVE  own[m] = Need(m) \/ Pending(m)'
  BY <1>2 DEF Need, Silent
<1>5. own[m] = Need(m) \/ Pending(m)
  BY DEF Complete
<1>6. CASE m = c
  <2>1. CASE AsyncCapable(c)
    BY <1>4, <1>6, <2>1 DEF Pending, Active
  <2>2. CASE ~AsyncCapable(c)
    <3>1. own[c] = 0
      BY <1>3 DEF Positions, Early
    <3>2. Need(c) = 0
      BY <1>1, <1>3, <2>2, NeedIs
    <3> QED
      BY <1>6, <3>1, <3>2
  <2> QED
    BY <2>1, <2>2
<1>7. CASE m # c /\ Active(m)
  BY <1>4, <1>7 DEF Pending, Active
<1>8. CASE m # c /\ ~Active(m) /\ Pending(m)
  <2>1. PICK a \in Above[m] : Waits(m, a)
    BY <1>8 DEF Pending
  <2>2. a \in Slots /\ a # c /\ pc'[a] = pc[a] /\ pc'[m] = "idle"
    BY <1>3, <1>4, <1>8, <2>1, NotAboveItself DEF Pending, Waits
  <2>3. CASE Waits(m, a)'
    BY <2>1, <2>2, <2>3 DEF Pending
  <2>4. CASE ~Waits(m, a)'
    <3>1. a = s /\ c \in Above[m]
      BY <1>4, <1>8, <2>1, <2>2, <2>4 DEF Waits
    <3>2. pc'[c] = "called"
      BY <1>3, <1>4, <3>1, TreeIs DEF AsyncCapable, Composite
    <3> QED
      BY <2>2, <3>1, <3>2 DEF Pending, Waits
  <2> QED
    BY <2>3, <2>4
<1> QED
  BY <1>5, <1>6, <1>7, <1>8

---------------------------------------------------------------------------
(* The sync fallback of a schema without async validators leaves nothing.   *)
LEMMA FallbackComplete ==
  ASSUME OInv, Positions, SyncFallback
  PROVE  Complete'
<1>1. TypeOK
  BY DEF OInv, AInv
<1>2. /\ pc[Root] = "called" /\ UNCHANGED <<job, own>> /\ Root \in Slots
      /\ errors' = SyncErrs(Root, job.input) /\ (job.compiled \/ ~HasAsyncValidators)
  BY TreeAssumption DEF SyncFallback, At
<1>3. \A m \in Slots : own[m] = 0
  <2>1. \A m \in Slots : m = Root \/ Root \in Above[m]
    BY TreeAssumption
  <2> QED
    BY <1>2, <2>1 DEF Positions, Early
<1>4. ~job.compiled => \A m \in Slots : Need(m)' = 0
  BY <1>1, <1>2, JobType DEF Need, Silent, HasAsyncValidators
<1>5. \A v \in job.refusing : ~(v[2] <= own[v[1]])
  BY <1>1, <1>3, JobType DEF Validators
<1>6. errors' = {} => SyncClean'
  BY <1>2 DEF SyncClean
<1> QED
  BY <1>2, <1>3, <1>4, <1>5, <1>6 DEF Complete

LEMMA CompleteNext ==
  ASSUME OInv, Positions, Visits, Complete, [Next]_vars
  PROVE  Complete'
<1>1. TypeOK /\ FrameInv /\ StackInv
  BY DEF OInv, AInv
<1>2. ASSUME ~job'.compiled /\ errors' = {} => \A m \in Slots : own'[m] = Need(m)' \/ Pending(m)',
             job' = job, errors \subseteq errors', own' = own,
             errors' = {} /\ pc[Root] = "called" /\ pc'[Root] # "called" => SyncClean
      PROVE  Complete'
  <2>1. SyncClean' <=> SyncClean
    BY <1>2 DEF SyncClean
  <2>2. \A v \in job.refusing : v[2] <= own[v[1]] => errors' # {}
    BY <1>2 DEF Complete
  <2>3. errors' = {} /\ pc'[Root] # "called" => SyncClean
    BY <1>2 DEF Complete
  <2> QED
    BY <1>2, <2>1, <2>2, <2>3 DEF Complete
<1>3. ASSUME UNCHANGED <<job, pc, own, todo, errors>> PROVE Complete'
  <2>1. \A m \in Slots : (Pending(m)' <=> Pending(m)) /\ Need(m)' = Need(m)
    BY <1>3 DEF Pending, Active, Waits, Need, Silent
  <2> QED
    BY <1>2, <1>3, <2>1 DEF Complete
<1>4. CASE UNCHANGED vars \/ Terminated \/ Cancel
  BY <1>3, <1>4 DEF vars, Terminated, Cancel
<1>5. CASE SyncFallback
  BY <1>5, FallbackComplete
<1>6. ASSUME NEW s \in Slots, SyncPass(s) PROVE Complete'
  <2>1. /\ job' = job /\ own' = own /\ errors' = errors \cup SyncErrs(s, Arg(s))
        /\ pc[s] = "called" /\ (pc' = [pc EXCEPT ![s] = "returned"] \/ pc' = [pc EXCEPT ![s] = "own"]
                                 \/ pc' = [pc EXCEPT ![s] = "gate"])
    BY <1>6 DEF SyncPass, At, Leave, Goto
  <2>2. errors' = {} /\ pc[Root] = "called" /\ pc'[Root] # "called" => SyncClean
    <3>1. pc[Root] = "called" /\ pc'[Root] # "called" => s = Root
      BY <1>1, <2>1, TreeAssumption DEF TypeOK
    <3> QED
      BY <2>1, <3>1 DEF SyncClean, Arg
  <2> QED
    BY <1>2, <1>6, <2>1, <2>2, SyncPassPending
<1>7. ASSUME NEW s \in Slots, OpenGate(s) PROVE Complete'
  <2>1. /\ UNCHANGED <<job, own, errors>> /\ pc[s] = "gate" /\ pc' = [pc EXCEPT ![s] = "kids"]
    BY <1>7 DEF OpenGate, At, Goto
  <2>2. ~(pc[Root] = "called" /\ pc'[Root] # "called")
    BY <1>1, <2>1, TreeAssumption DEF TypeOK
  <2> QED
    BY <1>2, <1>7, <2>1, <2>2, OpenGatePending
<1>8. ASSUME NEW s \in Slots, Panic(s) PROVE Complete'
  BY <1>3, <1>8 DEF Panic
<1>9. ASSUME NEW s \in Slots, NEW c \in Kids(s), Descend(s, c) PROVE Complete'
  <2>1. UNCHANGED <<job, own, errors>> /\ (UNCHANGED pc \/ pc' = [pc EXCEPT ![c] = "called"])
    BY <1>9 DEF Descend
  <2>2. pc'[Root] = pc[Root]
    BY <1>1, <2>1, TreeAssumption DEF TypeOK, Kids
  <2> QED
    BY <1>2, <1>9, <2>1, <2>2, DescendPending
<1>10. ASSUME NEW s \in Slots, NEW w, Move(s, w), w \in {"own", "cleared", "awaiting", "returned"},
              UNCHANGED <<job, todo, own>>, errors \subseteq errors', pc[s] # "called",
              \A m \in Slots : ~Waits(m, s) \/ errors' # {},
              w = "returned" /\ errors' = {} => own[s] = Need(s)
       PROVE  Complete'
  <2>1. ~(pc[Root] = "called" /\ pc'[Root] # "called")
    BY <1>1, <1>10, TreeAssumption DEF TypeOK, Move
  <2>2. ~job'.compiled /\ errors' = {} => \A m \in Slots : own'[m] = Need(m)' \/ Pending(m)'
    BY <1>1, <1>10, MovePending
  <2> QED
    BY <1>2, <1>10, <2>1, <2>2
<1>11. ASSUME NEW s \in Slots, KidsDone(s) \/ Clear(s) \/ Ask(s) PROVE Complete'
  <2>1. /\ UNCHANGED <<job, todo, own, errors>> /\ pc[s] # "called"
        /\ Move(s, "own") \/ Move(s, "cleared") \/ Move(s, "awaiting")
        /\ \A m \in Slots : ~Waits(m, s)
    BY <1>11 DEF KidsDone, Clear, Ask, At, Goto, Move, Waits
  <2> QED
    BY <1>10, <2>1
<1>12. ASSUME NEW s \in Slots, Finish(s) PROVE Complete'
  <2>1. /\ UNCHANGED <<job, todo, own, errors>> /\ pc[s] = "own" /\ Move(s, "returned")
        /\ own[s] = job.asyncs[s] /\ \A m \in Slots : ~Waits(m, s)
    BY <1>12 DEF Finish, At, Leave, Move, Waits
  <2>2. Need(s) = job.asyncs[s]
    BY <2>1 DEF Need, Visits
  <2> QED
    BY <1>10, <2>1, <2>2
<1>13. ASSUME NEW s \in Slots, GiveUp(s) PROVE Complete'
  <2>1. /\ UNCHANGED <<job, todo, own>> /\ pc[s] # "called" /\ Move(s, "returned")
        /\ errors \subseteq errors' /\ errors' # {}
    BY <1>13 DEF GiveUp, ReportCancelled, At, Leave, Move
  <2> QED
    BY <1>10, <2>1
<1>14. ASSUME NEW s \in Slots, Answer(s) PROVE Complete'
  <2>1. /\ UNCHANGED <<job, todo>> /\ pc[s] = "awaiting" /\ Move(s, "own")
        /\ own' = [own EXCEPT ![s] = own[s] + 1] /\ errors \subseteq errors'
        /\ errors' = {} => <<s, own[s] + 1>> \notin job.refusing
        /\ \A m \in Slots : ~Waits(m, s)
    BY <1>14 DEF Answer, Advance, At, Goto, Move, Waits
  <2>2. \A t \in Slots : own[t] \in Nat /\ own'[t] = IF t = s THEN own[s] + 1 ELSE own[t]
    BY <1>1, <2>1, JobType DEF TypeOK
  <2>3. ~job'.compiled /\ errors' = {} => \A m \in Slots : own'[m] = Need(m)' \/ Pending(m)'
    BY <1>1, <2>1, <2>2, MovePending
  <2>4. ASSUME NEW v \in job.refusing, v[2] <= own'[v[1]] PROVE errors' # {}
    <3>1. v[1] \in Slots /\ v[2] \in Nat /\ v = <<v[1], v[2]>>
      BY <1>1, JobType DEF Validators
    <3>2. CASE v[2] <= own[v[1]]
      BY <2>1, <3>2 DEF Complete
    <3>3. CASE ~(v[2] <= own[v[1]])
      <4>1. v[1] = s /\ v[2] = own[s] + 1
        BY <2>2, <2>4, <3>1, <3>3
      <4> QED
        BY <2>1, <3>1, <4>1
    <3> QED
      BY <3>2, <3>3
  <2>5. errors' = {} /\ pc'[Root] # "called" => SyncClean'
    <3>1. pc[Root] = "called" => pc'[Root] = "called"
      BY <1>1, <2>1, TreeAssumption DEF TypeOK, Move
    <3> QED
      BY <2>1, <3>1 DEF Complete, SyncClean
  <2> QED
    BY <2>1, <2>3, <2>4, <2>5 DEF Complete
<1> QED
  BY <1>4, <1>5, <1>6, <1>7, <1>8, <1>9, <1>11, <1>12, <1>13, <1>14 DEF Next, Step

LEMMA CompleteInit == Init => KInv
<1> SUFFICES ASSUME Init PROVE KInv
  OBVIOUS
<1>1. OInv /\ TypeOK
  BY OrderInit DEF OInv, AInv
<1>2. /\ cur = Root /\ Root \in Slots /\ errors = {} /\ pc[Root] = "called" /\ outcome = "running"
      /\ \A s \in Slots \ {Root} : pc[s] = "idle" /\ Root \in Above[s]
      /\ \A s \in Slots : own[s] = 0 /\ job.asyncs[s] \in Nat
  BY <1>1, TreeAssumption, JobType DEF Init
<1>3. Positions
  BY <1>2, NotAboveItself, TreeAssumption DEF Positions, Active, Early
<1>4. Visits
  <2>1. Root \in Reached(Root, job.input)
    BY <1>1, <1>2, JobType, ReachedIs, TreeAssumption DEF WellFormed
  <2> QED
    BY <1>2, <2>1 DEF Visits
<1>5. Complete
  <2>1. \A m \in Slots : Pending(m)
    BY <1>2 DEF Pending, Active, Waits
  <2>2. \A v \in job.refusing : ~(v[2] <= own[v[1]])
    BY <1>1, <1>2, JobType DEF Validators
  <2> QED
    BY <1>2, <2>1, <2>2 DEF Complete
<1> QED
  BY <1>1, <1>3, <1>4, <1>5 DEF KInv

LEMMA KNext == KInv /\ [Next]_vars => KInv'
  BY OrderNext, PositionsNext, VisitsNext, CompleteNext DEF KInv

(* When no frame has anything left to ask, all validators have answered.    *)
LEMMA NothingPending ==
  ASSUME KInv, errors = {}, ~job.compiled,
         \A s \in Slots : Active(s) => pc[s] = "own" /\ own[s] = job.asyncs[s]
  PROVE  Answered = Due
<1>1. TypeOK
  BY DEF KInv, OInv, AInv
<1>2. ASSUME NEW m \in Slots PROVE own[m] = Need(m)
  <2>1. CASE Active(m)
    BY <2>1 DEF KInv, Visits, Need, Active
  <2>2. CASE ~Active(m)
    <3>1. \A a \in Above[m] : ~Waits(m, a)
      BY NotAboveItself DEF Waits, Active
    <3> QED
      BY <2>2, <3>1 DEF KInv, Complete, Pending
  <2> QED
    BY <2>1, <2>2
<1>3. ASSUME NEW v \in Validators
      PROVE  v[2] <= own[v[1]] <=>
               v[1] \in Reached(Root, job.input) /\ ~Silent(v[1]) /\ v[2] <= job.asyncs[v[1]]
  <2>1. v[1] \in Slots /\ v[2] \in Nat \ {0}
    BY DEF Validators
  <2> QED
    BY <1>2, <2>1 DEF Need
<1> QED
  BY <1>3 DEF Answered, Due

(* Success is never silent: for every schema tree and every moment of the   *)
(* cancellation, a call without an error has asked all validators the data  *)
(* calls for, and each of them has accepted.                               *)
THEOREM NothingSkipped == Spec => []NoSilentSkip
<1>1. KInv => NoSilentSkip
  <2> SUFFICES ASSUME KInv, outcome = "returned", errors = {}, ~job.compiled
               PROVE  SyncClean /\ Answered = Due /\ Due \cap job.refusing = {}
    BY DEF NoSilentSkip
  <2>1. Answered = Due
    BY NothingPending DEF KInv, Positions
  <2>2. Answered \cap job.refusing = {}
    BY DEF KInv, Complete, Answered
  <2>3. SyncClean
    BY TreeAssumption DEF KInv, Complete, Positions, Active
  <2> QED
    BY <2>1, <2>2, <2>3
<1> QED
  BY <1>1, CompleteInit, KNext, PTL DEF Spec

---------------------------------------------------------------------------
(* When a second pass over the result changes nothing and finds nothing, so *)
(* does the pass of every frame below the root.                            *)
LEMMA SecondPass ==
  ASSUME NEW data \in [Slots -> Values], Stable(data), NEW s \in Slots, s \in Reached(Root, data),
         NEW out, out = SyncOut(Root, data)
  PROVE  SyncOut(s, out) = out /\ SyncErrs(s, out) = {}
<1>1. out \in [Slots -> Values] /\ SyncErrs(Root, out) = {} /\ SyncOut(Root, out) = out
  BY TreeAssumption, SyncOutType DEF Stable
<1>2. Reached(s, out) \subseteq Reached(Root, out)
  <2> SUFFICES ASSUME NEW m \in Reached(s, out), NEW a \in Above[m] PROVE out[a] = Tree
    BY <1>1, ReachedIs DEF Reached, Under
  <2>1. m \in Slots /\ a \in Slots /\ (m = s \/ s \in Above[m])
    BY NotAboveItself DEF Reached, Under
  <2>2. a \in Under(s) \/ a \in Above[s]
    BY <2>1, PathAssumption DEF Under
  <2>3. a \in Above[s] => out[a] = Tree
    <3>1. a \in Above[s] => Composite(a) /\ data[a] = Tree
      BY <2>1, ReachedIs, TreeIs
    <3> QED
      BY <2>1, <3>1, SyncOutShape, TreeAssumption
  <2> QED
    BY <2>2, <2>3 DEF Reached
<1>3. ASSUME NEW m \in Reached(s, out)
      PROVE  /\ Kind[m] = "transform" => Transformed(m, out[m]) = out[m]
             /\ Kind[m] = "extra" /\ Parent[m] \in Closed => FALSE
  <2>1. m \in Slots /\ m \in Reached(Root, out) /\ SyncOut(Root, out)[m] = out[m] /\ out[m] # Absent
    BY <1>1, <1>2, <1>3 DEF Reached, Under
  <2>2. Kind[m] = "extra" => m # Root
    BY <2>1, SchemaAssumption
  <2> QED
    BY <2>1, <2>2 DEF SyncOut
<1>4. SyncOut(s, out) = out
  BY <1>1, <1>3 DEF SyncOut
<1>5. SyncErrs(s, out) \subseteq SyncErrs(Root, out)
  <2>1. \A m \in Reached(s, out) : ExtraError(m, s) => FALSE
    BY <1>3 DEF ExtraError
  <2>2. \A c \in Under(s) : MissingError(c, s, out) => MissingError(c, Root, out) /\ c \in Under(Root)
    BY <1>2, TreeIs, TreeAssumption DEF MissingError, Under
  <2> QED
    BY <1>1, <1>2, <1>4, <2>1, <2>2 DEF SyncErrs
<1> QED
  BY <1>1, <1>4, <1>5

(* So all frames have one result, all validators are asked about it, and    *)
(* only a refusal puts an error on the context of clean data.              *)
Result == SyncOut(Root, job.input)
Settled ==
  /\ Stable(job.input) =>
       /\ \A s \in Slots : pc[s] \notin {"idle", "called"} => val[s] = Result
       /\ \A i \in DOMAIN asked : asked[i].value = Result
  /\ job.compiled => pc[Root] \in {"called", "returned"}
  /\ Stable(job.input) /\ SyncClean /\ ~cancelled /\ errors # {} =>
       ~job.compiled /\ Due \cap job.refusing # {}

LEMMA NotCompiled ==
  ASSUME StackInv, Settled, NEW s \in Slots, cur = s, pc[s] # "returned",
         pc[s] # "called" \/ s # Root
  PROVE  ~job.compiled
<1>1. s # Root => Root \in Above[s]
  BY TreeAssumption
<1> QED
  BY <1>1 DEF StackInv, Settled

LEMMA ArgIs ==
  ASSUME KInv, Settled, Stable(job.input), NEW s \in Slots, cur = s, pc[s] = "called"
  PROVE  /\ SyncOut(s, Arg(s)) = Result
         /\ SyncErrs(s, Arg(s)) = IF s = Root THEN SyncErrs(Root, job.input) ELSE {}
<1>1. CASE s = Root
  BY <1>1 DEF Arg, Result
<1>2. CASE s # Root
  <2>1. Arg(s) = Result
    BY <1>2, TreeAssumption DEF Arg, KInv, OInv, StackInv, Settled
  <2>2. job.input \in [Slots -> Values] /\ s \in Reached(Root, job.input)
    BY JobType DEF KInv, OInv, AInv, Visits
  <2> QED
    BY <1>2, <2>1, <2>2, SecondPass DEF Result
<1> QED
  BY <1>1, <1>2

LEMMA MoveSettled ==
  ASSUME TypeOK, Settled, NEW s \in Slots, NEW w, Move(s, w), job' = job,
         \A t \in Slots \ {s} : val'[t] = val[t],
         Stable(job.input) => val'[s] = Result /\ \A i \in DOMAIN asked' : asked'[i].value = Result,
         job.compiled => s = Root /\ w = "returned",
         Stable(job.input) /\ SyncClean /\ ~cancelled' /\ errors' # {} =>
           ~job.compiled /\ Due \cap job.refusing # {}
  PROVE  Settled'
<1>1. \A t \in Slots \ {s} : pc'[t] = pc[t]
  BY DEF Move, TypeOK
<1>2. pc'[s] = w
  BY DEF Move, TypeOK
<1>3. Result' = Result /\ (SyncClean <=> SyncClean') /\ Due' = Due
  BY DEF Result, SyncClean, Due, Silent
<1> QED
  BY <1>1, <1>2, <1>3, TreeAssumption DEF Settled

LEMMA SettledNext ==
  ASSUME KInv, Settled, [Next]_vars
  PROVE  Settled'
<1>1. TypeOK /\ StackInv /\ FreshInv /\ FrameInv
  BY DEF KInv, OInv, AInv
<1>2. ASSUME UNCHANGED <<job, val, asked, errors>>, cancelled' = cancelled \/ cancelled' = TRUE,
             \A t \in Slots : pc'[t] = pc[t] \/ (pc[t] = "idle" /\ pc'[t] = "called" /\ t # Root)
      PROVE  Settled'
  BY <1>2, TreeAssumption DEF Settled, Result, SyncClean, Due, Silent
<1>3. CASE UNCHANGED vars \/ Terminated \/ Cancel
  BY <1>2, <1>3 DEF vars, Terminated, Cancel
<1>4. CASE SyncFallback
  <2>1. /\ Root \in Slots /\ Move(Root, "returned") /\ pc[Root] = "called" /\ cur = Root
        /\ UNCHANGED <<job, asked>> /\ val' = [val EXCEPT ![Root] = Result]
        /\ errors' = SyncErrs(Root, job.input)
    BY <1>4, TreeAssumption DEF SyncFallback, At, Leave, Move, Result
  <2>2. val'[Root] = Result /\ \A t \in Slots \ {Root} : val'[t] = val[t]
    BY <1>1, <2>1 DEF TypeOK
  <2> QED
    BY <1>1, <2>1, <2>2, MoveSettled DEF Settled, SyncClean
<1>5. ASSUME NEW s \in Slots, SyncPass(s) PROVE Settled'
  <2>1. /\ cur = s /\ pc[s] = "called" /\ UNCHANGED <<job, asked, cancelled>>
        /\ val' = [val EXCEPT ![s] = SyncOut(s, Arg(s))] /\ errors' = errors \cup SyncErrs(s, Arg(s))
        /\ \E w \in {"returned", "own", "gate"} : Move(s, w)
        /\ s = Root => ~job.compiled
    BY <1>5 DEF SyncPass, At, Leave, Goto, Move
  <2>2. ~job.compiled
    BY <1>1, <2>1, NotCompiled
  <2>3. val'[s] = SyncOut(s, Arg(s)) /\ \A t \in Slots \ {s} : val'[t] = val[t]
    BY <1>1, <2>1 DEF TypeOK
  <2>4. Stable(job.input) => val'[s] = Result /\ (SyncClean => errors' = errors)
    BY <2>1, <2>3, ArgIs DEF SyncClean
  <2> QED
    BY <1>1, <2>1, <2>2, <2>3, <2>4, MoveSettled DEF Settled
<1>6. ASSUME NEW s \in Slots, OpenGate(s) \/ KidsDone(s) \/ Clear(s) \/ Finish(s) \/ GiveUp(s)
      PROVE  Settled'
  <2>1. /\ cur = s /\ pc[s] \notin {"called", "returned", "idle"} /\ UNCHANGED <<job, val, asked, cancelled>>
        /\ errors' = errors \/ cancelled'
        /\ \E w \in {"kids", "own", "cleared", "returned"} : Move(s, w)
    BY <1>6 DEF OpenGate, KidsDone, Clear, Finish, GiveUp, At, Goto, Leave, Move
  <2>2. ~job.compiled
    BY <1>1, <2>1, NotCompiled
  <2> QED
    BY <1>1, <2>1, <2>2, MoveSettled DEF Settled
<1>7. ASSUME NEW s \in Slots, Panic(s) PROVE Settled'
  BY <1>2, <1>7 DEF Panic
<1>8. ASSUME NEW s \in Slots, Ask(s) PROVE Settled'
  <2>1. /\ cur = s /\ pc[s] = "cleared" /\ UNCHANGED <<job, val, errors, cancelled>> /\ Move(s, "awaiting")
        /\ asked' = Append(asked, [slot |-> s, n |-> own[s] + 1, value |-> val[s]])
    BY <1>8 DEF Ask, Given, At, Goto, Move
  <2>2. ~job.compiled
    BY <1>1, <2>1, NotCompiled
  <2>3. Stable(job.input) => val[s] = Result
    BY <2>1 DEF Settled
  <2>4. ASSUME Stable(job.input), NEW i \in DOMAIN asked' PROVE asked'[i].value = Result
    <3>1. asked \in Seq(Asks) /\ Len(asked) \in Nat /\ DOMAIN asked = 1..Len(asked)
      BY <1>1, LenProperties DEF TypeOK
    <3> DEFINE e == [slot |-> s, n |-> own[s] + 1, value |-> val[s]]
    <3>2. e.value = Result
      BY <2>3, <2>4
    <3> HIDE DEF e
    <3>3. /\ DOMAIN asked' = 1..(Len(asked) + 1) /\ asked'[Len(asked) + 1] = e
          /\ \A k \in 1..Len(asked) : asked'[k] = asked[k]
      BY <2>1, <3>1 DEF e
    <3> QED
      BY <2>4, <3>1, <3>2, <3>3 DEF Settled
  <2> QED
    BY <1>1, <2>1, <2>2, <2>3, <2>4, MoveSettled DEF Settled
<1>9. ASSUME NEW s \in Slots, Answer(s) PROVE Settled'
  <2>1. /\ cur = s /\ pc[s] = "awaiting" /\ UNCHANGED <<job, val, asked, cancelled>> /\ Move(s, "own")
        /\ errors' = errors \/ <<s, own[s] + 1>> \in job.refusing \/ cancelled'
    BY <1>9 DEF Answer, At, Goto, Move
  <2>2. ~job.compiled
    BY <1>1, <2>1, NotCompiled
  <2>3. <<s, own[s] + 1>> \in job.refusing => <<s, own[s] + 1>> \in Due
    <3>1. own[s] < job.asyncs[s] /\ own[s] \in Nat /\ job.asyncs[s] \in Nat /\ job.refusing \subseteq Validators
      BY <1>1, <2>1, JobType DEF FrameInv, TypeOK
    <3>2. s \in Reached(Root, job.input) /\ ~Silent(s)
      BY <2>1 DEF KInv, Visits
    <3> QED
      BY <3>1, <3>2 DEF Due
  <2> QED
    BY <1>1, <2>1, <2>2, <2>3, MoveSettled DEF Settled
<1>10. ASSUME NEW s \in Slots, NEW c \in Kids(s), Descend(s, c) PROVE Settled'
  <2>1. /\ pc[s] = "kids" /\ c \in todo[s] /\ UNCHANGED <<job, val, asked, errors, cancelled>>
        /\ (UNCHANGED pc \/ pc' = [pc EXCEPT ![c] = "called"])
    BY <1>10 DEF Descend, At
  <2>2. c \in Slots /\ pc[c] = "idle" /\ c # Root
    BY <1>1, <2>1, KidsBelow, TreeAssumption DEF FreshInv, Ahead, Kids
  <2> QED
    BY <1>1, <1>2, <2>1, <2>2 DEF TypeOK
<1> QED
  BY <1>3, <1>4, <1>5, <1>6, <1>7, <1>8, <1>9, <1>10 DEF Next, Step

LEMMA SettledInit == Init => Settled
  BY TreeAssumption DEF Init, Settled

(* For every schema tree whose result a second pass leaves as it is, the    *)
(* validators are asked about what the call returns.                       *)
THEOREM AskedRight == Spec => []AskedOnReturnedValue
<1>1. KInv /\ Settled => AskedOnReturnedValue
  <2> SUFFICES ASSUME KInv, Settled, Stable(job.input), NEW i \in DOMAIN asked
               PROVE  asked[i].value = val[Root]
    BY DEF AskedOnReturnedValue
  <2>1. asked[i].slot \in Slots /\ pc[asked[i].slot] \in OwnPhase
    BY DEF KInv, OInv, AskedInv
  <2>2. pc[Root] \notin Early
    BY <2>1, TreeAssumption DEF KInv, Positions, OwnPhase, Early
  <2> QED
    BY <2>2, TreeAssumption DEF Settled, Early
<1> QED
  BY <1>1, CompleteInit, KNext, SettledInit, SettledNext, PTL DEF Spec

(* And the verdict of a call that is not cancelled is the conjunction of    *)
(* the sync rules and of all validators that are due, in whatever order     *)
(* they were asked and wherever the descent broke off.                     *)
THEOREM VerdictRight == Spec => []VerdictExact
<1>1. KInv /\ Settled => VerdictExact
  <2> SUFFICES ASSUME KInv, Settled, outcome = "returned", ~cancelled, SyncClean => Stable(job.input)
               PROVE  errors = {} <=> SyncClean /\ (job.compiled \/ Due \cap job.refusing = {})
    BY DEF VerdictExact
  <2>1. ASSUME errors = {} PROVE SyncClean
    BY <2>1, TreeAssumption DEF KInv, Complete, Positions, Active
  <2>2. ASSUME errors = {}, ~job.compiled PROVE Due \cap job.refusing = {}
    BY <2>2, NothingPending DEF KInv, Complete, Positions, Answered
  <2> QED
    BY <2>1, <2>2 DEF Settled
<1> QED
  BY <1>1, CompleteInit, KNext, SettledInit, SettledNext, PTL DEF Spec

---------------------------------------------------------------------------
(* The contract.  A call that is about to begin has found no error yet.     *)
Opened == pc[Root] = "called" => errors = {}
ContractInv == KInv /\ Settled /\ Opened

LEMMA OpenedNext ==
  ASSUME KInv, Opened, [Next]_vars
  PROVE  Opened'
<1>1. TypeOK /\ StackInv /\ FreshInv
  BY DEF KInv, OInv, AInv
<1>2. ASSUME UNCHANGED <<pc, errors>> PROVE Opened'
  BY <1>2 DEF Opened
<1>3. ASSUME NEW s \in Slots, NEW w, Move(s, w), w # "called" PROVE Opened'
  <2>1. s # Root => pc[Root] = "kids"
    BY <1>1, <1>3, TreeAssumption DEF StackInv, Move
  <2> QED
    BY <1>1, <1>3, <2>1, TreeAssumption DEF Opened, Move, TypeOK
<1>4. ASSUME NEW s \in Slots, NEW c \in Kids(s), Descend(s, c) PROVE Opened'
  <2>1. c # Root /\ c \in Slots /\ (UNCHANGED pc \/ pc' = [pc EXCEPT ![c] = "called"]) /\ errors' = errors
    BY <1>4, TreeAssumption DEF Descend, Kids
  <2> QED
    BY <1>1, <2>1, TreeAssumption DEF Opened, TypeOK
<1>5. ASSUME NEW s \in Slots, OpenGate(s) \/ KidsDone(s) \/ Clear(s) \/ Ask(s) \/ Answer(s) PROVE Opened'
  <2>1. \E w \in {"kids", "own", "cleared", "awaiting"} : Move(s, w)
    BY <1>5 DEF OpenGate, KidsDone, Clear, Ask, Answer, At, Goto, Move
  <2> QED
    BY <1>3, <2>1
<1>6. ASSUME NEW s \in Slots, SyncPass(s) \/ Finish(s) \/ GiveUp(s) \/ (s = Root /\ SyncFallback) PROVE Opened'
  <2>1. \E w \in {"own", "gate", "returned"} : Move(s, w)
    BY <1>6 DEF SyncPass, Finish, GiveUp, SyncFallback, At, Goto, Leave, Move
  <2> QED
    BY <1>3, <2>1
<1> QED
  BY <1>2, <1>4, <1>5, <1>6, TreeAssumption
     DEF Next, Step, vars, Terminated, Cancel, Panic

Settles == \A data \in Inputs : SyncErrs(Root, data) = {} => Stable(data)
NoNilArray == \A s \in Slots : Kind[s] = "array" => s \in Required \/ s \notin Nullable

(* The array of a gate is not nil when no array that may be is accepted.    *)
LEMMA NotNilSlice ==
  ASSUME NoNilArray, KInv, NEW s \in Slots, pc[s] = "gate"
  PROVE  ~NilSlice(s)
<1> SUFFICES ASSUME NilSlice(s) PROVE FALSE
  OBVIOUS
<1>1. Kind[s] = "array" /\ job.input[s] = Nil /\ s \in Reached(Root, job.input)
  BY DEF KInv, Visits, Shape, NilSlice, Composite
<1>2. SyncClean
  BY DEF KInv, OInv, AInv, CleanInv, PastSync
<1>3. NilError(s, job.input)
  BY <1>1 DEF NilError, Composite, NoNilArray
<1>4. Error(s, "null", 0) \in SyncErrs(Root, job.input)
  BY <1>1, <1>3 DEF SyncErrs
<1> QED
  BY <1>2, <1>4 DEF SyncClean

LEMMA NothingDue ==
  ASSUME TypeOK, ~HasAsyncValidators \/ (Kind[Root] = "object" /\ job.input[Root] = Nil)
  PROVE  Due = {}
<1> SUFFICES ASSUME NEW v \in Due PROVE FALSE
  OBVIOUS
<1>1. /\ v[1] \in Slots /\ v[2] \in Nat /\ v[2] > 0 /\ v[2] <= job.asyncs[v[1]]
      /\ v[1] \in Reached(Root, job.input) /\ ~Silent(v[1]) /\ job.asyncs[v[1]] \in Nat
  BY JobType DEF Due, Validators
<1>2. ~HasAsyncValidators => FALSE
  BY <1>1 DEF HasAsyncValidators
<1>3. v[1] # Root => job.input[Root] = Tree
  BY <1>1, JobType, ReachedIs, TreeAssumption
<1> QED
  BY <1>1, <1>2, <1>3, Distinct DEF Silent

LEMMA AnswerAdds ==
  ASSUME KInv, NEW s \in Slots, pc[s] = "awaiting", job' = job,
         own' = [own EXCEPT ![s] = own[s] + 1]
  PROVE  <<s, own[s] + 1>> \in Due \ Answered /\ Answered' = Answered \cup {<<s, own[s] + 1>>}
<1> DEFINE v == <<s, own[s] + 1>>
<1>1. /\ own[s] < job.asyncs[s] /\ own[s] \in Nat /\ job.asyncs[s] \in 0..MaxAsync /\ MaxAsync \in Nat
      /\ own' \in [Slots -> Nat] /\ own'[s] = own[s] + 1 /\ \A t \in Slots \ {s} : own'[t] = own[t]
      /\ \A t \in Slots : own[t] \in Nat
  BY JobType DEF KInv, OInv, AInv, FrameInv, TypeOK
<1>2. v \in Validators /\ v[1] = s /\ v[2] = own[s] + 1
  BY <1>1 DEF Validators
<1>3. s \in Reached(Root, job.input) /\ ~Silent(s)
  BY DEF KInv, Visits
<1>4. v \in Due \ Answered
  BY <1>1, <1>2, <1>3 DEF Due, Answered
<1>5. ASSUME NEW u \in Validators PROVE u[2] <= own'[u[1]] <=> u[2] <= own[u[1]] \/ u = v
  <2>1. u = <<u[1], u[2]>> /\ u[1] \in Slots /\ u[2] \in Nat
    BY <1>1 DEF Validators
  <2>2. CASE u[1] = s
    BY <1>1, <2>1, <2>2
  <2>3. CASE u[1] # s
    BY <1>1, <2>1, <2>3
  <2> QED
    BY <2>2, <2>3
<1> QED
  BY <1>2, <1>4, <1>5 DEF Answered

LEMMA StepKeepsContract ==
  ASSUME Settles, NoNilArray, CompiledChoices \subseteq {FALSE}, ContractInv, [Next]_vars
  PROVE  [Contract!Next]_(Contract!cvars)
<1>1. TypeOK /\ StackInv /\ FreshInv /\ FrameInv /\ CleanInv /\ KInv
  BY DEF ContractInv, KInv, OInv, AInv
<1>2. ASSUME job' = job PROVE Due' = Due
  BY <1>2 DEF Due, Silent
<1>3. ASSUME UNCHANGED <<job, own, cancelled, outcome>>, errors' = {} <=> errors = {},
             pc'[Root] = "called" <=> pc[Root] = "called"
      PROVE  UNCHANGED Contract!cvars
  BY <1>2, <1>3 DEF Contract!cvars, Answered
<1>4. CASE UNCHANGED vars \/ Terminated
  BY <1>3, <1>4 DEF vars, Terminated
<1>5. CASE Cancel
  BY <1>2, <1>5 DEF Cancel, Contract!Next, Contract!Cancel, Answered
<1>6. ASSUME Root \in Slots, outcome = "running", pc[Root] = "called", UNCHANGED <<job, own, cancelled>>,
             errors' # {} => outcome' # "running",
             outcome' # "running" \/ pc'[Root] # "called",
             outcome' # "running" /\ errors' = {} => Due = {}
      PROVE  Contract!Next
  <2>1. errors = {} /\ Due' = Due /\ Answered' = Answered
    BY <1>2, <1>6 DEF ContractInv, Opened, Answered
  <2>2. CASE errors' # {}
    BY <1>6, <2>1, <2>2 DEF Contract!Next, Contract!RejectData
  <2>3. CASE errors' = {}
    BY <1>6, <2>1, <2>3 DEF Contract!Next, Contract!AcceptData
  <2> QED
    BY <2>2, <2>3
<1>7. CASE SyncFallback
  <2>1. job.compiled = FALSE
    BY <1>1 DEF TypeOK, Jobs
  <2>2. /\ Root \in Slots /\ outcome = "running" /\ pc[Root] = "called" /\ UNCHANGED <<job, own, cancelled>>
        /\ outcome' = "returned" /\ ~HasAsyncValidators
    BY <1>7, <2>1, TreeAssumption DEF SyncFallback, At, Leave
  <2> QED
    BY <1>1, <1>6, <2>2, NothingDue
<1>8. CASE SyncPass(Root)
  <2>1. /\ Root \in Slots /\ outcome = "running" /\ pc[Root] = "called" /\ UNCHANGED <<job, own, cancelled>>
        /\ \/ outcome' = "returned" /\ (errors' = {} => NilObject(Root))
           \/ errors' = {} /\ outcome' = "running" /\ pc' = [pc EXCEPT ![Root] = IF Kind[Root] = "transform" THEN "own" ELSE "gate"]
    BY <1>8, TreeAssumption DEF SyncPass, Stops, At, Leave, Goto
  <2>2. NilObject(Root) => Due = {}
    BY <1>1, NothingDue DEF NilObject, Arg
  <2>3. outcome' = "returned" \/ pc'[Root] # "called"
    BY <1>1, <2>1 DEF TypeOK
  <2> QED
    BY <1>6, <2>1, <2>2, <2>3
<1>9. ASSUME NEW s \in Slots, SyncPass(s), s # Root PROVE UNCHANGED Contract!cvars
  <2>1. /\ cur = s /\ pc[s] = "called" /\ UNCHANGED <<job, own, cancelled, outcome>>
        /\ errors' = errors \cup SyncErrs(s, Arg(s)) /\ \E w : pc' = [pc EXCEPT ![s] = w]
    BY <1>9 DEF SyncPass, At, Leave, Goto
  <2>2. Stable(job.input)
    <3>1. job.input \in Inputs
      BY <1>1 DEF TypeOK, Jobs
    <3>2. SyncClean
      BY <1>1, <1>9, <2>1 DEF CleanInv
    <3> QED
      BY <3>1, <3>2 DEF SyncClean, Settles
  <2>3. SyncErrs(s, Arg(s)) = {}
    BY <1>1, <1>9, <2>1, <2>2, ArgIs DEF ContractInv
  <2>4. pc'[Root] = pc[Root]
    BY <1>1, <1>9, <2>1, TreeAssumption DEF TypeOK
  <2> QED
    BY <1>3, <2>1, <2>3, <2>4
<1>10. ASSUME NEW s \in Slots, NEW w, Move(s, w), pc[s] # "called", w # "called"
       PROVE  pc[Root] # "called" /\ pc'[Root] # "called"
  BY <1>1, <1>10, TreeAssumption DEF Move, StackInv, TypeOK
<1>11. ASSUME NEW s \in Slots, OpenGate(s) \/ KidsDone(s) \/ Clear(s) \/ Ask(s) \/ (Finish(s) /\ s # Root)
       PROVE  UNCHANGED Contract!cvars
  <2>1. /\ UNCHANGED <<job, own, cancelled, outcome, errors>> /\ pc[s] # "called"
        /\ \E w \in {"kids", "own", "cleared", "awaiting", "returned"} : Move(s, w)
    BY <1>11 DEF OpenGate, KidsDone, Clear, Ask, Finish, At, Goto, Leave, Move
  <2> QED
    BY <1>3, <1>10, <2>1
<1>12. ASSUME NEW s \in Slots, Panic(s) PROVE FALSE
  BY <1>1, <1>12, NotNilSlice DEF Panic, At
<1>13. ASSUME NEW s \in Slots, NEW c \in Kids(s), Descend(s, c) PROVE UNCHANGED Contract!cvars
  <2>1. /\ c # Root /\ (UNCHANGED pc \/ pc' = [pc EXCEPT ![c] = "called"])
        /\ UNCHANGED <<job, own, cancelled, outcome, errors>>
    BY <1>13, TreeAssumption DEF Descend, Kids
  <2>2. pc'[Root] = pc[Root]
    BY <1>1, <2>1, TreeAssumption DEF TypeOK
  <2> QED
    BY <1>3, <2>1, <2>2
<1>14. ASSUME NEW s \in Slots, Answer(s) PROVE Contract!Next
  <2>1. /\ UNCHANGED <<job, cancelled, outcome>> /\ outcome = "running" /\ pc[s] = "awaiting"
        /\ Move(s, "own") /\ own' = [own EXCEPT ![s] = own[s] + 1]
        /\ \/ errors' = errors /\ <<s, own[s] + 1>> \notin job.refusing
           \/ errors' # {} /\ (<<s, own[s] + 1>> \in job.refusing \/ cancelled)
    BY <1>14 DEF Answer, Advance, At, Goto, Move
  <2>2. PICK v : v = <<s, own[s] + 1>>
    OBVIOUS
  <2>3. v \in Due \ Answered /\ Answered' = Answered \cup {v} /\ v \in Validators
    BY <1>1, <2>1, <2>2, AnswerAdds DEF Due
  <2>4. pc[Root] # "called" /\ pc'[Root] # "called" /\ Due' = Due
    BY <1>2, <1>10, <2>1
  <2>5. Contract!Put(v)
    BY <2>1, <2>2, <2>3, <2>4 DEF Contract!Put
  <2> QED
    BY <2>3, <2>5 DEF Contract!Next
<1>15. CASE Finish(Root)
  <2>1. /\ UNCHANGED <<job, own, cancelled, errors>> /\ outcome = "running" /\ outcome' = "returned"
        /\ pc[Root] = "own" /\ ~job.compiled
    BY <1>1, <1>15 DEF Finish, At, Leave, TypeOK, Jobs
  <2>2. errors = {} => Answered = Due
    <3>1. \A s \in Slots : Active(s) => s = Root
      BY <1>15, TreeAssumption DEF Finish, At, ContractInv, KInv, Positions
    <3>2. own[Root] = job.asyncs[Root]
      BY <1>15 DEF Finish
    <3> QED
      BY <1>1, <2>1, <3>1, <3>2, NothingPending
  <2>3. Answered' = Answered /\ Due' = Due
    BY <1>2, <2>1 DEF Answered
  <2> QED
    BY <2>1, <2>2, <2>3 DEF Contract!Next, Contract!Return
<1>16. ASSUME NEW s \in Slots, GiveUp(s) PROVE Contract!Next
  <2>1. /\ UNCHANGED <<job, own, cancelled>> /\ outcome = "running" /\ outcome' \in {"running", "returned"}
        /\ pc[s] # "called" /\ Move(s, "returned") /\ cancelled /\ errors' # {}
    BY <1>16 DEF GiveUp, ReportCancelled, At, Leave, Move
  <2>2. pc[Root] # "called" /\ pc'[Root] # "called" /\ Due' = Due /\ Answered' = Answered
    BY <1>2, <1>10, <2>1 DEF Answered
  <2> QED
    BY <2>1, <2>2 DEF Contract!Next, Contract!Notice
<1> QED
  BY <1>4, <1>5, <1>7, <1>8, <1>9, <1>11, <1>12, <1>13, <1>14, <1>15, <1>16 DEF Next, Step

(* For every schema tree without an array that may be nil, and data whose   *)
(* accepted result a second pass leaves as it is, the descent of the call   *)
(* is its contract: what was asked, and what success means.                *)
THEOREM Honoured ==
  ASSUME Settles, NoNilArray, CompiledChoices \subseteq {FALSE}
  PROVE  Spec => ImplementsContract
<1>1. Init => Contract!Init
  <2> SUFFICES ASSUME Init PROVE Contract!Init
    OBVIOUS
  <2>1. KInv /\ TypeOK
    BY CompleteInit DEF KInv, OInv, AInv
  <2>2. /\ pc[Root] = "called" /\ outcome = "running" /\ errors = {} /\ cancelled \in BOOLEAN
        /\ \A s \in Slots : own[s] = 0
    BY TreeAssumption DEF Init
  <2>3. Answered = {} /\ Due \in SUBSET Validators /\ job.refusing \in SUBSET Validators
    BY <2>1, <2>2, JobType DEF Answered, Due, Validators
  <2> QED
    BY <2>2, <2>3 DEF Contract!Init
<1>2. Init => ContractInv
  BY CompleteInit, SettledInit DEF ContractInv, Opened, Init
<1>3. ContractInv /\ [Next]_vars => ContractInv' /\ [Contract!Next]_(Contract!cvars)
  BY KNext, SettledNext, OpenedNext, StepKeepsContract DEF ContractInv
<1> QED
  BY <1>1, <1>2, <1>3, PTL DEF Spec, ImplementsContract, Contract!Spec
=============================================================================
