-------------------------- MODULE ParserPoolProofs --------------------------
(***************************************************************************)
(* For any sessions, parsers and texts: the pool is transparent, a step of *)
(* ParserPool being a step of PrivateParser or one that changes no view,   *)
(* and the tokens of a parser are those of its own text.  For the second,  *)
(* a machine is Faithful: its frames stand at the brackets that are open   *)
(* where it has come (InLoops), and at a member or an element the lexeme   *)
(* behind it is the one the code took on its way there (Where).            *)
(***************************************************************************)
EXTENDS ParserPool, FiniteSetTheorems, SequenceTheorems, Integers, TLAPS

\* A machine between two steps.
Sound(m) == m \in Machines /\ (m.next = "turn" => m.frames # <<>>)

LEMMA EmptyTuple == \A S : <<>> \in Seq(S)
  OBVIOUS

LEMMA AppendType ==
  ASSUME NEW S, NEW q \in Seq(S), NEW x \in S
  PROVE  Append(q, x) \in Seq(S) /\ Append(q, x) # <<>>
<1>1. Append(q, x) \in Seq(S) /\ Len(Append(q, x)) = Len(q) + 1
  OBVIOUS
<1>2. Len(Append(q, x)) # 0 /\ Len(<<>>) = 0
  BY <1>1
<1> QED BY <1>1, <1>2

LEMMA FrontType ==
  ASSUME NEW S, NEW q \in Seq(S), q # <<>>
  PROVE  SubSeq(q, 1, Len(q) - 1) \in Seq(S)
<1>1. Len(q) - 1 \in 0..Len(q)
  OBVIOUS
<1> QED BY <1>1

LEMMA FieldTypes ==
  ASSUME NEW m \in Machines
  PROVE  /\ m.text \in Seq(Lexemes) /\ m.pos \in Nat \ {0} /\ m.tokens \in Seq(Kinds)
         /\ m.ctx \in Contexts /\ m.stack \in Seq(Contexts) /\ m.keys \in Nat
         /\ m.frames \in Seq(Frames)
  BY DEF Machines

LEMMA FreshSound == Sound(Fresh)
  BY EmptyTuple DEF Sound, Fresh, Machines, Contexts, Statuses

LEMMA ParseSound ==
  ASSUME NEW m \in Machines, NEW t \in Seq(Lexemes)
  PROVE  Sound(Parse(m, t))
<1>1. Parse(m, t) \in Machines
  <2>1. /\ \A S : <<>> \in Seq(S)
        /\ "Value" \in Contexts /\ "running" \in Statuses /\ 1 \in Nat \ {0}
    BY EmptyTuple DEF Contexts, Statuses
  <2> QED BY <2>1 DEF Parse, Machines
<1>2. Parse(m, t).next = "value"
  BY DEF Parse, Machines
<1> QED BY <1>1, <1>2 DEF Sound

\* A new parser and one that has been returned cannot be told apart.
LEMMA ResetFresh ==
  ASSUME NEW m \in Machines
  PROVE  Reset(m) = Fresh
<1> DEFINE S == [text : {<<>>}, pos : {1}, tokens : {<<>>}, ctx : {"Value"}, stack : {<<>>},
                 keys : {0}, status : {"idle"}, next : {"value"}, frames : {<<>>}]
<1>1. Reset(m) \in S
  BY DEF Reset, Machines
<1>2. Fresh \in S
  BY DEF Fresh
<1>3. \A x, y \in S : x = y
  OBVIOUS
<1> QED BY <1>1, <1>2, <1>3

LEMMA EndsSound ==
  ASSUME NEW m \in Machines, NEW x \in Statuses
  PROVE  Sound(Ends(m, x))
  BY EmptyTuple DEF Sound, Ends, Machines

LEMMA LexemeType ==
  ASSUME NEW m \in Machines
  PROVE  Lexeme(m) \in Lexemes \cup {"end"}
  BY FieldTypes DEF Lexeme

LEMMA AddTokenType ==
  ASSUME NEW m \in Machines, NEW k \in Kinds
  PROVE  /\ addToken(m, k) \in Machines
         /\ addToken(m, k).frames = m.frames
<1>1. m.pos + 1 \in Nat \ {0} /\ Append(m.tokens, k) \in Seq(Kinds)
  BY FieldTypes
<1> QED BY <1>1 DEF addToken, Machines

LEMMA PushType ==
  ASSUME NEW m \in Machines, NEW c \in Contexts
  PROVE  pushContext(m, c) \in Machines
<1>1. Append(m.stack, m.ctx) \in Seq(Contexts)
  BY FieldTypes
<1> QED BY <1>1 DEF pushContext, Machines

LEMMA PopType ==
  ASSUME NEW m \in Machines
  PROVE  /\ popContext(m) \in Machines
         /\ popContext(m).frames = m.frames
<1>1. CASE m.stack = <<>>
  BY <1>1 DEF popContext, Machines, Contexts
<1>2. CASE m.stack # <<>>
  <2>1. /\ m.stack[Len(m.stack)] \in Contexts
        /\ SubSeq(m.stack, 1, Len(m.stack) - 1) \in Seq(Contexts)
    BY <1>2 DEF Machines
  <2> QED BY <1>2, <2>1 DEF popContext, Machines
<1> QED BY <1>1, <1>2

LEMMA ReturnedSound ==
  ASSUME NEW m \in Machines
  PROVE  Sound(Returned(m))
<1>1. CASE m.frames = <<>>
  BY <1>1, EndsSound DEF Returned, Statuses
<1>2. CASE m.frames # <<>>
  <2> DEFINE n == Len(m.frames)
             fs == [m.frames EXCEPT ![n].first = FALSE]
  <2>1. n \in Nat \ {0} /\ m.frames[n] \in Frames
    BY <1>2 DEF Machines
  <2>2. fs \in Seq(Frames) /\ fs # <<>>
    <3>1. [m.frames[n] EXCEPT !.first = FALSE] \in Frames
      BY <2>1 DEF Frames
    <3> QED BY <2>1, <3>1, FieldTypes
  <2>3. Returned(m) = [m EXCEPT !.next = "turn", !.frames = fs,
                         !.ctx = IF m.frames[n].loop = "{" THEN "ObjectComma" ELSE "ArrayComma"]
    BY <1>2 DEF Returned, Depth, Machines
  <2> HIDE DEF fs, n
  <2> QED BY <2>2, <2>3 DEF Sound, Machines, Contexts
<1> QED BY <1>1, <1>2

LEMMA EntersSound ==
  ASSUME NEW m \in Machines, NEW loop \in {"{", "["}, NEW c \in Contexts
  PROVE  Sound(Enters(m, loop, c))
<1> DEFINE n == pushContext(addToken(m, loop), c)
           f == [loop |-> loop, first |-> TRUE]
<1>1. n \in Machines
  BY AddTokenType, PushType DEF Kinds, Lexemes
<1>2. f \in Frames
  BY DEF Frames
<1>3. Append(n.frames, f) \in Seq(Frames) /\ Append(n.frames, f) # <<>>
  <2> HIDE DEF n, f
  <2> QED BY <1>1, <1>2, FieldTypes, AppendType
<1>4. Enters(m, loop, c) = [n EXCEPT !.frames = Append(n.frames, f), !.next = "turn"]
  BY <1>1 DEF Enters, Machines
<1> HIDE DEF n, f
<1> QED BY <1>1, <1>3, <1>4 DEF Sound, Machines

LEMMA ParseStringType ==
  ASSUME NEW m \in Machines
  PROVE  parseString(m) \in Machines
<1> DEFINE n == addToken(m, "key")
<1>1. n \in Machines /\ addToken(m, "str") \in Machines
  BY AddTokenType DEF Kinds, Lexemes, Scalars
<1>2. [n EXCEPT !.keys = n.keys + 1] \in Machines
  <2> HIDE DEF n
  <2>1. n.keys + 1 \in Nat
    BY <1>1, FieldTypes
  <2> QED BY <1>1, <2>1 DEF Machines
<1>3. parseString(m) \in {[n EXCEPT !.keys = n.keys + 1], addToken(m, "str")}
  BY DEF parseString
<1> QED BY <1>1, <1>2, <1>3

LEMMA ParseValueSound ==
  ASSUME NEW m \in Machines
  PROVE  Sound(parseValue(m))
<1> DEFINE x == Lexeme(m)
<1>1. x \in Lexemes \cup {"end"}
  BY LexemeType
<1>2. CASE x = "{"
  BY <1>2, EntersSound DEF parseValue, Contexts
<1>3. CASE x = "["
  BY <1>3, EntersSound DEF parseValue, Contexts
<1>4. CASE x = "str"
  BY <1>4, ParseStringType, ReturnedSound DEF parseValue
<1>5. CASE x \in {"num", "lit"}
  <2>1. addToken(m, x) \in Machines
    BY <1>5, AddTokenType DEF Kinds, Lexemes, Scalars
  <2> QED BY <1>5, <2>1, ReturnedSound DEF parseValue
<1>6. CASE x \notin {"{", "[", "str", "num", "lit"}
  BY <1>6, EndsSound DEF parseValue, Statuses
<1> QED BY <1>2, <1>3, <1>4, <1>5, <1>6

LEMMA LeavesSound ==
  ASSUME NEW m \in Machines, Lexeme(m) \in {"}", "]"}, m.frames # <<>>
  PROVE  Sound(Leaves(m))
<1> DEFINE c == popContext(addToken(m, Lexeme(m)))
           r == [c EXCEPT !.frames = SubSeq(c.frames, 1, Depth(m) - 1)]
<1>1. c \in Machines /\ c.frames = m.frames
  BY AddTokenType, PopType DEF Kinds, Lexemes
<1>2. SubSeq(c.frames, 1, Depth(m) - 1) \in Seq(Frames)
  BY <1>1, FieldTypes, FrontType DEF Depth
<1>3. r \in Machines
  <2> HIDE DEF c
  <2> QED BY <1>1, <1>2 DEF Machines
<1>4. Leaves(m) = Returned(r)
  BY DEF Leaves
<1> QED BY <1>3, <1>4, ReturnedSound

LEMMA MemberSound ==
  ASSUME NEW m \in Machines
  PROVE  Sound(Member(m))
<1> DEFINE e == [m EXCEPT !.ctx = "ObjectKey"]
           k == parseString(e)
           c == addToken(k, ":")
           r == [c EXCEPT !.ctx = "ObjectValue", !.next = "value"]
<1>1. e \in Machines
  BY DEF Machines, Contexts
<1>2. k \in Machines
  BY <1>1, ParseStringType
<1>3. c \in Machines
  BY <1>2, AddTokenType DEF Kinds, Lexemes
<1>4. Sound(r)
  <2> HIDE DEF c
  <2> QED BY <1>3 DEF Sound, Machines, Contexts
<1>5. Sound(Ends(m, "panic")) /\ Sound(Ends(m, "error")) /\ Sound(Ends(k, "error"))
  BY <1>2, EndsSound DEF Statuses
<1>6. Member(m) \in {Ends(m, "panic"), Ends(m, "error"), Ends(k, "error"), r}
  BY DEF Member
<1> QED BY <1>4, <1>5, <1>6

LEMMA ElementSound ==
  ASSUME NEW m \in Machines
  PROVE  Sound(Element(m))
  BY DEF Element, Sound, Machines, Contexts

LEMMA TurnSound ==
  ASSUME NEW m \in Machines, m.frames # <<>>
  PROVE  Sound(Turn(m))
<1> DEFINE loop == m.frames[Depth(m)].loop
           first == m.frames[Depth(m)].first
           n == addToken(m, ",")
<1>1. loop \in {"{", "["} /\ first \in BOOLEAN
  <2>1. m.frames[Depth(m)] \in Frames
    BY FieldTypes DEF Depth
  <2> QED BY <2>1 DEF Frames
<1>2. n \in Machines
  BY AddTokenType DEF Kinds, Lexemes
<1>3. /\ Sound(Member(m)) /\ Sound(Element(m))
      /\ Sound(Member(n)) /\ Sound(Element(n)) /\ Sound(Ends(m, "error"))
  BY <1>2, MemberSound, ElementSound, EndsSound DEF Statuses
<1>4. CASE Lexeme(m) = Close(loop)
  <2>1. Sound(Leaves(m))
    BY <1>1, <1>4, LeavesSound DEF Close
  <2> QED BY <1>1, <1>4, <2>1 DEF Turn, Close
<1>5. CASE Lexeme(m) # Close(loop)
  <2>1. Turn(m) \in {Ends(m, "error"), Member(m), Element(m), Member(n), Element(n)}
    BY <1>1, <1>5 DEF Turn
  <2> QED BY <1>3, <2>1
<1> QED BY <1>4, <1>5

\* A step keeps a machine sound, whatever the text.
LEMMA StepSound ==
  ASSUME NEW m \in Machines, Sound(m)
  PROVE  Sound(Step(m))
  BY ParseValueSound, TurnSound DEF Step, Sound, Machines
-----------------------------------------------------------------------------
\* The machine of a session that holds a parser.
LEMMA HeldSound ==
  ASSUME TypeOK, Framed, NEW s \in Sessions, Holds(s)
  PROVE  held[s] \in Parsers /\ machine[held[s]] \in Machines /\ Sound(machine[held[s]])
  BY DEF TypeOK, Framed, Holds, Sound

\* Any change of one machine to a sound one keeps types and frames.
LEMMA ChangeOne ==
  ASSUME TypeOK, Framed, NEW p \in Parsers, NEW m, Sound(m),
         machine' = [machine EXCEPT ![p] = m]
  PROVE  machine' \in [Parsers -> Machines] /\ Framed'
  BY DEF TypeOK, Framed, Sound

LEMMA InitInv == Init => IInv
<1> SUFFICES ASSUME Init PROVE IInv
  OBVIOUS
<1>1. TypeOK /\ Framed
  BY FreshSound DEF Init, TypeOK, Framed, Sound
<1>2. OneOwner /\ PoolClean
  BY DEF Init, OneOwner, PoolClean, Holds
<1> QED BY <1>1, <1>2 DEF IInv

\* The inductive step: types, frames, one owner, and a clean pool.
LEMMA NextInv == IInv /\ [Next]_vars => IInv'
<1> SUFFICES ASSUME IInv, [Next]_vars PROVE IInv'
  OBVIOUS
<1> USE DEF IInv
<1>1. ASSUME NEW s \in Sessions, GetParser(s)
      PROVE  IInv'
  <2>1. PICK p \in Parsers :
          /\ \/ p \in pool /\ UNCHANGED machine
             \/ p \notin pool \cup InUse /\ machine' = [machine EXCEPT ![p] = Fresh]
          /\ held' = [held EXCEPT ![s] = p] /\ pool' = pool \ {p}
    BY <1>1 DEF GetParser, Taken
  <2>2. p \notin {held[t] : t \in Sessions}
    BY <2>1, PoolAssumption DEF OneOwner, InUse
  <2>3. TypeOK' /\ Framed'
    BY <2>1, FreshSound, ChangeOne DEF TypeOK, Framed
  <2>4. OneOwner'
    BY <2>1, <2>2 DEF OneOwner, Holds, TypeOK
  <2>5. PoolClean'
    BY <2>1 DEF PoolClean, TypeOK
  <2> QED BY <2>3, <2>4, <2>5
<1>2. ASSUME NEW s \in Sessions, BeginParse(s)
      PROVE  IInv'
  <2>1. PICK t \in Texts : machine' = [machine EXCEPT ![held[s]] = Parse(machine[held[s]], t)]
    BY <1>2 DEF BeginParse
  <2>2. Sound(Parse(machine[held[s]], t))
    BY <1>2, HeldSound, ParseSound, PoolAssumption DEF BeginParse
  <2>3. TypeOK' /\ Framed'
    BY <1>2, <2>1, <2>2, HeldSound, ChangeOne DEF BeginParse, TypeOK
  <2>4. OneOwner' /\ PoolClean'
    BY <1>2, <2>1 DEF BeginParse, OneOwner, PoolClean, Holds, TypeOK
  <2> QED BY <2>3, <2>4
<1>3. ASSUME NEW s \in Sessions, Work(s)
      PROVE  IInv'
  <2>1. Sound(Step(machine[held[s]]))
    BY <1>3, HeldSound, StepSound DEF Work, Running
  <2>2. TypeOK' /\ Framed'
    BY <1>3, <2>1, HeldSound, ChangeOne DEF Work, Running, TypeOK
  <2>3. OneOwner' /\ PoolClean'
    BY <1>3 DEF Work, OneOwner, PoolClean, Holds, TypeOK
  <2> QED BY <2>2, <2>3
<1>4. ASSUME NEW s \in Sessions, ReturnParser(s)
      PROVE  IInv'
  <2>1. held[s] \in Parsers /\ machine' = [machine EXCEPT ![held[s]] = Fresh]
    BY <1>4, HeldSound, ResetFresh DEF ReturnParser
  <2>2. TypeOK' /\ Framed'
    BY <1>4, <2>1, FreshSound, ChangeOne DEF ReturnParser, TypeOK
  <2>3. OneOwner'
    BY <1>4, <2>1, PoolAssumption DEF ReturnParser, OneOwner, Holds, TypeOK
  <2>4. PoolClean'
    BY <1>4, <2>1 DEF ReturnParser, PoolClean, TypeOK
  <2> QED BY <2>2, <2>3, <2>4
<1>5. ASSUME NEW s \in Sessions, Abandon(s)
      PROVE  IInv'
  <2>1. TypeOK' /\ Framed' /\ PoolClean'
    BY <1>5 DEF Abandon, TypeOK, Framed, PoolClean
  <2>2. OneOwner'
    BY <1>5, PoolAssumption DEF Abandon, OneOwner, Holds, TypeOK
  <2> QED BY <2>1, <2>2
<1>6. ASSUME Collect
      PROVE  IInv'
  BY <1>6 DEF Collect, TypeOK, Framed, OneOwner, PoolClean, Holds
<1>7. CASE UNCHANGED vars
  BY <1>7 DEF vars, TypeOK, Framed, OneOwner, PoolClean, Holds
<1> QED BY <1>1, <1>2, <1>3, <1>4, <1>5, <1>6, <1>7 DEF Next

\* No parser has two owners, and a pooled one is like new.
THEOREM PoolSafe == Spec => []IInv
<1> QED BY InitInv, NextInv, PTL DEF Spec

-----------------------------------------------------------------------------
\* What a session sees: the view of the refinement.
Seen == [s \in Sessions |-> IF Holds(s) THEN machine[held[s]] ELSE None]

\* A step that changes only what session s sees.
LEMMA SeenChange ==
  ASSUME NEW s \in Sessions, NEW m,
         (IF Holds(s) THEN machine[held[s]] ELSE None)' = m,
         \A t \in Sessions \ {s} :
           held'[t] = held[t] /\ (Holds(t) => machine'[held[t]] = machine[held[t]])
  PROVE  Seen' = [Seen EXCEPT ![s] = m]
  BY DEF Seen, Holds

LEMMA SeenHolds ==
  ASSUME IInv, NEW s \in Sessions
  PROVE  /\ Seen[s] = None <=> ~Holds(s)
         /\ Holds(s) => Seen[s] = machine[held[s]]
  BY HeldSound, PoolAssumption DEF Seen, IInv

\* The initial states are the abstract ones, and every step is one or a stutter.
LEMMA StepPrivate == IInv /\ [Next]_vars => [Private!Next]_Seen
<1> SUFFICES ASSUME IInv, [Next]_vars, Seen' # Seen PROVE Private!Next
  OBVIOUS
<1> USE DEF IInv
<1>1. ASSUME NEW s \in Sessions, GetParser(s)
      PROVE  Private!Obtain(s)
  <2>1. PICK p \in Parsers :
          /\ \/ p \in pool /\ UNCHANGED machine
             \/ p \notin pool \cup InUse /\ machine' = [machine EXCEPT ![p] = Fresh]
          /\ held' = [held EXCEPT ![s] = p]
    BY <1>1 DEF GetParser
  <2>2. machine'[p] = Fresh
    BY <2>1 DEF PoolClean, TypeOK
  <2>3. held'[s] = p /\ p # None
    BY <2>1, PoolAssumption DEF TypeOK
  <2>4. \A t \in Sessions \ {s} :
          held'[t] = held[t] /\ (Holds(t) => machine'[held[t]] = machine[held[t]])
    BY <2>1 DEF TypeOK, Holds, InUse
  <2>5. Seen' = [Seen EXCEPT ![s] = Fresh]
    BY <2>2, <2>3, <2>4, SeenChange DEF Holds
  <2> QED BY <1>1, <2>5, SeenHolds DEF GetParser, Private!Obtain, Seen
<1>2. ASSUME NEW s \in Sessions, Holds(s), NEW m,
             machine' = [machine EXCEPT ![held[s]] = m], UNCHANGED held
      PROVE  Seen' = [Seen EXCEPT ![s] = m]
  <2>1. \A t \in Sessions \ {s} :
          held'[t] = held[t] /\ (Holds(t) => machine'[held[t]] = machine[held[t]])
    BY <1>2 DEF TypeOK, OneOwner, Holds
  <2>2. (IF Holds(s) THEN machine[held[s]] ELSE None)' = m
    BY <1>2, HeldSound DEF TypeOK, Holds
  <2> QED BY <2>1, <2>2, SeenChange
<1>3. ASSUME NEW s \in Sessions, BeginParse(s)
      PROVE  Private!Begin(s)
  <2>1. PICK t \in Texts : machine' = [machine EXCEPT ![held[s]] = Parse(machine[held[s]], t)]
    BY <1>3 DEF BeginParse
  <2>2. Seen' = [Seen EXCEPT ![s] = Parse(Seen[s], t)]
    BY <1>2, <1>3, <2>1, SeenHolds DEF BeginParse
  <2> QED BY <1>3, <2>2, SeenHolds DEF BeginParse, Running, Private!Begin, Private!Holds, Seen
<1>4. ASSUME NEW s \in Sessions, Work(s)
      PROVE  Private!Work(s)
  <2>1. Seen' = [Seen EXCEPT ![s] = Step(Seen[s])]
    BY <1>2, <1>4, SeenHolds DEF Work, Running
  <2> QED BY <1>4, <2>1, SeenHolds DEF Work, Running, Private!Work, Private!Holds, Seen
<1>5. ASSUME NEW s \in Sessions, ReturnParser(s) \/ Abandon(s)
      PROVE  Private!Release(s)
  <2>1. held' = [held EXCEPT ![s] = None]
    BY <1>5 DEF ReturnParser, Abandon
  <2>2. (IF Holds(s) THEN machine[held[s]] ELSE None)' = None
    BY <2>1 DEF Holds, TypeOK
  <2>3. \A t \in Sessions \ {s} :
          held'[t] = held[t] /\ (Holds(t) => machine'[held[t]] = machine[held[t]])
    BY <1>5, <2>1 DEF ReturnParser, Abandon, TypeOK, OneOwner, Holds
  <2>4. Seen' = [Seen EXCEPT ![s] = None]
    BY <2>2, <2>3, SeenChange
  <2> QED BY <1>5, <2>4, SeenHolds
          DEF ReturnParser, Abandon, Running, Private!Release, Private!Holds, Seen
<1>6. ASSUME Collect
      PROVE  Seen' = Seen
  BY <1>6 DEF Collect, Seen, Holds
<1>7. CASE UNCHANGED vars
  BY <1>7 DEF vars, Seen, Holds
<1> QED BY <1>1, <1>3, <1>4, <1>5, <1>6, <1>7 DEF Next, Private!Next

\* Every session works on a parser that is new and its own: what the
\* pool and the other sessions do cannot be seen.
THEOREM Transparent == Spec => ImplementsPrivate
<1>1. Init => Private!Init
  BY DEF Init, Private!Init, Holds
<1>2. IInv /\ [Next]_vars => [Private!Next]_Seen
  BY StepPrivate
<1> QED BY <1>1, <1>2, PoolSafe, PTL DEF Spec, ImplementsPrivate, Private!Spec, Seen

---------------------------------------------------------------------------
Opening == {"{", "["}
Closing == {"}", "]"}

LEMMA CountType ==
  ASSUME NEW t, NEW j \in Nat, NEW i \in Nat, NEW B
  PROVE  IsFiniteSet({n \in j..i : t[n] \in B}) /\ Count(t, j, i, B) \in Nat
<1>1. IsFiniteSet(j..i)
  BY FS_Interval
<1> QED BY <1>1, FS_Subset, FS_CardinalityType DEF Count

LEMMA CountEmpty ==
  ASSUME NEW t, NEW i \in Nat, NEW B
  PROVE  Count(t, i + 1, i, B) = 0
<1>1. {n \in (i + 1)..i : t[n] \in B} = {}
  OBVIOUS
<1> QED BY <1>1, FS_EmptySet DEF Count

LEMMA CountNext ==
  ASSUME NEW t, NEW i \in Nat \ {0}, NEW j \in 1..i, NEW B
  PROVE  Count(t, j, i, B) = Count(t, j, i - 1, B) + (IF t[i] \in B THEN 1 ELSE 0)
<1> DEFINE S == {n \in j..(i - 1) : t[n] \in B}
<1>1. IsFiniteSet(S) /\ Cardinality(S) \in Nat
  <2>1. i - 1 \in Nat /\ j \in Nat
    OBVIOUS
  <2>2. IsFiniteSet(S) /\ Count(t, j, i - 1, B) \in Nat
    BY <2>1, CountType
  <2> QED BY <2>2 DEF Count
<1>2. CASE t[i] \in B
  <2>1. {n \in j..i : t[n] \in B} = S \cup {i} /\ i \notin S
    BY <1>2
  <2>2. Cardinality(S \cup {i}) = Cardinality(S) + 1
    BY <1>1, <2>1, FS_AddElement
  <2> QED BY <1>2, <2>1, <2>2 DEF Count
<1>3. CASE t[i] \notin B
  <2>1. {n \in j..i : t[n] \in B} = S
    BY <1>3
  <2>2. Count(t, j, i, B) = Cardinality(S) /\ Count(t, j, i - 1, B) = Cardinality(S)
    BY <2>1 DEF Count
  <2> QED BY <1>1, <1>3, <2>2
<1> QED BY <1>2, <1>3

\* The next position opens or closes a bracket, or neither.
LEMMA OpenNext ==
  ASSUME NEW t, NEW i \in Nat \ {0}
  PROVE  Open(t, i + 1) =
           {j \in Open(t, i) : Count(t, j + 1, i, Closing) <= Count(t, j + 1, i, Opening)}
             \cup (IF t[i] \in Opening THEN {i} ELSE {})
<1>1. \A j \in 1..i :
        (\A k \in (j + 1)..i : Count(t, j + 1, k, Closing) <= Count(t, j + 1, k, Opening))
        <=> /\ \A k \in (j + 1)..(i - 1) : Count(t, j + 1, k, Closing) <= Count(t, j + 1, k, Opening)
            /\ j # i => Count(t, j + 1, i, Closing) <= Count(t, j + 1, i, Opening)
  <2>1. \A j \in 1..(i - 1) : (j + 1)..i = ((j + 1)..(i - 1)) \cup {i}
    OBVIOUS
  <2>2. (i + 1)..i = {} /\ (i + 1)..(i - 1) = {}
    OBVIOUS
  <2> QED BY <2>1, <2>2
<1>2. Open(t, i + 1) =
        {j \in 1..i : /\ t[j] \in Opening
                      /\ \A k \in (j + 1)..i : Count(t, j + 1, k, Closing) <= Count(t, j + 1, k, Opening)}
  <2>1. (i + 1) - 1 = i
    OBVIOUS
  <2> QED BY <2>1 DEF Open, Opening, Closing
<1>3. Open(t, i) =
        {j \in 1..(i - 1) : /\ t[j] \in Opening
                      /\ \A k \in (j + 1)..(i - 1) : Count(t, j + 1, k, Closing) <= Count(t, j + 1, k, Opening)}
  BY DEF Open, Opening, Closing
<1>4. \A k \in (i + 1)..(i - 1) : FALSE
  OBVIOUS
<1> QED BY <1>1, <1>2, <1>3, <1>4

\* o places the frames of the loops in the text: at the brackets still open,
\* outermost first.
Placed(t, i, fs, o) ==
  /\ \A a, b \in DOMAIN fs : a < b => o[a] < o[b]
  /\ \A a \in DOMAIN fs : t[o[a]] = fs[a].loop
  /\ Open(t, i) = {o[a] : a \in DOMAIN fs}
  /\ \A a \in DOMAIN fs :
       Count(t, o[a] + 1, i - 1, Opening) = Count(t, o[a] + 1, i - 1, Closing) + Len(fs) - a
Stacked(t, i, fs) == \E o \in [DOMAIN fs -> 1..(i - 1)] : Placed(t, i, fs, o)

LEMMA StackedEmpty ==
  ASSUME NEW t, NEW i, Stacked(t, i, <<>>)
  PROVE  Open(t, i) = {}
  BY DEF Stacked, Placed

\* The innermost loop is that of the last bracket still open.
LEMMA StackedTop ==
  ASSUME NEW t, NEW i \in Nat \ {0}, NEW fs \in Seq(Frames), fs # <<>>, Stacked(t, i, fs)
  PROVE  Open(t, i) # {} /\ t[Max(Open(t, i))] = fs[Len(fs)].loop
<1>1. PICK o \in [DOMAIN fs -> 1..(i - 1)] : Placed(t, i, fs, o)
  BY DEF Stacked
<1> DEFINE d == Len(fs)
<1>2. d \in DOMAIN fs /\ \A a \in DOMAIN fs : a <= d
  OBVIOUS
<1>3. o[d] \in Open(t, i) /\ \A j \in Open(t, i) : o[d] >= j
  BY <1>1, <1>2 DEF Placed
<1>4. o[d] \in Int /\ \A j \in Open(t, i) : j \in Int
  BY <1>1, <1>2 DEF Placed
<1>5. Max(Open(t, i)) = o[d]
  <2>1. Max(Open(t, i)) \in Open(t, i) /\ \A j \in Open(t, i) : Max(Open(t, i)) >= j
    BY <1>3 DEF Max
  <2> QED BY <1>3, <1>4, <2>1
<1> QED BY <1>1, <1>2, <1>3, <1>5 DEF Placed

\* Only the loops matter, not which turn they are in.
LEMMA StackedLoops ==
  ASSUME NEW t, NEW i, NEW fs \in Seq(Frames), NEW gs \in Seq(Frames), Len(gs) = Len(fs),
         \A a \in DOMAIN fs : gs[a].loop = fs[a].loop, Stacked(t, i, fs)
  PROVE  Stacked(t, i, gs)
<1>1. DOMAIN gs = DOMAIN fs
  OBVIOUS
<1> QED BY <1>1 DEF Stacked, Placed

\* How far the brackets behind j balance, one position on.
LEMMA Balance ==
  ASSUME NEW t, NEW i \in Nat \ {0}, NEW j \in 1..(i - 1), NEW n \in Nat,
         Count(t, j + 1, i - 1, Opening) = Count(t, j + 1, i - 1, Closing) + n
  PROVE  /\ t[i] \in Opening =>
              Count(t, j + 1, i, Opening) = Count(t, j + 1, i, Closing) + n + 1
         /\ t[i] \in Closing =>
              Count(t, j + 1, i, Opening) = Count(t, j + 1, i, Closing) + n - 1
         /\ t[i] \notin Opening \cup Closing =>
              Count(t, j + 1, i, Opening) = Count(t, j + 1, i, Closing) + n
         /\ Count(t, j + 1, i, Opening) \in Nat /\ Count(t, j + 1, i, Closing) \in Nat
<1>1. j + 1 \in 1..i /\ j + 1 \in Nat /\ i - 1 \in Nat /\ i \in Nat
  OBVIOUS
<1>2. /\ Count(t, j + 1, i - 1, Opening) \in Nat /\ Count(t, j + 1, i - 1, Closing) \in Nat
      /\ Count(t, j + 1, i, Opening) \in Nat /\ Count(t, j + 1, i, Closing) \in Nat
  BY <1>1, CountType
<1>3. /\ Count(t, j + 1, i, Opening) = Count(t, j + 1, i - 1, Opening) + (IF t[i] \in Opening THEN 1 ELSE 0)
      /\ Count(t, j + 1, i, Closing) = Count(t, j + 1, i - 1, Closing) + (IF t[i] \in Closing THEN 1 ELSE 0)
  BY <1>1, CountNext
<1>4. Opening \cap Closing = {}
  BY DEF Opening, Closing
<1> QED BY <1>2, <1>3, <1>4

LEMMA StackedSame ==
  ASSUME NEW t, NEW i \in Nat \ {0}, NEW fs \in Seq(Frames), Stacked(t, i, fs),
         t[i] \notin Opening \cup Closing
  PROVE  Stacked(t, i + 1, fs)
<1>1. PICK o \in [DOMAIN fs -> 1..(i - 1)] : Placed(t, i, fs, o)
  BY DEF Stacked
<1>2. \A a \in DOMAIN fs :
        /\ Count(t, o[a] + 1, i, Opening) = Count(t, o[a] + 1, i, Closing) + (Len(fs) - a)
        /\ Count(t, o[a] + 1, i, Opening) \in Nat /\ Count(t, o[a] + 1, i, Closing) \in Nat
  <2> TAKE a \in DOMAIN fs
  <2>1. o[a] \in 1..(i - 1) /\ Len(fs) - a \in Nat
    OBVIOUS
  <2>2. Count(t, o[a] + 1, i - 1, Opening) = Count(t, o[a] + 1, i - 1, Closing) + (Len(fs) - a)
    <3>1. o[a] + 1 \in Nat /\ i - 1 \in Nat
      BY <2>1
    <3>2. Count(t, o[a] + 1, i - 1, Closing) \in Nat
      BY <3>1, CountType
    <3> QED BY <1>1, <3>2 DEF Placed
  <2> QED BY <2>1, <2>2, Balance
<1>3. Open(t, i + 1) = Open(t, i)
  <2>1. \A j \in Open(t, i) : Count(t, j + 1, i, Closing) <= Count(t, j + 1, i, Opening)
    BY <1>1, <1>2 DEF Placed
  <2> QED BY <2>1, OpenNext
<1>4. (i + 1) - 1 = i /\ o \in [DOMAIN fs -> 1..i]
  OBVIOUS
<1>5. Placed(t, i + 1, fs, o)
  BY <1>1, <1>2, <1>3, <1>4 DEF Placed
<1> QED BY <1>4, <1>5 DEF Stacked

LEMMA StackedPush ==
  ASSUME NEW t, NEW i \in Nat \ {0}, NEW fs \in Seq(Frames), Stacked(t, i, fs),
         NEW f \in Frames, t[i] \in Opening, f.loop = t[i]
  PROVE  Stacked(t, i + 1, Append(fs, f))
<1>1. PICK o \in [DOMAIN fs -> 1..(i - 1)] : Placed(t, i, fs, o)
  BY DEF Stacked
<1> DEFINE gs == Append(fs, f)
           d == Len(fs)
           p == [a \in DOMAIN gs |-> IF a = d + 1 THEN i ELSE o[a]]
<1>2. /\ d \in Nat /\ Len(gs) = d + 1 /\ DOMAIN gs = 1..(d + 1) /\ DOMAIN fs = 1..d
      /\ gs[d + 1] = f /\ \A a \in 1..d : gs[a] = fs[a]
      /\ gs \in Seq(Frames)
  OBVIOUS
<1> HIDE DEF gs
<1>3. /\ p[d + 1] = i
      /\ \A a \in 1..d : p[a] = o[a] /\ o[a] \in 1..(i - 1)
      /\ p \in [DOMAIN gs -> 1..i]
  BY <1>2
<1> HIDE DEF p, d
<1>11. /\ \A a, b \in 1..d : a < b => o[a] < o[b]
       /\ \A a \in 1..d : t[o[a]] = fs[a].loop
       /\ Open(t, i) = {o[a] : a \in 1..d}
  BY <1>1, <1>2 DEF Placed
<1>4. \A a \in 1..d :
        /\ Count(t, o[a] + 1, i, Opening) = Count(t, o[a] + 1, i, Closing) + (d + 1) - a
        /\ Count(t, o[a] + 1, i, Opening) \in Nat /\ Count(t, o[a] + 1, i, Closing) \in Nat
  <2> TAKE a \in 1..d
  <2>1. o[a] \in 1..(i - 1) /\ d - a \in Nat
    BY <1>2, <1>3
  <2>2. o[a] + 1 \in Nat /\ i - 1 \in Nat
    BY <2>1
  <2>3. Count(t, o[a] + 1, i - 1, Closing) \in Nat
    BY <2>2, CountType
  <2>4. Count(t, o[a] + 1, i - 1, Opening) = Count(t, o[a] + 1, i - 1, Closing) + (d - a)
    BY <1>1, <1>2, <2>3 DEF Placed, d
  <2> QED BY <1>2, <2>1, <2>4, Balance
<1>5. Count(t, i + 1, i, Opening) = 0 /\ Count(t, i + 1, i, Closing) = 0
  BY CountEmpty
<1>6. Open(t, i + 1) = {p[a] : a \in DOMAIN gs}
  <2>1. \A a \in 1..d : Count(t, o[a] + 1, i, Closing) <= Count(t, o[a] + 1, i, Opening)
    <3> TAKE a \in 1..d
    <3>1. (d + 1) - a \in Nat
      BY <1>2
    <3> QED BY <1>4, <3>1
  <2>2. Open(t, i + 1) = Open(t, i) \cup {i}
    BY <1>11, <2>1, OpenNext
  <2>3. \A a \in 1..(d + 1) : a = d + 1 \/ a \in 1..d
    BY <1>2
  <2>4. \A a \in 1..d : a \in 1..(d + 1)
    BY <1>2
  <2>5. d + 1 \in 1..(d + 1)
    BY <1>2
  <2>6. Open(t, i + 1) = {o[a] : a \in 1..d} \cup {i}
    BY <1>11, <2>2
  <2>7. \A x : x \in {p[a] : a \in 1..(d + 1)} <=> x = i \/ \E a \in 1..d : x = o[a]
    BY <1>3, <2>3, <2>4, <2>5
  <2> QED BY <1>2, <2>6, <2>7
<1>7. (i + 1) - 1 = i
  OBVIOUS
<1>8. Placed(t, i + 1, gs, p)
  <2>1. ASSUME NEW a \in 1..(d + 1), NEW b \in 1..(d + 1), a < b
        PROVE  p[a] < p[b]
    <3>1. a \in 1..d /\ (b = d + 1 \/ b \in 1..d)
      BY <1>2, <2>1
    <3> QED BY <1>3, <1>11, <2>1, <3>1
  <2>2. ASSUME NEW a \in 1..(d + 1)
        PROVE  t[p[a]] = gs[a].loop
    <3>1. a = d + 1 \/ a \in 1..d
      BY <1>2
    <3> QED BY <1>2, <1>3, <1>11, <3>1
  <2>3. ASSUME NEW a \in 1..(d + 1)
        PROVE  Count(t, p[a] + 1, i, Opening) = Count(t, p[a] + 1, i, Closing) + Len(gs) - a
    <3>1. a = d + 1 \/ a \in 1..d
      BY <1>2
    <3>2. CASE a = d + 1
      BY <1>2, <1>3, <1>5, <3>2
    <3>3. CASE a \in 1..d
      BY <1>2, <1>3, <1>4, <3>3
    <3> QED BY <3>1, <3>2, <3>3
  <2> QED BY <1>2, <1>6, <1>7, <2>1, <2>2, <2>3 DEF Placed
<1> QED BY <1>3, <1>7, <1>8 DEF Stacked, gs

LEMMA StackedPop ==
  ASSUME NEW t, NEW i \in Nat \ {0}, NEW fs \in Seq(Frames), fs # <<>>, Stacked(t, i, fs),
         t[i] \in Closing
  PROVE  Stacked(t, i + 1, SubSeq(fs, 1, Len(fs) - 1))
<1>1. PICK o \in [DOMAIN fs -> 1..(i - 1)] : Placed(t, i, fs, o)
  BY DEF Stacked
<1> DEFINE d == Len(fs)
           gs == SubSeq(fs, 1, d - 1)
           p == [a \in DOMAIN gs |-> o[a]]
<1>2. /\ d \in Nat \ {0} /\ Len(gs) = d - 1 /\ DOMAIN gs = 1..(d - 1) /\ DOMAIN fs = 1..d
      /\ \A a \in 1..(d - 1) : gs[a] = fs[a]
  <2>1. d \in Nat \ {0} /\ DOMAIN fs = 1..d
    OBVIOUS
  <2>2. d - 1 \in 0..d
    BY <2>1
  <2>3. /\ gs \in Seq(Frames) /\ Len(gs) = (d - 1) - 1 + 1
        /\ \A a \in 1..((d - 1) - 1 + 1) : gs[a] = fs[1 + a - 1]
    BY <2>1, <2>2, SubSeqProperties
  <2>4. (d - 1) - 1 + 1 = d - 1 /\ \A a \in 1..(d - 1) : 1 + a - 1 = a
    BY <2>1
  <2> QED BY <2>1, <2>3, <2>4
<1> HIDE DEF gs
<1>3. /\ \A a \in 1..(d - 1) : p[a] = o[a]
      /\ p \in [DOMAIN gs -> 1..i]
  BY <1>2
<1> HIDE DEF p, d
<1>11. /\ \A a, b \in 1..d : a < b => o[a] < o[b]
       /\ \A a \in 1..d : t[o[a]] = fs[a].loop
       /\ Open(t, i) = {o[a] : a \in 1..d}
  BY <1>1, <1>2 DEF Placed
<1>4. \A a \in 1..d :
        /\ o[a] \in 1..(i - 1)
        /\ Count(t, o[a] + 1, i, Opening) = Count(t, o[a] + 1, i, Closing) + (d - 1) - a
        /\ Count(t, o[a] + 1, i, Opening) \in Nat /\ Count(t, o[a] + 1, i, Closing) \in Nat
  <2> TAKE a \in 1..d
  <2>1. o[a] \in 1..(i - 1) /\ d - a \in Nat
    BY <1>2
  <2>2. o[a] + 1 \in Nat /\ i - 1 \in Nat
    BY <2>1
  <2>3. Count(t, o[a] + 1, i - 1, Closing) \in Nat
    BY <2>2, CountType
  <2>4. Count(t, o[a] + 1, i - 1, Opening) = Count(t, o[a] + 1, i - 1, Closing) + (d - a)
    BY <1>1, <1>2, <2>3 DEF Placed, d
  <2> QED BY <1>2, <2>1, <2>4, Balance
<1>5. Open(t, i + 1) = {p[a] : a \in DOMAIN gs}
  <2>1. ASSUME NEW a \in 1..d
        PROVE  Count(t, o[a] + 1, i, Closing) <= Count(t, o[a] + 1, i, Opening) <=> a # d
    <3>1. d \in Nat /\ a \in Nat /\ a <= d
      BY <1>2
    <3> QED BY <1>4, <3>1
  <2>2. t[i] \notin Opening
    BY DEF Opening, Closing
  <2>3. Open(t, i + 1) = {j \in Open(t, i) : Count(t, j + 1, i, Closing) <= Count(t, j + 1, i, Opening)}
    BY <2>2, OpenNext
  <2>4. \A a \in 1..d : a # d <=> a \in 1..(d - 1)
    BY <1>2
  <2>5. \A a \in 1..(d - 1) : a \in 1..d
    BY <1>2
  <2>6. \A x : x \in Open(t, i + 1) <=> \E a \in 1..(d - 1) : x = o[a]
    BY <1>11, <2>1, <2>3, <2>4, <2>5
  <2>7. \A x : x \in {p[a] : a \in 1..(d - 1)} <=> \E a \in 1..(d - 1) : x = o[a]
    BY <1>3
  <2> QED BY <1>2, <2>6, <2>7
<1>6. (i + 1) - 1 = i
  OBVIOUS
<1>7. Placed(t, i + 1, gs, p)
  <2>1. \A a \in 1..(d - 1) : a \in 1..d
    BY <1>2
  <2>2. \A a, b \in 1..(d - 1) : a < b => p[a] < p[b]
    BY <1>3, <1>11, <2>1
  <2>3. \A a \in 1..(d - 1) : t[p[a]] = gs[a].loop
    BY <1>2, <1>3, <1>11, <2>1
  <2>4. \A a \in 1..(d - 1) :
          Count(t, p[a] + 1, i, Opening) = Count(t, p[a] + 1, i, Closing) + Len(gs) - a
    BY <1>2, <1>3, <1>4, <2>1
  <2> QED BY <1>2, <1>5, <1>6, <2>2, <2>3, <2>4 DEF Placed
<1> QED BY <1>3, <1>6, <1>7 DEF Stacked, gs, d

---------------------------------------------------------------------------
\* The tokens are those of the part of the text that has been read.
Own(m) ==
  /\ m.pos - 1 \in 0..Len(m.text)
  /\ m.tokens = [i \in 1..(m.pos - 1) |-> KindAt(m.text, i)]

\* A turn begins inside its bracket, or behind a comma or a value; a value
\* that is no key begins the text, or is behind a colon or in an array.
Innermost(m) == m.frames[Len(m.frames)]
Where(m) ==
  IF m.next = "turn" THEN Innermost(m).first => m.pos > 1 /\ m.text[m.pos - 1] = Innermost(m).loop
  ELSE /\ m.ctx # "ObjectKey"
       /\ m.frames # <<>> /\ Innermost(m).loop = "{" => m.pos > 1 /\ m.text[m.pos - 1] = ":"

InLoops(m) == Stacked(m.text, m.pos, m.frames)
Faithful(m) == Own(m) /\ (m.status = "running" => Where(m) /\ InLoops(m))

LEMMA LexemeAt ==
  ASSUME NEW m \in Machines, Lexeme(m) # "end"
  PROVE  m.pos \in 1..Len(m.text) /\ Lexeme(m) = m.text[m.pos] /\ Lexeme(m) \in Lexemes
<1>1. m.pos \in Nat \ {0} /\ m.text \in Seq(Lexemes)
  BY FieldTypes
<1> QED BY <1>1 DEF Lexeme

LEMMA AddTokenFields ==
  ASSUME NEW m \in Machines, NEW k
  PROVE  /\ addToken(m, k).text = m.text /\ addToken(m, k).pos = m.pos + 1
         /\ addToken(m, k).tokens = Append(m.tokens, k) /\ addToken(m, k).frames = m.frames
         /\ addToken(m, k).status = m.status /\ addToken(m, k).ctx = m.ctx
         /\ addToken(m, k).next = m.next /\ addToken(m, k).stack = m.stack
  BY DEF addToken, Machines

LEMMA OwnNext ==
  ASSUME NEW m \in Machines, Own(m), Lexeme(m) # "end", NEW k, k = KindAt(m.text, m.pos)
  PROVE  Own(addToken(m, k))
<1>1. m.pos \in 1..Len(m.text) /\ Len(m.text) \in Nat /\ m.tokens \in Seq(Kinds)
  BY LexemeAt, FieldTypes
<1> DEFINE n == m.pos - 1
           F(i) == KindAt(m.text, i)
<1>2. n \in Nat /\ n + 1 = m.pos /\ m.tokens = [i \in 1..n |-> F(i)] /\ k = F(n + 1)
  BY <1>1 DEF Own
<1>3. Append(m.tokens, k) = [i \in 1..(n + 1) |-> F(i)]
  <2> HIDE DEF F, n
  <2>1. Len(m.tokens) = n /\ DOMAIN m.tokens = 1..n
    BY <1>1, <1>2
  <2>2. /\ Append(m.tokens, k) = [i \in 1..(n + 1) |-> IF i = n + 1 THEN k ELSE m.tokens[i]]
    BY <1>1, <1>2, <2>1
  <2>3. \A i \in 1..(n + 1) : i = n + 1 \/ i \in 1..n
    BY <1>2
  <2> QED BY <1>2, <2>2, <2>3
<1>4. addToken(m, k).pos - 1 = n + 1 /\ n + 1 \in 0..Len(m.text)
  BY <1>1, <1>2, AddTokenFields
<1> QED BY <1>3, <1>4, AddTokenFields DEF Own

LEMMA EndsFaithful ==
  ASSUME NEW m \in Machines, Own(m), NEW x \in {"ok", "error", "panic"}
  PROVE  Faithful(Ends(m, x))
  BY DEF Ends, Machines, Faithful, Own

\* A value has been read.
LEMMA ReturnedFaithful ==
  ASSUME NEW m \in Machines, Own(m), InLoops(m)
  PROVE  Faithful(Returned(m))
<1>1. CASE m.frames = <<>>
  BY <1>1, EndsFaithful DEF Returned
<1>2. CASE m.frames # <<>>
  <2> DEFINE d == Len(m.frames)
             fs == [m.frames EXCEPT ![d].first = FALSE]
             r == Returned(m)
  <2>1. d \in Nat \ {0} /\ d \in DOMAIN m.frames /\ m.frames[d] \in Frames /\ m.frames \in Seq(Frames)
    BY <1>2, FieldTypes
  <2>2. /\ [m.frames[d] EXCEPT !.first = FALSE] \in Frames
        /\ [m.frames[d] EXCEPT !.first = FALSE].loop = m.frames[d].loop
        /\ [m.frames[d] EXCEPT !.first = FALSE].first = FALSE
    BY <2>1 DEF Frames
  <2>3. fs \in Seq(Frames) /\ Len(fs) = d /\ (\A a \in DOMAIN m.frames : fs[a].loop = m.frames[a].loop)
        /\ fs[d].first = FALSE
    <3> DEFINE e == [m.frames[d] EXCEPT !.first = FALSE]
    <3>1. fs = [m.frames EXCEPT ![d] = e]
      OBVIOUS
    <3>2. e \in Frames /\ e.loop = m.frames[d].loop /\ e.first = FALSE
      BY <2>2
    <3> HIDE DEF e, fs
    <3>3. fs \in Seq(Frames) /\ Len(fs) = d /\ fs[d] = e
      BY <2>1, <3>1, <3>2
    <3>4. \A a \in DOMAIN m.frames : a # d => fs[a] = m.frames[a]
      BY <2>1, <3>1
    <3> QED BY <3>2, <3>3, <3>4
  <2>4. /\ r.text = m.text /\ r.pos = m.pos /\ r.tokens = m.tokens
        /\ r.next = "turn" /\ r.frames = fs
    BY <1>2 DEF Returned, Depth, Machines
  <2> HIDE DEF r, fs, d
  <2>5. InLoops(r)
    BY <2>1, <2>3, <2>4, StackedLoops DEF InLoops, d
  <2>6. Where(r)
    BY <2>3, <2>4 DEF Where, Innermost
  <2>7. Own(r)
    BY <2>4 DEF Own
  <2> QED BY <2>5, <2>6, <2>7 DEF Faithful, r
<1> QED BY <1>1, <1>2

\* A key, a string that is none, and the other lexemes.
LEMMA KindOfKey ==
  ASSUME NEW m \in Machines, InLoops(m), m.frames # <<>>, Innermost(m).loop = "{",
         Lexeme(m) = "str", m.text[m.pos - 1] \in {"{", ","}
  PROVE  KindAt(m.text, m.pos) = "key"
<1>1. m.pos \in Nat \ {0} /\ m.frames \in Seq(Frames) /\ m.text[m.pos] = "str"
  BY FieldTypes, LexemeAt
<1>2. Open(m.text, m.pos) # {} /\ m.text[Max(Open(m.text, m.pos))] = "{"
  BY <1>1, StackedTop DEF InLoops, Innermost
<1> QED BY <1>1, <1>2 DEF KindAt, IsKey

LEMMA KindOfValue ==
  ASSUME NEW m \in Machines, InLoops(m), Lexeme(m) = "str",
         m.frames # <<>> /\ Innermost(m).loop = "{" => m.text[m.pos - 1] = ":"
  PROVE  KindAt(m.text, m.pos) = "str"
<1>1. m.pos \in Nat \ {0} /\ m.frames \in Seq(Frames) /\ m.text[m.pos] = "str"
  BY FieldTypes, LexemeAt
<1>2. CASE m.frames = <<>>
  BY <1>1, <1>2, StackedEmpty DEF InLoops, KindAt, IsKey
<1>3. CASE m.frames # <<>>
  <2>1. m.text[Max(Open(m.text, m.pos))] = Innermost(m).loop
    BY <1>1, <1>3, StackedTop DEF InLoops, Innermost
  <2> QED BY <1>1, <1>3, <2>1 DEF KindAt, IsKey
<1> QED BY <1>2, <1>3

LEMMA KindOfOther ==
  ASSUME NEW m \in Machines, Lexeme(m) # "end", Lexeme(m) # "str"
  PROVE  KindAt(m.text, m.pos) = Lexeme(m)
  BY LexemeAt DEF KindAt, IsKey

\* A lexeme that is no bracket has been read.
LEMMA ReadOn ==
  ASSUME NEW m \in Machines, InLoops(m), Lexeme(m) \notin {"end"} \cup Opening \cup Closing, NEW k
  PROVE  InLoops(addToken(m, k))
<1>1. m.text[m.pos] \notin Opening \cup Closing /\ m.pos \in Nat \ {0} /\ m.frames \in Seq(Frames)
  BY LexemeAt, FieldTypes
<1> QED BY <1>1, StackedSame, AddTokenFields DEF InLoops

LEMMA EntersFaithful ==
  ASSUME NEW m \in Machines, Own(m), InLoops(m), NEW loop \in Opening, Lexeme(m) = loop,
         NEW c \in Contexts
  PROVE  Faithful(Enters(m, loop, c))
<1> DEFINE n == addToken(m, loop)
           p == pushContext(n, c)
           f == [loop |-> loop, first |-> TRUE]
           r == Enters(m, loop, c)
<1>1. loop \in Kinds /\ f \in Frames /\ f.loop = loop /\ f.first = TRUE /\ loop \notin {"end", "str"}
  BY DEF Opening, Kinds, Lexemes, Frames
<1>2. n \in Machines /\ Own(n)
  BY <1>1, AddTokenType, OwnNext, KindOfOther
<1>3. p \in Machines /\ p.text = n.text /\ p.pos = n.pos /\ p.tokens = n.tokens /\ p.frames = n.frames
  <2> HIDE DEF n
  <2> QED BY <1>2, PushType DEF pushContext, Machines
<1>4. /\ r.text = m.text /\ r.pos = m.pos + 1 /\ r.tokens = n.tokens
      /\ r.frames = Append(m.frames, f) /\ r.next = "turn"
  <2>1. r = [p EXCEPT !.frames = Append(p.frames, f), !.next = "turn"]
    BY <1>3 DEF Enters, Machines
  <2>2. n.text = m.text /\ n.pos = m.pos + 1 /\ n.frames = m.frames
    BY AddTokenFields
  <2> HIDE DEF r, p, n, f
  <2> QED BY <1>3, <2>1, <2>2 DEF Machines
<1>5. m.frames \in Seq(Frames) /\ m.pos \in Nat \ {0} /\ m.text[m.pos] = loop
  BY <1>1, LexemeAt, FieldTypes
<1> HIDE DEF f
<1>6. InLoops(r)
  <2>1. Stacked(m.text, m.pos + 1, Append(m.frames, f))
    BY <1>1, <1>5, StackedPush DEF InLoops
  <2> QED BY <1>4, <2>1 DEF InLoops
<1>7. Where(r)
  <2>1. Append(m.frames, f)[Len(Append(m.frames, f))] = f
    BY <1>1, <1>5, AppendProperties
  <2>2. r.pos > 1 /\ r.pos - 1 = m.pos
    BY <1>4, <1>5
  <2> HIDE DEF r
  <2> QED BY <1>1, <1>4, <1>5, <2>1, <2>2 DEF Where, Innermost
<1>8. Own(r)
  <2>1. n.text = m.text /\ n.pos = m.pos + 1
    BY AddTokenFields
  <2> HIDE DEF r, n
  <2> QED BY <1>2, <1>4, <2>1 DEF Own
<1> QED BY <1>6, <1>7, <1>8 DEF Faithful

LEMMA ParseValueFaithful ==
  ASSUME NEW m \in Machines, Own(m), InLoops(m), Where(m), m.next = "value"
  PROVE  Faithful(parseValue(m))
<1> DEFINE x == Lexeme(m)
<1>1. CASE x \in Opening
  BY <1>1, EntersFaithful DEF parseValue, Opening, Contexts
<1>2. CASE x = "str"
  <2>1. KindAt(m.text, m.pos) = "str"
    BY <1>2, KindOfValue DEF Where
  <2>2. addToken(m, "str") \in Machines /\ Own(addToken(m, "str")) /\ InLoops(addToken(m, "str"))
    BY <1>2, <2>1, AddTokenType, OwnNext, ReadOn DEF Kinds, Lexemes, Scalars, Opening, Closing
  <2>3. parseValue(m) = Returned(addToken(m, "str"))
    BY <1>2 DEF parseValue, parseString, Where
  <2> QED BY <2>2, <2>3, ReturnedFaithful
<1>3. CASE x \in {"num", "lit"}
  <2>1. addToken(m, x) \in Machines /\ Own(addToken(m, x)) /\ InLoops(addToken(m, x))
    BY <1>3, KindOfOther, AddTokenType, OwnNext, ReadOn DEF Kinds, Lexemes, Scalars, Opening, Closing
  <2>2. parseValue(m) = Returned(addToken(m, x))
    BY <1>3 DEF parseValue
  <2> QED BY <2>1, <2>2, ReturnedFaithful
<1>4. CASE x \notin Opening \cup {"str", "num", "lit"}
  BY <1>4, EndsFaithful DEF parseValue, Opening
<1> QED BY <1>1, <1>2, <1>3, <1>4

LEMMA LeavesFaithful ==
  ASSUME NEW m \in Machines, Own(m), InLoops(m), m.frames # <<>>, Lexeme(m) \in Closing
  PROVE  Faithful(Leaves(m))
<1> DEFINE n == addToken(m, Lexeme(m))
           c == popContext(n)
           gs == SubSeq(m.frames, 1, Len(m.frames) - 1)
           r == [c EXCEPT !.frames = gs]
<1>1. /\ Lexeme(m) \in Kinds /\ Lexeme(m) \notin {"end", "str"}
  BY DEF Closing, Kinds, Lexemes
<1>2. n \in Machines /\ Own(n) /\ n.text = m.text /\ n.pos = m.pos + 1 /\ n.frames = m.frames
  BY <1>1, AddTokenType, AddTokenFields, OwnNext, KindOfOther
<1>3. /\ c \in Machines /\ c.text = n.text /\ c.pos = n.pos /\ c.tokens = n.tokens
      /\ c.frames = n.frames
  <2> HIDE DEF n
  <2>1. c \in Machines /\ c.frames = n.frames
    BY <1>2, PopType
  <2>2. c.text = n.text /\ c.pos = n.pos /\ c.tokens = n.tokens
    BY <1>2 DEF popContext, Machines
  <2> QED BY <2>1, <2>2
<1>4. gs \in Seq(Frames)
  BY FieldTypes, FrontType
<1>5. Leaves(m) = Returned(r)
  BY <1>2, <1>3 DEF Leaves, Depth
<1>6. /\ r \in Machines /\ r.text = m.text /\ r.pos = m.pos + 1 /\ r.tokens = n.tokens
      /\ r.frames = gs
  <2> HIDE DEF n, c, gs
  <2> QED BY <1>2, <1>3, <1>4 DEF Machines
<1> HIDE DEF r
<1>7. Own(r)
  <2> HIDE DEF n
  <2> QED BY <1>2, <1>6 DEF Own
<1>8. InLoops(r)
  <2>1. m.pos \in Nat \ {0} /\ m.frames \in Seq(Frames) /\ m.text[m.pos] \in Closing
    BY <1>1, LexemeAt, FieldTypes
  <2>2. Stacked(m.text, m.pos + 1, gs)
    BY <2>1, StackedPop DEF InLoops
  <2> QED BY <1>6, <2>2 DEF InLoops
<1> QED BY <1>5, <1>6, <1>7, <1>8, ReturnedFaithful

LEMMA OneBack ==
  ASSUME NEW i \in Nat \ {0}, NEW j, j = i + 1
  PROVE  j > 1 /\ j - 1 = i
  OBVIOUS

LEMMA MemberFaithful ==
  ASSUME NEW m \in Machines, Own(m), InLoops(m), m.frames # <<>>, Innermost(m).loop = "{",
         m.text[m.pos - 1] \in {"{", ","}
  PROVE  Faithful(Member(m))
<1> DEFINE e == [m EXCEPT !.ctx = "ObjectKey"]
           n == addToken(e, "key")
           k == parseString(e)
           c == addToken(k, ":")
           r == [c EXCEPT !.ctx = "ObjectValue", !.next = "value"]
<1>1. CASE Lexeme(m) # "str"
  <2>1. Member(m) \in {Ends(m, "panic"), Ends(m, "error")}
    BY <1>1 DEF Member
  <2> QED BY <2>1, EndsFaithful
<1>2. CASE Lexeme(m) = "str"
  <2>1. /\ e \in Machines /\ e.text = m.text /\ e.pos = m.pos /\ e.tokens = m.tokens
        /\ e.frames = m.frames /\ e.ctx = "ObjectKey"
    BY DEF Machines, Contexts
  <2> HIDE DEF e
  <2>2. Own(e) /\ InLoops(e) /\ Lexeme(e) = "str" /\ KindAt(e.text, e.pos) = "key"
    BY <1>2, <2>1, KindOfKey DEF Own, InLoops, Lexeme
  <2>3. n \in Machines /\ Own(n) /\ InLoops(n) /\ n.text = m.text /\ n.frames = m.frames
        /\ n.pos = m.pos + 1
    BY <2>1, <2>2, AddTokenType, AddTokenFields, OwnNext, ReadOn, ZenonT(60)
       DEF Kinds, Lexemes, Scalars, Opening, Closing
  <2>4. k = [n EXCEPT !.keys = n.keys + 1]
    BY <2>1, <2>3 DEF parseString, Machines
  <2> HIDE DEF n
  <2>5. /\ k.text = n.text /\ k.pos = n.pos /\ k.tokens = n.tokens /\ k.frames = n.frames
    BY <2>3, <2>4 DEF Machines
  <2>6. k \in Machines
    BY <2>1, ParseStringType
  <2> HIDE DEF k
  <2>7. Own(k) /\ InLoops(k)
    BY <2>3, <2>5 DEF Own, InLoops
  <2>8. CASE Lexeme(k) # ":"
    <3>1. Member(m) = Ends(k, "error")
      BY <1>2, <2>8 DEF Member, e, k
    <3> QED BY <2>6, <2>7, <3>1, EndsFaithful
  <2>9. CASE Lexeme(k) = ":"
    <3>1. KindAt(k.text, k.pos) = ":"
      BY <2>6, <2>9, KindOfOther
    <3>2. c \in Machines /\ Own(c) /\ InLoops(c) /\ c.text = k.text /\ c.pos = k.pos + 1
      BY <2>6, <2>7, <2>9, <3>1, AddTokenType, AddTokenFields, OwnNext, ReadOn
         DEF Kinds, Lexemes, Scalars, Opening, Closing
    <3>3. Member(m) = r
      BY <1>2, <2>9 DEF Member, e, k
    <3> HIDE DEF c
    <3>4. /\ r.text = c.text /\ r.pos = c.pos /\ r.tokens = c.tokens /\ r.frames = c.frames
          /\ r.ctx = "ObjectValue" /\ r.next = "value"
      BY <3>2 DEF Machines
    <3> HIDE DEF r
    <3>5. k.pos \in Nat \ {0} /\ k.text[k.pos] = ":"
      BY <2>6, <2>9, LexemeAt, FieldTypes
    <3>6. r.pos > 1 /\ r.text[r.pos - 1] = ":"
      <4>1. r.pos > 1 /\ r.pos - 1 = k.pos
        BY <3>2, <3>4, <3>5, OneBack, ZenonT(60)
      <4> QED BY <3>2, <3>4, <3>5, <4>1
    <3>7. Where(r)
      BY <3>4, <3>6 DEF Where
    <3>8. Own(r) /\ InLoops(r)
      BY <3>2, <3>4 DEF Own, InLoops
    <3> QED BY <3>3, <3>7, <3>8 DEF Faithful
  <2> QED BY <2>8, <2>9
<1> QED BY <1>1, <1>2

LEMMA ElementFaithful ==
  ASSUME NEW m \in Machines, Own(m), InLoops(m), m.frames # <<>>, Innermost(m).loop = "["
  PROVE  Faithful(Element(m))
<1> DEFINE r == Element(m)
<1>1. /\ r.text = m.text /\ r.pos = m.pos /\ r.tokens = m.tokens /\ r.frames = m.frames
      /\ r.ctx = "ArrayValue" /\ r.next = "value"
  BY DEF Element, Machines
<1> HIDE DEF r
<1> QED BY <1>1 DEF r, Faithful, Own, InLoops, Where, Innermost

LEMMA TurnFaithful ==
  ASSUME NEW m \in Machines, Own(m), InLoops(m), Where(m), m.next = "turn", m.frames # <<>>
  PROVE  Faithful(Turn(m))
<1> DEFINE f == m.frames[Depth(m)]
           n == addToken(m, ",")
<1>1. f = Innermost(m) /\ f.loop \in {"{", "["} /\ f.first \in BOOLEAN
  <2>1. f \in Frames
    BY FieldTypes DEF Depth
  <2> QED BY <2>1 DEF Frames, Depth, Innermost
<1>2. CASE Lexeme(m) = Close(f.loop)
  <2>1. Turn(m) = Leaves(m)
    BY <1>2 DEF Turn
  <2>2. Lexeme(m) \in Closing
    BY <1>1, <1>2 DEF Close, Closing
  <2> QED BY <2>1, <2>2, LeavesFaithful
<1>3. CASE Lexeme(m) # Close(f.loop) /\ f.first /\ Lexeme(m) # "end"
  <2>1. m.text[m.pos - 1] = f.loop
    BY <1>1, <1>3 DEF Where
  <2>2. Turn(m) = IF f.loop = "{" THEN Member(m) ELSE Element(m)
    BY <1>3 DEF Turn
  <2> QED BY <1>1, <2>1, <2>2, MemberFaithful, ElementFaithful
<1>4. CASE Lexeme(m) # Close(f.loop) /\ ~f.first /\ Lexeme(m) = ","
  <2>1. Turn(m) = IF f.loop = "{" THEN Member(n) ELSE Element(n)
    BY <1>4 DEF Turn
  <2>2. KindAt(m.text, m.pos) = "," /\ m.pos \in Nat \ {0} /\ m.text[m.pos] = ","
    BY <1>4, KindOfOther, LexemeAt, FieldTypes
  <2>3. n \in Machines /\ Own(n) /\ InLoops(n)
    BY <1>4, <2>2, AddTokenType, OwnNext, ReadOn DEF Kinds, Lexemes, Scalars, Opening, Closing
  <2>4. n.frames = m.frames /\ n.text = m.text /\ n.pos = m.pos + 1
    BY AddTokenFields
  <2>5. n.pos - 1 = m.pos
    <3> HIDE DEF n
    <3> QED BY <2>2, <2>4, OneBack
  <2>6. n.text[n.pos - 1] = "," /\ Innermost(n) = f
    BY <1>1, <2>2, <2>4, <2>5 DEF Innermost
  <2> HIDE DEF n
  <2> QED BY <1>1, <2>1, <2>3, <2>4, <2>6, MemberFaithful, ElementFaithful
<1>5. CASE Lexeme(m) # Close(f.loop) /\ ~(f.first /\ Lexeme(m) # "end") /\ ~(~f.first /\ Lexeme(m) = ",")
  <2>1. Turn(m) = Ends(m, "error")
    BY <1>5 DEF Turn
  <2> QED BY <2>1, EndsFaithful
<1> QED BY <1>1, <1>2, <1>3, <1>4, <1>5

\* A step of a running parse stays with the text.
LEMMA StepFaithful ==
  ASSUME NEW m \in Machines, Sound(m), Faithful(m), m.status = "running"
  PROVE  Faithful(Step(m))
  BY ParseValueFaithful, TurnFaithful DEF Step, Sound, Faithful, Machines

LEMMA FreshFaithful == Faithful(Fresh)
  BY DEF Faithful, Own, Fresh

LEMMA ParseFaithful ==
  ASSUME NEW m \in Machines, NEW t \in Seq(Lexemes)
  PROVE  Faithful(Parse(m, t))
<1> DEFINE r == Parse(m, t)
<1>1. /\ r.text = t /\ r.pos = 1 /\ r.tokens = <<>> /\ r.frames = <<>>
      /\ r.ctx = "Value" /\ r.next = "value"
  BY DEF Parse, Machines
<1> HIDE DEF r
<1>2. Own(r)
  <2>1. 1 - 1 \in 0..Len(t) /\ 1..(1 - 1) = {}
    OBVIOUS
  <2> QED BY <1>1, <2>1 DEF Own
<1>3. Where(r)
  BY <1>1 DEF Where
<1>4. InLoops(r)
  <2>1. Open(t, 1) = {}
    BY DEF Open
  <2>2. Placed(t, 1, <<>>, <<>>) /\ <<>> \in [DOMAIN <<>> -> 1..(1 - 1)]
    BY <2>1 DEF Placed
  <2> QED BY <1>1, <2>2 DEF InLoops, Stacked
<1> QED BY <1>2, <1>3, <1>4 DEF Faithful, r

\* Every parser is faithful to the text it was last given.
AllFaithful == \A p \in Parsers : Faithful(machine[p])

LEMMA FaithfulInit == Init => AllFaithful
  BY FreshFaithful DEF Init, AllFaithful

LEMMA FaithfulOne ==
  ASSUME TypeOK, AllFaithful, NEW p \in Parsers, NEW m, Faithful(m),
         machine' = [machine EXCEPT ![p] = m]
  PROVE  AllFaithful'
  BY DEF TypeOK, AllFaithful

LEMMA FaithfulNext == IInv /\ AllFaithful /\ [Next]_vars => AllFaithful'
<1> SUFFICES ASSUME IInv, AllFaithful, [Next]_vars PROVE AllFaithful'
  OBVIOUS
<1> USE DEF IInv
<1>1. ASSUME NEW s \in Sessions, GetParser(s)
      PROVE  AllFaithful'
  <2>1. PICK p \in Parsers : UNCHANGED machine \/ machine' = [machine EXCEPT ![p] = Fresh]
    BY <1>1 DEF GetParser
  <2>2. CASE UNCHANGED machine
    BY <2>2 DEF AllFaithful
  <2>3. CASE machine' = [machine EXCEPT ![p] = Fresh]
    BY <2>3, FreshFaithful, FaithfulOne
  <2> QED BY <2>1, <2>2, <2>3
<1>2. ASSUME NEW s \in Sessions, BeginParse(s)
      PROVE  AllFaithful'
  <2>1. PICK t \in Texts : machine' = [machine EXCEPT ![held[s]] = Parse(machine[held[s]], t)]
    BY <1>2 DEF BeginParse
  <2>2. held[s] \in Parsers /\ Faithful(Parse(machine[held[s]], t))
    BY <1>2, HeldSound, ParseFaithful, PoolAssumption DEF BeginParse
  <2> QED BY <2>1, <2>2, FaithfulOne
<1>3. ASSUME NEW s \in Sessions, Work(s)
      PROVE  AllFaithful'
  <2>1. /\ held[s] \in Parsers /\ machine[held[s]].status = "running"
        /\ machine' = [machine EXCEPT ![held[s]] = Step(machine[held[s]])]
    BY <1>3, HeldSound DEF Work, Running
  <2>2. Faithful(Step(machine[held[s]]))
    BY <1>3, <2>1, HeldSound, StepFaithful DEF AllFaithful, Work, Running
  <2> QED BY <2>1, <2>2, FaithfulOne
<1>4. ASSUME NEW s \in Sessions, ReturnParser(s)
      PROVE  AllFaithful'
  <2>1. held[s] \in Parsers /\ machine' = [machine EXCEPT ![held[s]] = Fresh]
    BY <1>4, HeldSound, ResetFresh DEF ReturnParser
  <2> QED BY <2>1, FreshFaithful, FaithfulOne
<1>5. CASE Collect \/ \E s \in Sessions : Abandon(s)
  BY <1>5 DEF Collect, Abandon, AllFaithful
<1>6. CASE UNCHANGED vars
  BY <1>6 DEF vars, AllFaithful
<1> QED BY <1>1, <1>2, <1>3, <1>4, <1>5, <1>6 DEF Next

LEMMA FaithfulOwn == IInv /\ AllFaithful => OwnTokens
  BY HeldSound DEF IInv, AllFaithful, OwnTokens, Faithful, Own

\* The tokens a session reads are those of its own text, whatever the other
\* sessions and the earlier parses did.
THEOREM TokensExact == Spec => []OwnTokens
<1> QED BY InitInv, NextInv, FaithfulInit, FaithfulNext, FaithfulOwn, PTL DEF Spec
=============================================================================
