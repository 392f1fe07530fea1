-------------------------- MODULE ValidationProofs --------------------------
(***************************************************************************)
(* One synchronous call, for every finite or infinite collection of        *)
(* schemas that nest to a finite depth, all data, and all verdicts of      *)
(* custom validators.  Every claim is about the recursive definitions of    *)
(* Validation.  They satisfy their equations because a schema is built     *)
(* of less deep ones; what holds at every schema is proved at one of least  *)
(* depth among the counterexamples, from its rules and the claim at those  *)
(* below it.  The invariant of the specification (Called) only ties the    *)
(* errors of a call to the rules that it ran.                              *)
(***************************************************************************)
EXTENDS Validation, Recursion

(* What GraphAssumption says, part by part.                                *)
LEMMA DataFacts ==
  /\ None \notin Schemas /\ None \notin Data /\ Failed \notin Data
  /\ One \in Nat /\ One # 0 /\ MaxInt64 \in Nat
  /\ \A v \in Data :
       /\ Of[v].num \in Nat /\ Items(v) \in Seq(Data)
       /\ \A f \in DOMAIN Fields(v) : Fields(v)[f] \in Data
       /\ \A i \in DOMAIN Items(v) : Items(v)[i] \in Data /\ i \in DOMAIN Positions
<1>1. \A v \in Data : Range(Fields(v)) \subseteq Data /\ Items(v) \in Seq(Data)
                      /\ DOMAIN Items(v) \subseteq DOMAIN Positions /\ Of[v].num \in Nat
  BY GraphAssumption
<1>2. \A v \in Data : \A f \in DOMAIN Fields(v) : Fields(v)[f] \in Data
  BY <1>1 DEF Range
<1>3. \A v \in Data : \A i \in DOMAIN Items(v) : Items(v)[i] \in Data /\ i \in DOMAIN Positions
  BY <1>1
<1> QED BY <1>1, <1>2, <1>3, GraphAssumption

LEMMA SchemaFacts ==
  /\ \A s \in Schemas : Kind(s) \in Kinds /\ Subs(s) \subseteq Schemas
  /\ \A s \in Schemas : \A t \in Subs(s) :
       Depth[t] < Depth[s] /\ (Kind(t) = "dependent" => Kind(s) = "dependencies")
  /\ Depth \in [Schemas -> Nat]
  BY GraphAssumption

(* The parts of each kind of schema are among its Subs.                    *)
LEMMA SubsAre ==
  ASSUME NEW s \in Schemas
  PROVE  /\ IsObject(s) => \A f \in DOMAIN Def[s].fields : Def[s].fields[f] \in Subs(s)
         /\ Kind(s) = "array" /\ Def[s].elem # None => Def[s].elem \in Subs(s)
         /\ Kind(s) \in {"and", "or"} => Def[s].subs \subseteq Subs(s)
         /\ Kind(s) \in {"not", "transform"} => Def[s].sub \in Subs(s)
         /\ Kind(s) = "dependent" => {Def[s].then, Def[s].else} \ {None} \subseteq Subs(s)
<1>1. IsObject(s) => Subs(s) = Range(Def[s].fields)
  BY DEF Subs, IsObject
<1>2. IsObject(s) => \A f \in DOMAIN Def[s].fields : Def[s].fields[f] \in Subs(s)
  BY <1>1 DEF Range
<1>3. ~IsObject(s) => Subs(s) = CASE Kind(s) = "array" -> {Def[s].elem} \ {None}
    [] Kind(s) \in {"and", "or"} -> Def[s].subs
    [] Kind(s) \in {"not", "transform"} -> {Def[s].sub}
    [] Kind(s) = "dependent" -> {Def[s].then, Def[s].else} \ {None}
    [] OTHER -> {}
  BY DEF Subs, IsObject
<1> QED BY <1>2, <1>3 DEF IsObject

---------------------------------------------------------------------------
(* The recursive definitions satisfy their equations, since each asks only *)
(* for schemas that nest less deep.                                        *)
LEMMA PartsEquation ==
  \A s \in Schemas : /\ PartsOf[s] = {s} \cup UNION {PartsOf[t] : t \in Subs(s)}
                     /\ PartsOf[s] \subseteq Schemas
<1> DEFINE V == SUBSET Schemas
           F == [g \in [Schemas -> V] |-> [s \in Schemas |-> {s} \cup UNION {g[t] : t \in Subs(s)}]]
<1>1. F \in [[Schemas -> V] -> [Schemas -> V]]
  <2>1. \A g \in [Schemas -> V], s \in Schemas : {s} \cup UNION {g[t] : t \in Subs(s)} \in V
    <3> TAKE g \in [Schemas -> V], s \in Schemas
    <3>1. \A t \in Subs(s) : g[t] \subseteq Schemas
      BY SchemaFacts
    <3> QED BY <3>1
  <2> QED BY <2>1
<1>2. ASSUME NEW g \in [Schemas -> V], NEW h \in [Schemas -> V], NEW s \in Schemas,
             \A t \in Schemas : Depth[t] < Depth[s] => g[t] = h[t]
      PROVE  F[g][s] = F[h][s]
  <2>1. \A t \in Subs(s) : g[t] = h[t]
    BY <1>2, SchemaFacts
  <2> QED BY <2>1
<1>3. Descends(Schemas, V, Depth, F)
  BY <1>1, <1>2, SchemaFacts DEF Descends
<1>4. PICK g \in [Schemas -> V] : g = F[g]
  <2> HIDE DEF V, F
  <2> QED BY <1>3, FixedPoint
<1>5. g = [s \in Schemas |-> {s} \cup UNION {g[t] : t \in Subs(s)}]
  BY <1>4
<1> DEFINE e == PartsOf
<1>6. e = [s \in Schemas |-> {s} \cup UNION {e[t] : t \in Subs(s)}]
  <2> DEFINE Sol(h) == h = [s \in Schemas |-> {s} \cup UNION {h[t] : t \in Subs(s)}]
  <2>1. \E h : Sol(h)
    BY <1>5
  <2> HIDE DEF e
  <2>2. e = CHOOSE h : Sol(h)
    BY Zenon DEF e, PartsOf
  <2>3. Sol(e)
    <3> HIDE DEF Sol
    <3> QED BY <2>1, <2>2
  <2> QED BY <2>3
<1> HIDE DEF e, F, V
<1>7. \A s \in Schemas : e[s] = g[s]
  <2> DEFINE B == {s \in Schemas : e[s] # g[s]}
  <2>1. SUFFICES ASSUME B # {} PROVE FALSE
    OBVIOUS
  <2>2. PICK s \in B : \A t \in B : Depth[s] <= Depth[t]
    BY <2>1, SchemaFacts, LeastRank
  <2>3. \A t \in Subs(s) : t \in Schemas /\ ~(Depth[s] <= Depth[t])
    BY <2>2, SchemaFacts
  <2>4. \A t \in Subs(s) : e[t] = g[t]
    BY <2>2, <2>3
  <2>5. UNION {e[t] : t \in Subs(s)} = UNION {g[t] : t \in Subs(s)}
    BY <2>4
  <2>6. e[s] = {s} \cup UNION {e[t] : t \in Subs(s)} /\ g[s] = {s} \cup UNION {g[t] : t \in Subs(s)}
    BY <2>2, <1>5, <1>6
  <2> QED BY <2>2, <2>5, <2>6
<1>8. \A s \in Schemas : e[s] \subseteq Schemas
  BY <1>4, <1>7 DEF V
<1>9. \A s \in Schemas : e[s] = {s} \cup UNION {e[t] : t \in Subs(s)}
  BY <1>6
<1> QED BY <1>8, <1>9 DEF e

(* A schema is one of its parts, and has those of the schemas it is built   *)
(* from.                                                                    *)
LEMMA PartsClosed ==
  ASSUME NEW s \in Schemas
  PROVE  s \in PartsOf[s] /\ \A t \in Subs(s) : PartsOf[t] \subseteq PartsOf[s]
  BY PartsEquation

(* No schema is a part of what it is built from.                           *)
LEMMA PartsShallow ==
  \A s \in Schemas : \A t \in PartsOf[s] : t \in Schemas /\ Depth[t] <= Depth[s]
<1> DEFINE B == {s \in Schemas : ~ \A t \in PartsOf[s] : Depth[t] <= Depth[s]}
<1>1. SUFFICES ASSUME B # {} PROVE FALSE
  BY PartsEquation
<1>2. PICK s \in B : \A t \in B : Depth[s] <= Depth[t]
  BY <1>1, SchemaFacts, LeastRank
<1>3. PICK t \in PartsOf[s] : ~(Depth[t] <= Depth[s])
  BY <1>2
<1>4. t \in Schemas /\ t # s /\ Depth[s] \in Nat /\ Depth[t] \in Nat
  BY <1>2, <1>3, PartsEquation, SchemaFacts
<1>5. PICK u \in Subs(s) : t \in PartsOf[u]
  BY <1>2, <1>4, PartsEquation
<1>6. u \in Schemas /\ Depth[u] < Depth[s] /\ Depth[u] \in Nat
  BY <1>2, SchemaFacts
<1>7. u \notin B
  BY <1>2, <1>4, <1>6
<1>8. Depth[t] <= Depth[u]
  BY <1>5, <1>6, <1>7
<1> QED BY <1>3, <1>4, <1>6, <1>8

(* A part of a part is a part.                                              *)
LEMMA PartsNest ==
  \A s \in Schemas : \A t \in PartsOf[s] : PartsOf[t] \subseteq PartsOf[s]
<1> DEFINE B == {s \in Schemas : ~ \A t \in PartsOf[s] : PartsOf[t] \subseteq PartsOf[s]}
<1>1. SUFFICES ASSUME B # {} PROVE FALSE
  OBVIOUS
<1>2. PICK s \in B : \A t \in B : Depth[s] <= Depth[t]
  BY <1>1, SchemaFacts, LeastRank
<1>3. PICK t \in PartsOf[s] : ~(PartsOf[t] \subseteq PartsOf[s])
  BY <1>2
<1>4. PICK u \in Subs(s) : t \in PartsOf[u]
  BY <1>2, <1>3, PartsEquation
<1>5. u \in Schemas /\ PartsOf[u] \subseteq PartsOf[s] /\ Depth[u] < Depth[s]
      /\ Depth[u] \in Nat /\ Depth[s] \in Nat
  BY <1>2, SchemaFacts, PartsClosed
<1>6. ~(Depth[s] <= Depth[u])
  BY <1>5
<1>7. u \notin B
  BY <1>2, <1>6
<1>8. PartsOf[t] \subseteq PartsOf[u]
  BY <1>4, <1>5, <1>7
<1> QED BY <1>3, <1>5, <1>8

(* IsRequired is what its equation says, and a truth value.                 *)
LEMMA RequiredEquation ==
  \A s \in Schemas :
    /\ IsRequired[s] \in BOOLEAN
    /\ IsRequired[s] <=> Def[s].required \/ (Kind(s) = "transform" /\ IsRequired[Def[s].sub])
<1> DEFINE Body(g, s) == Def[s].required \/ (Kind(s) = "transform" /\ g[Def[s].sub])
           F == [g \in [Schemas -> BOOLEAN] |-> [s \in Schemas |-> Body(g, s)]]
<1>0. \A s \in Schemas : Kind(s) = "transform" => Def[s].sub \in Schemas /\ Depth[Def[s].sub] < Depth[s]
  BY SubsAre, SchemaFacts
<1>1. F \in [[Schemas -> BOOLEAN] -> [Schemas -> BOOLEAN]]
  <2>1. \A g \in [Schemas -> BOOLEAN], s \in Schemas : Body(g, s) \in BOOLEAN
    OBVIOUS
  <2> HIDE DEF Body
  <2> QED BY <2>1
<1>2. ASSUME NEW g \in [Schemas -> BOOLEAN], NEW h \in [Schemas -> BOOLEAN], NEW s \in Schemas,
             \A t \in Schemas : Depth[t] < Depth[s] => g[t] = h[t]
      PROVE  F[g][s] = F[h][s]
  <2>1. Kind(s) = "transform" => g[Def[s].sub] = h[Def[s].sub]
    BY <1>0, <1>2
  <2>2. Body(g, s) = Body(h, s)
    BY <2>1
  <2> HIDE DEF Body
  <2> QED BY <2>2
<1>3. Descends(Schemas, BOOLEAN, Depth, F)
  <2> HIDE DEF F
  <2> QED BY <1>1, <1>2, SchemaFacts DEF Descends
<1>4. PICK g \in [Schemas -> BOOLEAN] : g = F[g]
  <2> HIDE DEF F
  <2> QED BY <1>3, FixedPoint
<1>5. g = [s \in Schemas |-> Def[s].required \/ (Kind(s) = "transform" /\ g[Def[s].sub])]
  BY <1>4
<1> DEFINE e == IsRequired
<1>6. e = [s \in Schemas |-> Def[s].required \/ (Kind(s) = "transform" /\ e[Def[s].sub])]
  <2>1. \E h : h = [s \in Schemas |-> Def[s].required \/ (Kind(s) = "transform" /\ h[Def[s].sub])]
    BY <1>5
  <2> HIDE DEF e
  <2>2. e = CHOOSE h : h = [s \in Schemas |-> Def[s].required \/ (Kind(s) = "transform" /\ h[Def[s].sub])]
    BY Zenon DEF e, IsRequired
  <2> QED BY <2>1, <2>2
<1> HIDE DEF e, F
<1>7. \A s \in Schemas : e[s] = Body(e, s) /\ Body(e, s) \in BOOLEAN
  BY <1>6
<1> QED BY <1>7 DEF e

---------------------------------------------------------------------------
(* The errors there can be.                                                *)
Errors == [at : Paths, why : Whys]
Segs == Names \cup Range(Positions)

(* Errors made here, for one reason, put one level up.                      *)
LEMMA ErrType == \A why \in Whys : Err(why) \in SUBSET Errors
<1>1. <<>> \in Paths
  BY DEF Paths
<1> QED BY <1>1 DEF Err, Errors

LEMMA FailsType == \A why \in Whys : \A cond : Fails(why, cond) \in SUBSET Errors
  BY ErrType DEF Fails

LEMMA CustomType == \A s, x : CustomErrs(s, x) \in SUBSET Errors
<1>1. "custom" \in Whys
  BY DEF Whys
<1> QED BY <1>1, ErrType DEF CustomErrs, Fails

LEMMA AtType ==
  ASSUME NEW seg \in Segs, NEW errs \in SUBSET Errors
  PROVE  At(seg, errs) \in SUBSET Errors
<1>1. ASSUME NEW e \in errs
      PROVE  [e EXCEPT !.at = <<seg>> \o @] \in Errors
  <2>1. e \in Errors /\ e.at \in Seq(Segs) /\ <<seg>> \in Seq(Segs)
    BY DEF Errors, Paths, Segs
  <2>2. <<seg>> \o e.at \in Paths
    <3> DEFINE one == <<seg>>
               p == e.at
    <3>1. one \in Seq(Segs) /\ p \in Seq(Segs)
      BY <2>1
    <3> HIDE DEF one, p
    <3>2. one \o p \in Seq(Segs)
      BY <3>1, ConcatProperties
    <3> QED BY <3>2 DEF one, p, Paths, Segs
  <2> QED BY <2>1, <2>2 DEF Errors
<1> QED BY <1>1 DEF At

(* Field names and positions are what paths are made of.                    *)
LEMMA NamesAre ==
  /\ \A v \in Data : DOMAIN Fields(v) \subseteq Names
  /\ \A s \in Schemas : IsObject(s) => Def[s].requiredFields \cup DOMAIN Def[s].fields \subseteq Names
  BY DEF Names

LEMMA SegsAre ==
  /\ Names \subseteq Segs
  /\ \A v \in Data : \A i \in DOMAIN Items(v) : Segment(i) \in Segs
  BY DataFacts DEF Segs, Segment, Range

(* sub gives the errors of every schema.                                   *)
Sound(sub) == sub \in [Schemas -> [Data -> SUBSET Errors]]

(* The errors of each kind of schema are errors, if those of its parts are. *)
LEMMA FieldErrsType ==
  ASSUME NEW s \in Schemas, NEW v \in Data, IsObject(s), NEW sub, Sound(sub)
  PROVE  FieldErrs(s, v, sub) \in SUBSET Errors
<1>1. \A f \in Present(s, v) : f \in Segs /\ Def[s].fields[f] \in Schemas /\ Fields(v)[f] \in Data
  BY SubsAre, SchemaFacts, DataFacts, NamesAre, SegsAre DEF Present
<1>2. \A f \in Present(s, v) : sub[Def[s].fields[f]][Fields(v)[f]] \in SUBSET Errors
  BY <1>1 DEF Sound
<1> QED BY <1>1, <1>2, AtType DEF FieldErrs

LEMMA AtEachType ==
  ASSUME NEW S \in SUBSET Segs, NEW why \in Whys
  PROVE  AtEach(S, why) \in SUBSET Errors
  BY ErrType, AtType DEF AtEach

LEMMA ObjectErrsType ==
  ASSUME NEW m \in Modes, NEW s \in Schemas, NEW v \in Data, IsObject(s), NEW sub, Sound(sub)
  PROVE  /\ ObjectErrs(m, s, v, sub) \in SUBSET Errors
         /\ TransformObjectErrs(m, s, v, sub) \in SUBSET Errors
<1>1. \A S \in {Missing(s, v), MissingFields(s, v), Rejected(m, s, v)} : S \in SUBSET Segs
  <2>1. DOMAIN Fields(v) \subseteq Segs /\ Def[s].requiredFields \subseteq Segs /\ DOMAIN Def[s].fields \subseteq Segs
    BY NamesAre, SegsAre
  <2> QED BY <2>1 DEF Missing, MissingFields, Rejected, Extra
<1>2. \A why \in {"missing", "extra", "type", "required", "null"} :
        why \in Whys /\ Err(why) \in SUBSET Errors
  BY ErrType DEF Whys
<1>3. /\ AtEach(Missing(s, v), "missing") \in SUBSET Errors
      /\ AtEach(MissingFields(s, v), "missing") \in SUBSET Errors
      /\ AtEach(Rejected(m, s, v), "extra") \in SUBSET Errors
  BY <1>1, <1>2, AtEachType
<1>4. CheckRequired(s) \in SUBSET Errors
  BY <1>2 DEF CheckRequired, Fails
<1> QED BY <1>2, <1>3, <1>4, FieldErrsType, CustomType DEF ObjectErrs, TransformObjectErrs

LEMMA ArrayErrsType ==
  ASSUME NEW s \in Schemas, NEW v \in Data, Kind(s) = "array", NEW sub, Sound(sub)
  PROVE  ArrayErrs(s, v, sub) \in SUBSET Errors
<1>1. Def[s].elem # None => Def[s].elem \in Schemas
  BY SubsAre, SchemaFacts
<1>2. ASSUME Def[s].elem # None
      PROVE  \A i \in DOMAIN Items(v) : At(Segment(i), sub[Def[s].elem][Items(v)[i]]) \in SUBSET Errors
  BY <1>1, <1>2, DataFacts, SegsAre, AtType DEF Sound
<1>3. ItemErrs(s, v, sub) \in SUBSET Errors
  BY <1>2 DEF ItemErrs
<1>4. \A why \in {"type", "items", "unique"} : Err(why) \in SUBSET Errors
  BY ErrType DEF Whys
<1> QED BY <1>3, <1>4, CustomType DEF ArrayErrs, Fails

LEMMA DependentErrsType ==
  ASSUME NEW s \in Schemas, NEW v \in Data, Kind(s) = "dependencies", NEW sub, Sound(sub)
  PROVE  DependentErrs(s, v, sub) \in SUBSET Errors
<1>1. ASSUME NEW f \in Dependents(s)
      PROVE  f \in Segs /\ DependentErrsAt(f, s, v, sub) \in SUBSET Errors
  <2> DEFINE d == Def[s].fields[f]
  <2>1. d \in Schemas /\ Kind(d) = "dependent" /\ f \in Segs
    BY SubsAre, SchemaFacts, NamesAre, SegsAre DEF Dependents, IsObject
  <2>2. Chosen(d, v) # None => Chosen(d, v) \in Schemas
    <3> HIDE DEF d
    <3> QED BY <2>1, SubsAre, SchemaFacts DEF Chosen
  <2>3. f \in DOMAIN Fields(v) => Fields(v)[f] \in Data
    BY DataFacts
  <2>4. Err("missing") \in SUBSET Errors
    BY ErrType DEF Whys
  <2>5. f \in DOMAIN Fields(v) /\ Chosen(d, v) # None => sub[Chosen(d, v)][Fields(v)[f]] \in SUBSET Errors
    BY <2>2, <2>3 DEF Sound
  <2> QED BY <2>1, <2>4, <2>5, CustomType DEF DependentErrsAt, Fails
<1>2. \A f \in Dependents(s) : At(f, DependentErrsAt(f, s, v, sub)) \in SUBSET Errors
  BY <1>1, AtType
<1> QED BY <1>2 DEF DependentErrs

LEMMA ScalarTypes ==
  ASSUME NEW m \in Modes, NEW s \in Schemas, NEW v \in Data
  PROVE  /\ CheckRequired(s) \in SUBSET Errors
         /\ Kind(s) = "string" => \A text : FailingTests(s, text) \in SUBSET Errors
         /\ Kind(s) = "string" => StringErrs(m, s, v) \in SUBSET Errors
         /\ \A arg : ValidatorErrs(s, arg) \in SUBSET Errors
         /\ NumberErrs(m, s, v) \in SUBSET Errors
         /\ BoolErrs(m, s, v) \in SUBSET Errors
         /\ DateTimeErrs(m, s, v) \in SUBSET Errors
<1>1. \A why \in {"required", "null", "type", "integer", "positive", "low", "high", "multiple", "format"} :
        Err(why) \in SUBSET Errors
  BY ErrType DEF Whys, Tests
<1>3. CheckRequired(s) \in SUBSET Errors
  BY <1>1 DEF CheckRequired, Fails
<1>4. ASSUME Kind(s) = "string", NEW text
      PROVE  FailingTests(s, text) \in SUBSET Errors
  <2>1. \A t \in DOMAIN Def[s].tests : Err(t) \in SUBSET Errors
    BY <1>4, GraphAssumption, ErrType DEF Whys
  <2>2. TestErrs(s, text) \in SUBSET Errors
    BY <2>1 DEF TestErrs, Fails
  <2> QED BY <2>2, CustomType DEF FailingTests
<1>5. Kind(s) = "string" => StringErrs(m, s, v) \in SUBSET Errors
  BY <1>1, <1>4 DEF StringErrs
<1>6. \A arg : ValidatorErrs(s, arg) \in SUBSET Errors
  BY <1>1, CustomType DEF ValidatorErrs, Fails
<1>7. NumberErrs(m, s, v) \in SUBSET Errors
  BY <1>1, <1>6 DEF NumberErrs, Fails
<1>8. BoolErrs(m, s, v) \in SUBSET Errors
  BY <1>1, CustomType DEF BoolErrs
<1>9. DateTimeErrs(m, s, v) \in SUBSET Errors
  BY <1>1, CustomType DEF DateTimeErrs, Fails
<1> QED BY <1>3, <1>4, <1>5, <1>6, <1>7, <1>8, <1>9

LEMMA KindsAre ==
  ASSUME NEW s \in Schemas
  PROVE  Kind(s) \in {"string", "number", "bool", "datetime", "custom", "object", "array", "and",
                      "or", "not", "transform", "dependent", "dependencies"}
  BY SchemaFacts DEF Kinds

LEMMA TransformedType ==
  ASSUME NEW s \in Schemas, Kind(s) = "transform", NEW v \in Data, Transformed(s, v) # Failed
  PROVE  Transformed(s, v) \in Data
<1>1. Range(Def[s].chain) \subseteq Data \cup {Failed}
  BY GraphAssumption
<1> QED BY <1>1 DEF Transformed, Range

LEMMA RulesType ==
  ASSUME NEW m \in Modes, NEW s \in Schemas, NEW v \in Data, NEW sub, Sound(sub)
  PROVE  Rules(s, m, v, sub) \in SUBSET Errors
<1>1. \A why \in {"type", "transform", "or", "not"} : Err(why) \in SUBSET Errors
  BY ErrType DEF Whys
<1>2. \A t \in Schemas, c \in Data : sub[t][c] \in SUBSET Errors
  BY DEF Sound
<1>3. CASE Kind(s) = "transform"
  BY <1>1, <1>2, <1>3, SubsAre, SchemaFacts, TransformedType DEF Rules
<1>4. CASE Kind(s) = "dependent"
  <2>1. Def[s].then # None => Def[s].then \in Schemas
    BY <1>4, SubsAre, SchemaFacts
  <2> QED BY <1>2, <1>4, <2>1 DEF Rules
<1>5. CASE Kind(s) = "dependencies"
  BY <1>1, <1>5, ObjectErrsType, DependentErrsType DEF Rules, IsObject
<1>6. CASE Kind(s) \in {"and", "or", "not"}
  <2>1. /\ Kind(s) = "and" => AndErrs(s, v, sub) \in SUBSET Errors
        /\ Kind(s) = "or" => OrErrs(s, v, sub) \in SUBSET Errors
        /\ Kind(s) = "not" => NotErrs(s, v, sub) \in SUBSET Errors
    BY <1>1, <1>2, SubsAre, SchemaFacts DEF AndErrs, OrErrs, NotErrs, Fails
  <2> QED BY <1>6, <2>1, ScalarTypes DEF Rules
<1>7. CASE Kind(s) \in {"string", "number", "bool", "datetime", "custom", "object", "array"}
  <2>1. /\ Kind(s) = "object" => ObjectErrs(m, s, v, sub) \in SUBSET Errors
        /\ Kind(s) = "array" => ArrayErrs(s, v, sub) \in SUBSET Errors
    BY ObjectErrsType, ArrayErrsType DEF IsObject
  <2> QED BY <1>7, <2>1, ScalarTypes, CustomType DEF Rules
<1> QED BY <1>3, <1>4, <1>5, <1>6, <1>7, KindsAre

LEMMA TransformRulesType ==
  ASSUME NEW m \in Modes, NEW s \in Schemas, NEW v \in Data, NEW sub, Sound(sub),
         Validate[s][m][v] \in SUBSET Errors
  PROVE  TransformRules(s, m, v, sub) \in SUBSET Errors
  BY ObjectErrsType, ArrayErrsType, ScalarTypes DEF TransformRules, IsObject

(* What a schema asks of schemas, it asks of those it is built from.       *)
Alike(s, g, h) == \A t \in Schemas : Depth[t] < Depth[s] => g[t] = h[t]

LEMMA FieldErrsLocal ==
  ASSUME NEW s \in Schemas, NEW v \in Data, IsObject(s), NEW g, NEW h, Alike(s, g, h)
  PROVE  FieldErrs(s, v, g) = FieldErrs(s, v, h)
<1>1. \A f \in Present(s, v) : g[Def[s].fields[f]] = h[Def[s].fields[f]]
  BY SubsAre, SchemaFacts DEF Present, Alike
<1> QED BY <1>1 DEF FieldErrs

LEMMA ItemErrsLocal ==
  ASSUME NEW s \in Schemas, NEW v \in Data, Kind(s) = "array", NEW g, NEW h, Alike(s, g, h)
  PROVE  ItemErrs(s, v, g) = ItemErrs(s, v, h)
<1>1. Def[s].elem # None => g[Def[s].elem] = h[Def[s].elem]
  BY SubsAre, SchemaFacts DEF Alike
<1> QED BY <1>1 DEF ItemErrs

LEMMA ChosenLocal ==
  ASSUME NEW s \in Schemas, NEW v \in Data, Kind(s) = "dependencies", NEW g, NEW h, Alike(s, g, h),
         NEW f \in Dependents(s), Chosen(Def[s].fields[f], v) # None
  PROVE  g[Chosen(Def[s].fields[f], v)] = h[Chosen(Def[s].fields[f], v)]
<1> DEFINE d == Def[s].fields[f]
<1>1. d \in Subs(s) /\ d \in Schemas /\ Kind(d) = "dependent"
  BY SubsAre, SchemaFacts DEF Dependents, IsObject
<1>2. Chosen(d, v) \in Subs(d)
  <2> HIDE DEF d
  <2> QED BY <1>1, SubsAre DEF Chosen, d
<1>3. /\ Chosen(d, v) \in Schemas /\ Depth[Chosen(d, v)] < Depth[d] /\ Depth[d] < Depth[s]
      /\ Depth[Chosen(d, v)] \in Nat /\ Depth[d] \in Nat /\ Depth[s] \in Nat
  BY <1>1, <1>2, SchemaFacts
<1>4. Depth[Chosen(d, v)] < Depth[s]
  BY <1>3
<1> QED BY <1>3, <1>4 DEF Alike

LEMMA DependentErrsLocal ==
  ASSUME NEW s \in Schemas, NEW v \in Data, Kind(s) = "dependencies", NEW g, NEW h, Alike(s, g, h)
  PROVE  DependentErrs(s, v, g) = DependentErrs(s, v, h)
<1>1. \A f \in Dependents(s) : DependentErrsAt(f, s, v, g) = DependentErrsAt(f, s, v, h)
  <2> TAKE f \in Dependents(s)
  <2>1. CASE f \in DOMAIN Fields(v) /\ Chosen(Def[s].fields[f], v) # None
    <3>1. g[Chosen(Def[s].fields[f], v)] = h[Chosen(Def[s].fields[f], v)]
      BY <2>1, ChosenLocal
    <3> QED BY <2>1, <3>1 DEF DependentErrsAt
  <2>2. CASE f \in DOMAIN Fields(v) /\ Chosen(Def[s].fields[f], v) = None
    BY <2>2 DEF DependentErrsAt
  <2>3. CASE f \notin DOMAIN Fields(v)
    BY <2>3 DEF DependentErrsAt, Fails
  <2> QED BY <2>1, <2>2, <2>3
<1> QED BY <1>1 DEF DependentErrs

(* Each of the three judgements of a schema asks only for those below it.   *)
LEMMA RulesLocal ==
  ASSUME NEW m \in Modes, NEW s \in Schemas, NEW v \in Data, NEW g, NEW h, Alike(s, g, h)
  PROVE  Rules(s, m, v, g) = Rules(s, m, v, h)
<1>1. \A t \in Subs(s) : g[t] = h[t]
  BY SchemaFacts DEF Alike
<1>2. CASE Kind(s) = "transform"
  BY <1>1, <1>2, SubsAre DEF Rules
<1>3. CASE Kind(s) = "dependent"
  <2>1. Def[s].then # None => g[Def[s].then] = h[Def[s].then]
    BY <1>1, <1>3, SubsAre
  <2> QED BY <1>3, <2>1 DEF Rules
<1>4. CASE IsObject(s)
  <2>1. ObjectErrs(m, s, v, g) = ObjectErrs(m, s, v, h)
    BY <1>4, FieldErrsLocal DEF ObjectErrs
  <2> QED BY <1>4, <2>1, DependentErrsLocal DEF Rules, IsObject
<1>5. CASE Kind(s) = "array"
  <2>1. ArrayErrs(s, v, g) = ArrayErrs(s, v, h)
    BY <1>5, ItemErrsLocal, ZenonT(60) DEF ArrayErrs
  <2> QED BY <1>5, <2>1 DEF Rules
<1>6. CASE Kind(s) \in {"and", "or", "not"}
  <2>1. /\ Kind(s) = "and" => AndErrs(s, v, g) = AndErrs(s, v, h)
        /\ Kind(s) = "or" => OrErrs(s, v, g) = OrErrs(s, v, h)
        /\ Kind(s) = "not" => NotErrs(s, v, g) = NotErrs(s, v, h)
    <3>1. Kind(s) \in {"and", "or"} => \A t \in Def[s].subs : g[t] = h[t]
      BY <1>1, SubsAre
    <3>2. Kind(s) = "not" => g[Def[s].sub] = h[Def[s].sub]
      BY <1>1, SubsAre
    <3> QED BY <3>1, <3>2 DEF AndErrs, OrErrs, NotErrs, Fails
  <2> QED BY <1>6, <2>1 DEF Rules
<1>7. CASE Kind(s) \in {"string", "number", "bool", "datetime", "custom"}
  BY <1>7 DEF Rules
<1> QED BY <1>2, <1>3, <1>4, <1>5, <1>6, <1>7, KindsAre DEF IsObject

LEMMA TransformRulesLocal ==
  ASSUME NEW m \in Modes, NEW s \in Schemas, NEW v \in Data, NEW g, NEW h, Alike(s, g, h)
  PROVE  TransformRules(s, m, v, g) = TransformRules(s, m, v, h)
  BY FieldErrsLocal, ItemErrsLocal, ZenonT(60) DEF TransformRules, TransformObjectErrs, ArrayErrs, IsObject

(* So is the truth value of a schema one, and asks no more than those of    *)
(* its parts.                                                               *)
LEMMA TruthType ==
  ASSUME NEW m \in Modes, NEW s \in Schemas, NEW v \in Data,
         NEW sub, sub \in [Schemas -> [Data -> BOOLEAN]]
  PROVE  Truth(s, m, v, sub) \in BOOLEAN
<1>1. CASE Kind(s) \in {"transform", "dependent"}
  <2>1. Kind(s) = "transform" => Def[s].sub \in Schemas
    BY SubsAre, SchemaFacts
  <2> QED BY <1>1, <2>1, TransformedType DEF Truth
<1>2. CASE Kind(s) \notin {"transform", "dependent"} /\ Type(v) = "nil"
  BY <1>2 DEF Truth
<1>3. CASE Kind(s) \in {"and", "or", "not"} /\ Type(v) # "nil"
  <2>1. /\ Kind(s) \in {"and", "or"} => Def[s].subs \subseteq Schemas
        /\ Kind(s) = "not" => Def[s].sub \in Schemas
    BY SubsAre, SchemaFacts
  <2> QED BY <1>3, <2>1 DEF Truth
<1>4. CASE Kind(s) \in {"string", "number", "bool", "datetime"} /\ Type(v) # "nil"
  BY <1>4 DEF Truth
<1>5. CASE Kind(s) = "custom" /\ Type(v) # "nil"
  <2>1. CustomOK(s, v) \in BOOLEAN
    BY <1>5, GraphAssumption
  <2> QED BY <1>5, <2>1 DEF Truth
<1>6. CASE (IsObject(s) \/ Kind(s) = "array") /\ Type(v) # "nil"
  BY <1>6 DEF Truth, IsObject
<1> QED BY <1>1, <1>2, <1>3, <1>4, <1>5, <1>6, KindsAre DEF IsObject

LEMMA TruthLocal ==
  ASSUME NEW m \in Modes, NEW s \in Schemas, NEW v \in Data, NEW g, NEW h, Alike(s, g, h)
  PROVE  Truth(s, m, v, g) = Truth(s, m, v, h)
<1>1. \A t \in Subs(s) : g[t] = h[t]
  BY SchemaFacts DEF Alike
<1>2. CASE Kind(s) \in {"transform", "dependent"}
  BY <1>1, <1>2, SubsAre DEF Truth
<1>3. CASE IsObject(s)
  <2>1. \A f \in DOMAIN Def[s].fields : g[Def[s].fields[f]] = h[Def[s].fields[f]]
    BY <1>1, <1>3, SubsAre
  <2>2. ASSUME Kind(s) = "dependencies", NEW f \in Dependents(s), Chosen(Def[s].fields[f], v) # None
        PROVE  g[Chosen(Def[s].fields[f], v)] = h[Chosen(Def[s].fields[f], v)]
    BY <2>2, ChosenLocal
  <2>3. Kind(s) = "object" => Dependents(s) = {}
    BY SubsAre, SchemaFacts DEF Dependents, IsObject
  <2>4. \A f \in Dependents(s) : Chosen(Def[s].fields[f], v) # None =>
          g[Chosen(Def[s].fields[f], v)] = h[Chosen(Def[s].fields[f], v)]
    BY <1>3, <2>2, <2>3 DEF IsObject
  <2> QED BY <1>3, <2>1, <2>4 DEF Truth, IsObject
<1>4. CASE Kind(s) \in {"and", "or"}
  <2>1. \A t \in Def[s].subs : g[t] = h[t]
    BY <1>1, <1>4, SubsAre
  <2> QED BY <1>4, <2>1 DEF Truth, IsObject
<1>5. CASE Kind(s) = "not"
  <2>1. g[Def[s].sub] = h[Def[s].sub]
    BY <1>1, <1>5, SubsAre
  <2> QED BY <1>5, <2>1 DEF Truth, IsObject
<1>6. CASE Kind(s) = "array"
  <2>1. Def[s].elem # None => g[Def[s].elem] = h[Def[s].elem]
    BY <1>1, <1>6, SubsAre
  <2> QED BY <1>6, <2>1 DEF Truth, IsObject
<1>7. CASE Kind(s) \in {"string", "number", "bool", "datetime", "custom"}
  BY <1>7 DEF Truth, IsObject
<1> QED BY <1>2, <1>3, <1>4, <1>5, <1>6, <1>7, KindsAre DEF IsObject

---------------------------------------------------------------------------
(* The three judgements of a schema, given those of the schemas it is built *)
(* from, and what each gives of every schema, mode and value.              *)
Judge(k, s, m, v, sub) ==
  CASE k = "validate" -> Rules(s, m, v, sub)
    [] k = "transform" -> TransformRules(s, m, v, sub)
    [] k = "valid" -> Truth(s, m, v, sub)
Verdicts(k) == IF k = "valid" THEN BOOLEAN ELSE SUBSET Errors
In(g, m) == [t \in Schemas |-> g[t][m]]
Judged(k, g) == [s \in Schemas |-> [m \in Modes |-> [v \in Data |-> Judge(k, s, m, v, In(g, m))]]]
Judges(k) ==
  /\ k \in {"validate", "transform", "valid"}
  /\ \A s \in Schemas, m \in Modes, v \in Data, sub \in [Schemas -> [Data -> Verdicts(k)]] :
       Judge(k, s, m, v, sub) \in Verdicts(k)
Table(k) == [Schemas -> [Modes -> [Data -> Verdicts(k)]]]

(* The values of a judgement at a schema are fixed by those below it, so    *)
(* that there is a table of them all, and the recursive definition is it.   *)
LEMMA JudgedLocal ==
  ASSUME NEW k, Judges(k), NEW g, NEW h, NEW s \in Schemas,
         \A t \in Schemas : Depth[t] < Depth[s] => g[t] = h[t]
  PROVE  Judged(k, g)[s] = Judged(k, h)[s]
<1>1. \A m \in Modes : Alike(s, In(g, m), In(h, m))
  BY DEF Alike, In
<1>2. \A m \in Modes, v \in Data : Judge(k, s, m, v, In(g, m)) = Judge(k, s, m, v, In(h, m))
  BY <1>1, RulesLocal, TransformRulesLocal, TruthLocal DEF Judge, Judges
<1> QED BY <1>2 DEF Judged

LEMMA JudgedExists ==
  ASSUME NEW k, Judges(k)
  PROVE  \E g \in Table(k) : g = Judged(k, g)
<1> DEFINE V == [Modes -> [Data -> Verdicts(k)]]
           F == [g \in [Schemas -> V] |-> Judged(k, g)]
<1>1. \A g \in [Schemas -> V] : Judged(k, g) \in [Schemas -> V]
  <2> TAKE g \in [Schemas -> V]
  <2>1. \A m \in Modes : In(g, m) \in [Schemas -> [Data -> Verdicts(k)]]
    BY DEF In
  <2>2. \A s \in Schemas, m \in Modes, v \in Data : Judge(k, s, m, v, In(g, m)) \in Verdicts(k)
    BY <2>1 DEF Judges
  <2> QED BY <2>2 DEF Judged
<1>2. V # {}
  <2>1. (IF k = "valid" THEN TRUE ELSE {}) \in Verdicts(k)
    BY DEF Verdicts
  <2>2. [m \in Modes |-> [v \in Data |-> IF k = "valid" THEN TRUE ELSE {}]] \in V
    BY <2>1
  <2> QED BY <2>2
<1> HIDE DEF V
<1>3. F \in [[Schemas -> V] -> [Schemas -> V]] /\ \A g \in [Schemas -> V] : F[g] = Judged(k, g)
  BY <1>1
<1> HIDE DEF F
<1>4. Descends(Schemas, V, Depth, F)
  BY <1>2, <1>3, JudgedLocal, SchemaFacts, SMTT(40) DEF Descends
<1>5. \E g \in [Schemas -> V] : g = F[g]
  BY <1>4, FixedPoint
<1> QED BY <1>3, <1>5 DEF V, Table

LEMMA JudgedTyped ==
  ASSUME NEW k, Judges(k), NEW e, e = Judged(k, e)
  PROVE  /\ \A s \in Schemas, m \in Modes, v \in Data :
              e[s][m][v] \in Verdicts(k) /\ e[s][m][v] = Judge(k, s, m, v, In(e, m))
         /\ \A m \in Modes : In(e, m) \in [Schemas -> [Data -> Verdicts(k)]]
<1>1. PICK g \in Table(k) : g = Judged(k, g)
  BY JudgedExists
<1>2. \A s \in Schemas : e[s] = g[s]
  <2> DEFINE B == {s \in Schemas : e[s] # g[s]}
  <2>1. SUFFICES ASSUME B # {} PROVE FALSE
    OBVIOUS
  <2>2. PICK s \in B : \A t \in B : Depth[s] <= Depth[t]
    BY <2>1, SchemaFacts, LeastRank
  <2>3. \A t \in Schemas : Depth[t] < Depth[s] => ~(Depth[s] <= Depth[t])
    BY <2>2, SchemaFacts
  <2>4. \A t \in Schemas : Depth[t] < Depth[s] => e[t] = g[t]
    BY <2>2, <2>3
  <2>5. Judged(k, e)[s] = Judged(k, g)[s]
    BY <2>2, <2>4, JudgedLocal
  <2> QED BY <1>1, <2>2, <2>5
<1>3. \A s \in Schemas, m \in Modes, v \in Data : e[s][m][v] \in Verdicts(k)
  BY <1>1, <1>2 DEF Table
<1>4. \A s \in Schemas, m \in Modes, v \in Data : Judged(k, e)[s][m][v] = Judge(k, s, m, v, In(e, m))
  BY DEF Judged
<1>5. \A m \in Modes : In(e, m) \in [Schemas -> [Data -> Verdicts(k)]]
  BY <1>1, <1>2 DEF Table, In
<1> QED BY <1>3, <1>4, <1>5

(* Validate, ValidateAndTransform and Valid are what their rules make of    *)
(* them.                                                                    *)
LEMMA ValidateEquation ==
  /\ \A s \in Schemas, m \in Modes, v \in Data :
       /\ Validate[s][m][v] \in SUBSET Errors
       /\ Validate[s][m][v] = Rules(s, m, v, In(Validate, m))
  /\ \A m \in Modes : Sound(In(Validate, m))
<1> DEFINE k == "validate"
           e == Validate
<1>1. Judges(k)
  BY RulesType DEF Judges, Judge, Verdicts, Sound
<1>2. e = Judged(k, e)
  <2> DEFINE Raw(g) == [s \in Schemas |-> [m \in Modes |-> [v \in Data |->
                          Rules(s, m, v, [t \in Schemas |-> g[t][m]])]]]
             Sol(h) == h = Raw(h)
  <2>1. \A g : Judged(k, g) = Raw(g)
    BY DEF Judged, Judge, In
  <2>2. \E h : Sol(h)
    BY <1>1, <2>1, JudgedExists
  <2> HIDE DEF e
  <2>3. e = CHOOSE h : Sol(h)
    BY Zenon DEF e, Validate
  <2> HIDE DEF Sol
  <2>4. Sol(e)
    BY <2>2, <2>3
  <2> QED BY <2>1, <2>4, ZenonT(60) DEF Sol
<1> HIDE DEF e
<1>3. /\ \A s \in Schemas, m \in Modes, v \in Data :
           e[s][m][v] \in Verdicts(k) /\ e[s][m][v] = Judge(k, s, m, v, In(e, m))
      /\ \A m \in Modes : In(e, m) \in [Schemas -> [Data -> Verdicts(k)]]
  BY <1>1, <1>2, JudgedTyped
<1> QED BY <1>3 DEF e, Judge, Verdicts, Sound

LEMMA TransformEquation ==
  /\ \A s \in Schemas, m \in Modes, v \in Data :
       /\ ValidateAndTransform[s][m][v] \in SUBSET Errors
       /\ ValidateAndTransform[s][m][v] = TransformRules(s, m, v, In(ValidateAndTransform, m))
  /\ \A m \in Modes : Sound(In(ValidateAndTransform, m))
<1> DEFINE k == "transform"
           e == ValidateAndTransform
<1>1. Judges(k)
  BY ValidateEquation, TransformRulesType DEF Judges, Judge, Verdicts, Sound
<1>2. e = Judged(k, e)
  <2> DEFINE Raw(g) == [s \in Schemas |-> [m \in Modes |-> [v \in Data |->
                          TransformRules(s, m, v, [t \in Schemas |-> g[t][m]])]]]
             Sol(h) == h = Raw(h)
  <2>1. \A g : Judged(k, g) = Raw(g)
    BY DEF Judged, Judge, In
  <2>2. \E h : Sol(h)
    BY <1>1, <2>1, JudgedExists
  <2> HIDE DEF e
  <2>3. e = CHOOSE h : Sol(h)
    BY Zenon DEF e, ValidateAndTransform
  <2> HIDE DEF Sol
  <2>4. Sol(e)
    BY <2>2, <2>3
  <2> QED BY <2>1, <2>4, ZenonT(60) DEF Sol
<1> HIDE DEF e
<1>3. /\ \A s \in Schemas, m \in Modes, v \in Data :
           e[s][m][v] \in Verdicts(k) /\ e[s][m][v] = Judge(k, s, m, v, In(e, m))
      /\ \A m \in Modes : In(e, m) \in [Schemas -> [Data -> Verdicts(k)]]
  BY <1>1, <1>2, JudgedTyped
<1> QED BY <1>3 DEF e, Judge, Verdicts, Sound

LEMMA ValidEquation ==
  /\ \A s \in Schemas, m \in Modes, v \in Data :
       /\ Valid[s][m][v] \in BOOLEAN
       /\ Valid[s][m][v] = Truth(s, m, v, In(Valid, m))
<1> DEFINE k == "valid"
           e == Valid
<1>1. Judges(k)
  BY TruthType DEF Judges, Judge, Verdicts
<1>2. e = Judged(k, e)
  <2> DEFINE Raw(g) == [s \in Schemas |-> [m \in Modes |-> [v \in Data |->
                          Truth(s, m, v, [t \in Schemas |-> g[t][m]])]]]
             Sol(h) == h = Raw(h)
  <2>1. \A g : Judged(k, g) = Raw(g)
    BY DEF Judged, Judge, In
  <2>2. \E h : Sol(h)
    BY <1>1, <2>1, JudgedExists
  <2> HIDE DEF e
  <2>3. e = CHOOSE h : Sol(h)
    BY Zenon DEF e, Valid
  <2> HIDE DEF Sol
  <2>4. Sol(e)
    BY <2>2, <2>3
  <2> QED BY <2>1, <2>4, ZenonT(60) DEF Sol
<1> HIDE DEF e
<1>3. /\ \A s \in Schemas, m \in Modes, v \in Data :
           e[s][m][v] \in Verdicts(k) /\ e[s][m][v] = Judge(k, s, m, v, In(e, m))
      /\ \A m \in Modes : In(e, m) \in [Schemas -> [Data -> Verdicts(k)]]
  BY <1>1, <1>2, JudgedTyped
<1> QED BY <1>3 DEF e, Judge, Verdicts, Sound

---------------------------------------------------------------------------
(* What a call leaves in the context: the errors of the rules it ran.      *)
Called ==
  /\ schema \in Schemas /\ datum \in Data /\ mode \in Modes /\ compiled \in BOOLEAN
  /\ method \in {"none", "validate", "transform"}
  /\ method = "none" => errors = {}
  /\ method = "validate" =>
       errors = IF compiled THEN RunChecks(mode, schema, datum) ELSE Validate[schema][mode][datum]
  /\ method = "transform" =>
       errors = IF compiled THEN TransformCompiled(mode, schema, datum)
                ELSE ValidateAndTransform[schema][mode][datum]

(* The inductive invariant: a call leaves the errors of the rules it ran,   *)
(* on the schema, datum and mode it was given.                              *)
LEMMA CallsRules == Spec => []Called
<1>1. Init => Called
  BY DEF Init, Called
<1>2. Called /\ [Next]_vars => Called'
  <2> SUFFICES ASSUME Called, [Next]_vars PROVE Called'
    OBVIOUS
  <2>1. CASE Compile
    BY <2>1 DEF Called, Compile
  <2>2. CASE CallValidate
    BY <2>2 DEF Called, CallValidate
  <2>3. CASE CallTransform
    BY <2>3 DEF Called, CallTransform
  <2>4. CASE UNCHANGED vars
    BY <2>4 DEF Called, vars, RunChecks, TransformCompiled
  <2> QED BY <2>1, <2>2, <2>3, <2>4 DEF Next, Returned
<1> QED BY <1>1, <1>2, PTL DEF Spec

(* The chains of the compiler make errors too.                              *)
LEMMA ChecksType ==
  ASSUME NEW s \in Schemas, NEW m \in Modes, NEW v \in Data
  PROVE  RunChecks(m, s, v) \in SUBSET Errors /\ TransformCompiled(m, s, v) \in SUBSET Errors
<1>1. Validate[s][m][v] \in SUBSET Errors /\ ValidateAndTransform[s][m][v] \in SUBSET Errors
  BY ValidateEquation, TransformEquation
<1>2. \A why \in {"required", "null", "type", "integer", "low", "high", "multiple", "custom"} :
        Err(why) \in SUBSET Errors /\ \A cond : Fails(why, cond) \in SUBSET Errors
  BY ErrType, FailsType DEF Whys
<1>3. Kind(s) = "string" => ChainOfString(m, s, v) \in SUBSET Errors
  BY <1>2, ScalarTypes DEF ChainOfString
<1>4. ChainOfNumber(m, s, v) \in SUBSET Errors
  <2>1. ValidatorErrs(s, Typed(Type(v), Of[v].num)) \in SUBSET Errors
    BY ScalarTypes
  <2> QED BY <1>2, <2>1, ZenonT(60) DEF ChainOfNumber
<1>5. ChainOfBool(m, s, v) \in SUBSET Errors
  BY <1>2, ScalarTypes DEF ChainOfBool
<1>6. RunChecks(m, s, v) \in SUBSET Errors
  BY <1>1, <1>2, <1>3, <1>4, <1>5 DEF RunChecks
<1> QED BY <1>1, <1>6 DEF TransformCompiled

(* The variables keep their types: every error has a reason, and its path   *)
(* is made of field names and positions only.                              *)
THEOREM TypeCorrect == Spec => []TypeOK
<1>1. Called => TypeOK
  <2> SUFFICES ASSUME Called PROVE errors \in SUBSET Errors
    BY DEF Called, TypeOK, Errors
  <2>1. /\ Validate[schema][mode][datum] \in SUBSET Errors
        /\ ValidateAndTransform[schema][mode][datum] \in SUBSET Errors
        /\ RunChecks(mode, schema, datum) \in SUBSET Errors
        /\ TransformCompiled(mode, schema, datum) \in SUBSET Errors
    BY ValidateEquation, TransformEquation, ChecksType DEF Called
  <2> QED BY <2>1 DEF Called
<1> QED BY <1>1, CallsRules, PTL

---------------------------------------------------------------------------
(* The chains of the compiler against the rules.                           *)
LEMMA StringChain ==
  ASSUME NEW m \in Modes, NEW s \in Schemas, NEW v \in Data
  PROVE  ChainOfString(m, s, v) = {} <=> StringErrs(m, s, v) = {}
  BY DEF ChainOfString, StringErrs, StringOrEmpty, Fails, Err

LEMMA BoolChain ==
  ASSUME NEW m \in Modes, NEW s \in Schemas, NEW v \in Data
  PROVE  ChainOfBool(m, s, v) = {} <=> BoolErrs(m, s, v) = {}
  BY DEF ChainOfBool, Fails

LEMMA NumberFacts ==
  One \in Nat /\ One # 0 /\ Mantissa \in Nat /\ Mantissa # 0 /\ PowerBelow[Mantissa] = Mantissa
  BY GraphAssumption
(* PowerBelow is what its equation says.                                   *)
LEMMA PowerEquation ==
  \A n \in Nat :
    /\ PowerBelow[n] \in Nat /\ PowerBelow[n] # 0
    /\ PowerBelow[n] = IF n < 2 THEN 1 ELSE 2 * PowerBelow[n \div 2]
<1> DEFINE V == Nat \ {0}
           rank == [n \in Nat |-> n]
           Body(g, n) == IF n < 2 THEN 1 ELSE 2 * g[n \div 2]
           F == [g \in [Nat -> V] |-> [n \in Nat |-> Body(g, n)]]
<1>0. \A n \in Nat : ~(n < 2) => n \div 2 \in Nat /\ n \div 2 < n
  OBVIOUS
<1>1. F \in [[Nat -> V] -> [Nat -> V]]
  <2>1. \A g \in [Nat -> V], n \in Nat : Body(g, n) \in V
    <3> TAKE g \in [Nat -> V], n \in Nat
    <3>1. ~(n < 2) => g[n \div 2] \in V
      BY <1>0
    <3> QED BY <3>1
  <2> HIDE DEF Body
  <2> QED BY <2>1
<1>2. ASSUME NEW g \in [Nat -> V], NEW h \in [Nat -> V], NEW n \in Nat,
             \A k \in Nat : rank[k] < rank[n] => g[k] = h[k]
      PROVE  F[g][n] = F[h][n]
  <2>1. Body(g, n) = Body(h, n)
    BY <1>0, <1>2
  <2> HIDE DEF Body
  <2> QED BY <2>1
<1>3. Descends(Nat, V, rank, F)
  <2>1. V # {} /\ rank \in [Nat -> Nat]
    OBVIOUS
  <2> HIDE DEF F, rank, V
  <2> QED BY <1>1, <1>2, <2>1 DEF Descends
<1>4. PICK g \in [Nat -> V] : g = F[g]
  <2> HIDE DEF F, V
  <2> QED BY <1>3, FixedPoint
<1>5. g = [n \in Nat |-> IF n < 2 THEN 1 ELSE 2 * g[n \div 2]]
  BY <1>4
<1> DEFINE e == PowerBelow
<1>6. e = [n \in Nat |-> IF n < 2 THEN 1 ELSE 2 * e[n \div 2]]
  <2>1. \E h : h = [n \in Nat |-> IF n < 2 THEN 1 ELSE 2 * h[n \div 2]]
    BY <1>5
  <2> HIDE DEF e
  <2>2. e = CHOOSE h : h = [n \in Nat |-> IF n < 2 THEN 1 ELSE 2 * h[n \div 2]]
    BY Zenon DEF e, PowerBelow
  <2> QED BY <2>1, <2>2
<1> HIDE DEF e, F, V, rank, Body
<1>7. \A n \in Nat : e[n] = Body(e, n)
  BY <1>6 DEF Body
<1>8. \A n \in Nat : e[n] \in V
  <2> DEFINE B == {n \in Nat : e[n] \notin V}
  <2>1. SUFFICES ASSUME B # {} PROVE FALSE
    OBVIOUS
  <2>2. PICK n \in B : \A k \in B : ~(k < n)
    BY <2>1, Least
  <2>3. ~(n < 2) => e[n \div 2] \in V
    BY <1>0, <2>2
  <2> QED BY <1>7, <2>2, <2>3 DEF Body, V
<1> QED BY <1>7, <1>8 DEF e, Body, V

LEMMA PowerAtMost ==
  \A n \in Nat : n # 0 => PowerBelow[n] <= n
<1> DEFINE B == {n \in Nat : n # 0 /\ ~(PowerBelow[n] <= n)}
<1>1. SUFFICES ASSUME B # {} PROVE FALSE
  OBVIOUS
<1>2. PICK n \in B : \A k \in B : ~(k < n)
  BY <1>1, Least
<1>3. n \in Nat /\ n # 0 /\ ~(PowerBelow[n] <= n)
  BY <1>2
<1>4. ~(n < 2)
  BY <1>3, PowerEquation
<1>5. n \div 2 \in Nat /\ n \div 2 # 0 /\ n \div 2 < n /\ 2 * (n \div 2) <= n
  BY <1>3, <1>4
<1>6. PowerBelow[n \div 2] <= n \div 2
  BY <1>2, <1>5
<1>7. PowerBelow[n] = 2 * PowerBelow[n \div 2] /\ PowerBelow[n \div 2] \in Nat
  BY <1>3, <1>4, <1>5, PowerEquation
<1> QED BY <1>3, <1>5, <1>6, <1>7

(* Of two powers of two the smaller divides the greater.                   *)
LEMMA PowersDivide ==
  \A m, n \in Nat : PowerBelow[m] <= PowerBelow[n] => \E k \in Nat : PowerBelow[n] = k * PowerBelow[m]
<1> DEFINE Good(m) == \A n \in Nat : PowerBelow[m] <= PowerBelow[n] =>
                        \E k \in Nat : PowerBelow[n] = k * PowerBelow[m]
           B == {m \in Nat : ~Good(m)}
<1>1. SUFFICES ASSUME B # {} PROVE FALSE
  OBVIOUS
<1>2. PICK m \in B : \A k \in B : ~(k < m)
  BY <1>1, Least
<1>3. PICK n \in Nat : /\ PowerBelow[m] <= PowerBelow[n]
                       /\ \A k \in Nat : PowerBelow[n] # k * PowerBelow[m]
  BY <1>2
<1>4. PowerBelow[n] \in Nat /\ PowerBelow[n] = PowerBelow[n] * 1
  BY PowerEquation
<1>5. m \in Nat /\ ~(m < 2)
  BY <1>2, <1>3, <1>4, PowerEquation
<1> DEFINE mm == m \div 2
           nn == n \div 2
<1>6. mm \in Nat /\ mm < m /\ PowerBelow[mm] \in Nat /\ PowerBelow[m] = 2 * PowerBelow[mm]
      /\ PowerBelow[mm] # 0
  BY <1>5, PowerEquation
<1>7. ~(n < 2)
  BY <1>3, <1>6, PowerEquation
<1>8. nn \in Nat /\ PowerBelow[nn] \in Nat /\ PowerBelow[n] = 2 * PowerBelow[nn]
  BY <1>7, PowerEquation
<1>9. Good(mm)
  BY <1>2, <1>6
<1>10. PICK k \in Nat : PowerBelow[nn] = k * PowerBelow[mm]
  <2>1. PowerBelow[mm] <= PowerBelow[nn]
    BY <1>3, <1>6, <1>8
  <2> QED BY <1>8, <1>9, <2>1
<1>11. 2 * (k * PowerBelow[mm]) = k * (2 * PowerBelow[mm])
  BY <1>6
<1> QED BY <1>3, <1>6, <1>8, <1>10, <1>11

(* What rounding gives: an integer as it is, and else not more than half a  *)
(* step away.                                                              *)
LEMMA RoundsExactly ==
  ASSUME NEW k \in Nat, NEW d \in Nat, d # 0
  PROVE  HalfToEven(k * d, d) = k
<1>1. (k * d) \div d = k /\ (k * d) % d = 0
  OBVIOUS
<1> QED BY <1>1 DEF HalfToEven

LEMMA RoundsNear ==
  ASSUME NEW n \in Nat, NEW d \in Nat, d # 0
  PROVE  /\ HalfToEven(n, d) \in Nat
         /\ 2 * (HalfToEven(n, d) * d) <= 2 * n + d /\ 2 * n <= 2 * (HalfToEven(n, d) * d) + d
<1> DEFINE low == n \div d
           rest == n % d
<1>1. low \in Nat /\ rest \in Nat /\ rest < d /\ n = low * d + rest
  OBVIOUS
<1>2. low * d \in Nat /\ (low + 1) * d = low * d + d
  BY <1>1
<1>3. HalfToEven(n, d) = IF 2 * rest > d \/ (2 * rest = d /\ low % 2 = 1) THEN low + 1 ELSE low
  BY DEF HalfToEven
<1> HIDE DEF low, rest
<1>4. CASE HalfToEven(n, d) = low + 1 /\ 2 * rest >= d
  <2> DEFINE ld == low * d
  <2>1. HalfToEven(n, d) * d = ld + d /\ ld \in Nat /\ n = ld + rest
    BY <1>1, <1>2, <1>4
  <2> HIDE DEF ld
  <2> QED BY <1>1, <1>4, <2>1
<1>5. CASE HalfToEven(n, d) = low /\ 2 * rest <= d
  <2> DEFINE ld == low * d
  <2>1. HalfToEven(n, d) * d = ld /\ ld \in Nat /\ n = ld + rest
    BY <1>1, <1>2, <1>5
  <2> HIDE DEF ld
  <2> QED BY <1>1, <1>5, <2>1
<1> QED BY <1>1, <1>3, <1>4, <1>5

LEMMA QuotientType ==
  ASSUME NEW p \in Nat, NEW q \in Nat, q # 0
  PROVE  Quotient(p, q) \in Nat
<1> DEFINE n == (2 * p) \div q
           g == PowerBelow[n]
           h == HalfToEven(p * Mantissa, q * g)
<1>1. n \in Nat
  OBVIOUS
<1>2. g \in Nat /\ g # 0
  BY <1>1, PowerEquation
<1> HIDE DEF n, g
<1>3. q * g \in Nat /\ q * g # 0 /\ p * Mantissa \in Nat
  BY <1>2, NumberFacts
<1>4. h \in Nat
  BY <1>3, RoundsNear
<1>5. Quotient(p, q) = g * h
  BY DEF Quotient, n, g
<1> HIDE DEF h
<1> QED BY <1>2, <1>4, <1>5

(* A quotient that is an integer is rounded to an integer ...              *)
LEMMA QuotientIntegral ==
  ASSUME NEW p \in Nat, NEW q \in Nat, q # 0, p % q = 0
  PROVE  Quotient(p, q) % Mantissa = 0
<1> DEFINE c == p \div q
           n == (2 * p) \div q
           g == PowerBelow[n]
           h == HalfToEven(p * Mantissa, q * g)
<1>1. c \in Nat /\ p = c * q /\ n \in Nat
  OBVIOUS
<1>2. g \in Nat /\ g # 0
  BY <1>1, PowerEquation
<1>3. Quotient(p, q) = g * h
  BY DEF Quotient
<1>4. q * g \in Nat /\ q * g # 0 /\ p * Mantissa \in Nat
  BY <1>2, NumberFacts
<1>5. h \in Nat
  BY <1>4, RoundsNear
<1>6. \E k \in Nat : g * h = k * Mantissa
  <2>1. CASE g <= Mantissa
    <3>1. PICK k \in Nat : Mantissa = k * g
      BY <1>1, <2>1, NumberFacts, PowersDivide
    <3> HIDE DEF c, n, g
    <3>2. p * Mantissa = (c * k) * (q * g)
      <4>1. (c * q) * (k * g) = (c * k) * (q * g)
        BY <1>1, <1>2
      <4> QED BY <1>1, <3>1, <4>1
    <3>3. c * k \in Nat
      BY <1>1
    <3>4. h = c * k
      BY <1>4, <3>2, <3>3, RoundsExactly
    <3> HIDE DEF h
    <3>5. g * (c * k) = c * (k * g)
      BY <1>1, <1>2
    <3> QED BY <1>1, <3>1, <3>4, <3>5
  <2>2. CASE Mantissa <= g
    <3>1. PICK k \in Nat : g = k * Mantissa
      <4>1. PowerBelow[Mantissa] <= PowerBelow[n] => \E k \in Nat : PowerBelow[n] = k * PowerBelow[Mantissa]
        BY <1>1, NumberFacts, PowersDivide
      <4> QED BY <2>2, <4>1, NumberFacts
    <3> HIDE DEF c, n, g, h
    <3>2. (k * Mantissa) * h = (k * h) * Mantissa /\ k * h \in Nat
      BY <1>5, NumberFacts
    <3> QED BY <3>1, <3>2
  <2> HIDE DEF g
  <2> QED BY <1>2, <2>1, <2>2, NumberFacts
<1> HIDE DEF c, n, g, h
<1>7. PICK k \in Nat : g * h = k * Mantissa
  BY <1>6
<1>8. (k * Mantissa) % Mantissa = 0
  BY NumberFacts
<1> QED BY <1>3, <1>7, <1>8

(* ... and no other quotient is, if the number is small enough.            *)
LEMMA QuotientFractional ==
  ASSUME NEW p \in Nat, NEW q \in Nat, q # 0, p < Mantissa, q <= 2 * p,
         Quotient(p, q) % Mantissa = 0
  PROVE  p % q = 0
<1> DEFINE n == (2 * p) \div q
           g == PowerBelow[n]
           h == HalfToEven(p * Mantissa, q * g)
<1>1. n \in Nat /\ n # 0
  OBVIOUS
<1>2. g \in Nat /\ g # 0 /\ g <= n
  BY <1>1, PowerEquation, PowerAtMost
<1>3. q * g <= 2 * p
  <2> HIDE DEF g
  <2> QED BY <1>2
<1>4. Quotient(p, q) = g * h
  BY DEF Quotient
<1> HIDE DEF n, g
<1>5. q * g \in Nat /\ q * g # 0 /\ p * Mantissa \in Nat
  BY <1>2, NumberFacts
<1>6. /\ h \in Nat
      /\ 2 * (h * (q * g)) <= 2 * (p * Mantissa) + q * g
      /\ 2 * (p * Mantissa) <= 2 * (h * (q * g)) + q * g
  BY <1>5, RoundsNear
<1> HIDE DEF h
<1>7. g * h \in Nat
  BY <1>2, <1>6
<1>8. PICK t \in Nat : g * h = t * Mantissa
  <2>1. (g * h) % Mantissa = 0
    BY <1>4
  <2>2. (g * h) \div Mantissa \in Nat /\ g * h = ((g * h) \div Mantissa) * Mantissa
    BY <1>7, <2>1, NumberFacts
  <2> QED BY <2>2
<1>9. h * (q * g) = (t * q) * Mantissa
  <2>1. h * (q * g) = q * (g * h)
    BY <1>2, <1>6
  <2>2. q * (t * Mantissa) = (t * q) * Mantissa
    BY NumberFacts
  <2> QED BY <1>8, <2>1, <2>2
<1>10. t * q \in Nat
  OBVIOUS
<1> DEFINE u == t * q
<1>11. u * Mantissa <= p * Mantissa + p /\ p * Mantissa <= u * Mantissa + p
  <2> DEFINE x == u * Mantissa
             y == p * Mantissa
             z == q * g
  <2>1. x \in Nat /\ y \in Nat /\ z \in Nat
    BY <1>5, <1>10, NumberFacts
  <2>2. 2 * x <= 2 * y + z /\ 2 * y <= 2 * x + z /\ z <= 2 * p
    BY <1>3, <1>6, <1>9
  <2> HIDE DEF x, y, z, u
  <2>3. x <= y + p /\ y <= x + p
    BY <2>1, <2>2
  <2> QED BY <2>3 DEF x, y
<1> HIDE DEF u
<1>12. u \in Nat
  BY <1>10 DEF u
<1>13. ~(u < p)
  <2> SUFFICES ASSUME u < p PROVE FALSE
    OBVIOUS
  <2>1. PICK e \in Nat : p = u + 1 + e
    <3>1. p - u - 1 \in Nat /\ p = u + 1 + (p - u - 1)
      BY <1>12
    <3> QED BY <3>1
  <2>2. (u + 1 + e) * Mantissa = u * Mantissa + Mantissa + e * Mantissa /\ e * Mantissa \in Nat
        /\ u * Mantissa \in Nat
    BY <1>12, NumberFacts
  <2> QED BY <1>11, <2>1, <2>2, NumberFacts
<1>14. ~(p < u)
  <2> SUFFICES ASSUME p < u PROVE FALSE
    OBVIOUS
  <2>1. PICK e \in Nat : u = p + 1 + e
    <3>1. u - p - 1 \in Nat /\ u = p + 1 + (u - p - 1)
      BY <1>12
    <3> QED BY <3>1
  <2>2. (p + 1 + e) * Mantissa = p * Mantissa + Mantissa + e * Mantissa /\ e * Mantissa \in Nat
        /\ p * Mantissa \in Nat
    BY NumberFacts
  <2> QED BY <1>11, <2>1, <2>2, NumberFacts
<1>15. p = t * q
  BY <1>12, <1>13, <1>14 DEF u
<1>16. (t * q) % q = 0
  OBVIOUS
<1> QED BY <1>15, <1>16
(* What the chain's test of a multiple finds.                              *)
LEMMA TruncatesMultiples ==
  ASSUME NEW p \in Nat, NEW q \in Nat, q # 0, Quotient(p, q) \div Mantissa <= MaxInt64
  PROVE  /\ p % q = 0 => Truncates(p, q)
         /\ p < Mantissa => (Truncates(p, q) => p % q = 0)
<1>1. p = 0 => p % q = 0
  OBVIOUS
<1>2. p # 0 /\ p % q = 0 => q <= 2 * p
  <2> SUFFICES ASSUME p # 0, p % q = 0 PROVE q <= 2 * p
    OBVIOUS
  <2>1. ~(p < q)
    OBVIOUS
  <2> QED BY <2>1
<1>3. p % q = 0 => Quotient(p, q) % Mantissa = 0
  BY QuotientIntegral
<1>4. p < Mantissa /\ q <= 2 * p /\ Quotient(p, q) % Mantissa = 0 => p % q = 0
  BY QuotientFractional
<1> QED BY <1>1, <1>2, <1>3, <1>4 DEF Truncates, InInt64

(* On what the chain reads, it rejects nothing that NumberSchema does not:  *)
(* an integer remainder is found by its integer step and once more by its   *)
(* validators; and it misses no multiple of a small number.                *)
LEMMA NumberChain ==
  ASSUME NEW s \in Schemas, NEW v \in Data, Kind(s) = "number",
         ReadsAlike(s, v), Divides(s, v), SeesAlike(s, v)
  PROVE  /\ NumberErrs(mode, s, v) = {} => ChainOfNumber(mode, s, v) = {}
         /\ DividesExactly(s, v) => (ChainOfNumber(mode, s, v) = {} => NumberErrs(mode, s, v) = {})
<1> DEFINE n == Of[v].num
<1>1. n \in Nat /\ Def[s].low \in Nat /\ Def[s].high \in Nat /\ Def[s].multipleOf \subseteq Nat
  BY GraphAssumption
<1>2. CASE ~IsNumber(mode, v)
  BY <1>2 DEF ChainOfNumber, NumberErrs, Fails, Err
<1>3. CASE IsNumber(mode, v)
  <2>1. Type(v) \in Wide /\ ToFloat(v) = n
    BY <1>3 DEF ReadsAlike, ToFloat
  <2>2. ASSUME NEW c \in {"float64", Type(v)}
        PROVE  ToFloat64(Typed(c, n)) = n
    BY <2>1 DEF ToFloat64, Typed, NumberTypes, Wide
  <2>3. ValidatorErrs(s, Typed(Type(v), n)) = ValidatorErrs(s, Typed("float64", n))
    <3>1. CustomErrs(s, Typed(Type(v), n)) = CustomErrs(s, Typed("float64", n))
      BY DEF SeesAlike, CustomErrs, Fails
    <3> QED BY <2>2, <3>1 DEF ValidatorErrs
  <2>4. \A d \in Def[s].multipleOf :
          /\ d # 0 /\ (n % d = 0 => Truncates(n, d))
          /\ DividesExactly(s, v) => (Truncates(n, d) => n % d = 0)
    <3> TAKE d \in Def[s].multipleOf
    <3>1. d \in Nat /\ d # 0 /\ Quotient(n, d) \div Mantissa <= MaxInt64
      BY <1>1 DEF Divides
    <3>2. DividesExactly(s, v) => n < Mantissa
      BY DEF DividesExactly
    <3> HIDE DEF n
    <3> QED BY <1>1, <3>1, <3>2, TruncatesMultiples
  <2>5. Def[s].integer => (InInt64(n, One) <=> n % One = 0)
    BY DEF Divides, InInt64
  <2>6. (Def[s].integer /\ n % One # 0) => ValidatorErrs(s, Typed("float64", n)) # {}
    BY <2>2 DEF ValidatorErrs, Fails, Err
  <2> DEFINE L == Fails("low", n < Def[s].low)
             H == Fails("high", n > Def[s].high)
             W == ValidatorErrs(s, Typed("float64", n))
             M == Fails("multiple", \E d \in Def[s].multipleOf \ {0} : n % d # 0)
             I == Fails("integer", Def[s].integer /\ ~InInt64(n, One))
             C == Fails("multiple", \E d \in Def[s].multipleOf : ~Truncates(n, d))
  <2>7. (M = {} => C = {}) /\ (DividesExactly(s, v) => (C = {} => M = {}))
    BY <2>4 DEF Fails, Err
  <2>8. I # {} => W # {}
    BY <2>5, <2>6 DEF Fails
  <2>9. Fails("type", ~IsNumber(mode, v)) = {}
    BY <1>3 DEF Fails
  <2>10. ChainOfNumber(mode, s, v) = I \cup L \cup H \cup C \cup W
    <3>1. /\ Fails("integer", Def[s].integer /\ ~InInt64(ToFloat(v), One)) = I
          /\ Fails("low", ToFloat(v) < Def[s].low) = L
          /\ Fails("high", ToFloat(v) > Def[s].high) = H
          /\ Fails("multiple", \E d \in Def[s].multipleOf : ~Truncates(ToFloat(v), d)) = C
      BY <2>1 DEF Fails
    <3>2. ChainOfNumber(mode, s, v) =
            Fails("type", ~IsNumber(mode, v))
              \cup Fails("integer", Def[s].integer /\ ~InInt64(ToFloat(v), One))
              \cup Fails("low", ToFloat(v) < Def[s].low) \cup Fails("high", ToFloat(v) > Def[s].high)
              \cup Fails("multiple", \E d \in Def[s].multipleOf : ~Truncates(ToFloat(v), d))
              \cup ValidatorErrs(s, Typed(Type(v), n))
      BY DEF ChainOfNumber
    <3> HIDE DEF L, H, W, I, C
    <3>3. ChainOfNumber(mode, s, v) = {} \cup I \cup L \cup H \cup C \cup ValidatorErrs(s, Typed(Type(v), n))
      BY Zenon, <2>9, <3>1, <3>2
    <3> QED BY <2>3, <3>3 DEF W
  <2>11. NumberErrs(mode, s, v) = L \cup H \cup M \cup W
    BY <1>3 DEF NumberErrs
  <2> HIDE DEF L, H, W, M, I, C
  <2> QED BY <2>7, <2>8, <2>10, <2>11
<1> QED BY <1>2, <1>3

(* A chain gives the verdict of Validate, on nil too.                       *)
LEMMA ChecksAgree ==
  ASSUME NEW s \in Schemas, NEW v \in Data, mode \in Modes,
         Kind(s) = "number" => ReadsAlike(s, v) /\ Divides(s, v) /\ SeesAlike(s, v),
         Type(v) = "nil" => AsksForNil(s)
  PROVE  /\ Validate[s][mode][v] = {} => RunChecks(mode, s, v) = {}
         /\ (Kind(s) = "number" => DividesExactly(s, v)) =>
              (RunChecks(mode, s, v) = {} => Validate[s][mode][v] = {})
<1>1. Validate[s][mode][v] = Rules(s, mode, v, In(Validate, mode))
  BY ValidateEquation
<1>2. CASE Type(v) = "nil"
  <2>1. IsRequired[s] <=> Def[s].required
    BY <1>2, RequiredEquation DEF AsksForNil
  <2>2. RunChecks(mode, s, v) = CheckRequired(s)
    BY <1>2, <2>1 DEF RunChecks, CheckRequired
  <2>3. Rules(s, mode, v, In(Validate, mode)) = CheckRequired(s)
    BY <1>2 DEF Rules, AsksForNil
  <2> QED BY <1>1, <2>2, <2>3
<1>3. CASE Type(v) # "nil" /\ Kind(s) \in {"string", "number", "bool"}
  <2>1. /\ Kind(s) = "string" => RunChecks(mode, s, v) = ChainOfString(mode, s, v)
        /\ Kind(s) = "number" => RunChecks(mode, s, v) = ChainOfNumber(mode, s, v)
        /\ Kind(s) = "bool" => RunChecks(mode, s, v) = ChainOfBool(mode, s, v)
    BY <1>3 DEF RunChecks
  <2>2. /\ Kind(s) = "string" => Validate[s][mode][v] = StringErrs(mode, s, v)
        /\ Kind(s) = "number" => Validate[s][mode][v] = NumberErrs(mode, s, v)
        /\ Kind(s) = "bool" => Validate[s][mode][v] = BoolErrs(mode, s, v)
    BY <1>1, <1>3 DEF Rules
  <2> QED BY <1>3, <2>1, <2>2, StringChain, BoolChain, NumberChain
<1>4. CASE Type(v) # "nil" /\ Kind(s) \notin {"string", "number", "bool"}
  BY <1>4 DEF RunChecks
<1> QED BY <1>2, <1>3, <1>4

(* Compiling does not change the verdict: for every schema graph, datum and *)
(* mode, and on both methods, a compiled schema accepts what its original   *)
(* does, and no more unless it is a number schema that has a divisor and    *)
(* the quotient is long enough to be rounded (compile.go divides, number.go *)
(* takes the remainder); as far as the number chain reads the value, and    *)
(* but for a nil that the original would not ask itself about.             *)
THEOREM CompiledSame == Spec => []CompiledAgrees
<1>1. Called => CompiledAgrees
  <2> DEFINE Exactly == Kind(schema) = "number" => DividesExactly(schema, datum)
  <2> SUFFICES ASSUME Called, Compiled,
                      Kind(schema) = "number" =>
                        ReadsAlike(schema, datum) /\ Divides(schema, datum) /\ SeesAlike(schema, datum),
                      Type(datum) = "nil" => AsksForNil(schema)
               PROVE  (Original = {} => errors = {}) /\ (Exactly => (errors = {} => Original = {}))
    BY DEF CompiledAgrees
  <2>1. /\ Validate[schema][mode][datum] = {} => RunChecks(mode, schema, datum) = {}
        /\ Exactly => (RunChecks(mode, schema, datum) = {} => Validate[schema][mode][datum] = {})
    BY ChecksAgree DEF Called
  <2>2. CASE method = "validate"
    BY <2>1, <2>2 DEF Called, Compiled, Original
  <2>3. CASE method = "transform" /\ Transformable(schema)
    BY <2>3 DEF Called, Compiled, Original, TransformCompiled
  <2>4. CASE method = "transform" /\ ~Transformable(schema)
    <3>1. ValidateAndTransform[schema][mode][datum] = Validate[schema][mode][datum]
      BY <2>4, TransformEquation DEF TransformRules, Transformable, Called
    <3>2. errors = RunChecks(mode, schema, datum)
      BY <2>4 DEF Called, Compiled, TransformCompiled
    <3> QED BY <2>1, <2>4, <3>1, <3>2 DEF Original
  <2> QED BY <2>2, <2>3, <2>4 DEF Called, Compiled
<1> QED BY <1>1, CallsRules, PTL

---------------------------------------------------------------------------
(* Where a path leads, from a value.                                       *)
Places == Data \cup {None}

LEMMA ChildType == \A c \in Places : \A seg : Child(c, seg) \in Places
<1> SUFFICES ASSUME NEW c \in Places, NEW seg PROVE Child(c, seg) \in Places
  OBVIOUS
<1> DEFINE I == {i \in DOMAIN Items(c) : Positions[i] = seg}
           j == CHOOSE i \in DOMAIN Items(c) : Positions[i] = seg
<1>1. CASE c # None /\ Type(c) = "map" /\ seg \in DOMAIN Fields(c)
  <2>1. c \in Data /\ Fields(c)[seg] \in Data
    BY <1>1, DataFacts DEF Places
  <2>2. Child(c, seg) = Fields(c)[seg]
    BY <1>1 DEF Child
  <2> QED BY <2>1, <2>2 DEF Places
<1>2. CASE c # None /\ Type(c) = "slice" /\ \E i \in DOMAIN Items(c) : Positions[i] = seg
  <2>1. j \in DOMAIN Items(c)
    BY <1>2
  <2>2. Items(c)[j] \in Data
    BY <1>2, <2>1, DataFacts DEF Places
  <2>3. Child(c, seg) = Items(c)[j]
    BY <1>2 DEF Child
  <2> QED BY <2>2, <2>3 DEF Places
<1>3. CASE ~(c # None /\ Type(c) = "map" /\ seg \in DOMAIN Fields(c))
           /\ ~(c # None /\ Type(c) = "slice" /\ \E i \in DOMAIN Items(c) : Positions[i] = seg)
  <2>1. Child(c, seg) = None
    BY Zenon, <1>3 DEF Child
  <2> QED BY <2>1 DEF Places
<1> QED BY <1>1, <1>2, <1>3

(* Following a path is following its head and then its tail.                *)
LEMMA ValueAtEquation ==
  \A p \in Paths, c \in Places :
    ValueAt[p][c] = IF p = <<>> THEN c ELSE ValueAt[Tail(p)][Child(c, Head(p))]
<1> DEFINE V == [Places -> Places]
           rank == [p \in Paths |-> Len(p)]
           Step(g, p) == [c \in Places |-> IF p = <<>> THEN c ELSE g[Tail(p)][Child(c, Head(p))]]
           F == [g \in [Paths -> V] |-> [p \in Paths |-> Step(g, p)]]
<1>1. rank \in [Paths -> Nat]
  BY DEF Paths
<1>2. \A p \in Paths : p # <<>> => Tail(p) \in Paths /\ Len(Tail(p)) < Len(p)
  BY HeadTailProperties DEF Paths
<1>3. \A g \in [Paths -> V], p \in Paths : Step(g, p) \in V
  <2> TAKE g \in [Paths -> V], p \in Paths
  <2>1. \A c \in Places : (IF p = <<>> THEN c ELSE g[Tail(p)][Child(c, Head(p))]) \in Places
    BY <1>2, ChildType
  <2> QED BY <2>1
<1>4. ASSUME NEW g \in [Paths -> V], NEW h \in [Paths -> V], NEW p \in Paths,
             \A q \in Paths : rank[q] < rank[p] => g[q] = h[q]
      PROVE  Step(g, p) = Step(h, p)
  <2>1. p # <<>> => g[Tail(p)] = h[Tail(p)]
    BY <1>2, <1>4
  <2> QED BY <2>1
<1>5. [c \in Places |-> c] \in V
  OBVIOUS
<1> HIDE DEF V, Step
<1>6. /\ F \in [[Paths -> V] -> [Paths -> V]]
      /\ \A g \in [Paths -> V], p \in Paths : F[g][p] = Step(g, p)
      /\ \A g \in [Paths -> V] : F[g] = [p \in Paths |-> Step(g, p)]
  BY <1>3
<1> HIDE DEF F, rank
<1>7. Descends(Paths, V, rank, F)
  BY <1>1, <1>4, <1>5, <1>6 DEF Descends
<1>8. \E g \in [Paths -> V] : g = F[g]
  BY <1>7, FixedPoint
<1> DEFINE e == ValueAt
           Raw(g) == [path \in Paths |-> [c \in Data \cup {None} |->
                        IF path = <<>> THEN c ELSE g[Tail(path)][Child(c, Head(path))]]]
           Sol(h) == h = Raw(h)
<1>9. \E h : Sol(h)
  <2>1. \A g : [p \in Paths |-> Step(g, p)] = Raw(g)
    BY DEF Step, Places
  <2> HIDE DEF Raw, Sol
  <2>2. PICK g \in [Paths -> V] : g = F[g]
    BY <1>8
  <2>3. F[g] = [p \in Paths |-> Step(g, p)]
    BY <1>6, <2>2
  <2>4. g = Raw(g)
    BY <2>1, <2>2, <2>3
  <2> QED BY <2>4 DEF Sol
<1> HIDE DEF e
<1>10. e = CHOOSE h : Sol(h)
  BY Zenon DEF e, ValueAt
<1>11. Sol(e)
  <2> HIDE DEF Sol
  <2> QED BY <1>9, <1>10
<1>12. e = Raw(e)
  BY <1>11
<1>13. \A p \in Paths, c \in Places :
         Raw(e)[p][c] = IF p = <<>> THEN c ELSE e[Tail(p)][Child(c, Head(p))]
  BY DEF Places
<1> HIDE DEF Raw
<1> QED BY <1>12, <1>13 DEF e

(* The errors of errs lead to places of c, and those of here to c itself.  *)
Located(c, errs) ==
  \A e \in errs :
    /\ ValueAt[e.at][c] = None <=> e.why = "missing"
    /\ e.at # <<>> => ValueAt[Front(e.at)][c] # None
Here(errs) == \A e \in errs : e.at = <<>> /\ e.why # "missing"

(* An error that is found in a value itself is in its place.                *)
LEMMA HereLocated ==
  ASSUME NEW c \in Data, NEW errs, Here(errs)
  PROVE  Located(c, errs)
<1>1. <<>> \in Paths /\ c \in Places /\ c # None
  BY DataFacts DEF Paths, Places
<1>2. ValueAt[<<>>][c] = c
  BY <1>1, ValueAtEquation
<1> QED BY <1>1, <1>2 DEF Located, Here

(* Head, tail and front of a path with a segment put before it.             *)
LEMMA PrependFacts ==
  ASSUME NEW seg \in Segs, NEW p \in Paths
  PROVE  /\ <<seg>> \o p \in Paths /\ <<seg>> \o p # <<>>
         /\ Head(<<seg>> \o p) = seg /\ Tail(<<seg>> \o p) = p
         /\ p = <<>> => Front(<<seg>> \o p) = <<>>
         /\ p # <<>> => Front(p) \in Paths /\ Front(<<seg>> \o p) = <<seg>> \o Front(p)
<1> DEFINE q == <<seg>> \o p
           n == Len(p)
<1>1. /\ p \in Seq(Segs) /\ <<seg>> \in Seq(Segs) /\ n \in Nat
      /\ q \in Seq(Segs) /\ Len(q) = n + 1 /\ q[1] = seg /\ \A i \in 1..n : q[i + 1] = p[i]
  BY DEF Paths, Segs
<1>2. q # <<>>
  BY <1>1
<1>3. Head(q) = seg /\ Tail(q) \in Seq(Segs) /\ Len(Tail(q)) = n /\ \A i \in 1..n : Tail(q)[i] = q[i + 1]
  <2> HIDE DEF q
  <2> QED BY <1>1, <1>2, HeadTailProperties
<1>4. Tail(q) = p
  <2> HIDE DEF q
  <2> QED BY <1>1, <1>3
<1>5. Front(q) = SubSeq(q, 1, n)
  <2> HIDE DEF q
  <2> QED BY <1>1 DEF Front
<1>6. p = <<>> => Front(q) = <<>>
  <2> HIDE DEF q
  <2> QED BY <1>1, <1>5
<1>7. p # <<>> => Front(p) \in Paths /\ Front(q) = <<seg>> \o Front(p)
  <2> SUFFICES ASSUME p # <<>> PROVE Front(p) \in Paths /\ Front(q) = <<seg>> \o Front(p)
    OBVIOUS
  <2>1. n > 0
    BY <1>1
  <2>2. Front(p) \in Seq(Segs) /\ Len(Front(p)) = n - 1 /\ \A i \in 1..(n - 1) : Front(p)[i] = p[i]
    BY <1>1, <2>1 DEF Front
  <2>3. Front(q) \in Seq(Segs) /\ Len(Front(q)) = n /\ \A i \in 1..n : Front(q)[i] = q[i]
    <3> HIDE DEF q
    <3> QED BY <1>1, <1>5, <2>1
  <2> DEFINE a == Front(p)
             b == Front(q)
             c == <<seg>> \o a
  <2>4. c \in Seq(Segs) /\ Len(c) = n /\ c[1] = seg /\ \A i \in 1..(n - 1) : c[i + 1] = a[i]
    <3> HIDE DEF a
    <3> QED BY <1>1, <2>1, <2>2 DEF a
  <2> HIDE DEF a, b, c, q
  <2>5. \A i \in 1..n : b[i] = c[i]
    <3> TAKE i \in 1..n
    <3>1. CASE i = 1
      BY <1>1, <2>3, <2>4, <3>1 DEF b
    <3>2. CASE i # 1
      <4>1. i - 1 \in 1..n /\ i - 1 \in 1..(n - 1) /\ (i - 1) + 1 = i
        BY <1>1, <3>2
      <4>2. q[i] = p[i - 1] /\ c[i] = a[i - 1] /\ a[i - 1] = p[i - 1] /\ b[i] = q[i]
        <5>1. q[(i - 1) + 1] = p[i - 1]
          BY <1>1, <4>1
        <5>2. c[(i - 1) + 1] = a[i - 1]
          BY <2>4, <4>1
        <5> QED BY <2>2, <2>3, <4>1, <5>1, <5>2 DEF a, b
      <4> QED BY <4>2
    <3> QED BY <3>1, <3>2
  <2>6. b = c
    BY <2>3, <2>4, <2>5 DEF b
  <2> QED BY <2>2, <2>6 DEF a, b, c, Paths, Segs
<1> QED BY <1>1, <1>2, <1>3, <1>4, <1>6, <1>7 DEF Paths, Segs

(* Errors in their places in a child of a value are so in the value when At *)
(* has put the segment of the child before them.                            *)
LEMMA AtLocated ==
  ASSUME NEW c \in Data, NEW seg \in Segs, Child(c, seg) \in Data,
         NEW errs \in SUBSET Errors, Located(Child(c, seg), errs)
  PROVE  Located(c, At(seg, errs))
<1> DEFINE d == Child(c, seg)
<1>1. SUFFICES ASSUME NEW e \in errs
               PROVE  LET p == <<seg>> \o e.at
                      IN  /\ ValueAt[p][c] = None <=> e.why = "missing"
                          /\ p # <<>> => ValueAt[Front(p)][c] # None
  <2>1. \A x \in At(seg, errs) : \E e \in errs : x.at = <<seg>> \o e.at /\ x.why = e.why
    BY DEF At, Errors
  <2> QED BY <1>1, <2>1 DEF Located
<1> DEFINE a == e.at
           p == <<seg>> \o a
<1>2. a \in Paths /\ c \in Places /\ d \in Places /\ d # None /\ c # None
  BY DataFacts DEF Errors, Places
<1> HIDE DEF a
<1>3. /\ p \in Paths /\ p # <<>> /\ Head(p) = seg /\ Tail(p) = a
      /\ a = <<>> => Front(p) = <<>>
      /\ a # <<>> => Front(a) \in Paths /\ Front(p) = <<seg>> \o Front(a)
  BY <1>2, PrependFacts
<1>4. ValueAt[p][c] = ValueAt[a][d]
  <2> HIDE DEF p, d
  <2> QED BY <1>2, <1>3, ValueAtEquation DEF d
<1>5. CASE a = <<>>
  <2>1. ValueAt[Front(p)][c] = c
    <3>1. <<>> \in Paths
      BY DEF Paths
    <3> QED BY <1>2, <1>3, <1>5, <3>1, ValueAtEquation
  <2> QED BY <1>1, <1>2, <1>4, <2>1 DEF Located, a
<1>6. CASE a # <<>>
  <2> DEFINE q == Front(a)
             r == <<seg>> \o q
  <2>1. q \in Paths /\ Front(p) = r
    BY <1>3, <1>6
  <2> HIDE DEF q
  <2>2. r \in Paths /\ r # <<>> /\ Head(r) = seg /\ Tail(r) = q
    BY <2>1, PrependFacts
  <2>3. ValueAt[r][c] = ValueAt[q][d]
    <3> HIDE DEF r, d
    <3> QED BY <1>2, <2>2, ValueAtEquation DEF d
  <2>4. ValueAt[q][d] # None
    BY <1>1, <1>6 DEF Located, a, q
  <2> QED BY <1>1, <1>4, <2>1, <2>3, <2>4 DEF Located, a
<1> QED BY <1>5, <1>6

(* The errors that a schema finds in the value itself.                     *)
LEMMA FailsHere == \A why : why # "missing" => \A cond : Here(Fails(why, cond)) /\ Here(Err(why))
  BY DEF Here, Fails, Err

(* All that schemas without parts find, and the chains made of them.        *)
LEMMA ScalarsHere ==
  ASSUME NEW m \in Modes, NEW s \in Schemas, NEW v \in Data
  PROVE  /\ Here(CheckRequired(s)) /\ \A x : Here(CustomErrs(s, x))
         /\ Kind(s) = "string" => Here(StringErrs(m, s, v)) /\ Here(ChainOfString(m, s, v))
         /\ Here(NumberErrs(m, s, v)) /\ Here(ChainOfNumber(m, s, v))
         /\ Here(BoolErrs(m, s, v)) /\ Here(ChainOfBool(m, s, v))
         /\ Here(DateTimeErrs(m, s, v))
<1>1. \A x : Here(CustomErrs(s, x))
  BY FailsHere DEF CustomErrs
<1>2. Here(CheckRequired(s))
  BY FailsHere DEF CheckRequired
<1>3. \A A, B : Here(A) /\ Here(B) => Here(A \cup B)
  BY DEF Here
<1>4. ASSUME Kind(s) = "string" PROVE Here(StringErrs(m, s, v)) /\ Here(ChainOfString(m, s, v))
  <2>1. ASSUME NEW text PROVE Here(FailingTests(s, text))
    <3>1. \A t \in DOMAIN Def[s].tests : t # "missing"
      BY <1>4, GraphAssumption DEF Tests
    <3>2. Here(TestErrs(s, text))
      BY <3>1 DEF TestErrs, Here, Fails, Err
    <3> QED BY <1>1, <1>3, <3>2 DEF FailingTests
  <2> QED BY <1>3, <2>1, FailsHere DEF StringErrs, ChainOfString
<1>5. \A x : Here(ValidatorErrs(s, x))
  <2> TAKE x
  <2>1. Here(Fails("integer", Def[s].integer /\ ToFloat64(x) % One # 0))
        /\ Here(Fails("positive", Def[s].positive /\ ToFloat64(x) = 0))
    BY FailsHere
  <2> QED BY <1>1, <1>3, <2>1 DEF ValidatorErrs
<1>6. Here(NumberErrs(m, s, v))
  <2> DEFINE n == Of[v].num
  <2>1. /\ Here(Fails("low", n < Def[s].low)) /\ Here(Fails("high", n > Def[s].high))
        /\ Here(Fails("multiple", \E d \in Def[s].multipleOf \ {0} : n % d # 0))
        /\ Here(Err("type"))
    BY FailsHere
  <2> QED BY <1>3, <1>5, <2>1 DEF NumberErrs
<1>7. Here(ChainOfNumber(m, s, v))
  <2>1. /\ Here(Fails("type", ~IsNumber(m, v)))
        /\ Here(Fails("integer", Def[s].integer /\ ~InInt64(ToFloat(v), One)))
        /\ Here(Fails("low", ToFloat(v) < Def[s].low)) /\ Here(Fails("high", ToFloat(v) > Def[s].high))
        /\ Here(Fails("multiple", \E d \in Def[s].multipleOf : ~Truncates(ToFloat(v), d)))
    BY FailsHere
  <2> QED BY <1>3, <1>5, <2>1 DEF ChainOfNumber
<1>8. Here(BoolErrs(m, s, v)) /\ Here(ChainOfBool(m, s, v))
  BY <1>1, <1>3, FailsHere DEF BoolErrs, ChainOfBool
<1>9. Here(DateTimeErrs(m, s, v))
  <2> DEFINE t == TimeOf(m, s, v)
  <2>1. /\ Here(Fails("low", t < Def[s].low)) /\ Here(Fails("high", t > Def[s].high))
        /\ Here(Err("format"))
    BY FailsHere
  <2> QED BY <1>1, <1>3, <2>1 DEF DateTimeErrs
<1> QED BY <1>1, <1>2, <1>4, <1>6, <1>7, <1>8, <1>9

(* So are all the errors of a schema of no objects and no arrays.          *)
LEMMA FlatHere ==
  \A s \in Schemas : Flat(s) => \A m \in Modes, v \in Data : Here(Validate[s][m][v])
<1> DEFINE B == {s \in Schemas : Flat(s) /\ ~ \A m \in Modes, v \in Data : Here(Validate[s][m][v])}
<1>1. SUFFICES ASSUME B # {} PROVE FALSE
  OBVIOUS
<1>2. PICK s \in B : \A t \in B : Depth[s] <= Depth[t]
  BY <1>1, SchemaFacts, LeastRank
<1>3. PICK m \in Modes, v \in Data : ~Here(Validate[s][m][v])
  BY <1>2
<1>4. s \in Schemas /\ ~IsObject(s) /\ Kind(s) # "array"
  BY <1>2, PartsClosed DEF Flat
<1>5. ASSUME NEW t \in Subs(s), NEW c \in Data
      PROVE  t \in Schemas /\ Here(In(Validate, m)[t][c])
  <2>1. t \in Schemas /\ Depth[t] < Depth[s] /\ Depth[s] \in Nat /\ Depth[t] \in Nat
    BY <1>4, SchemaFacts
  <2>2. ~(Depth[s] <= Depth[t])
    BY <2>1
  <2>3. Flat(t)
    BY <1>2, <1>4, PartsClosed DEF Flat
  <2>4. t \notin B
    BY <1>2, <2>2
  <2> QED BY <2>1, <2>3, <2>4 DEF In
<1>6. Validate[s][m][v] = Rules(s, m, v, In(Validate, m))
  BY <1>4, ValidateEquation
<1> DEFINE sub == In(Validate, m)
<1> HIDE DEF sub
<1>7. \A t \in Subs(s), c \in Data : t \in Schemas /\ Here(sub[t][c])
  BY <1>5 DEF sub
<1>8. Here(Rules(s, m, v, sub))
  <2>1. CASE Kind(s) = "transform"
    BY <1>4, <1>7, <2>1, SubsAre, TransformedType, FailsHere DEF Rules
  <2>2. CASE Kind(s) = "dependent"
    <3>1. Def[s].then # None => Def[s].then \in Subs(s)
      BY <1>4, <2>2, SubsAre
    <3>2. Here({})
      BY DEF Here
    <3> QED BY <1>7, <2>2, <3>1, <3>2 DEF Rules
  <2>3. CASE Kind(s) \in {"and", "or", "not"}
    <3>1. Kind(s) = "and" => Here(AndErrs(s, v, sub))
      BY <1>4, <1>7, SubsAre DEF AndErrs, Here
    <3>2. Here(OrErrs(s, v, sub)) /\ Here(NotErrs(s, v, sub))
      BY FailsHere DEF OrErrs, NotErrs
    <3> QED BY <1>4, <2>3, <3>1, <3>2, ScalarsHere DEF Rules
  <2>4. CASE Kind(s) \in {"string", "number", "bool", "datetime", "custom"}
    BY <1>4, <2>4, ScalarsHere DEF Rules
  <2> QED BY <1>4, <2>1, <2>2, <2>3, <2>4, KindsAre DEF IsObject
<1> QED BY <1>3, <1>6, <1>8 DEF sub

(* The errors that objects and arrays find in what they hold.              *)
LEMMA ChildrenAre ==
  ASSUME NEW v \in Data
  PROVE  /\ Type(v) = "map" => \A f : Child(v, f) = IF f \in DOMAIN Fields(v) THEN Fields(v)[f] ELSE None
         /\ Type(v) = "slice" => \A i \in DOMAIN Items(v) : Child(v, Segment(i)) = Items(v)[i]
<1>1. v # None
  BY DataFacts
<1>2. ASSUME Type(v) = "map", NEW f
      PROVE  Child(v, f) = IF f \in DOMAIN Fields(v) THEN Fields(v)[f] ELSE None
  <2>1. CASE f \in DOMAIN Fields(v)
    BY <1>1, <1>2, <2>1 DEF Child
  <2>2. CASE f \notin DOMAIN Fields(v)
    BY <1>1, <1>2, <2>2 DEF Child
  <2> QED BY <2>1, <2>2
<1>3. ASSUME Type(v) = "slice", NEW i \in DOMAIN Items(v)
      PROVE  Child(v, Segment(i)) = Items(v)[i]
  <2> DEFINE j == CHOOSE k \in DOMAIN Items(v) : Positions[k] = Segment(i)
  <2>1. \E k \in DOMAIN Items(v) : Positions[k] = Segment(i)
    BY DEF Segment
  <2>2. j \in DOMAIN Items(v) /\ Positions[j] = Segment(i)
    BY <2>1
  <2>3. IsInjective(Positions)
    BY GraphAssumption
  <2>4. j = i
    <3> HIDE DEF j
    <3> QED BY <2>2, <2>3, DataFacts DEF IsInjective, Segment
  <2>5. Child(v, Segment(i)) = Items(v)[j]
    BY <1>1, <1>3, <2>1 DEF Child
  <2> QED BY <2>4, <2>5
<1> QED BY <1>2, <1>3

(* The error of a missing field leads to no value, in a value that is one.  *)
LEMMA MissingLocated ==
  ASSUME NEW v \in Data, Type(v) = "map", NEW f \in Segs, f \notin DOMAIN Fields(v)
  PROVE  Located(v, At(f, Err("missing")))
<1>1. At(f, Err("missing")) = {[at |-> <<f>> \o <<>>, why |-> "missing"]}
  <2> DEFINE e == [at |-> <<>>, why |-> "missing"]
  <2>1. [e EXCEPT !.at = <<f>> \o @] = [at |-> <<f>> \o <<>>, why |-> "missing"]
    OBVIOUS
  <2>2. At(f, {e}) = {[e EXCEPT !.at = <<f>> \o @]}
    <3> HIDE DEF e
    <3> QED BY Zenon DEF At
  <2> QED BY <2>1, <2>2 DEF Err
<1> DEFINE p == <<f>> \o <<>>
<1>2. <<>> \in Paths /\ v \in Places /\ None \in Places /\ v # None
  BY DataFacts DEF Paths, Places
<1>3. p \in Paths /\ p # <<>> /\ Head(p) = f /\ Tail(p) = <<>> /\ Front(p) = <<>>
  <2>1. /\ <<f>> \o <<>> \in Paths /\ <<f>> \o <<>> # <<>>
        /\ Head(<<f>> \o <<>>) = f /\ Tail(<<f>> \o <<>>) = <<>>
        /\ Front(<<f>> \o <<>>) = <<>>
    BY <1>2, PrependFacts
  <2> QED BY <2>1
<1>4. Child(v, f) = None
  BY ChildrenAre
<1> HIDE DEF p
<1>5. ValueAt[p][v] = ValueAt[<<>>][None] /\ ValueAt[<<>>][None] = None /\ ValueAt[Front(p)][v] = v
  BY <1>2, <1>3, <1>4, ValueAtEquation
<1> QED BY <1>1, <1>2, <1>5 DEF Located, p

LEMMA LocatedParts ==
  /\ \A c, A, B : Located(c, A) /\ Located(c, B) => Located(c, A \cup B)
  /\ \A c, S : (\A A \in S : Located(c, A)) => Located(c, UNION S)
  BY DEF Located

(* sub locates the errors of the schemas that s is built from.             *)
Below(s) == {t \in PartsOf[s] : Depth[t] < Depth[s]}
Locates(s, sub) == Sound(sub) /\ \A t \in Below(s), c \in Data : Located(c, sub[t][c])

(* So are the schemas it is built from, and what a dependent field of it    *)
(* chooses.                                                                 *)
LEMMA SubsBelow ==
  ASSUME NEW s \in Schemas
  PROVE  /\ Subs(s) \subseteq Below(s)
         /\ Kind(s) = "dependencies" => \A f \in Dependents(s), v \in Data :
              Chosen(Def[s].fields[f], v) # None => Chosen(Def[s].fields[f], v) \in Below(s)
<1>1. \A t \in Subs(s) : PartsOf[t] \subseteq PartsOf[s] /\ t \in PartsOf[t] /\ Depth[t] < Depth[s]
  BY PartsClosed, SchemaFacts
<1>2. ASSUME Kind(s) = "dependencies", NEW f \in Dependents(s), NEW v \in Data,
             Chosen(Def[s].fields[f], v) # None
      PROVE  Chosen(Def[s].fields[f], v) \in Below(s)
  <2> DEFINE d == Def[s].fields[f]
             t == Chosen(d, v)
  <2>1. d \in Subs(s) /\ d \in Schemas /\ Kind(d) = "dependent"
    BY <1>2, SubsAre, SchemaFacts DEF Dependents, IsObject
  <2>2. t \in {Def[d].then, Def[d].else} \ {None}
    <3> HIDE DEF d
    <3> QED BY <1>2 DEF Chosen, d
  <2> HIDE DEF d, t
  <2>3. t \in Subs(d)
    BY <2>1, <2>2, SubsAre
  <2>4. t \in PartsOf[s]
    BY <1>1, <2>1, <2>3, PartsClosed, SchemaFacts
  <2>5. /\ Depth[t] < Depth[d] /\ Depth[d] < Depth[s]
        /\ Depth[t] \in Nat /\ Depth[d] \in Nat /\ Depth[s] \in Nat
    BY <2>1, <2>3, SchemaFacts
  <2>6. Depth[t] < Depth[s]
    BY <2>5
  <2> QED BY <2>4, <2>6 DEF Below, t, d
<1> QED BY <1>1, <1>2 DEF Below

(* The errors of each kind of schema with parts are in their places, if     *)
(* those of its parts are.                                                  *)
LEMMA FieldsLocated ==
  ASSUME NEW s \in Schemas, NEW v \in Data, IsObject(s), Type(v) = "map", NEW sub, Locates(s, sub)
  PROVE  Located(v, FieldErrs(s, v, sub))
<1>1. ASSUME NEW f \in Present(s, v)
      PROVE  Located(v, At(f, sub[Def[s].fields[f]][Fields(v)[f]]))
  <2>1. f \in Segs /\ Def[s].fields[f] \in Below(s) /\ Def[s].fields[f] \in Schemas /\ Fields(v)[f] \in Data
    BY SubsAre, SubsBelow, SchemaFacts, DataFacts, NamesAre, SegsAre DEF Present
  <2>2. Child(v, f) = Fields(v)[f]
    BY ChildrenAre DEF Present
  <2> QED BY <2>1, <2>2, AtLocated DEF Locates, Sound
<1> QED BY <1>1, LocatedParts DEF FieldErrs

LEMMA ObjectsLocated ==
  ASSUME NEW m \in Modes, NEW s \in Schemas, NEW v \in Data, IsObject(s), NEW sub, Locates(s, sub)
  PROVE  /\ Located(v, ObjectErrs(m, s, v, sub)) /\ Located(v, TransformObjectErrs(m, s, v, sub))
<1>1. Type(v) # "map" => Here(ObjectErrs(m, s, v, sub)) /\ Here(TransformObjectErrs(m, s, v, sub))
  BY FailsHere, ScalarsHere DEF ObjectErrs, TransformObjectErrs
<1>2. CASE Type(v) # "map"
  BY <1>1, <1>2, HereLocated
<1>3. CASE Type(v) = "map"
  <2>1. ASSUME NEW F \in {Missing(s, v), MissingFields(s, v)}
        PROVE  Located(v, AtEach(F, "missing"))
    <3>1. \A f \in F : f \in Segs /\ f \notin DOMAIN Fields(v)
      BY NamesAre, SegsAre DEF Missing, MissingFields
    <3>2. \A f \in F : Located(v, At(f, Err("missing")))
      BY <1>3, <3>1, MissingLocated
    <3> QED BY <3>2, LocatedParts DEF AtEach
  <2>2. Located(v, AtEach(Rejected(m, s, v), "extra"))
    <3>1. ASSUME NEW f \in Rejected(m, s, v)
          PROVE  Located(v, At(f, Err("extra")))
      <4>1. f \in Segs /\ f \in DOMAIN Fields(v) /\ Fields(v)[f] \in Data
        BY DataFacts, NamesAre, SegsAre DEF Rejected, Extra
      <4>2. Child(v, f) = Fields(v)[f]
        BY <1>3, <4>1, ChildrenAre
      <4>3. Err("extra") \in SUBSET Errors /\ Here(Err("extra"))
        BY ErrType, FailsHere DEF Whys
      <4> QED BY <4>1, <4>2, <4>3, HereLocated, AtLocated
    <3> QED BY <3>1, LocatedParts DEF AtEach
  <2>3. \A x : Located(v, CustomErrs(s, x))
    BY ScalarsHere, HereLocated
  <2>4. Located(v, FieldErrs(s, v, sub))
    BY <1>3, FieldsLocated
  <2> QED BY <1>3, <2>1, <2>2, <2>3, <2>4, LocatedParts DEF ObjectErrs, TransformObjectErrs
<1> QED BY <1>2, <1>3

LEMMA DependentsLocated ==
  ASSUME NEW s \in Schemas, NEW v \in Data, Kind(s) = "dependencies", Type(v) = "map",
         NEW sub, Locates(s, sub)
  PROVE  Located(v, DependentErrs(s, v, sub))
<1>1. ASSUME NEW f \in Dependents(s)
      PROVE  Located(v, At(f, DependentErrsAt(f, s, v, sub)))
  <2> DEFINE d == Def[s].fields[f]
             t == Chosen(d, v)
  <2>0. f \in Segs /\ d \in Schemas /\ (t # None => t \in Below(s) /\ t \in Schemas)
    BY <1>1, SubsAre, SubsBelow, SchemaFacts, PartsEquation, NamesAre, SegsAre DEF Dependents, IsObject, Below
  <2>1. CASE f \in DOMAIN Fields(v)
    <3>1. Fields(v)[f] \in Data /\ Child(v, f) = Fields(v)[f]
      BY <2>1, DataFacts, ChildrenAre
    <3>2. CASE t # None
      <4>1. DependentErrsAt(f, s, v, sub) = sub[t][Fields(v)[f]]
        BY <2>1, <3>2 DEF DependentErrsAt
      <4> HIDE DEF t, d
      <4>2. sub[t][Fields(v)[f]] \in SUBSET Errors /\ Located(Fields(v)[f], sub[t][Fields(v)[f]])
        BY <2>0, <3>1, <3>2 DEF Locates, Sound
      <4> QED BY <2>0, <3>1, <4>1, <4>2, AtLocated
    <3>3. CASE t = None
      <4>1. DependentErrsAt(f, s, v, sub) = CustomErrs(d, Fields(v)[f])
        BY <2>1, <3>3 DEF DependentErrsAt
      <4> HIDE DEF t, d
      <4>2. CustomErrs(d, Fields(v)[f]) \in SUBSET Errors /\ Here(CustomErrs(d, Fields(v)[f]))
        BY CustomType, FailsHere DEF CustomErrs
      <4> QED BY <2>0, <3>1, <4>1, <4>2, HereLocated, AtLocated
    <3> QED BY <3>2, <3>3
  <2>2. CASE f \notin DOMAIN Fields(v)
    <3>1. Located(v, At(f, Err("missing")))
      BY <2>0, <2>2, MissingLocated
    <3>2. Located(v, At(f, {}))
      BY DEF At, Located
    <3>3. DependentErrsAt(f, s, v, sub) \in {Err("missing"), {}}
      BY <2>2 DEF DependentErrsAt, Fails
    <3> QED BY <3>1, <3>2, <3>3
  <2> QED BY <2>1, <2>2
<1> QED BY <1>1, LocatedParts DEF DependentErrs

LEMMA ArraysLocated ==
  ASSUME NEW m \in Modes, NEW s \in Schemas, NEW v \in Data, Kind(s) = "array", NEW sub, Locates(s, sub)
  PROVE  Located(v, ArrayErrs(s, v, sub))
<1>1. CASE Type(v) # "slice"
  BY <1>1, FailsHere, HereLocated DEF ArrayErrs
<1>2. CASE Type(v) = "slice"
  <2>1. Located(v, ItemErrs(s, v, sub))
    <3>1. ASSUME Def[s].elem # None, NEW i \in DOMAIN Items(v)
          PROVE  Located(v, At(Segment(i), sub[Def[s].elem][Items(v)[i]]))
      <4>1. Segment(i) \in Segs /\ Def[s].elem \in Below(s) /\ Def[s].elem \in Schemas /\ Items(v)[i] \in Data
        BY <3>1, SubsAre, SubsBelow, SchemaFacts, DataFacts, SegsAre
      <4>2. Child(v, Segment(i)) = Items(v)[i]
        BY <1>2, ChildrenAre
      <4> QED BY <4>1, <4>2, AtLocated DEF Locates, Sound
    <3>2. Located(v, {})
      BY DEF Located
    <3> QED BY <3>1, <3>2, LocatedParts DEF ItemErrs
  <2>2. /\ Located(v, Fails("items", Len(Items(v)) < Def[s].min \/ Len(Items(v)) > Def[s].max))
        /\ Located(v, Fails("unique", Def[s].unique /\ ~Distinct(v)))
        /\ Located(v, CustomErrs(s, v))
    BY FailsHere, ScalarsHere, HereLocated
  <2> QED BY <1>2, <2>1, <2>2, LocatedParts DEF ArrayErrs
<1> QED BY <1>1, <1>2

LEMMA RulesLocated ==
  ASSUME NEW m \in Modes, NEW s \in Schemas, NEW v \in Data, Kind(s) # "transform",
         NEW sub, Locates(s, sub)
  PROVE  Located(v, Rules(s, m, v, sub))
<1>1. \A t \in Subs(s), c \in Data : Located(c, sub[t][c])
  BY SubsBelow DEF Locates
<1>2. /\ Located(v, CheckRequired(s)) /\ Located(v, Err("type")) /\ Located(v, {})
  BY FailsHere, ScalarsHere, HereLocated DEF Located
<1>3. CASE Kind(s) = "dependent"
  <2>1. Def[s].then # None => Def[s].then \in Subs(s)
    BY <1>3, SubsAre
  <2> QED BY <1>1, <1>2, <1>3, <2>1 DEF Rules
<1>4. CASE Kind(s) = "dependencies"
  <2>1. Located(v, ObjectErrs(m, s, v, sub))
    BY <1>4, ObjectsLocated DEF IsObject
  <2>2. Type(v) = "map" => Located(v, DependentErrs(s, v, sub))
    BY <1>4, DependentsLocated
  <2>3. Rules(s, m, v, sub) =
          IF Type(v) # "map" THEN Err("type") ELSE ObjectErrs(m, s, v, sub) \cup DependentErrs(s, v, sub)
    BY <1>4 DEF Rules
  <2> QED BY <1>2, <2>1, <2>2, <2>3, LocatedParts
<1>5. CASE Kind(s) \in {"object", "array"}
  <2>1. /\ Kind(s) = "object" => Located(v, ObjectErrs(m, s, v, sub))
        /\ Kind(s) = "array" => Located(v, ArrayErrs(s, v, sub))
    BY ObjectsLocated, ArraysLocated DEF IsObject
  <2> QED BY <1>2, <1>5, <2>1 DEF Rules
<1>6. CASE Kind(s) \in {"and", "or", "not"}
  <2>1. Kind(s) = "and" => \A t \in Def[s].subs : Located(v, sub[t][v])
    BY <1>1, SubsAre
  <2>2. Kind(s) = "and" => Located(v, AndErrs(s, v, sub))
    BY <2>1, LocatedParts DEF AndErrs
  <2>3. Located(v, OrErrs(s, v, sub)) /\ Located(v, NotErrs(s, v, sub))
    BY FailsHere, HereLocated DEF OrErrs, NotErrs
  <2> QED BY <1>2, <1>6, <2>2, <2>3 DEF Rules
<1>7. CASE Kind(s) \in {"string", "number", "bool", "datetime", "custom"}
  <2>1. /\ Kind(s) = "string" => Located(v, StringErrs(m, s, v))
        /\ Located(v, NumberErrs(m, s, v)) /\ Located(v, BoolErrs(m, s, v))
        /\ Located(v, DateTimeErrs(m, s, v)) /\ Located(v, CustomErrs(s, v))
    BY ScalarsHere, HereLocated
  <2> QED BY <1>2, <1>7, <2>1 DEF Rules
<1> QED BY <1>3, <1>4, <1>5, <1>6, <1>7, KindsAre

(* A schema whose transformers make no documents.                          *)
Keeps(s) == \A t \in PartsOf[s] : Kind(t) = "transform" => Flat(Def[t].sub)

(* By induction on the depth of the schema, on each of the methods.         *)
LEMMA ValidateLocated ==
  \A s \in Schemas : Keeps(s) => \A m \in Modes, v \in Data : Located(v, Validate[s][m][v])
<1> DEFINE B == {s \in Schemas : Keeps(s) /\ ~ \A m \in Modes, v \in Data : Located(v, Validate[s][m][v])}
<1>1. SUFFICES ASSUME B # {} PROVE FALSE
  OBVIOUS
<1>2. PICK s \in B : \A t \in B : Depth[s] <= Depth[t]
  BY <1>1, SchemaFacts, LeastRank
<1>3. PICK m \in Modes, v \in Data : ~Located(v, Validate[s][m][v])
  BY <1>2
<1> DEFINE sub == In(Validate, m)
<1>4. Validate[s][m][v] = Rules(s, m, v, sub)
  BY <1>2, ValidateEquation
<1>5. CASE Kind(s) = "transform"
  <2>1. Def[s].sub \in Schemas /\ Flat(Def[s].sub)
    BY <1>2, <1>5, SubsAre, SchemaFacts, PartsClosed DEF Keeps
  <2>2. Transformed(s, v) # Failed => Here(sub[Def[s].sub][Transformed(s, v)])
    BY <1>2, <1>5, <2>1, TransformedType, FlatHere DEF In
  <2> HIDE DEF sub
  <2>3. Here(Rules(s, m, v, sub))
    BY <1>5, <2>2, FailsHere DEF Rules
  <2> QED BY <1>3, <1>4, <2>3, HereLocated
<1>6. CASE Kind(s) # "transform"
  <2>1. Sound(sub)
    BY ValidateEquation
  <2>2. ASSUME NEW t \in Below(s), NEW c \in Data PROVE Located(c, sub[t][c])
    <3>1. t \in Schemas /\ PartsOf[t] \subseteq PartsOf[s] /\ Depth[t] < Depth[s]
          /\ Depth[s] \in Nat /\ Depth[t] \in Nat
      BY <1>2, <2>2, PartsNest, PartsEquation, SchemaFacts DEF Below
    <3>2. ~(Depth[s] <= Depth[t])
      BY <3>1
    <3>3. Keeps(t)
      BY <1>2, <3>1 DEF Keeps
    <3> QED BY <1>2, <3>1, <3>2, <3>3 DEF In
  <2>3. Locates(s, sub)
    BY <2>1, <2>2 DEF Locates
  <2> HIDE DEF sub
  <2> QED BY <1>2, <1>3, <1>4, <1>6, <2>3, RulesLocated
<1> QED BY <1>5, <1>6

LEMMA TransformLocated ==
  \A s \in Schemas : Keeps(s) => \A m \in Modes, v \in Data : Located(v, ValidateAndTransform[s][m][v])
<1> DEFINE B == {s \in Schemas : Keeps(s) /\ ~ \A m \in Modes, v \in Data :
                                                   Located(v, ValidateAndTransform[s][m][v])}
<1>1. SUFFICES ASSUME B # {} PROVE FALSE
  OBVIOUS
<1>2. PICK s \in B : \A t \in B : Depth[s] <= Depth[t]
  BY <1>1, SchemaFacts, LeastRank
<1>3. PICK m \in Modes, v \in Data : ~Located(v, ValidateAndTransform[s][m][v])
  BY <1>2
<1> DEFINE sub == In(ValidateAndTransform, m)
<1>4. ValidateAndTransform[s][m][v] = TransformRules(s, m, v, sub)
  BY <1>2, TransformEquation
<1>5. Sound(sub)
  BY TransformEquation
<1>6. ASSUME NEW t \in Below(s), NEW c \in Data PROVE Located(c, sub[t][c])
  <2>1. t \in Schemas /\ PartsOf[t] \subseteq PartsOf[s] /\ Depth[t] < Depth[s]
        /\ Depth[s] \in Nat /\ Depth[t] \in Nat
    BY <1>2, <1>6, PartsNest, PartsEquation, SchemaFacts DEF Below
  <2>2. ~(Depth[s] <= Depth[t])
    BY <2>1
  <2>3. Keeps(t)
    BY <1>2, <2>1 DEF Keeps
  <2> QED BY <1>2, <2>1, <2>2, <2>3 DEF In
<1>7. Locates(s, sub)
  BY <1>5, <1>6 DEF Locates
<1>8. Located(v, Validate[s][m][v])
  BY <1>2, ValidateLocated
<1>9. Located(v, CheckRequired(s))
  BY <1>2, ScalarsHere, HereLocated
<1> HIDE DEF sub
<1>10. /\ IsObject(s) => Located(v, TransformObjectErrs(m, s, v, sub))
       /\ Kind(s) = "array" => Located(v, ArrayErrs(s, v, sub))
  BY <1>2, <1>7, ObjectsLocated, ArraysLocated
<1> QED BY <1>2, <1>3, <1>4, <1>8, <1>9, <1>10 DEF TransformRules, IsObject

LEMMA ChecksLocated ==
  ASSUME NEW s \in Schemas, Keeps(s), NEW m \in Modes, NEW v \in Data
  PROVE  Located(v, RunChecks(m, s, v)) /\ Located(v, TransformCompiled(m, s, v))
<1>1. Located(v, Validate[s][m][v]) /\ Located(v, ValidateAndTransform[s][m][v])
  BY ValidateLocated, TransformLocated
<1>2. Located(v, RunChecks(m, s, v))
  <2>1. \A why, cond : why # "missing" => Located(v, Fails(why, cond)) /\ Located(v, Err(why))
    BY FailsHere, HereLocated
  <2>2. /\ Kind(s) = "string" => Located(v, ChainOfString(m, s, v))
        /\ Located(v, ChainOfNumber(m, s, v)) /\ Located(v, ChainOfBool(m, s, v))
    BY ScalarsHere, HereLocated
  <2> QED BY <1>1, <2>1, <2>2 DEF RunChecks
<1> QED BY <1>1, <1>2 DEF TransformCompiled

(* Every error of a call, compiled or not, on either method, has the path   *)
(* of a value of the datum, or, when a field is missing, of the place where *)
(* it should be in a value that is there; for any nesting of objects,       *)
(* arrays and dependent fields, where no transformer makes a document.      *)
THEOREM ErrorsInPlace == Spec => []ErrorsLocated
<1>1. Called => ErrorsLocated
  <2> SUFFICES ASSUME Called, \A t \in Parts({"transform"}) : Flat(Def[t].sub)
               PROVE  Located(datum, errors)
    BY DEF ErrorsLocated, Located
  <2>1. Keeps(schema)
    BY DEF Parts, Keeps
  <2>2. /\ Located(datum, Validate[schema][mode][datum])
        /\ Located(datum, ValidateAndTransform[schema][mode][datum])
        /\ Located(datum, RunChecks(mode, schema, datum))
        /\ Located(datum, TransformCompiled(mode, schema, datum))
    BY <2>1, ValidateLocated, TransformLocated, ChecksLocated DEF Called
  <2>3. Located(datum, {})
    BY DEF Located
  <2> QED BY <2>2, <2>3 DEF Called
<1> QED BY <1>1, CallsRules, PTL

---------------------------------------------------------------------------
(* When there are no errors.                                               *)
LEMMA Empties ==
  /\ \A why, cond : Err(why) # {} /\ (Fails(why, cond) = {} <=> ~cond)
  /\ \A seg, errs : At(seg, errs) = {} <=> errs = {}
  /\ \A S, why : AtEach(S, why) = {} <=> S = {}
<1>1. \A why, cond : Err(why) # {} /\ (Fails(why, cond) = {} <=> ~cond)
  BY DEF Err, Fails
<1>2. \A seg, errs : At(seg, errs) = {} <=> errs = {}
  BY DEF At
<1>3. \A S, why : AtEach(S, why) = {} <=> S = {}
  BY <1>1, <1>2 DEF AtEach
<1> QED BY <1>1, <1>2, <1>3

LEMMA CustomEmpty == \A s, x : CustomErrs(s, x) = {} <=> CustomOK(s, x)
  BY Empties DEF CustomErrs

LEMMA FieldErrsEmpty ==
  ASSUME NEW s, NEW v, NEW sub
  PROVE  FieldErrs(s, v, sub) = {} <=> \A f \in Present(s, v) : sub[Def[s].fields[f]][Fields(v)[f]] = {}
<1>1. FieldErrs(s, v, sub) = {} <=>
        \A f \in Present(s, v) : At(f, sub[Def[s].fields[f]][Fields(v)[f]]) = {}
  BY DEF FieldErrs
<1> QED BY <1>1, Empties

(* No remainder is left when a number is a multiple.                       *)
LEMMA Multiple ==
  ASSUME NEW n \in Nat, NEW d \in Nat, d # 0
  PROVE  n % d = 0 <=> \E k \in 0..n : n = k * d
<1>1. ASSUME n % d = 0 PROVE \E k \in 0..n : n = k * d
  <2> DEFINE k == n \div d
  <2>1. n = d * k /\ k \in Nat
    BY <1>1
  <2> HIDE DEF k
  <2>2. k <= k * d
    BY <2>1
  <2>3. k * d = d * k
    BY <2>1
  <2> QED BY <2>1, <2>2, <2>3
<1>2. ASSUME NEW k \in 0..n, n = k * d PROVE n % d = 0
  <2>1. (k * d) % d = 0
    OBVIOUS
  <2> QED BY <1>2, <2>1
<1> QED BY <1>1, <1>2

(* The rules of each kind of schema against its truth value.                *)
LEMMA NumberDenotes ==
  ASSUME NEW m \in Modes, NEW s \in Schemas, NEW v \in Data, Kind(s) = "number", NEW sub, Type(v) # "nil"
  PROVE  NumberErrs(m, s, v) = {} <=> Truth(s, m, v, sub)
<1> DEFINE n == Of[v].num
<1>1. /\ n \in Nat /\ Def[s].low \in Nat /\ Def[s].high \in Nat /\ Def[s].multipleOf \subseteq Nat
  BY GraphAssumption
<1>2. Truth(s, m, v, sub) <=>
        /\ IsNumber(m, v) /\ n \in Def[s].low .. Def[s].high
        /\ \A d \in Def[s].multipleOf \ {0} : \E k \in 0 .. n : n = k * d
        /\ Def[s].integer => \E k \in 0 .. n : n = k * One
        /\ Def[s].positive => n > 0
        /\ CustomOK(s, Typed("float64", n))
  BY DEF Truth, IsObject
<1>3. ToFloat64(Typed("float64", n)) = n
  BY DEF ToFloat64, Typed, NumberTypes, Wide
<1>4. ValidatorErrs(s, Typed("float64", n)) = {} <=>
        /\ Def[s].integer => n % One = 0
        /\ Def[s].positive => n # 0
        /\ CustomOK(s, Typed("float64", n))
  <2> DEFINE I == Fails("integer", Def[s].integer /\ ToFloat64(Typed("float64", n)) % One # 0)
             P == Fails("positive", Def[s].positive /\ ToFloat64(Typed("float64", n)) = 0)
             C == CustomErrs(s, Typed("float64", n))
  <2>1. /\ I = {} <=> (Def[s].integer => n % One = 0)
        /\ P = {} <=> (Def[s].positive => n # 0)
        /\ C = {} <=> CustomOK(s, Typed("float64", n))
    BY <1>3, Empties, CustomEmpty
  <2>2. ValidatorErrs(s, Typed("float64", n)) = I \cup P \cup C
    BY DEF ValidatorErrs
  <2> HIDE DEF I, P, C
  <2> QED BY <2>1, <2>2
<1>5. NumberErrs(m, s, v) = {} <=>
        /\ IsNumber(m, v) /\ ~(n < Def[s].low) /\ ~(n > Def[s].high)
        /\ \A d \in Def[s].multipleOf \ {0} : n % d = 0
        /\ ValidatorErrs(s, Typed("float64", n)) = {}
  <2> DEFINE L == Fails("low", n < Def[s].low)
             H == Fails("high", n > Def[s].high)
             M == Fails("multiple", \E d \in Def[s].multipleOf \ {0} : n % d # 0)
             W == ValidatorErrs(s, Typed("float64", n))
  <2>1. /\ L = {} <=> ~(n < Def[s].low)
        /\ H = {} <=> ~(n > Def[s].high)
        /\ M = {} <=> \A d \in Def[s].multipleOf \ {0} : n % d = 0
    BY Empties
  <2>2. NumberErrs(m, s, v) = IF ~IsNumber(m, v) THEN Err("type") ELSE L \cup H \cup M \cup W
    BY DEF NumberErrs
  <2> HIDE DEF L, H, M, W
  <2>3. Err("type") # {}
    BY Empties
  <2> QED BY <2>1, <2>2, <2>3 DEF W
<1>6. \A d \in Def[s].multipleOf \ {0} : n % d = 0 <=> \E k \in 0 .. n : n = k * d
  BY <1>1, Multiple
<1>7. n % One = 0 <=> \E k \in 0 .. n : n = k * One
  BY <1>1, NumberFacts, Multiple
<1>8. /\ n \in Def[s].low .. Def[s].high <=> ~(n < Def[s].low) /\ ~(n > Def[s].high)
      /\ n > 0 <=> n # 0
  BY <1>1
<1> HIDE DEF n
<1> QED BY <1>2, <1>4, <1>5, <1>6, <1>7, <1>8

LEMMA DateTimeDenotes ==
  ASSUME NEW m \in Modes, NEW s \in Schemas, NEW v \in Data, Kind(s) = "datetime", NEW sub, Type(v) # "nil"
  PROVE  DateTimeErrs(m, s, v) = {} <=> Truth(s, m, v, sub)
<1> DEFINE t == TimeOf(m, s, v)
<1>1. t # None => t \in Nat
  <2>1. Of[v].num \in Nat /\ Range(Def[s].parse) \subseteq Nat /\ Range(Common) \subseteq Nat
    BY GraphAssumption
  <2>2. /\ \A x \in DOMAIN Def[s].parse : Def[s].parse[x] \in Nat
        /\ \A x \in DOMAIN Common : Common[x] \in Nat
    BY <2>1 DEF Range
  <2> QED BY <2>1, <2>2 DEF TimeOf
<1>2. Def[s].low \in Nat /\ Def[s].high \in Nat
  BY GraphAssumption
<1>3. Truth(s, m, v, sub) <=>
        \E x \in {t} \ {None} : x \in Def[s].low .. Def[s].high /\ CustomOK(s, x)
  BY DEF Truth, IsObject
<1> DEFINE L == Fails("low", t < Def[s].low)
           H == Fails("high", t > Def[s].high)
           C == CustomErrs(s, t)
<1>4. L = {} <=> ~(t < Def[s].low)
  BY Empties
<1>5. H = {} <=> ~(t > Def[s].high)
  BY Empties
<1>6. C = {} <=> CustomOK(s, t)
  BY CustomEmpty
<1>7. DateTimeErrs(m, s, v) = IF t = None THEN Err("format") ELSE L \cup H \cup C
  BY DEF DateTimeErrs
<1>8. Err("format") # {}
  BY Empties
<1> HIDE DEF L, H, C, t
<1> QED BY <1>1, <1>2, <1>3, <1>4, <1>5, <1>6, <1>7, <1>8

LEMMA StringDenotes ==
  ASSUME NEW m \in Modes, NEW s \in Schemas, NEW v \in Data, Kind(s) = "string", NEW sub, Type(v) # "nil"
  PROVE  StringErrs(m, s, v) = {} <=> Truth(s, m, v, sub)
<1> DEFINE text == AsString(m, v)
<1>1. Truth(s, m, v, sub) <=>
        text # NoText /\ CustomOK(s, text) /\ \A t \in DOMAIN Def[s].tests : text \in Def[s].tests[t]
  BY DEF Truth, IsObject
<1>2. StringErrs(m, s, v) = IF text = NoText THEN Err("type") ELSE TestErrs(s, text) \cup CustomErrs(s, text)
  BY DEF StringErrs, FailingTests
<1> HIDE DEF text
<1>3. TestErrs(s, text) = {} <=> \A t \in DOMAIN Def[s].tests : text \in Def[s].tests[t]
  <2>1. TestErrs(s, text) = {} <=>
          \A t \in DOMAIN Def[s].tests : Fails(t, text \notin Def[s].tests[t]) = {}
    BY DEF TestErrs
  <2> QED BY <2>1, Empties
<1> QED BY <1>1, <1>2, <1>3, Empties, CustomEmpty

(* g finds no errors where h holds.                                        *)
Denotes(t, g, h) == \A c \in Data : g[t][c] = {} <=> h[t][c]

LEMMA ArrayDenotes ==
  ASSUME NEW m \in Modes, NEW s \in Schemas, NEW v \in Data, Kind(s) = "array", Type(v) # "nil",
         NEW g, NEW h, \A t \in Subs(s) : Denotes(t, g, h)
  PROVE  ArrayErrs(s, v, g) = {} <=> Truth(s, m, v, h)
<1> DEFINE n == Len(Items(v))
           I == Fails("items", n < Def[s].min \/ n > Def[s].max)
           U == Fails("unique", Def[s].unique /\ ~Distinct(v))
           E == ItemErrs(s, v, g)
           C == CustomErrs(s, v)
<1>1. n \in Nat /\ Def[s].min \in Nat /\ Def[s].max \in Nat
  <2>1. Items(v) \in Seq(Data) /\ {Def[s].min, Def[s].max} \subseteq Nat
    BY GraphAssumption
  <2> QED BY <2>1
<1>2. Truth(s, m, v, h) <=>
        /\ Type(v) = "slice" /\ CustomOK(s, v) /\ n \in Def[s].min .. Def[s].max
        /\ Def[s].unique => Distinct(v)
        /\ Def[s].elem # None => \A c \in Range(Items(v)) : h[Def[s].elem][c]
  BY DEF Truth, IsObject
<1>3. ArrayErrs(s, v, g) = IF Type(v) # "slice" THEN Err("type") ELSE I \cup U \cup E \cup C
  BY DEF ArrayErrs
<1>4. I = {} <=> n \in Def[s].min .. Def[s].max
  <2>1. I = {} <=> ~(n < Def[s].min \/ n > Def[s].max)
    BY Empties
  <2> QED BY <1>1, <2>1
<1>5. U = {} <=> (Def[s].unique => Distinct(v))
  BY Empties
<1>6. C = {} <=> CustomOK(s, v)
  BY CustomEmpty
<1>7. E = {} <=> (Def[s].elem # None => \A c \in Range(Items(v)) : h[Def[s].elem][c])
  <2>1. CASE Def[s].elem = None
    BY <2>1 DEF ItemErrs
  <2>2. CASE Def[s].elem # None
    <3>1. Denotes(Def[s].elem, g, h)
      BY <2>2, SubsAre
    <3>2. E = {} <=> \A i \in DOMAIN Items(v) : At(Segment(i), g[Def[s].elem][Items(v)[i]]) = {}
      BY <2>2 DEF ItemErrs
    <3>3. E = {} <=> \A i \in DOMAIN Items(v) : g[Def[s].elem][Items(v)[i]] = {}
      BY <3>2, Empties
    <3>4. \A i \in DOMAIN Items(v) : g[Def[s].elem][Items(v)[i]] = {} <=> h[Def[s].elem][Items(v)[i]]
      BY <3>1, DataFacts DEF Denotes
    <3>5. (\A c \in Range(Items(v)) : h[Def[s].elem][c]) <=>
            \A i \in DOMAIN Items(v) : h[Def[s].elem][Items(v)[i]]
      BY DEF Range
    <3> QED BY <2>2, <3>3, <3>4, <3>5
  <2> QED BY <2>1, <2>2
<1>8. Err("type") # {}
  BY Empties
<1> HIDE DEF n, I, U, E, C
<1> QED BY <1>2, <1>3, <1>4, <1>5, <1>6, <1>7, <1>8

LEMMA CompositeDenotes ==
  ASSUME NEW m \in Modes, NEW s \in Schemas, NEW v \in Data, Kind(s) \in {"and", "or", "not"},
         Type(v) # "nil", NEW g, NEW h, \A t \in Subs(s) : Denotes(t, g, h)
  PROVE  Rules(s, m, v, g) = {} <=> Truth(s, m, v, h)
<1>1. CASE Kind(s) = "and"
  <2>1. \A t \in Def[s].subs : g[t][v] = {} <=> h[t][v]
    BY <1>1, SubsAre DEF Denotes
  <2>2. Rules(s, m, v, g) = AndErrs(s, v, g)
    BY <1>1 DEF Rules
  <2>3. AndErrs(s, v, g) = {} <=> \A t \in Def[s].subs : g[t][v] = {}
    BY DEF AndErrs
  <2>4. Truth(s, m, v, h) <=> \A t \in Def[s].subs : h[t][v]
    BY <1>1 DEF Truth, IsObject
  <2> QED BY <2>1, <2>2, <2>3, <2>4
<1>2. CASE Kind(s) = "or"
  <2>1. \A t \in Def[s].subs : g[t][v] = {} <=> h[t][v]
    BY <1>2, SubsAre DEF Denotes
  <2>2. Rules(s, m, v, g) = OrErrs(s, v, g)
    BY <1>2 DEF Rules
  <2>3. OrErrs(s, v, g) = {} <=> ~(Def[s].subs # {} /\ \A t \in Def[s].subs : g[t][v] # {})
    BY Empties DEF OrErrs
  <2>4. Truth(s, m, v, h) <=> Def[s].subs = {} \/ \E t \in Def[s].subs : h[t][v]
    BY <1>2 DEF Truth, IsObject
  <2> QED BY <2>1, <2>2, <2>3, <2>4
<1>3. CASE Kind(s) = "not"
  <2>1. g[Def[s].sub][v] = {} <=> h[Def[s].sub][v]
    BY <1>3, SubsAre DEF Denotes
  <2>2. Rules(s, m, v, g) = NotErrs(s, v, g)
    BY <1>3 DEF Rules
  <2>3. NotErrs(s, v, g) = {} <=> ~(g[Def[s].sub][v] = {})
    BY Empties DEF NotErrs
  <2>4. Truth(s, m, v, h) <=> ~h[Def[s].sub][v]
    BY <1>3 DEF Truth, IsObject
  <2> QED BY <2>1, <2>2, <2>3, <2>4
<1> QED BY <1>1, <1>2, <1>3

(* What an object asks of its fields, without and with those that depend.  *)
FieldsHold(m, s, v, sub) ==
  /\ Type(v) = "map" /\ CustomOK(s, Fields(v))
  /\ Def[s].requiredFields \subseteq DOMAIN Fields(v)
  /\ RejectsExtra(m, s) => DOMAIN Fields(v) \subseteq DOMAIN Def[s].fields
  /\ \A f \in DOMAIN Def[s].fields :
       IF f \in DOMAIN Fields(v) THEN sub[Def[s].fields[f]][Fields(v)[f]]
       ELSE f \in Dependents(s) \/ ~IsRequired[Def[s].fields[f]]
DependentHolds(f, s, v, sub) ==
  LET d == Def[s].fields[f]
      chosen == Chosen(d, v)
  IN  IF f \in DOMAIN Fields(v)
      THEN IF chosen = None THEN CustomOK(d, Fields(v)[f]) ELSE sub[chosen][Fields(v)[f]]
      ELSE ConditionMet(d, v) => ~Def[d].required /\ (chosen # None => ~IsRequired[chosen])

LEMMA ObjectTruth ==
  ASSUME NEW m \in Modes, NEW s \in Schemas, NEW v \in Data, IsObject(s), Type(v) # "nil", NEW sub
  PROVE  Truth(s, m, v, sub) <=>
           FieldsHold(m, s, v, sub) /\ \A f \in Dependents(s) : DependentHolds(f, s, v, sub)
  BY DEF Truth, IsObject, FieldsHold, DependentHolds

LEMMA ObjectEmpty ==
  ASSUME NEW m \in Modes, NEW s \in Schemas, NEW v \in Data, IsObject(s), NEW sub
  PROVE  ObjectErrs(m, s, v, sub) = {} <=>
           /\ Type(v) = "map" /\ CustomOK(s, Fields(v))
           /\ Def[s].requiredFields \subseteq DOMAIN Fields(v)
           /\ RejectsExtra(m, s) => DOMAIN Fields(v) \subseteq DOMAIN Def[s].fields
           /\ \A f \in DOMAIN Def[s].fields :
                IF f \in DOMAIN Fields(v) THEN sub[Def[s].fields[f]][Fields(v)[f]] = {}
                ELSE ~IsRequired[Def[s].fields[f]]
<1> DEFINE M == AtEach(Missing(s, v), "missing")
           E == FieldErrs(s, v, sub)
           X == AtEach(Rejected(m, s, v), "extra")
           C == CustomErrs(s, Fields(v))
<1>1. M = {} <=> /\ Def[s].requiredFields \subseteq DOMAIN Fields(v)
                 /\ \A f \in DOMAIN Def[s].fields \ DOMAIN Fields(v) : ~IsRequired[Def[s].fields[f]]
  <2>1. M = {} <=> Missing(s, v) = {}
    BY Empties
  <2> QED BY <2>1 DEF Missing
<1>2. E = {} <=> \A f \in DOMAIN Def[s].fields \cap DOMAIN Fields(v) : sub[Def[s].fields[f]][Fields(v)[f]] = {}
  BY FieldErrsEmpty DEF Present
<1>3. X = {} <=> (RejectsExtra(m, s) => DOMAIN Fields(v) \subseteq DOMAIN Def[s].fields)
  <2>1. X = {} <=> Rejected(m, s, v) = {}
    BY Empties
  <2> QED BY <2>1 DEF Rejected, Extra
<1>4. C = {} <=> CustomOK(s, Fields(v))
  BY CustomEmpty
<1>5. ObjectErrs(m, s, v, sub) = IF Type(v) # "map" THEN Err("type") ELSE M \cup E \cup X \cup C
  BY DEF ObjectErrs
<1>6. Err("type") # {}
  BY Empties
<1> HIDE DEF M, E, X, C
<1> QED BY <1>1, <1>2, <1>3, <1>4, <1>5, <1>6

LEMMA ObjectDenotes ==
  ASSUME NEW m \in Modes, NEW s \in Schemas, NEW v \in Data, Kind(s) = "object", Type(v) # "nil",
         NEW g, NEW h, \A t \in Subs(s) : Denotes(t, g, h)
  PROVE  ObjectErrs(m, s, v, g) = {} <=> Truth(s, m, v, h)
<1>1. Dependents(s) = {}
  BY SubsAre, SchemaFacts DEF Dependents, IsObject
<1>2. \A f \in DOMAIN Def[s].fields \cap DOMAIN Fields(v) :
        g[Def[s].fields[f]][Fields(v)[f]] = {} <=> h[Def[s].fields[f]][Fields(v)[f]]
  BY SubsAre, DataFacts DEF Denotes, IsObject
<1>3. IsObject(s)
  BY DEF IsObject
<1>4. Truth(s, m, v, h) <=> FieldsHold(m, s, v, h)
  BY <1>1, <1>3, ObjectTruth
<1>5. FieldsHold(m, s, v, h) <=>
        /\ Type(v) = "map" /\ CustomOK(s, Fields(v))
        /\ Def[s].requiredFields \subseteq DOMAIN Fields(v)
        /\ RejectsExtra(m, s) => DOMAIN Fields(v) \subseteq DOMAIN Def[s].fields
        /\ \A f \in DOMAIN Def[s].fields :
             IF f \in DOMAIN Fields(v) THEN h[Def[s].fields[f]][Fields(v)[f]]
             ELSE ~IsRequired[Def[s].fields[f]]
  BY <1>1 DEF FieldsHold
<1>6. (\A f \in DOMAIN Def[s].fields :
         IF f \in DOMAIN Fields(v) THEN h[Def[s].fields[f]][Fields(v)[f]]
         ELSE ~IsRequired[Def[s].fields[f]])
      <=> \A f \in DOMAIN Def[s].fields :
            IF f \in DOMAIN Fields(v) THEN g[Def[s].fields[f]][Fields(v)[f]] = {}
            ELSE ~IsRequired[Def[s].fields[f]]
  BY <1>2
<1>7. ObjectErrs(m, s, v, g) = {} <=>
        /\ Type(v) = "map" /\ CustomOK(s, Fields(v))
        /\ Def[s].requiredFields \subseteq DOMAIN Fields(v)
        /\ RejectsExtra(m, s) => DOMAIN Fields(v) \subseteq DOMAIN Def[s].fields
        /\ \A f \in DOMAIN Def[s].fields :
             IF f \in DOMAIN Fields(v) THEN g[Def[s].fields[f]][Fields(v)[f]] = {}
             ELSE ~IsRequired[Def[s].fields[f]]
  BY <1>3, ObjectEmpty
<1>8. ObjectErrs(m, s, v, g) = {} <=> FieldsHold(m, s, v, h)
  BY <1>5, <1>6, <1>7, ZenonT(40)
<1> QED BY <1>4, <1>8

(* No errors where it holds: one level of a schema, given those below it.   *)
LEMMA RulesDenote ==
  ASSUME NEW m \in Modes, NEW s \in Schemas, NEW v \in Data, Kind(s) \notin {"dependent", "dependencies"},
         NEW g, NEW h, \A t \in Subs(s) : Denotes(t, g, h)
  PROVE  Rules(s, m, v, g) = {} <=> Truth(s, m, v, h)
<1>1. CASE Kind(s) = "transform"
  <2>1. Denotes(Def[s].sub, g, h)
    BY <1>1, SubsAre
  <2>2. Truth(s, m, v, h) <=> Transformed(s, v) # Failed /\ h[Def[s].sub][Transformed(s, v)]
    BY <1>1 DEF Truth
  <2>3. Rules(s, m, v, g) = IF Transformed(s, v) = Failed THEN Err("transform")
                            ELSE g[Def[s].sub][Transformed(s, v)]
    BY <1>1 DEF Rules
  <2>4. Err("transform") # {}
    BY Empties
  <2> QED BY <1>1, <2>1, <2>2, <2>3, <2>4, TransformedType DEF Denotes
<1>2. CASE Kind(s) # "transform" /\ Type(v) = "nil"
  <2>1. Rules(s, m, v, g) = CheckRequired(s)
    BY <1>2 DEF Rules
  <2>2. Truth(s, m, v, h) <=> Def[s].nullable /\ ~Def[s].required
    BY <1>2 DEF Truth
  <2>3. CheckRequired(s) = {} <=> Def[s].nullable /\ ~Def[s].required
    BY Empties DEF CheckRequired
  <2> QED BY <2>1, <2>2, <2>3
<1>3. CASE Kind(s) \in {"and", "or", "not"} /\ Type(v) # "nil"
  BY <1>3, CompositeDenotes
<1>4. CASE Kind(s) \in {"object", "array"} /\ Type(v) # "nil"
  <2>1. /\ Kind(s) = "object" => Rules(s, m, v, g) = ObjectErrs(m, s, v, g)
        /\ Kind(s) = "array" => Rules(s, m, v, g) = ArrayErrs(s, v, g)
    BY <1>4 DEF Rules
  <2> QED BY <1>4, <2>1, ObjectDenotes, ArrayDenotes
<1>5. CASE Kind(s) \in {"string", "number", "datetime"} /\ Type(v) # "nil"
  <2>1. /\ Kind(s) = "string" => Rules(s, m, v, g) = StringErrs(m, s, v)
        /\ Kind(s) = "number" => Rules(s, m, v, g) = NumberErrs(m, s, v)
        /\ Kind(s) = "datetime" => Rules(s, m, v, g) = DateTimeErrs(m, s, v)
    BY <1>5 DEF Rules
  <2> QED BY <1>5, <2>1, StringDenotes, NumberDenotes, DateTimeDenotes
<1>6. CASE Kind(s) \in {"bool", "custom"} /\ Type(v) # "nil"
  <2>1. CASE Kind(s) = "bool"
    <3> DEFINE ok == \/ Type(v) = "bool"
                     \/ m = "loose" /\ Type(v) = "string" /\ Of[v].text \in {"true", "false"}
    <3>1. Rules(s, m, v, g) = IF ok THEN CustomErrs(s, v) ELSE Err("type")
      BY <1>6, <2>1 DEF Rules, BoolErrs
    <3>2. Truth(s, m, v, h) <=> ok /\ CustomOK(s, v)
      BY <1>6, <2>1 DEF Truth, IsObject
    <3> HIDE DEF ok
    <3> QED BY <3>1, <3>2, Empties, CustomEmpty
  <2>2. CASE Kind(s) = "custom"
    <3>1. Rules(s, m, v, g) = CustomErrs(s, v)
      BY <1>6, <2>2 DEF Rules
    <3>2. Truth(s, m, v, h) <=> CustomOK(s, v)
      BY <1>6, <2>2 DEF Truth, IsObject
    <3> QED BY <3>1, <3>2, CustomEmpty
  <2> QED BY <1>6, <2>1, <2>2
<1> QED BY <1>1, <1>2, <1>3, <1>4, <1>5, <1>6, KindsAre

(* A schema in which nothing depends on a condition.                       *)
Simple(s) == Kind(s) # "dependent" /\ \A t \in PartsOf[s] : Kind(t) # "dependencies"

(* Every level of it, by induction on the depth.                            *)
LEMMA SimpleDenotes ==
  \A s \in Schemas : Simple(s) => \A m \in Modes : Denotes(s, In(Validate, m), In(Valid, m))
<1> DEFINE B == {s \in Schemas : Simple(s) /\ ~ \A m \in Modes : Denotes(s, In(Validate, m), In(Valid, m))}
<1>1. SUFFICES ASSUME B # {} PROVE FALSE
  OBVIOUS
<1>2. PICK s \in B : \A t \in B : Depth[s] <= Depth[t]
  BY <1>1, SchemaFacts, LeastRank
<1>3. PICK m \in Modes : ~Denotes(s, In(Validate, m), In(Valid, m))
  BY <1>2
<1> DEFINE g == In(Validate, m)
           h == In(Valid, m)
<1>4. ASSUME NEW t \in Subs(s) PROVE Denotes(t, g, h)
  <2>1. t \in Schemas /\ PartsOf[t] \subseteq PartsOf[s] /\ Depth[t] < Depth[s]
        /\ Depth[s] \in Nat /\ Depth[t] \in Nat
    BY <1>2, PartsClosed, SchemaFacts
  <2>2. ~(Depth[s] <= Depth[t])
    BY <2>1
  <2>3. Kind(t) # "dependent"
    BY <1>2, PartsClosed, SchemaFacts DEF Simple
  <2>4. Simple(t)
    BY <1>2, <2>1, <2>3 DEF Simple
  <2>5. t \notin B
    BY <1>2, <2>2
  <2> QED BY <2>1, <2>4, <2>5
<1>5. Kind(s) \notin {"dependent", "dependencies"}
  BY <1>2, PartsClosed DEF Simple
<1>6. \A v \in Data : g[s][v] = Rules(s, m, v, g) /\ h[s][v] = Truth(s, m, v, h)
  BY <1>2, ValidateEquation, ValidEquation DEF In
<1> HIDE DEF g, h
<1>7. \A v \in Data : g[s][v] = {} <=> h[s][v]
  BY <1>2, <1>4, <1>5, <1>6, RulesDenote
<1> QED BY <1>3, <1>7 DEF Denotes, g, h

(* An object with dependencies that is not in another one, on a value of   *)
(* which each dependent field satisfies its Then schema or its condition,  *)
(* and which lacks no Required one whose condition is not met.             *)
LEMMA DependenciesDenote ==
  ASSUME NEW m \in Modes, NEW s \in Schemas, NEW v \in Data, Kind(s) = "dependencies", Type(v) # "nil",
         \A t \in PartsOf[s] : Kind(t) = "dependencies" => t = s,
         \A f \in Dependents(s) \cap DOMAIN Fields(v) :
           LET d == Def[s].fields[f]
           IN  Def[d].then = None \/ ConditionMet(d, v) \/ Valid[Def[d].then][m][Fields(v)[f]],
         \A f \in Dependents(s) \ DOMAIN Fields(v) :
           LET d == Def[s].fields[f] IN Def[d].required => ConditionMet(d, v)
  PROVE  Validate[s][m][v] = {} <=> Valid[s][m][v]
<1> DEFINE g == In(Validate, m)
           h == In(Valid, m)
<1>1. ASSUME NEW t \in Below(s), Kind(t) # "dependent"
      PROVE  t \in Schemas /\ Denotes(t, g, h)
  <2>1. t \in Schemas /\ PartsOf[t] \subseteq PartsOf[s]
    BY <1>1, PartsNest, PartsEquation DEF Below
  <2>2. ASSUME NEW u \in PartsOf[t] PROVE Kind(u) # "dependencies"
    <3>1. Depth[u] <= Depth[t] /\ Depth[t] < Depth[s] /\ u \in Schemas
      BY <1>1, <2>1, PartsShallow DEF Below
    <3>2. Depth[u] \in Nat /\ Depth[t] \in Nat /\ Depth[s] \in Nat
      BY <2>1, <3>1, SchemaFacts
    <3>3. u # s
      BY <3>1, <3>2
    <3> QED BY <2>1, <3>3
  <2>3. Simple(t)
    BY <1>1, <2>2 DEF Simple
  <2> QED BY <2>1, <2>3, SimpleDenotes
<1>2. Validate[s][m][v] = Rules(s, m, v, g) /\ Valid[s][m][v] = Truth(s, m, v, h)
  BY ValidateEquation, ValidEquation
<1>3. Rules(s, m, v, g) = IF Type(v) # "map" THEN Err("type")
                          ELSE ObjectErrs(m, s, v, g) \cup DependentErrs(s, v, g)
  BY DEF Rules
<1>4. Truth(s, m, v, h) <=> FieldsHold(m, s, v, h) /\ \A f \in Dependents(s) : DependentHolds(f, s, v, h)
  BY ObjectTruth DEF IsObject
<1>5. DependentErrs(s, v, g) = {} <=> \A f \in Dependents(s) : DependentErrsAt(f, s, v, g) = {}
  <2>1. DependentErrs(s, v, g) = {} <=> \A f \in Dependents(s) : At(f, DependentErrsAt(f, s, v, g)) = {}
    BY DEF DependentErrs
  <2> QED BY <2>1, Empties
<1>6. ASSUME NEW f \in Dependents(s), f \in DOMAIN Fields(v)
      PROVE  /\ h[Def[s].fields[f]][Fields(v)[f]]
             /\ DependentErrsAt(f, s, v, g) = {} <=> DependentHolds(f, s, v, h)
             /\ DependentErrsAt(f, s, v, g) = {} => g[Def[s].fields[f]][Fields(v)[f]] = {}
  <2> DEFINE d == Def[s].fields[f]
             x == Fields(v)[f]
             c == Chosen(d, v)
  <2>1. d \in Schemas /\ Kind(d) = "dependent" /\ x \in Data
    BY <1>6, SubsAre, SchemaFacts, DataFacts DEF Dependents, IsObject
  <2>2. c # None => c \in Below(s) /\ c \in {Def[d].then, Def[d].else} \ {None}
    BY <1>6, SubsBelow DEF Chosen
  <2>3. c # None => c \in Schemas /\ Denotes(c, g, h)
    <3> HIDE DEF c, d, g, h
    <3>1. c # None => c \in Subs(d)
      BY <2>1, <2>2, SubsAre
    <3>2. c # None => Kind(c) # "dependent"
      BY <2>1, <3>1, SchemaFacts
    <3> QED BY <1>1, <2>2, <3>2 DEF g, h
  <2>4. h[d][x]
    <3>1. h[d][x] = Truth(d, m, x, h)
      BY <2>1, ValidEquation DEF In
    <3>2. Truth(d, m, x, h)
      <4> HIDE DEF d, h, x
      <4> QED BY <2>1 DEF Truth
    <3> QED BY <3>1, <3>2
  <2>5. g[d][x] = IF Def[d].then = None THEN {} ELSE g[Def[d].then][x]
    <3>1. g[d][x] = Rules(d, m, x, g)
      BY <2>1, ValidateEquation DEF In
    <3>2. Rules(d, m, x, g) = IF Def[d].then = None THEN {} ELSE g[Def[d].then][x]
      <4> HIDE DEF d, g, x
      <4> QED BY <2>1 DEF Rules
    <3> QED BY <3>1, <3>2
  <2>6. DependentErrsAt(f, s, v, g) = IF c # None THEN g[c][x] ELSE CustomErrs(d, x)
    BY <1>6 DEF DependentErrsAt
  <2>7. DependentHolds(f, s, v, h) <=> IF c = None THEN CustomOK(d, x) ELSE h[c][x]
    BY <1>6 DEF DependentHolds
  <2>8. DependentErrsAt(f, s, v, g) = {} <=> DependentHolds(f, s, v, h)
    <3> HIDE DEF c, d, g, h, x
    <3> QED BY <2>1, <2>3, <2>6, <2>7, CustomEmpty DEF Denotes
  <2>9. ConditionMet(d, v) => c = Def[d].then
    BY DEF Chosen
  <2>10. Def[d].then # None /\ ~ConditionMet(d, v) => g[Def[d].then][x] = {}
    <3> SUFFICES ASSUME Def[d].then # None, ~ConditionMet(d, v) PROVE g[Def[d].then][x] = {}
      OBVIOUS
    <3>1. Valid[Def[d].then][m][x]
      BY <1>6
    <3> HIDE DEF d, x
    <3>2. Def[d].then \in Subs(d) /\ Def[d].then \in Schemas
      BY <2>1, SubsAre, SchemaFacts
    <3>3. Kind(Def[d].then) # "dependent"
      BY <2>1, <3>2, SchemaFacts
    <3>4. d \in Subs(s) /\ Def[d].then \in Below(s)
      <4>1. d \in Subs(s)
        BY SubsAre DEF d, Dependents, IsObject
      <4>2. Def[d].then \in PartsOf[s]
        BY <2>1, <3>2, <4>1, PartsClosed
      <4>3. /\ Depth[Def[d].then] < Depth[d] /\ Depth[d] < Depth[s]
            /\ Depth[Def[d].then] \in Nat /\ Depth[d] \in Nat /\ Depth[s] \in Nat
        BY <2>1, <3>2, <4>1, SchemaFacts
      <4>4. Depth[Def[d].then] < Depth[s]
        BY <4>3
      <4> QED BY <4>1, <4>2, <4>4 DEF Below
    <3>5. Denotes(Def[d].then, g, h)
      BY <1>1, <3>3, <3>4
    <3>6. h[Def[d].then][x]
      BY <3>1, <3>2 DEF In
    <3> HIDE DEF g, h
    <3> QED BY <2>1, <3>5, <3>6 DEF Denotes
  <2>11. DependentErrsAt(f, s, v, g) = {} => g[d][x] = {}
    <3> HIDE DEF c, d, g, h, x
    <3> QED BY <2>5, <2>6, <2>9, <2>10
  <2> QED BY <2>4, <2>8, <2>11
<1>7. ASSUME NEW f \in Dependents(s), f \notin DOMAIN Fields(v)
      PROVE  /\ DependentErrsAt(f, s, v, g) = {} <=> DependentHolds(f, s, v, h)
             /\ DependentHolds(f, s, v, h) => ~IsRequired[Def[s].fields[f]]
  <2> DEFINE d == Def[s].fields[f]
  <2>1. d \in Schemas /\ Kind(d) = "dependent"
    BY <1>7, SubsAre, SchemaFacts DEF Dependents, IsObject
  <2>2. IsRequired[d] <=> Def[d].required
    <3> HIDE DEF d
    <3> QED BY <2>1, RequiredEquation
  <2>3. DependentErrsAt(f, s, v, g) = {} <=>
          ~(ConditionMet(d, v) /\ (Def[d].required \/ (Def[d].then # None /\ IsRequired[Def[d].then])))
    BY <1>7, Empties DEF DependentErrsAt
  <2>4. DependentHolds(f, s, v, h) <=>
          (ConditionMet(d, v) =>
             ~Def[d].required /\ (Chosen(d, v) # None => ~IsRequired[Chosen(d, v)]))
    BY <1>7 DEF DependentHolds
  <2>5. ConditionMet(d, v) => Chosen(d, v) = Def[d].then
    BY DEF Chosen
  <2>6. Def[d].required => ConditionMet(d, v)
    BY <1>7
  <2>7. DependentErrsAt(f, s, v, g) = {} <=> DependentHolds(f, s, v, h)
    <3> HIDE DEF d
    <3> QED BY <2>3, <2>4, <2>5
  <2>8. DependentHolds(f, s, v, h) => ~IsRequired[d]
    <3> HIDE DEF d
    <3> QED BY <2>2, <2>4, <2>6
  <2> QED BY <2>7, <2>8
<1>8. ASSUME NEW f \in DOMAIN Def[s].fields, f \in DOMAIN Fields(v), f \notin Dependents(s)
      PROVE  g[Def[s].fields[f]][Fields(v)[f]] = {} <=> h[Def[s].fields[f]][Fields(v)[f]]
  <2>1. Def[s].fields[f] \in Below(s) /\ Kind(Def[s].fields[f]) # "dependent" /\ Fields(v)[f] \in Data
    BY <1>8, SubsAre, SubsBelow, DataFacts DEF Dependents, IsObject
  <2> QED BY <1>1, <2>1 DEF Denotes
<1> HIDE DEF g, h
<1>9. ObjectErrs(m, s, v, g) = {} <=>
        /\ Type(v) = "map" /\ CustomOK(s, Fields(v))
        /\ Def[s].requiredFields \subseteq DOMAIN Fields(v)
        /\ RejectsExtra(m, s) => DOMAIN Fields(v) \subseteq DOMAIN Def[s].fields
        /\ \A f \in DOMAIN Def[s].fields :
             IF f \in DOMAIN Fields(v) THEN g[Def[s].fields[f]][Fields(v)[f]] = {}
             ELSE ~IsRequired[Def[s].fields[f]]
  BY ObjectEmpty DEF IsObject
<1>10. (\A f \in Dependents(s) : f \in DOMAIN Def[s].fields) /\ Err("type") # {}
  BY Empties DEF Dependents
<1>11. ASSUME ObjectErrs(m, s, v, g) = {}, DependentErrs(s, v, g) = {}
       PROVE  Truth(s, m, v, h)
  <2>1. \A f \in Dependents(s) : DependentHolds(f, s, v, h)
    BY <1>5, <1>6, <1>7, <1>11
  <2>2. FieldsHold(m, s, v, h)
    BY <1>6, <1>8, <1>9, <1>11 DEF FieldsHold
  <2> QED BY <1>4, <2>1, <2>2
<1>12. ASSUME Truth(s, m, v, h)
       PROVE  Type(v) = "map" /\ ObjectErrs(m, s, v, g) = {} /\ DependentErrs(s, v, g) = {}
  <2>1. FieldsHold(m, s, v, h) /\ \A f \in Dependents(s) : DependentHolds(f, s, v, h)
    BY <1>4, <1>12
  <2>2. \A f \in Dependents(s) : DependentErrsAt(f, s, v, g) = {}
    BY <1>6, <1>7, <2>1
  <2>3. \A f \in DOMAIN Def[s].fields : f \in DOMAIN Fields(v) => g[Def[s].fields[f]][Fields(v)[f]] = {}
    BY <1>6, <1>8, <2>1, <2>2 DEF FieldsHold
  <2>4. \A f \in DOMAIN Def[s].fields : f \notin DOMAIN Fields(v) => ~IsRequired[Def[s].fields[f]]
    BY <1>7, <2>1 DEF FieldsHold
  <2> QED BY <1>5, <1>9, <2>1, <2>2, <2>3, <2>4 DEF FieldsHold
<1> QED BY <1>2, <1>3, <1>10, <1>11, <1>12

(* Validate finds no errors where and only where the schema, read as a      *)
(* formula, holds of the datum: for every graph of schemas and data,        *)
(* through And, Or and Not, required and rejected fields, arrays,           *)
(* transformers and the choices of dependent fields; but for an object with *)
(* dependencies that is nil, or that judges or demands a dependent field    *)
(* against its condition (dependent.go: DependentField, Validate).          *)
THEOREM VerdictIsTruth == Spec => []Denotation
<1>1. Called => Denotation
  <2> SUFFICES ASSUME Called, Validated,
                      Kind(schema) = "dependencies" => Type(datum) # "nil" /\ ThenHolds /\ RequiredHolds
               PROVE  errors = {} <=> Valid[schema][mode][datum]
    BY DEF Denotation
  <2>1. errors = Validate[schema][mode][datum] /\ schema \in Schemas /\ datum \in Data /\ mode \in Modes
    BY DEF Called, Validated
  <2>2. CASE Kind(schema) = "dependencies"
    <3>1. \A t \in PartsOf[schema] : Kind(t) = "dependencies" => t = schema
      BY DEF Parts, Validated
    <3>2. \A f \in Dependents(schema) \cap DOMAIN Fields(datum) :
            LET d == Def[schema].fields[f]
            IN  Def[d].then = None \/ ConditionMet(d, datum) \/ Valid[Def[d].then][mode][Fields(datum)[f]]
      BY <2>2 DEF ThenHolds
    <3>3. \A f \in Dependents(schema) \ DOMAIN Fields(datum) :
            LET d == Def[schema].fields[f] IN Def[d].required => ConditionMet(d, datum)
      BY <2>2 DEF RequiredHolds
    <3>4. Validate[schema][mode][datum] = {} <=> Valid[schema][mode][datum]
      BY <2>1, <2>2, <3>1, <3>2, <3>3, DependenciesDenote
    <3> QED BY <2>1, <3>4
  <2>3. CASE Kind(schema) # "dependencies"
    <3>1. Simple(schema)
      BY <2>3 DEF Simple, Parts, Validated
    <3> QED BY <2>1, <3>1, SimpleDenotes DEF Denotes, In
  <2> QED BY <2>2, <2>3
<1> QED BY <1>1, CallsRules, PTL

---------------------------------------------------------------------------
(* The results of a transformation are no set one could name before: its   *)
(* equation is solved for the schemas of ever greater depth.               *)
Results(g) == [s \in Schemas |-> [m \in Modes |-> [v \in Data |-> Outcome(s, m, v, In(g, m))]]]
ResultsTo(g, n) == \A s \in Schemas : Depth[s] < n => g[s] = Results(g)[s]

(* The result at a schema is fixed by those below it.                       *)
LEMMA ResultsLocal ==
  ASSUME NEW g, NEW h, NEW s \in Schemas, \A t \in Schemas : Depth[t] < Depth[s] => g[t] = h[t]
  PROVE  Results(g)[s] = Results(h)[s]
<1>1. ASSUME NEW m \in Modes, NEW v \in Data
      PROVE  Outcome(s, m, v, In(g, m)) = Outcome(s, m, v, In(h, m))
  <2> DEFINE a == In(g, m)
             b == In(h, m)
  <2>1. \A t \in Subs(s) : a[t] = b[t]
    BY SchemaFacts DEF In
  <2> HIDE DEF a, b
  <2>2. CASE IsObject(s)
    <3>1. \A f \in DOMAIN Def[s].fields : a[Def[s].fields[f]] = b[Def[s].fields[f]]
      BY <2>1, <2>2, SubsAre
    <3>2. Kind(s) \notin {"array", "transform"}
      BY <2>2 DEF IsObject
    <3>3. Outcome(s, m, v, a) = Outcome(s, m, v, b)
      BY <2>2, <3>1, <3>2 DEF Outcome
    <3> QED BY <3>3 DEF a, b
  <2>3. CASE Kind(s) = "array"
    <3>1. Def[s].elem # None => a[Def[s].elem] = b[Def[s].elem]
      BY <2>1, <2>3, SubsAre
    <3>2. Outcome(s, m, v, a) = Outcome(s, m, v, b)
      BY <2>3, <3>1 DEF Outcome, IsObject
    <3> QED BY <3>2 DEF a, b
  <2>4. CASE ~IsObject(s) /\ Kind(s) # "array"
    BY <2>4 DEF Outcome
  <2> QED BY <2>2, <2>3, <2>4 DEF a, b
<1> QED BY <1>1 DEF Results

(* Two solutions up to a depth are one, and there is one up to every depth. *)
LEMMA ResultsAgree ==
  ASSUME NEW g, NEW h, NEW n \in Nat, ResultsTo(g, n), ResultsTo(h, n)
  PROVE  \A s \in Schemas : Depth[s] < n => g[s] = h[s]
<1> DEFINE B == {s \in Schemas : Depth[s] < n /\ g[s] # h[s]}
<1>1. SUFFICES ASSUME B # {} PROVE FALSE
  OBVIOUS
<1>2. PICK s \in B : \A t \in B : Depth[s] <= Depth[t]
  BY <1>1, SchemaFacts, LeastRank
<1>3. ASSUME NEW t \in Schemas, Depth[t] < Depth[s] PROVE g[t] = h[t]
  <2>1. Depth[t] \in Nat /\ Depth[s] \in Nat /\ Depth[s] < n
    BY <1>2, <1>3, SchemaFacts
  <2>2. Depth[t] < n /\ ~(Depth[s] <= Depth[t])
    BY <1>3, <2>1
  <2> QED BY <1>2, <1>3, <2>2
<1>4. Results(g)[s] = Results(h)[s]
  BY <1>2, <1>3, ResultsLocal
<1> QED BY <1>2, <1>4 DEF ResultsTo

LEMMA ResultsExist == \A n \in Nat : \E g : ResultsTo(g, n)
<1> DEFINE B == {n \in Nat : ~ \E g : ResultsTo(g, n)}
<1>1. SUFFICES ASSUME B # {} PROVE FALSE
  OBVIOUS
<1>2. PICK n \in B : \A k \in B : ~(k < n)
  BY <1>1, Least
<1>3. n # 0
  <2>1. \A s \in Schemas : ~(Depth[s] < 0)
    BY SchemaFacts
  <2>2. ResultsTo(None, 0)
    BY <2>1 DEF ResultsTo
  <2> QED BY <1>2, <2>2
<1>4. n - 1 \in Nat /\ n - 1 < n
  BY <1>2, <1>3
<1>5. PICK g : ResultsTo(g, n - 1)
  BY <1>2, <1>4
<1>6. ASSUME NEW s \in Schemas, Depth[s] < n
      PROVE  Results(g)[s] = Results(Results(g))[s]
  <2>1. \A t \in Schemas : Depth[t] < Depth[s] => Depth[t] < n - 1
    BY <1>2, <1>6, SchemaFacts
  <2>2. \A t \in Schemas : Depth[t] < Depth[s] => g[t] = Results(g)[t]
    BY <1>5, <2>1 DEF ResultsTo
  <2> DEFINE h == Results(g)
  <2>3. \A t \in Schemas : Depth[t] < Depth[s] => g[t] = h[t]
    BY <2>2
  <2> HIDE DEF h
  <2>4. Results(g)[s] = Results(h)[s]
    BY <2>3, ResultsLocal
  <2> QED BY <2>4 DEF h
<1>7. ResultsTo(Results(g), n)
  BY <1>6 DEF ResultsTo
<1> QED BY <1>2, <1>7

(* The solutions up to each depth, put together, solve the equation of      *)
(* Result.                                                                  *)
LEMMA ResultEquation ==
  \A s \in Schemas, m \in Modes, v \in Data : Result[s][m][v] = Outcome(s, m, v, In(Result, m))
<1> DEFINE c(s) == CHOOSE g : ResultsTo(g, Depth[s] + 1)
           r == [s \in Schemas |-> c(s)[s]]
<1>0. \A s \in Schemas : Depth[s] \in Nat /\ Depth[s] + 1 \in Nat
  BY SchemaFacts
<1>1. \A s \in Schemas : ResultsTo(c(s), Depth[s] + 1)
  BY <1>0, ResultsExist
<1> HIDE DEF c
<1>2. ASSUME NEW s \in Schemas, NEW t \in Schemas, Depth[t] < Depth[s]
      PROVE  c(s)[t] = r[t]
  <2> DEFINE a == c(s)
             b == c(t)
             n == Depth[t] + 1
  <2>1. n \in Nat /\ Depth[t] < n /\ \A z \in Schemas : Depth[z] < n => Depth[z] < Depth[s] + 1
    BY <1>0, <1>2
  <2>2. ResultsTo(a, n) /\ ResultsTo(b, n)
    BY <1>1, <2>1 DEF ResultsTo
  <2> HIDE DEF a, b, n
  <2>3. a[t] = b[t]
    BY <2>1, <2>2, ResultsAgree
  <2> QED BY <2>3 DEF a, b
<1>3. \A s \in Schemas : r[s] = Results(r)[s]
  <2> TAKE s \in Schemas
  <2> DEFINE a == c(s)
             q == r
  <2>1. a[s] = Results(a)[s]
    BY <1>0, <1>1 DEF ResultsTo
  <2>2. \A t \in Schemas : Depth[t] < Depth[s] => a[t] = q[t]
    BY <1>2
  <2>3. q[s] = a[s]
    OBVIOUS
  <2> HIDE DEF a, q, r
  <2>4. Results(a)[s] = Results(q)[s]
    BY <2>2, ResultsLocal
  <2> QED BY <2>1, <2>3, <2>4 DEF q
<1>4. r = Results(r)
  <2> DEFINE q == Results(r)
  <2>1. q = [s \in Schemas |-> q[s]] /\ r = [s \in Schemas |-> r[s]]
    <3> HIDE DEF c
    <3> QED BY DEF Results
  <2>2. \A s \in Schemas : r[s] = q[s]
    BY <1>3
  <2> HIDE DEF r, q
  <2>3. [s \in Schemas |-> q[s]] = [s \in Schemas |-> r[s]]
    BY <2>2
  <2> QED BY <2>1, <2>3 DEF q
<1> DEFINE e == Result
           Raw(g) == [s \in Schemas |-> [m \in Modes |-> [v \in Data |->
                        Outcome(s, m, v, [t \in Schemas |-> g[t][m]])]]]
           Sol(h) == h = Raw(h)
<1>5. \A g : Results(g) = Raw(g)
  BY DEF Results, In
<1>6. \E h : Sol(h)
  <2> HIDE DEF r, Raw
  <2> QED BY <1>4, <1>5
<1> HIDE DEF e
<1>7. e = CHOOSE h : Sol(h)
  BY Zenon DEF e, Result
<1>8. Sol(e)
  <2> HIDE DEF Sol
  <2> QED BY <1>6, <1>7
<1>9. e = Results(e)
  <2> HIDE DEF Raw
  <2> QED BY <1>5, <1>8
<1>10. \A s \in Schemas, m \in Modes, v \in Data : Results(e)[s][m][v] = Outcome(s, m, v, In(e, m))
  BY DEF Results
<1> QED BY <1>9, <1>10 DEF e

(* A transformation without errors gives in both modes the same.           *)
LEMMA ObjectResult ==
  ASSUME NEW m \in Modes, NEW s \in Schemas, NEW v \in Data, IsObject(s), Type(v) = "map",
         Rejected(m, s, v) = {},
         \A f \in Present(s, v) :
           Result[Def[s].fields[f]][m][Fields(v)[f]] = Result[Def[s].fields[f]]["loose"][Fields(v)[f]]
  PROVE  Result[s][m][v] = Result[s]["loose"][v]
<1> DEFINE D == DOMAIN Fields(v)
           R(k) == [f \in D \ Rejected(k, s, v) |->
                      IF f \in DOMAIN Def[s].fields THEN Result[Def[s].fields[f]][k][Fields(v)[f]]
                      ELSE Fields(v)[f]]
<1>1. ASSUME NEW k \in Modes PROVE Result[s][k][v] = R(k)
  <2> DEFINE sub == In(Result, k)
  <2>1. Result[s][k][v] = Outcome(s, k, v, sub)
    BY ResultEquation
  <2>2. \A f \in DOMAIN Def[s].fields : sub[Def[s].fields[f]] = Result[Def[s].fields[f]][k]
    BY SubsAre, SchemaFacts DEF In
  <2> HIDE DEF sub
  <2>3. Kind(s) \notin {"array", "transform"}
    BY DEF IsObject
  <2>4. Outcome(s, k, v, sub) =
          [f \in D \ Rejected(k, s, v) |->
             IF f \in DOMAIN Def[s].fields THEN sub[Def[s].fields[f]][Fields(v)[f]] ELSE Fields(v)[f]]
    BY <2>3 DEF Outcome
  <2> QED BY <2>1, <2>2, <2>4
<1>2. "loose" \in Modes
  BY DEF Modes
<1>3. Rejected("loose", s, v) = {}
  BY DEF Rejected, RejectsExtra
<1>4. \A f \in D : f \in DOMAIN Def[s].fields =>
        Result[Def[s].fields[f]][m][Fields(v)[f]] = Result[Def[s].fields[f]]["loose"][Fields(v)[f]]
  BY DEF Present
<1>5. R(m) = R("loose")
  BY <1>3, <1>4
<1> QED BY <1>1, <1>2, <1>5, ZenonT(60)

(* When ValidateAndTransform of an object finds nothing.                   *)
LEMMA TransformObjectEmpty ==
  ASSUME NEW m \in Modes, NEW s \in Schemas, NEW v \in Data, IsObject(s), Type(v) # "nil", NEW sub
  PROVE  TransformObjectErrs(m, s, v, sub) = {} <=>
           /\ Type(v) = "map" /\ Missing(s, v) = {} /\ Rejected(m, s, v) = {}
           /\ \A f \in Present(s, v) : sub[Def[s].fields[f]][Fields(v)[f]] = {}
           /\ CustomOK(s, Result[s][m][v])
<1> DEFINE M == AtEach(MissingFields(s, v), "missing")
           E == FieldErrs(s, v, sub)
           X == AtEach(Rejected(m, s, v), "extra")
           C == CustomErrs(s, Result[s][m][v])
<1>1. M = {} <=> Missing(s, v) = {}
  <2>1. M = {} <=> MissingFields(s, v) = {}
    BY Empties
  <2>2. MissingFields(s, v) = Missing(s, v)
    BY DEF MissingFields, Missing
  <2> QED BY <2>1, <2>2
<1>2. E = {} <=> \A f \in Present(s, v) : sub[Def[s].fields[f]][Fields(v)[f]] = {}
  BY FieldErrsEmpty
<1>3. X = {} <=> Rejected(m, s, v) = {}
  BY Empties
<1>4. C = {} <=> CustomOK(s, Result[s][m][v])
  BY CustomEmpty
<1>5. TransformObjectErrs(m, s, v, sub) = IF Type(v) # "map" THEN Err("type") ELSE M \cup E \cup X \cup C
  BY DEF TransformObjectErrs
<1>6. Err("type") # {}
  BY Empties
<1> HIDE DEF M, E, X, C
<1> QED BY <1>1, <1>2, <1>3, <1>4, <1>5, <1>6

(* By induction on the depth: the result of a call without errors is that   *)
(* in loose mode, since a field that strict mode would have dropped is an   *)
(* error.                                                                   *)
LEMMA ResultSame ==
  \A s \in Schemas, m \in Modes, v \in Data :
    ValidateAndTransform[s][m][v] = {} => Result[s][m][v] = Result[s]["loose"][v]
<1> DEFINE Same(s) == \A m \in Modes, v \in Data :
             ValidateAndTransform[s][m][v] = {} => Result[s][m][v] = Result[s]["loose"][v]
           B == {s \in Schemas : ~Same(s)}
<1>1. SUFFICES ASSUME B # {} PROVE FALSE
  OBVIOUS
<1>2. PICK s \in B : \A t \in B : Depth[s] <= Depth[t]
  BY <1>1, SchemaFacts, LeastRank
<1>3. PICK m \in Modes, v \in Data :
         ValidateAndTransform[s][m][v] = {} /\ Result[s][m][v] # Result[s]["loose"][v]
  BY <1>2
<1>4. ASSUME NEW t \in Subs(s), NEW c \in Data, ValidateAndTransform[t][m][c] = {}
      PROVE  Result[t][m][c] = Result[t]["loose"][c]
  <2>1. t \in Schemas /\ Depth[t] < Depth[s] /\ Depth[s] \in Nat /\ Depth[t] \in Nat
    BY <1>2, SchemaFacts
  <2>2. ~(Depth[s] <= Depth[t])
    BY <2>1
  <2>3. Same(t)
    BY <1>2, <2>1, <2>2
  <2> QED BY <1>4, <2>3
<1>5. "loose" \in Modes /\ s \in Schemas
  BY <1>2 DEF Modes
<1>6. \A k \in Modes : Result[s][k][v] = Outcome(s, k, v, In(Result, k))
  BY <1>5, ResultEquation
<1> DEFINE sub == In(ValidateAndTransform, m)
<1>7. ValidateAndTransform[s][m][v] = TransformRules(s, m, v, sub)
  BY <1>5, TransformEquation
<1>8. \A t \in Schemas : sub[t] = ValidateAndTransform[t][m]
  BY DEF In
<1> HIDE DEF sub, Same
<1>9. CASE IsObject(s) /\ Type(v) = "map"
  <2>1. TransformObjectErrs(m, s, v, sub) = {}
    BY <1>3, <1>7, <1>9 DEF TransformRules, IsObject
  <2>2. Rejected(m, s, v) = {} /\ \A f \in Present(s, v) : sub[Def[s].fields[f]][Fields(v)[f]] = {}
    BY <1>5, <1>9, <2>1, TransformObjectEmpty
  <2>3. \A f \in Present(s, v) : Def[s].fields[f] \in Subs(s) /\ Def[s].fields[f] \in Schemas /\ Fields(v)[f] \in Data
    BY <1>5, <1>9, SubsAre, SchemaFacts, DataFacts DEF Present
  <2>4. \A f \in Present(s, v) :
          Result[Def[s].fields[f]][m][Fields(v)[f]] = Result[Def[s].fields[f]]["loose"][Fields(v)[f]]
    BY <1>4, <1>8, <2>2, <2>3
  <2> QED BY <1>3, <1>5, <1>9, <2>2, <2>4, ObjectResult
<1>10. CASE Kind(s) = "array" /\ Type(v) = "slice" /\ Def[s].elem # None
  <2> DEFINE t == Def[s].elem
  <2>1. t \in Subs(s) /\ t \in Schemas
    BY <1>5, <1>10, SubsAre, SchemaFacts
  <2>2. ItemErrs(s, v, sub) = {}
    <3>1. ArrayErrs(s, v, sub) = {}
      BY <1>3, <1>7, <1>10 DEF TransformRules, IsObject
    <3> QED BY <1>10, <3>1 DEF ArrayErrs
  <2>3. \A i \in DOMAIN Items(v) : At(Segment(i), sub[t][Items(v)[i]]) = {}
    BY <1>10, <2>2 DEF ItemErrs
  <2>4. \A i \in DOMAIN Items(v) : sub[t][Items(v)[i]] = {} /\ Items(v)[i] \in Data
    BY <2>3, Empties, DataFacts
  <2>5. \A i \in DOMAIN Items(v) : Result[t][m][Items(v)[i]] = Result[t]["loose"][Items(v)[i]]
    <3> HIDE DEF t
    <3> QED BY <1>4, <1>8, <2>1, <2>4
  <2>6. ASSUME NEW k \in Modes
        PROVE  Result[s][k][v] = [i \in DOMAIN Items(v) |-> Result[t][k][Items(v)[i]]]
    <3> DEFINE r == In(Result, k)
    <3>1. Result[s][k][v] = Outcome(s, k, v, r)
      BY <1>6
    <3>2. r[t] = Result[t][k]
      BY <2>1 DEF In
    <3> HIDE DEF r
    <3>3. Outcome(s, k, v, r) = [i \in DOMAIN Items(v) |-> r[t][Items(v)[i]]]
      BY <1>10 DEF Outcome, IsObject
    <3> QED BY <3>1, <3>2, <3>3
  <2>7. [i \in DOMAIN Items(v) |-> Result[t][m][Items(v)[i]]] =
          [i \in DOMAIN Items(v) |-> Result[t]["loose"][Items(v)[i]]]
    BY <2>5
  <2> QED BY <1>3, <1>5, <2>6, <2>7, ZenonT(60)
<1>11. CASE ~(IsObject(s) /\ Type(v) = "map") /\ ~(Kind(s) = "array" /\ Type(v) = "slice" /\ Def[s].elem # None)
  <2>1. \A k \in Modes : \A r : Outcome(s, k, v, r) =
          IF Kind(s) = "transform" /\ Transformed(s, v) # Failed THEN Transformed(s, v) ELSE v
    BY <1>11 DEF Outcome, IsObject
  <2> QED BY <1>3, <1>5, <1>6, <2>1
<1> QED BY <1>9, <1>10, <1>11

---------------------------------------------------------------------------
(* The two methods of a schema without dependent fields.                   *)
Plain(s) ==
  \A t \in PartsOf[s] : Kind(t) # "dependencies" /\ (Kind(t) = "object" => BlindToTransforms(t))

(* By induction on the depth: what differs between the two methods are the  *)
(* custom validators of objects, which are called on different values.      *)
LEMMA MethodsAgree ==
  \A s \in Schemas : Plain(s) =>
    \A m \in Modes, v \in Data : ValidateAndTransform[s][m][v] = {} <=> Validate[s][m][v] = {}
<1> DEFINE Agree(s) == \A m \in Modes, v \in Data : ValidateAndTransform[s][m][v] = {} <=> Validate[s][m][v] = {}
           B == {s \in Schemas : Plain(s) /\ ~Agree(s)}
<1>1. SUFFICES ASSUME B # {} PROVE FALSE
  OBVIOUS
<1>2. PICK s \in B : \A t \in B : Depth[s] <= Depth[t]
  BY <1>1, SchemaFacts, LeastRank
<1>3. PICK m \in Modes, v \in Data : ~(ValidateAndTransform[s][m][v] = {} <=> Validate[s][m][v] = {})
  BY <1>2
<1> DEFINE g == In(Validate, m)
           h == In(ValidateAndTransform, m)
<1>4. ASSUME NEW t \in Subs(s), NEW c \in Data PROVE g[t][c] = {} <=> h[t][c] = {}
  <2>1. t \in Schemas /\ PartsOf[t] \subseteq PartsOf[s] /\ Depth[t] < Depth[s]
        /\ Depth[s] \in Nat /\ Depth[t] \in Nat
    BY <1>2, PartsClosed, SchemaFacts
  <2>2. ~(Depth[s] <= Depth[t])
    BY <2>1
  <2>3. Plain(t)
    BY <1>2, <2>1 DEF Plain
  <2>4. Agree(t)
    BY <1>2, <2>1, <2>2, <2>3
  <2> QED BY <2>1, <2>4 DEF In
<1>5. /\ s \in Schemas /\ Kind(s) # "dependencies" /\ (Kind(s) = "object" => BlindToTransforms(s))
  BY <1>2, PartsClosed DEF Plain
<1>6. Validate[s][m][v] = Rules(s, m, v, g) /\ ValidateAndTransform[s][m][v] = TransformRules(s, m, v, h)
  BY <1>5, ValidateEquation, TransformEquation
<1>7. \A t \in Schemas : h[t] = ValidateAndTransform[t][m]
  BY DEF In
<1> HIDE DEF g, h, Agree
<1>8. CASE Kind(s) \notin {"object", "array"}
  BY <1>3, <1>5, <1>6, <1>8 DEF TransformRules, IsObject
<1>9. CASE Kind(s) \in {"object", "array"} /\ Type(v) = "nil"
  <2>1. Rules(s, m, v, g) = CheckRequired(s)
    BY <1>9 DEF Rules
  <2>2. TransformRules(s, m, v, h) = CheckRequired(s)
    BY <1>9 DEF TransformRules, TransformObjectErrs, IsObject
  <2> QED BY <1>3, <1>6, <2>1, <2>2
<1>10. CASE Kind(s) = "array" /\ Type(v) # "nil"
  <2>1. Rules(s, m, v, g) = ArrayErrs(s, v, g) /\ TransformRules(s, m, v, h) = ArrayErrs(s, v, h)
    BY <1>10 DEF Rules, TransformRules, IsObject
  <2>2. ItemErrs(s, v, g) = {} <=> ItemErrs(s, v, h) = {}
    <3>1. Def[s].elem # None => Def[s].elem \in Subs(s)
      BY <1>5, <1>10, SubsAre
    <3>2. ASSUME NEW k, Def[s].elem # None
          PROVE  ItemErrs(s, v, k) = {} <=> \A i \in DOMAIN Items(v) : k[Def[s].elem][Items(v)[i]] = {}
      <4>1. ItemErrs(s, v, k) = {} <=>
              \A i \in DOMAIN Items(v) : At(Segment(i), k[Def[s].elem][Items(v)[i]]) = {}
        BY <3>2 DEF ItemErrs
      <4> QED BY <4>1, Empties
    <3>3. CASE Def[s].elem = None
      BY <3>3 DEF ItemErrs
    <3>4. CASE Def[s].elem # None
      <4>1. \A i \in DOMAIN Items(v) : g[Def[s].elem][Items(v)[i]] = {} <=> h[Def[s].elem][Items(v)[i]] = {}
        BY <1>4, <3>1, <3>4, DataFacts
      <4>2. ItemErrs(s, v, g) = {} <=> \A i \in DOMAIN Items(v) : g[Def[s].elem][Items(v)[i]] = {}
        BY <3>2, <3>4
      <4>3. ItemErrs(s, v, h) = {} <=> \A i \in DOMAIN Items(v) : h[Def[s].elem][Items(v)[i]] = {}
        BY <3>2, <3>4
      <4> QED BY <4>1, <4>2, <4>3
    <3> QED BY <3>3, <3>4
  <2> QED BY <1>3, <1>6, <2>1, <2>2 DEF ArrayErrs
<1>11. CASE Kind(s) = "object" /\ Type(v) # "nil"
  <2>1. Rules(s, m, v, g) = ObjectErrs(m, s, v, g) /\ TransformRules(s, m, v, h) = TransformObjectErrs(m, s, v, h)
    BY <1>11 DEF Rules, TransformRules, IsObject
  <2>2. IsObject(s)
    BY <1>11 DEF IsObject
  <2>3. TransformObjectErrs(m, s, v, h) = {} <=>
          /\ Type(v) = "map" /\ Missing(s, v) = {} /\ Rejected(m, s, v) = {}
          /\ \A f \in Present(s, v) : h[Def[s].fields[f]][Fields(v)[f]] = {}
          /\ CustomOK(s, Result[s][m][v])
    BY <1>5, <1>11, <2>2, TransformObjectEmpty
  <2>4. ObjectErrs(m, s, v, g) = {} <=>
          /\ Type(v) = "map" /\ Missing(s, v) = {} /\ Rejected(m, s, v) = {}
          /\ \A f \in Present(s, v) : g[Def[s].fields[f]][Fields(v)[f]] = {}
          /\ CustomOK(s, Fields(v))
    <3> DEFINE M == AtEach(Missing(s, v), "missing")
               E == FieldErrs(s, v, g)
               X == AtEach(Rejected(m, s, v), "extra")
               C == CustomErrs(s, Fields(v))
    <3>1. M = {} <=> Missing(s, v) = {}
      BY Empties
    <3>2. E = {} <=> \A f \in Present(s, v) : g[Def[s].fields[f]][Fields(v)[f]] = {}
      BY FieldErrsEmpty
    <3>3. X = {} <=> Rejected(m, s, v) = {}
      BY Empties
    <3>4. C = {} <=> CustomOK(s, Fields(v))
      BY CustomEmpty
    <3>5. ObjectErrs(m, s, v, g) = IF Type(v) # "map" THEN Err("type") ELSE M \cup E \cup X \cup C
      BY DEF ObjectErrs
    <3>6. Err("type") # {}
      BY Empties
    <3> HIDE DEF M, E, X, C
    <3> QED BY <3>1, <3>2, <3>3, <3>4, <3>5, <3>6
  <2>5. \A f \in Present(s, v) :
          Def[s].fields[f] \in Subs(s) /\ Def[s].fields[f] \in Schemas /\ Fields(v)[f] \in Data
    BY <1>5, <2>2, SubsAre, SchemaFacts, DataFacts DEF Present
  <2>6. \A f \in Present(s, v) : g[Def[s].fields[f]][Fields(v)[f]] = {} <=> h[Def[s].fields[f]][Fields(v)[f]] = {}
    BY <1>4, <2>5
  <2>7. ASSUME Type(v) = "map", Rejected(m, s, v) = {},
               \A f \in Present(s, v) : h[Def[s].fields[f]][Fields(v)[f]] = {}
        PROVE  CustomOK(s, Fields(v)) <=> CustomOK(s, Result[s][m][v])
    <3>1. \A f \in Present(s, v) :
            Result[Def[s].fields[f]][m][Fields(v)[f]] = Result[Def[s].fields[f]]["loose"][Fields(v)[f]]
      BY <1>7, <2>5, <2>7, ResultSame
    <3>2. Result[s][m][v] = Result[s]["loose"][v]
      BY <1>5, <2>2, <2>7, <3>1, ObjectResult
    <3> QED BY <1>5, <1>11, <2>7, <3>2 DEF BlindToTransforms
  <2> QED BY <1>3, <1>6, <2>1, <2>3, <2>4, <2>6, <2>7
<1> QED BY <1>5, <1>8, <1>9, <1>10, <1>11

(* Validate and ValidateAndTransform accept the same data, for every graph  *)
(* of schemas without dependent fields in which the custom validators of    *)
(* objects judge a value as they judge what it is transformed to.           *)
THEOREM MethodsSame == Spec => []PathsAgree
<1>1. Called => PathsAgree
  <2> SUFFICES ASSUME Called, method = "transform", ~compiled,
                      Parts({"dependencies"}) = {}, \A t \in Parts({"object"}) : BlindToTransforms(t)
               PROVE  errors = {} <=> Validate[schema][mode][datum] = {}
    BY DEF PathsAgree
  <2>1. errors = ValidateAndTransform[schema][mode][datum]
    BY DEF Called
  <2>2. Plain(schema)
    BY DEF Plain, Parts
  <2> QED BY <2>1, <2>2, MethodsAgree DEF Called
<1> QED BY <1>1, CallsRules, PTL
=============================================================================
