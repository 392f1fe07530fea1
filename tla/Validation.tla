----------------------------- MODULE Validation -----------------------------
(***************************************************************************)
(* One synchronous call on a schema: Validate, ValidateAndTransform, or    *)
(* either of them on the schema that Compile makes of it.  The library has *)
(* the rules of a schema up to three times, in Validate, in                *)
(* ValidateAndTransform and in the compiler; here they are three           *)
(* definitions, to be compared.                                            *)
(*                                                                         *)
(* Schemas and data are nodes of two finite graphs.  Numbers are counted   *)
(* in a unit that goes into all of them, as a power of two goes into any   *)
(* float64s.  Errors are a set of places and reasons: the order in which a *)
(* Go map is ranged over does not show.                                    *)
(***************************************************************************)
EXTENDS Naturals, Sequences, SequencesExt

CONSTANTS
  Schemas,        \* schema nodes
  Def,            \* [Schemas -> [kind, required, nullable, ...]], see Subs
  Data,           \* data nodes
  Of,             \* [Data -> [type, num, text, reads, fields, items]]
  Conditions,     \* nodes of the conditions of dependent fields
  Rule,           \* [Conditions -> [op, field, values, limit, of]]
  Common,         \* what tryCommonFormats parses: a function from texts to Nat
  None,           \* no schema, in Def; no condition; no time
  Failed,         \* a transformer's error
  NoText,         \* the failure of ConvertToString
  Positions,      \* "[0]", "[1]", ...
  CustomOK(_, _), \* the verdict of a schema's custom validators
  One,            \* how many units the number 1 is
  Mantissa,       \* a float64 is a multiple of 1 / 2^53 of the power of two above it
  MaxInt64,       \* the greatest number that int64 holds
  Depth           \* [Schemas -> Nat]: how deep a schema nests

Modes == {"strict", "loose"}
Wide == {"float64", "float32", "int", "int64"}
NumberTypes == Wide \cup
  {"int8", "int16", "int32", "uint", "uint8", "uint16", "uint32", "uint64"}
Types == NumberTypes \cup {"nil", "string", "bool", "time", "stringer", "map", "slice", "other"}
Kinds == {"string", "number", "bool", "datetime", "custom", "object", "array", "and", "or", "not",
          "transform", "dependent", "dependencies"}
Tests == {"length", "enum", "format"}    \* of texts
Whys == Tests \cup
  {"required", "missing", "null", "type", "custom", "low", "high", "multiple", "integer",
   "positive", "items", "unique", "extra", "or", "not", "transform"}

Kind(s) == Def[s].kind
Type(v) == Of[v].type
Fields(v) == Of[v].fields
Items(v) == Of[v].items
IsObject(s) == Kind(s) \in {"object", "dependencies"}

(* The schemas a schema is built from.                                     *)
Subs(s) ==
  CASE IsObject(s) -> Range(Def[s].fields)
    [] Kind(s) = "array" -> {Def[s].elem} \ {None}
    [] Kind(s) \in {"and", "or"} -> Def[s].subs
    [] Kind(s) \in {"not", "transform"} -> {Def[s].sub}
    [] Kind(s) = "dependent" -> {Def[s].then, Def[s].else} \ {None}
    [] OTHER -> {}
PartsOf[s \in Schemas] == {s} \cup UNION {PartsOf[t] : t \in Subs(s)}

Names == UNION ({DOMAIN Fields(v) : v \in Data}
                \cup {Def[s].requiredFields \cup DOMAIN Def[s].fields : s \in {t \in Schemas : IsObject(t)}})

(* The greatest power of two that is at most n.                            *)
PowerBelow[n \in Nat] == IF n < 2 THEN 1 ELSE 2 * PowerBelow[n \div 2]

(* Schemas are built bottom up: Walk and Hash would not come to the end of  *)
(* one that is a part of itself.                                           *)
ASSUME GraphAssumption ==
  /\ None \notin Schemas \cup Data /\ Failed \notin Data
  /\ One \in Nat \ {0} /\ MaxInt64 \in Nat
  /\ Mantissa \in Nat \ {0} /\ PowerBelow[Mantissa] = Mantissa
  /\ Range(Common) \subseteq Nat /\ IsInjective(Positions)
  /\ \A v \in Data :
       /\ Type(v) \in Types /\ Of[v].reads \in BOOLEAN
       /\ Of[v].num \in Nat
       /\ Range(Fields(v)) \subseteq Data /\ Items(v) \in Seq(Data)
       /\ DOMAIN Items(v) \subseteq DOMAIN Positions
  /\ \A s \in Schemas :
       /\ Kind(s) \in Kinds /\ {Def[s].required, Def[s].nullable} \subseteq BOOLEAN
       /\ Subs(s) \subseteq Schemas
       /\ \A t \in Subs(s) : Kind(t) = "dependent" => Kind(s) = "dependencies"
       /\ Kind(s) = "string" => DOMAIN Def[s].tests \subseteq Tests
       /\ Kind(s) \in {"number", "datetime"} => {Def[s].low, Def[s].high} \subseteq Nat
       /\ Kind(s) = "custom" => \A v \in Data : CustomOK(s, v) \in BOOLEAN
       /\ Kind(s) = "number" => Def[s].multipleOf \subseteq Nat
       /\ Kind(s) = "datetime" => Range(Def[s].parse) \subseteq Nat
       /\ Kind(s) = "array" => {Def[s].min, Def[s].max} \subseteq Nat
       /\ Kind(s) = "transform" => Range(Def[s].chain) \subseteq Data \cup {Failed}
  /\ Depth \in [Schemas -> Nat] /\ \A s \in Schemas : \A t \in Subs(s) : Depth[t] < Depth[s]

---------------------------------------------------------------------------
(* Errors, as the context collects them.                                   *)
Err(why) == {[at |-> <<>>, why |-> why]}
Fails(why, cond) == IF cond THEN Err(why) ELSE {}
CustomErrs(s, x) == Fails("custom", ~CustomOK(s, x))
MutAt(seg, errs) == {[e EXCEPT !.at = @ \o <<seg>>] : e \in errs}
At(seg, errs) == {[e EXCEPT !.at = <<seg>> \o @] : e \in errs}

Segment(i) == Positions[i]

CheckRequired(s) ==
  IF Def[s].required THEN Err("required") ELSE Fails("null", ~Def[s].nullable)

(* A TransformSchema is as required as what it wraps.                      *)
IsRequired[s \in Schemas] ==
  Def[s].required \/ (Kind(s) = "transform" /\ IsRequired[Def[s].sub])

(* StringSchema.                                                           *)
ConvertToString(v) ==
  IF Type(v) \in NumberTypes \cup {"string", "bool", "time", "stringer"} THEN Of[v].text ELSE NoText
AsString(m, v) == IF m = "loose" \/ Type(v) = "string" THEN ConvertToString(v) ELSE NoText
TestErrs(s, text) == UNION {Fails(t, text \notin Def[s].tests[t]) : t \in DOMAIN Def[s].tests}
FailingTests(s, text) == TestErrs(s, text) \cup CustomErrs(s, text)
StringErrs(m, s, v) ==
  LET text == AsString(m, v)
  IN  IF text = NoText THEN Err("type") ELSE FailingTests(s, text)

(* NumberSchema.  Its custom validators are given a float64.               *)
IsNumber(m, v) == Type(v) \in NumberTypes \/ (m = "loose" /\ Type(v) = "string" /\ Of[v].reads)
Typed(type, num) == [type |-> type, num |-> num]
ToFloat64(arg) == IF arg.type \in NumberTypes THEN arg.num ELSE 0
ValidatorErrs(s, arg) ==
  Fails("integer", Def[s].integer /\ ToFloat64(arg) % One # 0)
    \cup Fails("positive", Def[s].positive /\ ToFloat64(arg) = 0)
    \cup CustomErrs(s, arg)
NumberErrs(m, s, v) ==
  LET num == Of[v].num
  IN  IF ~IsNumber(m, v) THEN Err("type")
      ELSE Fails("low", num < Def[s].low) \cup Fails("high", num > Def[s].high)
             \cup Fails("multiple", \E d \in Def[s].multipleOf \ {0} : num % d # 0)
             \cup ValidatorErrs(s, Typed("float64", num))

BoolErrs(m, s, v) ==
  IF Type(v) = "bool" \/ (m = "loose" /\ Type(v) = "string" /\ Of[v].text \in {"true", "false"})
  THEN CustomErrs(s, v)
  ELSE Err("type")

(* DateTimeSchema.  A text that is not in the schema's own format may be in *)
(* one of the common ones.                                                 *)
TimeOf(m, s, v) ==
  LET text == AsString(m, v)
      own == Def[s].parse
  IN  CASE Type(v) = "time" -> Of[v].num
        [] Type(v) # "time" /\ text \in DOMAIN own -> own[text]
        [] Type(v) # "time" /\ text \in DOMAIN Common \ DOMAIN own /\ ~Def[s].strictFormat -> Common[text]
        [] OTHER -> None
DateTimeErrs(m, s, v) ==
  LET t == TimeOf(m, s, v)
  IN  IF t = None THEN Err("format")
      ELSE Fails("low", t < Def[s].low) \cup Fails("high", t > Def[s].high)
             \cup CustomErrs(s, t)

(* ArraySchema; sub[t][c] are the errors of the schema t on the value c.    *)
Distinct(v) == \A i, j \in DOMAIN Items(v) : i # j => Of[Items(v)[i]].text # Of[Items(v)[j]].text
ItemErrs(s, v, sub) ==
  IF Def[s].elem = None THEN {}
  ELSE UNION {At(Segment(i), sub[Def[s].elem][Items(v)[i]]) : i \in DOMAIN Items(v)}
ArrayErrs(s, v, sub) ==
  IF Type(v) # "slice" THEN Err("type")
  ELSE Fails("items", Len(Items(v)) < Def[s].min \/ Len(Items(v)) > Def[s].max)
         \cup Fails("unique", Def[s].unique /\ ~Distinct(v))
         \cup ItemErrs(s, v, sub)
         \cup CustomErrs(s, v)

(* ObjectSchema.                                                           *)
RejectsExtra(m, s) == IF Def[s].additional = "mode" THEN m = "strict" ELSE Def[s].additional = "reject"
Missing(s, v) ==
  {f \in Def[s].requiredFields \cup
           {g \in DOMAIN Def[s].fields : IsRequired[Def[s].fields[g]]} : f \notin DOMAIN Fields(v)}
Present(s, v) == DOMAIN Def[s].fields \cap DOMAIN Fields(v)
Extra(s, v) == DOMAIN Fields(v) \ DOMAIN Def[s].fields
Rejected(m, s, v) == IF RejectsExtra(m, s) THEN Extra(s, v) ELSE {}
AtEach(fields, why) == UNION {At(f, Err(why)) : f \in fields}
FieldErrs(s, v, sub) == UNION {At(f, sub[Def[s].fields[f]][Fields(v)[f]]) : f \in Present(s, v)}
ObjectErrs(m, s, v, sub) ==
  IF Type(v) # "map" THEN Err("type")
  ELSE AtEach(Missing(s, v), "missing") \cup FieldErrs(s, v, sub)
         \cup AtEach(Rejected(m, s, v), "extra") \cup CustomErrs(s, Fields(v))

(* And, Or and Not.  Or and Not try their schemas in contexts of their own. *)
AndErrs(s, v, sub) == UNION {sub[t][v] : t \in Def[s].subs}
MutOrErrs(s, v, sub) == UNION {sub[t][v] : t \in Def[s].subs}
OrErrs(s, v, sub) == Fails("or", Def[s].subs # {} /\ \A t \in Def[s].subs : sub[t][v] # {})
NotErrs(s, v, sub) == Fails("not", sub[Def[s].sub][v] = {})

(* The conditions of dependent fields on a parent object p.  Nodes of Data  *)
(* are one when reflect.DeepEqual holds of what they stand for.            *)
Comparable == {"float64", "float32", "int", "int64", "int32", "uint", "uint64", "uint32"}
Holds[c \in Conditions] == [p \in Data |->
  LET op == Rule[c].op
      has == Rule[c].field \in DOMAIN Fields(p)
      x == IF has THEN Fields(p)[Rule[c].field] ELSE None
      isNil == has /\ Type(x) = "nil"
      isNumber == has /\ Type(x) \in Comparable
      isBool == has /\ Type(x) = "bool"
  IN  CASE op = "equals" -> has /\ x \in Rule[c].values \* WhenEquals and WhenIn
        [] op = "notEquals" -> ~(has /\ x \in Rule[c].values)
        [] op = "exists" -> has /\ ~isNil
        [] op = "notExists" -> ~has \/ isNil
        [] op = "greaterThan" -> isNumber /\ Of[x].num > Rule[c].limit
        [] op = "lessThan" -> isNumber /\ Of[x].num < Rule[c].limit
        [] op = "true" -> isBool /\ Of[x].text = "true"
        [] op = "false" -> isBool /\ Of[x].text # "true"
        [] op = "all" -> \A d \in Rule[c].of : Holds[d][p]
        [] op = "any" -> \E d \in Rule[c].of : Holds[d][p]]
ConditionMet(d, p) == Def[d].when # None /\ Holds[Def[d].when][p]

(* ObjectSchemaWithDependencies, after the checks of its ObjectSchema.     *)
Dependents(s) == {f \in DOMAIN Def[s].fields : Kind(Def[s].fields[f]) = "dependent"}
Chosen(d, p) == IF ConditionMet(d, p) THEN Def[d].then ELSE Def[d].else
DependentErrsAt(f, s, v, sub) ==
  LET d == Def[s].fields[f]
  IN  IF f \in DOMAIN Fields(v)
      THEN IF Chosen(d, v) # None THEN sub[Chosen(d, v)][Fields(v)[f]]
           ELSE CustomErrs(d, Fields(v)[f])
      ELSE Fails("missing", /\ ConditionMet(d, v)
                            /\ Def[d].required \/ (Def[d].then # None /\ IsRequired[Def[d].then]))
DependentErrs(s, v, sub) == UNION {At(f, DependentErrsAt(f, s, v, sub)) : f \in Dependents(s)}

(* TransformSchema: chain has the data that the transformers do not keep.  *)
Transformed(s, v) == IF v \in DOMAIN Def[s].chain THEN Def[s].chain[v] ELSE v

(* Validate of a schema, given that of the schemas it is built from.       *)
Rules(s, m, v, sub) ==
  CASE Kind(s) = "transform" ->
         IF Transformed(s, v) = Failed THEN Err("transform") ELSE sub[Def[s].sub][Transformed(s, v)]
    [] Kind(s) = "dependent" -> IF Def[s].then = None THEN {} ELSE sub[Def[s].then][v]
    [] Kind(s) = "dependencies" ->
         IF Type(v) # "map" THEN Err("type")
         ELSE ObjectErrs(m, s, v, sub) \cup DependentErrs(s, v, sub)
    [] Kind(s) \notin {"transform", "dependent", "dependencies"} /\ Type(v) = "nil" -> CheckRequired(s)
    [] Kind(s) \notin {"transform", "dependent", "dependencies"} /\ Type(v) # "nil" ->
         CASE Kind(s) = "string" -> StringErrs(m, s, v)
           [] Kind(s) = "number" -> NumberErrs(m, s, v)
           [] Kind(s) = "bool" -> BoolErrs(m, s, v)
           [] Kind(s) = "datetime" -> DateTimeErrs(m, s, v)
           [] Kind(s) = "custom" -> CustomErrs(s, v)
           [] Kind(s) = "object" -> ObjectErrs(m, s, v, sub)
           [] Kind(s) = "array" -> ArrayErrs(s, v, sub)
           [] Kind(s) = "and" -> AndErrs(s, v, sub)
           [] Kind(s) = "or" -> OrErrs(s, v, sub)
           [] Kind(s) = "not" -> NotErrs(s, v, sub)
Validate[s \in Schemas] ==
  [m \in Modes |-> [v \in Data |-> Rules(s, m, v, [t \in Schemas |-> Validate[t][m]])]]

---------------------------------------------------------------------------
(* ValidateAndTransform.  An object with dependencies has that of the       *)
(* ObjectSchema it embeds.  The custom validators of an object see the      *)
(* result, those of an array the value they are given.                     *)
Transformable(s) == IsObject(s) \/ Kind(s) \in {"array", "transform"}
Outcome(s, m, v, sub) ==
  CASE IsObject(s) /\ Type(v) = "map" ->
         [f \in DOMAIN Fields(v) \ Rejected(m, s, v) |->
            IF f \in DOMAIN Def[s].fields THEN sub[Def[s].fields[f]][Fields(v)[f]] ELSE Fields(v)[f]]
    [] Kind(s) = "array" /\ Type(v) = "slice" /\ Def[s].elem # None ->
         [i \in DOMAIN Items(v) |-> sub[Def[s].elem][Items(v)[i]]]
    [] Kind(s) = "transform" -> IF Transformed(s, v) = Failed THEN v ELSE Transformed(s, v)
    [] OTHER -> v
Result[s \in Schemas] ==
  [m \in Modes |-> [v \in Data |-> Outcome(s, m, v, [t \in Schemas |-> Result[t][m]])]]

MutMissingFields(s, v) == Def[s].requiredFields \ DOMAIN Fields(v)
MissingFields(s, v) ==
  (Def[s].requiredFields \ DOMAIN Fields(v))
    \cup {f \in DOMAIN Def[s].fields \ DOMAIN Fields(v) : IsRequired[Def[s].fields[f]]}
TransformObjectErrs(m, s, v, sub) ==
  IF Type(v) = "nil" THEN CheckRequired(s)
  ELSE IF Type(v) # "map" THEN Err("type")
  ELSE AtEach(MissingFields(s, v), "missing") \cup FieldErrs(s, v, sub)
         \cup AtEach(Rejected(m, s, v), "extra")
         \cup CustomErrs(s, Result[s][m][v])

TransformRules(s, m, v, sub) ==
  CASE IsObject(s) -> TransformObjectErrs(m, s, v, sub)
    [] Kind(s) = "array" -> IF Type(v) = "nil" THEN CheckRequired(s) ELSE ArrayErrs(s, v, sub)
    [] OTHER -> Validate[s][m][v]
ValidateAndTransform[s \in Schemas] ==
  [m \in Modes |-> [v \in Data |->
     TransformRules(s, m, v, [t \in Schemas |-> ValidateAndTransform[t][m]])]]

---------------------------------------------------------------------------
(* Compile.  String, number and bool schemas become chains of checks, each  *)
(* run whether or not the one before it has failed; every other schema      *)
(* behind CheckRequired keeps its own Validate, objects and arrays as well, *)
(* since they are TransformableSchemas.                                    *)
StringOrEmpty(m, v) == LET text == AsString(m, v) IN IF text = NoText THEN "" ELSE text
MutChainOfString(m, s, v) ==
  Fails("type", AsString(m, v) = NoText)
    \cup UNION {Fails(t, StringOrEmpty(m, v) \notin Def[s].tests[t]) : t \in DOMAIN Def[s].tests}
ChainOfString(m, s, v) ==
  Fails("type", AsString(m, v) = NoText) \cup FailingTests(s, StringOrEmpty(m, v))

(* float64(int64(x)) = x for x = n / d, with the overflow of amd64.        *)
InInt64(n, d) == n % d = 0 /\ n \div d <= MaxInt64

(* The float64 of p / q, from 1/2 upwards, in parts of 1 / Mantissa:       *)
(* around there the float64s are step parts apart, and ties go to the even *)
(* one.                                                                    *)
HalfToEven(n, d) ==
  LET low == n \div d
      rest == 2 * (n % d)
  IN  IF rest > d \/ (rest = d /\ low % 2 = 1) THEN low + 1 ELSE low
Quotient(p, q) ==
  LET step == PowerBelow[(2 * p) \div q]
  IN  step * HalfToEven(p * Mantissa, q * step)

(* No quotient of less than 1/2 is rounded to an integer, but 0.           *)
Truncates(p, q) == q # 0 /\ (p = 0 \/ (q <= 2 * p /\ InInt64(Quotient(p, q), Mantissa)))
ToFloat(v) == IF Type(v) \in Wide THEN Of[v].num ELSE 0
ChainOfNumber(m, s, v) ==
  Fails("type", ~IsNumber(m, v))
    \cup Fails("integer", Def[s].integer /\ ~InInt64(ToFloat(v), One))
    \cup Fails("low", ToFloat(v) < Def[s].low) \cup Fails("high", ToFloat(v) > Def[s].high)
    \cup Fails("multiple", \E d \in Def[s].multipleOf : ~Truncates(ToFloat(v), d))
    \cup ValidatorErrs(s, Typed(Type(v), Of[v].num))

ChainOfBool(m, s, v) ==
  LET errs == BoolErrs(m, s, v)
  IN  errs \cup Fails("custom", errs # {} /\ ~CustomOK(s, v))

RunChecks(m, s, v) ==
  IF Type(v) = "nil"
  THEN IF IsRequired[s] THEN Err("required") ELSE Fails("null", ~Def[s].nullable)
  ELSE CASE Kind(s) = "string" -> ChainOfString(m, s, v)
         [] Kind(s) = "number" -> ChainOfNumber(m, s, v)
         [] Kind(s) = "bool" -> ChainOfBool(m, s, v)
         [] OTHER -> Validate[s][m][v]

TransformCompiled(m, s, v) ==
  IF Transformable(s) THEN ValidateAndTransform[s][m][v] ELSE RunChecks(m, s, v)

---------------------------------------------------------------------------
VARIABLES
  schema, datum, mode, \* the call
  compiled,            \* the caller has compiled the schema
  method,              \* what it has called: "none", "validate" or "transform"
  errors               \* the errors of the context

vars == <<schema, datum, mode, compiled, method, errors>>

Init ==
  /\ schema \in Schemas /\ datum \in Data /\ mode \in Modes
  /\ compiled = FALSE /\ method = "none" /\ errors = {}

(* Compiling a compiled schema returns it.                                 *)
Compile ==
  /\ method = "none" /\ ~compiled
  /\ compiled' = TRUE
  /\ UNCHANGED <<schema, datum, mode, method, errors>>

CallValidate ==
  /\ method = "none" /\ method' = "validate"
  /\ errors' = IF compiled THEN RunChecks(mode, schema, datum) ELSE Validate[schema][mode][datum]
  /\ UNCHANGED <<schema, datum, mode, compiled>>

CallTransform ==
  /\ method = "none" /\ method' = "transform"
  /\ errors' = IF compiled THEN TransformCompiled(mode, schema, datum)
               ELSE ValidateAndTransform[schema][mode][datum]
  /\ UNCHANGED <<schema, datum, mode, compiled>>

Returned == method # "none" /\ UNCHANGED vars
Next == Compile \/ CallValidate \/ CallTransform \/ Returned
Spec == Init /\ [][Next]_vars

---------------------------------------------------------------------------
(* What the three sets of rules must agree on.                             *)
Parts(kinds) == {t \in PartsOf[schema] : Kind(t) \in kinds}

Paths == Seq(Names \cup Range(Positions))

(* The types of the variables; every error sits at a path of field names   *)
(* and positions.                                                          *)
TypeOK ==
  /\ schema \in Schemas /\ datum \in Data /\ mode \in Modes
  /\ compiled \in BOOLEAN /\ method \in {"none", "validate", "transform"}
  /\ \A e \in errors : e.at \in Paths /\ e.why \in Whys

(* What a schema says, read as a formula: And is all of its schemas, Or     *)
(* some of them (or none given), Not the opposite, an object with          *)
(* dependencies what it is without them and what the condition of each     *)
(* dependent field chooses for that field, which is demanded only when     *)
(* the condition is met.  A dependent field judges nothing on its own.     *)
Truth(s, m, v, sub) ==
  CASE Kind(s) = "transform" ->
         Transformed(s, v) # Failed /\ sub[Def[s].sub][Transformed(s, v)]
    [] Kind(s) = "dependent" -> TRUE
    [] Kind(s) \notin {"transform", "dependent"} /\ Type(v) = "nil" -> Def[s].nullable /\ ~Def[s].required
    [] Kind(s) \notin {"transform", "dependent"} /\ Type(v) # "nil" ->
         CASE Kind(s) = "string" ->
                LET text == AsString(m, v)
                IN  /\ text # NoText /\ CustomOK(s, text)
                    /\ \A t \in DOMAIN Def[s].tests : text \in Def[s].tests[t]
           [] Kind(s) = "number" ->
                LET num == Of[v].num
                IN  /\ IsNumber(m, v) /\ num \in Def[s].low .. Def[s].high
                    /\ \A d \in Def[s].multipleOf \ {0} : \E k \in 0 .. num : num = k * d
                    /\ Def[s].integer => \E k \in 0 .. num : num = k * One
                    /\ Def[s].positive => num > 0
                    /\ CustomOK(s, Typed("float64", num))
           [] Kind(s) = "bool" ->
                /\ \/ Type(v) = "bool"
                   \/ m = "loose" /\ Type(v) = "string" /\ Of[v].text \in {"true", "false"}
                /\ CustomOK(s, v)
           [] Kind(s) = "datetime" ->
                \E t \in {TimeOf(m, s, v)} \ {None} :
                  t \in Def[s].low .. Def[s].high /\ CustomOK(s, t)
           [] Kind(s) = "custom" -> CustomOK(s, v)
           [] IsObject(s) ->
                /\ Type(v) = "map" /\ CustomOK(s, Fields(v))
                /\ Def[s].requiredFields \subseteq DOMAIN Fields(v)
                /\ RejectsExtra(m, s) => DOMAIN Fields(v) \subseteq DOMAIN Def[s].fields
                /\ \A f \in DOMAIN Def[s].fields :
                     IF f \in DOMAIN Fields(v) THEN sub[Def[s].fields[f]][Fields(v)[f]]
                     ELSE f \in Dependents(s) \/ ~IsRequired[Def[s].fields[f]]
                /\ \A f \in Dependents(s) :
                     LET d == Def[s].fields[f]
                         chosen == Chosen(d, v)
                     IN  IF f \in DOMAIN Fields(v)
                         THEN IF chosen = None THEN CustomOK(d, Fields(v)[f])
                              ELSE sub[chosen][Fields(v)[f]]
                         ELSE ConditionMet(d, v) =>
                                ~Def[d].required /\ (chosen # None => ~IsRequired[chosen])
           [] Kind(s) = "array" ->
                /\ Type(v) = "slice" /\ CustomOK(s, v) /\ Len(Items(v)) \in Def[s].min .. Def[s].max
                /\ Def[s].unique => Distinct(v)
                /\ Def[s].elem # None => \A c \in Range(Items(v)) : sub[Def[s].elem][c]
           [] Kind(s) = "and" -> \A t \in Def[s].subs : sub[t][v]
           [] Kind(s) = "or" -> Def[s].subs = {} \/ \E t \in Def[s].subs : sub[t][v]
           [] Kind(s) = "not" -> ~sub[Def[s].sub][v]
Valid[s \in Schemas] ==
  [m \in Modes |-> [v \in Data |-> Truth(s, m, v, [t \in Schemas |-> Valid[t][m]])]]

(* Where the code does what the documents say of an object's dependent     *)
(* fields: on a value that the Then schema accepts, condition or no, and   *)
(* without a field that is Required, if its condition is met.              *)
ThenHolds ==
  \A f \in Dependents(schema) \cap DOMAIN Fields(datum) :
    LET d == Def[schema].fields[f]
    IN  Def[d].then = None \/ ConditionMet(d, datum) \/ Valid[Def[d].then][mode][Fields(datum)[f]]
RequiredHolds ==
  \A f \in Dependents(schema) \ DOMAIN Fields(datum) :
    LET d == Def[schema].fields[f] IN Def[d].required => ConditionMet(d, datum)

Validated ==
  /\ method = "validate" /\ ~compiled
  /\ Parts({"dependencies"}) \subseteq {schema} /\ Kind(schema) # "dependent"

(* The verdict of Validate is what the schema says: no error of an attempt  *)
(* of Or or Not leaks out, none is lost, and the conditions of dependent    *)
(* fields are those of the object they are in.  Left out are the cases in   *)
(* which the code does not do what dependent.go says: it applies Then to,   *)
(* and demands, a field whose condition is not met (DependentField also     *)
(* makes it a regular field), and it rejects nil where an object with       *)
(* dependencies is nullable.                                               *)
Denotation ==
  Validated /\ (Kind(schema) = "dependencies" => Type(datum) # "nil" /\ ThenHolds /\ RequiredHolds)
    => (errors = {} <=> Valid[schema][mode][datum])

(* The path of an error leads to a value of the data, or, for a field that  *)
(* is missing, to a place of it where there is none, through any nesting   *)
(* of objects and arrays and on every method.  (A transformer that makes a  *)
(* whole document has its errors located in what it made.)                 *)
Child(c, seg) ==
  CASE c # None /\ Type(c) = "map" /\ seg \in DOMAIN Fields(c) -> Fields(c)[seg]
    [] c # None /\ Type(c) = "slice" /\ (\E i \in DOMAIN Items(c) : Positions[i] = seg) ->
         Items(c)[CHOOSE i \in DOMAIN Items(c) : Positions[i] = seg]
    [] OTHER -> None
ValueAt[path \in Paths] ==
  [c \in Data \cup {None} |-> IF path = <<>> THEN c ELSE ValueAt[Tail(path)][Child(c, Head(path))]]
Flat(s) == \A t \in PartsOf[s] : ~IsObject(t) /\ Kind(t) # "array"
ErrorsLocated ==
  (\A t \in Parts({"transform"}) : Flat(Def[t].sub)) =>
    \A e \in errors :
      /\ ValueAt[e.at][datum] = None <=> e.why = "missing"
      /\ e.at # <<>> => ValueAt[Front(e.at)][datum] # None

(* Validate and ValidateAndTransform give one verdict, where the custom     *)
(* validators of objects judge the values before the transformation and     *)
(* after it alike, and no field is dependent.                              *)
BlindToTransforms(s) ==
  \A v \in Data : Type(v) = "map" => (CustomOK(s, Fields(v)) <=> CustomOK(s, Result[s]["loose"][v]))
PathsAgree ==
  /\ method = "transform" /\ ~compiled
  /\ Parts({"dependencies"}) = {} /\ \A t \in Parts({"object"}) : BlindToTransforms(t)
  => (errors = {} <=> Validate[schema][mode][datum] = {})

(* A compiled schema accepts all that the schema it was made of accepts,    *)
(* and no more than that if a number that is to be a multiple has fewer     *)
(* units than Mantissa.  It does so on the numbers that the chain of a      *)
(* number schema reads and whose quotients int64 holds, if its validators   *)
(* judge any type of number alike, and on nil if the schema asks for it     *)
(* itself.  On the rest it is not the drop-in replacement that README.md    *)
(* calls it: the chain judges as 0 what it does not read, and rounds the    *)
(* quotients of longer numbers.                                            *)
SeesAlike(s, v) ==
  CustomOK(s, Typed(Type(v), Of[v].num)) <=> CustomOK(s, Typed("float64", Of[v].num))
ReadsAlike(s, v) == Type(v) \in Wide \/ ~IsNumber(mode, v)
Divides(s, v) ==
  /\ \A d \in Def[s].multipleOf : d # 0 /\ Quotient(Of[v].num, d) \div Mantissa <= MaxInt64
  /\ Def[s].integer => Of[v].num \div One <= MaxInt64
DividesExactly(s, v) == Def[s].multipleOf = {} \/ Of[v].num < Mantissa
AsksForNil(s) == Kind(s) \notin {"transform", "dependent", "dependencies"}

Original ==
  IF method = "transform" THEN ValidateAndTransform[schema][mode][datum]
  ELSE Validate[schema][mode][datum]
Compiled == compiled /\ method # "none"
CompiledAgrees ==
  /\ Compiled
  /\ Kind(schema) = "number" =>
       ReadsAlike(schema, datum) /\ Divides(schema, datum) /\ SeesAlike(schema, datum)
  /\ Type(datum) = "nil" => AsksForNil(schema)
  => /\ Original = {} => errors = {}
     /\ (Kind(schema) = "number" => DividesExactly(schema, datum)) => (errors = {} => Original = {})
===========================================================================
