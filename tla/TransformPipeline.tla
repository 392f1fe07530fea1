-------------------------- MODULE TransformPipeline --------------------------
(***************************************************************************)
(* A field of an object with a Transform schema, in an asynchronous        *)
(* validation: the object's own pass sends the field's value through the   *)
(* transformers, in order, and the asynchronous descent then calls         *)
(* ValidateAndTransformAsync of the field on what came out, which sends it *)
(* through all of them once more.  The value of the second pass is what    *)
(* the field's asynchronous validators are asked about; that of the first  *)
(* is what the call returns.  The schema behind the transformers accepts   *)
(* whatever comes out.                                                     *)
(***************************************************************************)
EXTENDS Transformers

CONSTANTS
  Ops,      \* the transformers that fields may have, and those these are made of
  Cases     \* the fields: the transformers of each, and values for it

Combining == {"Chain", "Conditional"}
Floats == [m : Nat, e : Int]

IsValue(v) ==
  \/ v \in {"string"} \X Seq(Chars)
  \/ v \in {"float64"} \X Floats
  \/ v \in {"int"} \X Nat
  \/ v \in {"bool"} \X BOOLEAN
  \/ v \in {"time"} \X Times
  \/ v = Nil

(* A transformer has the arguments of its constructor.                     *)
IsOp(op) ==
  /\ op.name \in TextOps \cup NumberOps \cup OtherOps \cup Combining
  /\ op.name \in {"Truncate", "PadLeft"} => op.len \in Nat
  /\ op.name = "PadLeft" => op.pad \in Chars
  /\ op.name = "Round" => op.decimals \in Int
  /\ op.name = "Clamp" => op.low \in Floats /\ op.high \in Floats
  /\ op.name = "Default" => IsValue(op.default)
  /\ op.name = "Chain" => op.ops \in Seq(Ops)
  /\ op.name = "Conditional" => op.then \in Ops

ASSUME CharsAssumption ==
  /\ {" ", "+", "."} \cup Digits \subseteq Chars
  /\ \A l \in DOMAIN Letters : l \in Chars /\ Letters[l] \in Chars

ASSUME CasesAssumption ==
  /\ \A op \in Ops : IsOp(op)
  /\ \A c \in Cases : c.ops \in Seq(Ops) /\ \A v \in c.inputs : IsValue(v)

(* What is asked of package time: the text of a time in ISO 8601 begins    *)
(* with its day where it is, and as a text of a day that is midnight, UTC. *)
(* The clocks of zones may change as often as they will.                   *)
ASSUME TimeAssumption ==
  /\ \A r \in Readings : r.time \in Times
  /\ Locations \subseteq DOMAIN Changes /\ "UTC" \in DOMAIN Changes
  /\ \A zone \in DOMAIN Changes :
       /\ Changes[zone] # <<>> /\ DOMAIN Changes[zone] = 1..Len(Changes[zone])
       /\ \A c \in Range(Changes[zone]) : c.at \in Int /\ c.off \in Int
  /\ \A c \in Range(Changes["UTC"]) : c.off = 0
  /\ \A t \in Moments :
       /\ t \in Times
       /\ LET iso == Write("RFC3339", t) IN
          /\ Len(iso) >= 10
          /\ Read("2006-01-02", SubSeq(iso, 1, 10)) = {[at |-> 24 * DayOf(t), zone |-> "UTC"]}

VARIABLES
  pipeline,    \* the transformers of the field
  given,       \* what the pass was called with
  value,       \* what has become of it
  todo,        \* the transformers it has still to go through
  pass,        \* the first, or the second
  outcome      \* "ok", "error" or "panic"
vars == <<pipeline, given, value, todo, pass, outcome>>

Init ==
  /\ \E c \in Cases : pipeline = c.ops /\ given \in c.inputs
  /\ value = given /\ todo = pipeline /\ pass = 1 /\ outcome = "ok"

Through == outcome = "ok" /\ todo = <<>>

(* A transformer that fails ends the pass, which then returns its input.   *)
Transform ==
  /\ outcome = "ok" /\ todo # <<>> /\ Head(todo).name \notin Combining
  /\ \E r \in Apply(Head(todo), value) :
       /\ outcome' = r.out
       /\ value' = IF r.out = "ok" THEN r.val ELSE given
  /\ todo' = Tail(todo)
  /\ UNCHANGED <<pipeline, given, pass>>

(* Chain: its transformers in order, the first error being the result.     *)
(* Conditional: its transformer, if the value meets the condition.         *)
Behind(op) ==
  CASE op.name = "Chain" -> op.ops
    [] op.name = "Conditional" -> IF value \in op.when THEN <<op.then>> ELSE <<>>
Combine ==
  /\ outcome = "ok" /\ todo # <<>> /\ Head(todo).name \in Combining
  /\ todo' = Behind(Head(todo)) \o Tail(todo)
  /\ UNCHANGED <<pipeline, given, value, pass, outcome>>

SecondPass ==
  /\ Through /\ pass = 1
  /\ pass' = 2 /\ todo' = pipeline /\ given' = value
  /\ UNCHANGED <<pipeline, value, outcome>>

Next == Transform \/ Combine \/ SecondPass
Spec == Init /\ [][Next]_vars

---------------------------------------------------------------------------
Alone(names) == Len(pipeline) = 1 /\ pipeline[1].name \in names
Phones == {"NormalizePhone", "NormalizePhoneWithCountry"}

(* The transformers that say what a value should look like, and not what   *)
(* should be done to it.                                                   *)
Repeatable(op) ==
  \/ op.name \in {"Trim", "Lowercase", "Uppercase", "TitleCase", "RemoveSpaces", "NormalizeWhitespace",
                  "RemoveNonAlphanumeric", "RemoveCurrencySymbols", "Truncate", "PadLeft",
                  "ToFloat64", "ToInt", "ToString", "ToBoolean", "Round", "Default",
                  "ToTimezone", "StartOfDay", "EndOfDay", "FormatPhone"}
  \/ op.name = "Clamp" /\ ~Less(op.high, op.low)

(* A bound of a day shows the hour it is to have: the clock did not skip    *)
(* it.  (And no day as a whole, as Samoa's did once.)                      *)
Hour(op) == IF op.name = "StartOfDay" THEN 0 ELSE 23
BoundShown(op, v) ==
  op.name \in {"StartOfDay", "EndOfDay"} =>
    /\ Clock(v[2]) % 24 = Hour(op)
    /\ \A c, d \in Range(Changes[v[2].zone]) : c.off - d.off \in (0 - 23)..23

(* Such a transformer may be gone through twice: the second pass, that of  *)
(* an asynchronous validation, finds nothing to change and nothing wrong.  *)
FormReapplied ==
  pass = 2 /\ Len(pipeline) = 1 /\ Repeatable(pipeline[1]) /\ BoundShown(pipeline[1], given)
    => outcome = "ok" /\ value = given

(* A number of the default country.  Argentina's, and some of Bolivia's    *)
(* and Brazil's, come out in a form that their own formats refuse.         *)
OfDefault(op, v) ==
  /\ op.name \in Phones /\ op.country \in Countries \ {"AR", "BO", "BR"}
  /\ IsPrefix(<<"+">> \o Code[op.country], v[2])

(* Nor does the second pass change the number of a telephone in the        *)
(* default country, or refuse it.  It is not so of numbers at large: the   *)
(* form NormalizePhone gives Argentina's is refused when it is normalised  *)
(* again, and another country's may be taken for one of the default's.     *)
PhoneReapplied ==
  pass = 2 /\ Len(pipeline) = 1 /\ OfDefault(pipeline[1], given) => outcome = "ok" /\ value = given

(* What the two passes make of a field of one such transformer is what the *)
(* first one made: the validators judge the value that the call returns.   *)
ReapplySafe == FormReapplied /\ PhoneReapplied

---------------------------------------------------------------------------
Width(c) == CASE c = "AR" -> 11 [] c = "UY" -> 8 [] c \notin {"AR", "UY"} -> NormalizedLen[c]
IsNumberOf(c, n) ==
  /\ IsPrefix(<<"+">> \o Code[c], n) /\ Len(n) = 1 + Len(Code[c]) + Width(c)
  /\ \A i \in 2..Len(n) : n[i] \in Digits

(* What is returned for a telephone number is its country's prefix and the *)
(* digits that country's numbers have, no more and no fewer, the country   *)
(* being the default or the one whose prefix the text has; and it does not *)
(* depend on the order in which the map of prefixes is ranged over.        *)
PhoneShape ==
  Alone(Phones) =>
    /\ Cardinality(Apply(pipeline[1], given)) = 1
    /\ Through /\ pass = 1 /\ pipeline[1].country \in Countries =>
         \E c \in {pipeline[1].country} \cup DetectCountry(Cleaned(given[2]), pipeline[1].country) :
           IsNumberOf(c, value[2])

---------------------------------------------------------------------------
(* Three days to either side of a time, the clock of its zone changes once *)
(* at most, and it shows each bound of the time's day once: the change     *)
(* skips neither of them, and repeats neither.                             *)
Around(t) == (t.at - 72)..(t.at + 72)
OneChange(t) ==
  LET changes == Range(Changes[t.zone])
      offsets == {c.off : c \in changes} \cap (0 - 24)..24 IN
  \E c \in changes, from, to \in offsets : \A x \in Around(t) :
    OffsetAt(t.zone, x) = IF x < c.at THEN from ELSE to
ShownOnce(t, clock) ==
  LET shown == {x \in Around(t) : Clock([t EXCEPT !.at = x]) = clock} IN \E x \in shown : shown = {x}
Regular(t) == OneChange(t) /\ \A hour \in {0, 23} : ShownOnce(t, DayOf(t) * 24 + hour)

(* StartOfDay and EndOfDay enclose a time within its own calendar day,     *)
(* where the clock shows the bounds of that day; and the day is the one    *)
(* they find when the time comes as ISO 8601 text.  (Where the clock skips  *)
(* midnight, in the west, StartOfDay yields a time of the day before.)      *)
DayKept ==
  Type(value) = "time" =>
    LET t == value[2]
        iso == ToISO8601(value).val IN
    /\ Regular(t) =>
         /\ StartOfDay(t).at <= t.at /\ t.at <= EndOfDay(t).at
         /\ DayOf(StartOfDay(t)) = DayOf(t) /\ DayOf(EndOfDay(t)) = DayOf(t)
    /\ t \in Moments =>
         \A end \in {"StartOfDay", "EndOfDay"} : DayOf(DayBound(iso, end).val[2]) = DayOf(t)
=============================================================================
