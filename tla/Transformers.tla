---------------------------- MODULE Transformers ----------------------------
(***************************************************************************)
(* The transformers of the library, as functions from a value to what      *)
(* becomes of it.  A value is a Go value with its type: a text is a        *)
(* sequence of characters of one byte, a float a decimal [m, e] that       *)
(* stands for m * 10^e, not negative, with m no multiple of 10 but 0, and  *)
(* a time an instant, in hours, and its zone.                              *)
(*                                                                         *)
(* Of the letters, those that the words of ToBoolean need stand for all.   *)
(* What package time knows is a parameter: the layouts, and the zones with  *)
(* the changes of their clocks.                                            *)
(***************************************************************************)
EXTENDS PhoneNumbers, Integers, TLC

CONSTANTS
  Chars,        \* the characters that texts have
  Write(_, _),  \* the text of a time in a layout
  Readings,     \* the texts that are times: [layout, text, time]
  Moments,      \* times of the years that ISO 8601 writes with four digits
  Changes,      \* [zones -> the offsets of their clocks, in turn: [at, off]]
  Locations,    \* the zones that LoadLocation knows by name
  Common        \* the layouts that ToISO8601 tries, in order

Times == [at : Int, zone : DOMAIN Changes]
Read(layout, text) == {r.time : r \in {k \in Readings : k.layout = layout /\ k.text = text}}

Text(s) == <<"string", s>>
Float(m, e) == <<"float64", [m |-> m, e |-> e]>>
Integer(n) == <<"int", n>>
Boolean(b) == <<"bool", b>>
Time(t) == <<"time", t>>
Nil == <<"nil", 0>>

Ok(v) == [out |-> "ok", val |-> v]
Failed == [out |-> "error", val |-> Nil]
Panicked == [out |-> "panic", val |-> Nil]
Type(v) == v[1]

---------------------------------------------------------------------------
(* Texts.                                                                  *)
Letters == [a |-> "A", e |-> "E", f |-> "F", l |-> "L", n |-> "N", o |-> "O", r |-> "R", s |-> "S",
            t |-> "T", u |-> "U", y |-> "Y"]
Capital(c) == IF c \in DOMAIN Letters THEN Letters[c] ELSE c
Small(c) == IF \E l \in DOMAIN Letters : Letters[l] = c THEN CHOOSE l \in DOMAIN Letters : Letters[l] = c ELSE c
IsLetter(c) == c \in DOMAIN Letters \/ \E l \in DOMAIN Letters : Letters[l] = c
Each(s, F(_)) == [i \in DOMAIN s |-> F(s[i])]
Dropping(s, C) == Keeping(s, ToSet(s) \ C)
(* strings.Title starts a word behind anything but letters, digits and _.  *)
TitleCase(s) ==
  [i \in DOMAIN s |->
     IF i > 1 /\ (IsLetter(s[i - 1]) \/ s[i - 1] \in Digits \cup {"_"}) THEN s[i] ELSE Capital(s[i])]

(* From the left, and not within what was put in; old is not empty.  from  *)
(* says what becomes of the text from a position on.                       *)
Replace(s, old, new) ==
  LET n == Len(old)
      from[i \in 1..(Len(s) + 1)] ==
        CASE i + n > Len(s) + 1 -> SubSeq(s, i, Len(s))
          [] i + n <= Len(s) + 1 /\ SubSeq(s, i, i + n - 1) = old -> new \o from[i + n]
          [] i + n <= Len(s) + 1 /\ SubSeq(s, i, i + n - 1) # old -> <<s[i]>> \o from[i + 1]
  IN from[1]

\* The one replacement that leaves longer runs shorter, and not single.
MutCollapsed(s) == Replace(s, <<" ", " ">>, <<" ">>)

(* Every run of spaces is one space.                                       *)
Spaced(t, c) ==
  IF c \notin Space THEN Append(t, c)
  ELSE IF t # <<>> /\ t[Len(t)] = " " THEN t ELSE Append(t, " ")
Collapsed(s) ==
  LET upTo[i \in 0..Len(s)] == IF i = 0 THEN <<>> ELSE Spaced(upTo[i - 1], s[i]) IN upTo[Len(s)]

Symbols == {"$", ","}      \* one of the 16 currency symbols, and the comma

(* Slices count bytes.                                                     *)
Truncate(s, n) == IF Len(s) <= n THEN s ELSE SubSeq(s, 1, n)
PadLeft(s, n, c) == IF Len(s) >= n THEN s ELSE [i \in 1..(n - Len(s)) |-> c] \o s

TextOf(op, s) ==
  CASE op.name = "Trim" -> TrimSpace(s)
    [] op.name = "Lowercase" -> Each(s, Small)
    [] op.name = "Uppercase" -> Each(s, Capital)
    [] op.name = "TitleCase" -> TitleCase(Each(s, Small))
    [] op.name = "RemoveSpaces" -> Dropping(s, {" "})
    [] op.name = "NormalizeWhitespace" -> TrimSpace(Collapsed(s))
    [] op.name = "Replace" -> Replace(s, op.old, op.new)
    [] op.name = "RemoveNonAlphanumeric" -> Keeping(s, {c \in ToSet(s) : IsLetter(c) \/ c \in Digits})
    [] op.name = "RemoveCurrencySymbols" -> TrimSpace(Dropping(s, Symbols))
    [] op.name = "Truncate" -> Truncate(s, op.len)
    [] op.name = "PadLeft" -> PadLeft(s, op.len, op.pad)
TextOps == {"Trim", "Lowercase", "Uppercase", "TitleCase", "RemoveSpaces", "NormalizeWhitespace",
            "Replace", "RemoveNonAlphanumeric", "RemoveCurrencySymbols", "Truncate", "PadLeft"}

---------------------------------------------------------------------------
(* Numbers.                                                                *)
Zeros[m \in Nat] == IF m = 0 \/ m % 10 # 0 THEN 0 ELSE 1 + Zeros[m \div 10]
Ten[n \in Nat] == IF n = 0 THEN 1 ELSE 10 * Ten[n - 1]
Decimal(m, e) == IF m = 0 THEN Float(0, 0) ELSE Float(m \div Ten[Zeros[m]], e + Zeros[m])

Digit == <<"0", "1", "2", "3", "4", "5", "6", "7", "8", "9">>
Printed[n \in Nat] == (IF n < 10 THEN <<>> ELSE Printed[n \div 10]) \o <<Digit[(n % 10) + 1]>>
ValueOf(c) == (CHOOSE i \in 1..10 : Digit[i] = c) - 1
Value(s) ==
  LET upTo[i \in 0..Len(s)] == IF i = 0 THEN 0 ELSE 10 * upTo[i - 1] + ValueOf(s[i]) IN upTo[Len(s)]

(* The text of a decimal: zeros behind it, or a point in it.               *)
Shown(f) ==
  IF f.e >= 0 THEN Printed[f.m * Ten[f.e]]
  ELSE LET s == PadLeft(Printed[f.m], 1 - f.e, "0") IN
       SubSeq(s, 1, Len(s) + f.e) \o <<".">> \o SubSeq(s, Len(s) + f.e + 1, Len(s))

(* ParseFloat: digits, with a point among them.                            *)
Parsed(s) ==
  LET points == {i \in DOMAIN s : s[i] = "."}
      digits == Dropping(s, {"."}) IN
  IF digits = <<>> \/ \E i \in DOMAIN digits : digits[i] \notin Digits THEN {}
  ELSE CASE points = {} -> {Decimal(Value(s), 0)}
         [] \E i \in points : points = {i} ->
              {Decimal(Value(digits), 0 - (Len(s) - (CHOOSE i \in points : TRUE)))}
         [] OTHER -> {}

Whole(f) == IF f.e >= 0 THEN f.m * Ten[f.e] ELSE f.m \div Ten[0 - f.e]

(* ToFloat64, of the value types that occur: the floats it stands for.     *)
FloatsOf(v) ==
  CASE Type(v) = "float64" -> {v[2]}
    [] Type(v) = "int" -> {Decimal(v[2], 0)[2]}
    [] Type(v) = "string" -> {f[2] : f \in Parsed(v[2])}
    [] OTHER -> {}

(* Atoi reads digits, and int() cuts a float off at its point.             *)
ToInt(v) ==
  CASE Type(v) = "int" -> Ok(v)
    [] OTHER -> LET fs == FloatsOf(v) IN
                IF fs = {} THEN Failed ELSE Ok(Integer(Whole(CHOOSE f \in fs : TRUE)))

(* Half away from zero at the given decimal.                               *)
Round(f, decimals) ==
  LET q == Ten[0 - f.e - decimals] IN
  IF 0 - f.e <= decimals THEN Float(f.m, f.e)
  ELSE Decimal((f.m + q \div 2) \div q, 0 - decimals)

Less(f, g) ==
  LET e == IF f.e < g.e THEN f.e ELSE g.e IN f.m * Ten[f.e - e] < g.m * Ten[g.e - e]
Clamp(f, low, high) ==
  CASE Less(f, low) -> Float(low.m, low.e)
    [] ~Less(f, low) /\ Less(high, f) -> Float(high.m, high.e)
    [] OTHER -> Float(f.m, f.e)

NumberOf(op, f) ==
  CASE op.name = "ToFloat64" -> Float(f.m, f.e)
    [] op.name = "Round" -> Round(f, op.decimals)
    [] op.name = "Clamp" -> Clamp(f, op.low, op.high)
    [] op.name = "Percentage" -> Decimal(f.m, f.e + 2)
    [] op.name = "FromPercentage" -> Decimal(f.m, f.e - 2)
NumberOps == {"ToFloat64", "Round", "Clamp", "Percentage", "FromPercentage"}

---------------------------------------------------------------------------
(* Conversions to the other types, and the rest of common.go.              *)
True == {<<"t", "r", "u", "e">>, <<"y", "e", "s">>, <<"1">>, <<"o", "n">>}
False == {<<"f", "a", "l", "s", "e">>, <<"n", "o">>, <<"0">>, <<"o", "f", "f">>}
ToBoolean(v) ==
  LET s == IF Type(v) = "string" THEN Each(TrimSpace(v[2]), Small) ELSE <<>> IN
  CASE Type(v) = "bool" -> Ok(v)
    [] Type(v) = "string" -> IF s \in True \cup False THEN Ok(Boolean(s \in True)) ELSE Failed
    [] Type(v) = "int" -> Ok(Boolean(v[2] # 0))
    [] Type(v) = "float64" -> Ok(Boolean(v[2].m # 0))
    [] OTHER -> Failed

ToText(v) ==
  CASE Type(v) = "string" -> v
    [] Type(v) = "int" -> Text(Printed[v[2]])
    [] Type(v) = "float64" -> Text(Shown(v[2]))
    [] Type(v) = "bool" -> Text(IF v[2] THEN <<"t", "r", "u", "e">> ELSE <<"f", "a", "l", "s", "e">>)
    [] Type(v) = "time" -> Text(Write("String", v[2]))
    [] OTHER -> Text(<<"<", "nil", ">">>)

Default(v, default) == IF v = Nil \/ v = Text(<<>>) THEN default ELSE v

---------------------------------------------------------------------------
(* Dates.                                                                  *)
FirstOf(times) == IF times = {} THEN Failed ELSE Ok(Time(CHOOSE t \in times : TRUE))

(* The first offset of a zone is also that of the time before it.          *)
OffsetAt(zone, at) ==
  LET past == {i \in DOMAIN Changes[zone] : Changes[zone][i].at <= at}
  IN  Changes[zone][IF past = {} THEN 1 ELSE Max(past)].off
Clock(t) == t.at + OffsetAt(t.zone, t.at)
DayOf(t) == Clock(t) \div 24

(* time.Date: a time at which the clock shows this, if there is one.  The   *)
(* offset is looked up as if the clock were that of UTC, and then where    *)
(* this has led.                                                           *)
Date(clock, zone) == [at |-> clock - OffsetAt(zone, clock - OffsetAt(zone, clock)), zone |-> zone]

\* The day that time.Truncate finds.
MutStartOfDay(t) == [t EXCEPT !.at = (t.at \div 24) * 24]
StartOfDay(t) == Date(DayOf(t) * 24, t.zone)
EndOfDay(t) == Date(DayOf(t) * 24 + 23, t.zone)

(* The day of a text is its first ten bytes, whatever follows, in UTC.     *)
DayBound(v, end) ==
  LET Bound(t) == IF end = "StartOfDay" THEN StartOfDay(t) ELSE EndOfDay(t)
      day == IF Len(v[2]) < 10 THEN {} ELSE Read("2006-01-02", SubSeq(v[2], 1, 10)) IN
  CASE Type(v) = "time" -> Ok(Time(Bound(v[2])))
    [] Type(v) = "string" -> IF Len(v[2]) < 10 THEN Panicked ELSE FirstOf({Bound(t) : t \in day})
    [] OTHER -> Failed

ToISO8601(v) ==
  LET readable == {i \in DOMAIN Common : Read(Common[i], v[2]) # {}}
      first == CHOOSE i \in readable : \A j \in readable : i <= j IN
  CASE Type(v) = "time" -> Ok(Text(Write("RFC3339", v[2])))
    [] Type(v) = "string" ->
         IF readable = {} THEN Failed
         ELSE Ok(Text(Write("RFC3339", CHOOSE t \in Read(Common[first], v[2]) : TRUE)))
    [] OTHER -> Failed

ToTimezone(v, location) ==
  LET times == CASE Type(v) = "time" -> {v[2]}
                 [] Type(v) = "string" -> Read("RFC3339", v[2])
                 [] OTHER -> {} IN
  IF location \notin Locations THEN Failed
  ELSE FirstOf({[t EXCEPT !.zone = location] : t \in times})

ParseDate(v, layout) == IF Type(v) = "string" THEN FirstOf(Read(layout, v[2])) ELSE Failed
DateFormat(v, from, to) ==
  LET r == ParseDate(v, from) IN IF r.out = "ok" THEN Ok(Text(Write(to, r.val[2]))) ELSE r

---------------------------------------------------------------------------
Phone(v, numbers) ==
  CASE Type(v) # "string" \/ numbers = {} -> {Failed}
    [] OTHER -> {Ok(Text(n)) : n \in numbers}

OtherOps == {"ToInt", "ToString", "ToBoolean", "Default", "ParseDate", "DateFormat", "ToISO8601",
             "ToTimezone", "StartOfDay", "EndOfDay",
             "NormalizePhone", "NormalizePhoneWithCountry", "FormatPhone"}

(* What may become of a value: one result, but for the range over a map.  *)
(* Chain and Conditional only say which transformers follow.               *)
Apply(op, v) ==
  CASE op.name \in TextOps -> {IF Type(v) = "string" THEN Ok(Text(TextOf(op, v[2]))) ELSE Failed}
    [] op.name \in NumberOps ->
         LET fs == FloatsOf(v) IN
         {IF fs = {} THEN Failed ELSE Ok(NumberOf(op, CHOOSE f \in fs : TRUE))}
    [] op.name = "ToInt" -> {ToInt(v)}
    [] op.name = "ToString" -> {Ok(ToText(v))}
    [] op.name = "ToBoolean" -> {ToBoolean(v)}
    [] op.name = "Default" -> {Ok(Default(v, op.default))}
    [] op.name = "ParseDate" -> {ParseDate(v, op.from)}
    [] op.name = "DateFormat" -> {DateFormat(v, op.from, op.to)}
    [] op.name = "ToISO8601" -> {ToISO8601(v)}
    [] op.name = "ToTimezone" -> {ToTimezone(v, op.location)}
    [] op.name \in {"StartOfDay", "EndOfDay"} -> {DayBound(v, op.name)}
    [] op.name = "NormalizePhone" ->
         Phone(v, IF Type(v) = "string" THEN NormalizePhone(v[2], op.country) ELSE {})
    [] op.name = "NormalizePhoneWithCountry" ->
         Phone(v, IF Type(v) = "string" THEN NormalizeForCountry(v[2], op.country) ELSE {})
    [] op.name = "FormatPhone" -> {IF Type(v) = "string" THEN Ok(v) ELSE Failed}
=============================================================================
