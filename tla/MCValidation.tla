---------------------------- MODULE MCValidation ----------------------------
(* Every schema below against every datum below, in both modes.  A number   *)
(* is twice its value; int64 ends at 31 and a float has four binary digits,  *)
(* instead of 2^63 - 1 and 53 digits.  An object lists the fields     *)
(* that were required when they were added, late has one that became so    *)
(* afterwards.                                                             *)
EXTENDS Validation

MCOf ==
  LET D(type, num, text) ==
        [type |-> type, num |-> num, text |-> text, reads |-> FALSE, fields |-> <<>>, items |-> <<>>]
      Text(text) == D("string", 0, text)
      Map(name, fields) == [D("map", 0, name) EXCEPT !.fields = fields]
      Slice(name, items) == [D("slice", 0, name) EXCEPT !.items = items]
  IN  [ nil |-> D("nil", 0, "<nil>"), yes |-> D("bool", 0, "true"), other |-> D("other", 0, "{}"),
        abc |-> Text("abc"), raw |-> Text(" abc "), empty |-> Text(""), true |-> Text("true"),
        card |-> Text("card"), five |-> [Text("5") EXCEPT !.num = 10, !.reads = TRUE],
        tag |-> D("stringer", 0, "abc"),
        noon |-> D("time", 12, "12h"), day |-> Text("02/01"),
        zero |-> D("int", 0, "0"), i5 |-> D("int", 10, "5"), f5 |-> D("float64", 10, "5"),
        s5 |-> D("int32", 10, "5"), f6 |-> D("float32", 12, "6"), half |-> D("float64", 5, "2.5"),
        large |-> D("float64", 48, "24"), huge |-> D("float64", 80, "40"),
        near |-> D("float64", 64, "32"),
        m0 |-> Map("m0", <<>>), mA |-> Map("mA", [a |-> "abc"]), mAN |-> Map("mAN", [a |-> "abc", n |-> "i5"]),
        mBad |-> Map("mBad", [a |-> "i5", n |-> "abc"]), mNil |-> Map("mNil", [a |-> "nil"]),
        mX |-> Map("mX", [a |-> "abc", x |-> "yes"]), mC |-> Map("mC", [c |-> "yes", n |-> "f5"]),
        mRaw |-> Map("mRaw", [a |-> "raw"]),
        paid |-> Map("paid", [by |-> "card", no |-> "five"]),
        cash |-> Map("cash", [by |-> "abc", no |-> "nil", ref |-> "zero"]),
        owed |-> Map("owed", [by |-> "card"]),
        deep |-> Map("deep", [o |-> "mA", l |-> "l2", t |-> "raw"]),
        sunk |-> Map("sunk", [o |-> "mBad", l |-> "lMix", t |-> "i5"]),
        l0 |-> Slice("[]", <<>>), l2 |-> Slice("[5 2.5]", <<"i5", "half">>),
        lDup |-> Slice("[5 5]", <<"i5", "f5">>), lMix |-> Slice("[0 abc <nil>]", <<"zero", "abc", "nil">>),
        lMaps |-> Slice("[mA mBad]", <<"mA", "mBad">>)]

MCRule ==
  LET Given(op, field) == [op |-> op, field |-> field]
  IN  [ card |-> [op |-> "equals", field |-> "by", values |-> {"card"}],
        other |-> [op |-> "notEquals", field |-> "by", values |-> {"card"}],
        given |-> Given("exists", "no"), absent |-> Given("notExists", "no"),
        more |-> [op |-> "greaterThan", field |-> "n", limit |-> 8],
        less |-> [op |-> "lessThan", field |-> "n", limit |-> 8],
        on |-> Given("true", "x"), off |-> Given("false", "x"),
        both |-> [op |-> "all", field |-> "", of |-> {"absent", "other"}],
        some |-> [op |-> "any", field |-> "", of |-> {"both", "more", "less", "on", "off"}]]

NonEmpty == {"abc", " abc ", "true", "card", "5", "02/01", "12h", "0", "6", "2.5", "24", "32", "40"}
Trim == [raw |-> "abc", i5 |-> Failed]
Default == [nil |-> "zero"]
Parsed == [abc |-> "mBad"]
Dmy == "02/01" :> 32
Iso == "5" :> 5
MCCommon == "02/01" :> 2

MCDef ==
  LET S(kind) == [kind |-> kind, required |-> FALSE, nullable |-> FALSE]
      String(tests) == [tests |-> tests] @@ S("string")
      Num(low, high) ==
        [low |-> low, high |-> high, multipleOf |-> {}, integer |-> FALSE, positive |-> FALSE] @@ S("number")
      Object(fields, names, additional) ==
        [fields |-> fields, requiredFields |-> names, additional |-> additional] @@ S("object")
      Array(elem, min, max, unique) ==
        [elem |-> elem, min |-> min, max |-> max, unique |-> unique] @@ S("array")
      Transform(sub, chain) == [sub |-> sub, chain |-> chain] @@ S("transform")
      Dependent(when, then, else) == [when |-> when, then |-> then, else |-> else] @@ S("dependent")
      Required(s) == [s EXCEPT !.required = TRUE]
      Nullable(s) == [s EXCEPT !.nullable = TRUE]
  IN  [ word |-> Required(String([length |-> NonEmpty, enum |-> {"", "abc", "5", "card"}])),
        name |-> Nullable(String(<<>>)),
        num |-> Num(2, 60), int |-> [Num(0, 99) EXCEPT !.integer = TRUE],
        pos |-> [Num(0, 60) EXCEPT !.positive = TRUE], mul |-> [Num(0, 99) EXCEPT !.multipleOf = {3}],
        near |-> [Num(0, 99) EXCEPT !.multipleOf = {13}],
        mul0 |-> [Num(0, 99) EXCEPT !.multipleOf = {0}], typed |-> Num(0, 99),
        date |-> [parse |-> Dmy, strictFormat |-> FALSE, low |-> 3, high |-> 40] @@ S("datetime"),
        iso |-> [parse |-> Iso, strictFormat |-> TRUE, low |-> 0, high |-> 40] @@ S("datetime"),
        soon |-> [parse |-> Iso, strictFormat |-> FALSE, low |-> 0, high |-> 10] @@ S("datetime"),
        flag |-> S("bool"), some |-> Nullable(S("custom")),
        obj |-> Object([a |-> "word", n |-> "num"], {"a"}, "mode"),
        late |-> Object([a |-> "word"], {}, "mode"),
        named |-> Nullable(Object([n |-> "num"], {"c"}, "allow")),
        shut |-> Object([a |-> "name"], {}, "reject"),
        list |-> Required(Array("num", 1, 2, TRUE)), rows |-> Array("obj", 0, 3, FALSE),
        any |-> Nullable(Array(None, 0, 2, TRUE)),
        both |-> [subs |-> {"name", "some", "trim"}] @@ S("and"),
        one |-> Nullable([subs |-> {"num", "word", "obj"}] @@ S("or")), free |-> [subs |-> {}] @@ S("or"),
        no |-> [sub |-> "word"] @@ S("not"), neither |-> [sub |-> "one"] @@ S("not"),
        trim |-> Transform("word", Trim), default |-> Transform("num", Default),
        parse |-> Transform("obj", Parsed),
        all |-> [subs |-> {"name", "obj"}] @@ S("and"), unwrap |-> Transform("all", Parsed),
        sees |-> Object([a |-> "trim"], {"a"}, "mode"), blind |-> Object([a |-> "trim"], {"a"}, "mode"),
        whenCard |-> Dependent("card", "word", None),
        either |-> Required(Dependent("some", "num", "word")),
        order |-> [Object([by |-> "word", no |-> "whenCard"], {"by"}, "mode") EXCEPT !.kind = "dependencies"],
        gone |-> Dependent("given", "name", "some"), never |-> Dependent(None, "word", "name"),
        unless |-> Dependent("off", None, "num"),
        choice |-> Nullable([Object([ref |-> "either", by |-> "gone", no |-> "never", x |-> "unless"],
                                       {}, "allow") EXCEPT !.kind = "dependencies"]),
        tree |-> Object([o |-> "obj", l |-> "list", t |-> "trim"], {"l", "t"}, "mode")]

MCCustomOK(s, x) ==
  CASE s = "typed" -> x.type = "float64"
    [] s = "flag" -> x = "yes"
    [] s = "name" -> x # ""
    [] s = "soon" -> x # 5
    [] s = "some" -> x # "other"
    [] s = "sees" -> "a" \notin DOMAIN x \/ x["a"] = "abc"
    [] s = "blind" -> Cardinality(DOMAIN x) <= 1
    [] s = "rows" -> x # "l0"
    [] OTHER -> TRUE
MCSchemas == DOMAIN MCDef
MCDepth == LET D[s \in MCSchemas] == LET S == Subs(s) IN IF S = {} THEN 0 ELSE 1 + Max({D[t] : t \in S}) IN D
MCData == DOMAIN MCOf
MCConditions == DOMAIN MCRule
MCPositions == <<"[0]", "[1]", "[2]">>
=============================================================================
