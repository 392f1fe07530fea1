---------------------------- MODULE MCSchemaTools ----------------------------
\* Three sets of schemas that share their parts, and documents of every type,
\* with members that are well typed, ill typed, unknown and not supported.
EXTENDS SchemaRoundTrip

MCRank == [s |-> 0, n |-> 0, p |-> 0, d |-> 0, t |-> 1, w |-> 1, a |-> 2, in |-> 3, v |-> 4, b |-> 4,
           out |-> 5]
MCFieldNames == {"x", "y", "y.x"}
MCPatterns == {"", "(", "[a]", "[a];enum=[e]"}
MCEnums == {<<>>, <<"e">>, <<"e", "f">>, <<"e,f">>}
MCMetas == {"x-note" :> Str("v"), "x-note" :> Num(1), "exclusiveMinimum" :> Num(1)}
MCUnsafe == {"[a];enum=[e]", "e,f"}
MCOrdered == <<"", "<and[0]>", "<and[1]>", "<not>", "[*]", "additionalPropertiesSchema",
               "exclusiveMaximum", "exclusiveMinimum", "format", "ghost", "minLength", "type", "x",
               "x-note", "y", "y.x">>

Parts == [s |-> Cell("string"), n |-> Cell("number"), a |-> Cell("array"), in |-> Cell("object"),
          out |-> Cell("object")]
MCHeaps ==
  { [Parts EXCEPT !["in"].kids = "x" :> "s" @@ "y" :> "n", !["out"].kids = "x" :> "in" @@ "y" :> "a"],
    ("t" :> With(Cell("transform"), "" :> "s") @@ "d" :> Cell("datetime")
     @@ "b" :> With(Cell("array"), "[*]" :> "in")
     @@ "w" :> With(Cell("and"), "<and[0]>" :> "s" @@ "<and[1]>" :> "n"))
    @@ [Parts EXCEPT !["in"].kids = "x" :> "t" @@ "y" :> "w", !["out"].kids = "x" :> "b" @@ "y" :> "d"],
    ("t" :> Cell("custom") @@ "p" :> Cell("dependent") @@ "v" :> With(Cell("dependencies"), "" :> "in")
     @@ "w" :> With(Cell("not"), "<not>" :> "s"))
    @@ [Parts EXCEPT !["s"].req = TRUE, !["n"].kind = "bool", !["in"].kids = "x" :> "p",
                     !["a"].kids = "[*]" :> "s", !["out"].reqd = {"ghost"},
                     !["out"].kids = "x" :> "v" @@ "y" :> "w"] }

Text1 == Obj("type" :> Str("string") @@ "minLength" :> Num(1))
Either == Arr(<<Str("number"), Str("null")>>)
MCDocuments ==
  {Obj("type" :> Str(t)) : t \in {"string", "number", "integer", "boolean", "object", "array", "null"}}
  \cup {Obj("properties" :> Obj("x" :> Text1 @@ "y" :> Obj("type" :> Either))),
        Obj("items" :> Text1)}
MCEdits ==
  UNION {{k :> v : v \in {Num(1), Str("e")}} :
           k \in {"minLength", "maximum", "exclusiveMinimum", "multipleOf", "maxItems", "x-note"}}
  \cup {"type" :> Either, "type" :> Arr(<<Str("null")>>), "type" :> Num(1),
        "pattern" :> Str("[a]"), "pattern" :> Str("("), "pattern" :> Str(""),
        "enum" :> Arr(<<Str("e"), Str("f")>>), "enum" :> Arr(<<Num(1)>>), "enum" :> Arr(<<>>),
        "format" :> Str("email"), "format" :> Str("uri"), "format" :> Str("date"),
        "format" :> Str("semver"), "format" :> Str("odd"), "format" :> Num(1),
        "minimum" :> Num(0), "exclusiveMaximum" :> Num(2),
        "nullable" :> Bool(TRUE), "nullable" :> Bool(FALSE), "_nullable" :> Bool(FALSE),
        "required" :> Arr(<<Str("x"), Str("ghost")>>), "required" :> Bool(TRUE),
        "properties" :> Num(1), "properties" :> Obj("x" :> Num(1) @@ "y" :> Text1),
        "properties" :> Obj("x" :> Obj("properties" :> Obj("y" :> Text1) @@ "required" :> Arr(<<Str("y")>>))),
        "additionalProperties" :> Bool(FALSE), "additionalProperties" :> Text1,
        "items" :> Num(1), "items" :> Obj("format" :> Str("odd")), "items" :> Text1,
        "uniqueItems" :> Bool(TRUE), "uniqueItems" :> Bool(FALSE),
        "title" :> Str("v"), "$ref" :> Str("v")}
=============================================================================
