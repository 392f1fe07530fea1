----------------------------- MODULE JSONSchema -----------------------------
(***************************************************************************)
(* The import and the export of JSON Schema: FromJSON and ToJSON.          *)
(*                                                                         *)
(* A document is a JSON value of SchemaBuilders; an object of it is a      *)
(* function from keys to values.  What goes through JSON text comes back   *)
(* as it was, numbers included: the conversion itself is not modelled.     *)
(* An import gives [schema, errors]; an error is [path, keyword, warning]. *)
(* Options and $schema and $id of an export are left out: an import        *)
(* recognises those keys and drops them.                                   *)
(***************************************************************************)
EXTENDS SchemaBuilders, SchemaTools

CONSTANT StoreUnknown, StrictMode   \* options of an import

Unsupported == {"$ref", "oneOf"}            \* one with a default meaning, one composite, of 18
TypeKeywords ==
  {"type", "properties", "required", "additionalProperties", "items", "minLength", "maxLength",
   "pattern", "minimum", "maximum", "exclusiveMinimum", "exclusiveMaximum", "multipleOf", "enum",
   "format", "nullable", "minItems", "maxItems", "uniqueItems"}
Recognised == TypeKeywords \cup {"title", "const"}   \* and the other informational ones

Is(raw, k, type) == k \in DOMAIN raw /\ raw[k][1] = type
Keep(raw, keys, type) == [k \in {x \in keys : Is(raw, x, type)} |-> raw[k]]
Without(f, keys) == [k \in DOMAIN f \ keys |-> f[k]]
Error(path, keyword) == [path |-> path, keyword |-> keyword, warning |-> FALSE]
Warning(path, keyword) == [path |-> path, keyword |-> keyword, warning |-> TRUE]
Texts(v) == {v[2][i][2] : i \in {j \in DOMAIN v[2] : v[2][j][1] = "str"}}
Below(path, step) == IF path = "" THEN step ELSE path \o "." \o step

---------------------------------------------------------------------------
(* Import.                                                                 *)
CheckUnsupported(raw, path) ==
  {[path |-> path, keyword |-> k, warning |-> ~StrictMode] : k \in Unsupported \cap DOMAIN raw}

(* Of several types the last one counts, and null makes it nullable.       *)
ResolveType(raw) ==
  CASE "type" \notin DOMAIN raw ->
         IF "properties" \in DOMAIN raw THEN "object" ELSE IF "items" \in DOMAIN raw THEN "array" ELSE ""
    [] Is(raw, "type", "str") -> raw.type[2]
    [] Is(raw, "type", "arr") ->
         LET named == SelectSeq(raw.type[2], LAMBDA t : t[1] = "str" /\ t # Str("null")) IN
         IF named = <<>> THEN "" ELSE named[Len(named)][2]
    [] OTHER -> ""
IsNullable(raw) ==
  \/ Is(raw, "type", "arr") /\ "null" \in Texts(raw.type)
  \/ "_nullable" \in DOMAIN raw
  \/ Is(raw, "nullable", "bool") /\ raw.nullable[2]

Unknown(raw) ==
  IF StoreUnknown THEN Without(raw, Recognised \cup Unsupported \cup {"_nullable"}) ELSE EmptyFcn

(* A schema of the kind, with what is common to all kinds.                 *)
Typed(kind, raw, kw, meta) ==
  [Cell(kind) EXCEPT !.null = IsNullable(raw), !.meta = Unknown(raw) @@ meta, !.kw = kw]

(* Email, URL and UUID set a pattern of their own over the document's.     *)
ConvertString(raw, path) ==
  LET badPattern == Is(raw, "pattern", "str") /\ raw.pattern[2] \in Malformed
      enum == IF Is(raw, "enum", "arr") /\ \A i \in DOMAIN raw.enum[2] : raw.enum[2][i][1] = "str"
                THEN "enum" :> raw.enum ELSE EmptyFcn
      kw == Keep(raw, {"minLength", "maxLength"}, "num") @@ enum
            @@ IF badPattern THEN EmptyFcn ELSE Keep(raw, {"pattern"}, "str")
      format == IF Is(raw, "format", "str") THEN raw.format[2] ELSE "none"
      builtIn == IF format = "uri" THEN "url" ELSE format
      dated == format \in {"date-time", "date", "time"}
      known == format \in Registered
      asMeta == "format" :> Str(format) IN
  [schema |->
     CASE format = "none" -> Typed("string", raw, kw, EmptyFcn)
       [] builtIn \in DOMAIN Own -> Typed("string", raw, Built(builtIn) @@ kw, EmptyFcn)
       [] dated -> Typed("string", raw, kw, asMeta)
       [] OTHER -> IF known THEN Typed("string", raw, "format" :> Str(format) @@ kw, EmptyFcn)
                   ELSE Typed("string", raw, kw, asMeta),
   errors |->
     (IF badPattern THEN {Error(path, "pattern")} ELSE {})
     \cup IF format \in {"none"} \cup DOMAIN Own \cup {"uri"} \/ dated \/ known THEN {}
          ELSE {Warning(path, "format")}]

(* An exclusive limit is set as a limit, and noted beside it.              *)
ConvertNumber(raw, integer) ==
  LET exclusive == Keep(raw, {"exclusiveMinimum", "exclusiveMaximum"}, "num")
      limit == [exclusiveMinimum |-> "minimum", exclusiveMaximum |-> "maximum"]
      limits == [k \in {limit[x] : x \in DOMAIN exclusive} |->
                   exclusive[CHOOSE x \in DOMAIN exclusive : limit[x] = k]] IN
  [schema |->
     Typed("number", raw,
           limits @@ Keep(raw, {"minimum", "maximum", "multipleOf"}, "num")
           @@ IF integer THEN "integer" :> Bool(TRUE) ELSE EmptyFcn,
           exclusive),
   errors |-> {}]

\* A mutant: an array cannot be marked.
MutMarkRequired(s) ==
  IF s.kind \in {"string", "number", "bool", "object"} THEN [s EXCEPT !.req = TRUE] ELSE s
MarkRequired(s) ==
  IF s.kind \in {"string", "number", "bool", "object", "array", "datetime", "custom"}
    THEN [s EXCEPT !.req = TRUE] ELSE s

RECURSIVE ConvertNode(_, _)

ConvertObject(raw, path) ==
  LET required == IF Is(raw, "required", "arr") THEN Texts(raw.required) ELSE {}
      listed == Is(raw, "properties", "obj")
      props == IF listed THEN raw.properties[2] ELSE EmptyFcn
      At(name) == Below(path, "properties." \o name)
      defined == {n \in DOMAIN props : props[n][1] = "obj"}
      made == [n \in defined |-> ConvertNode(props[n][2], At(n))]
      kids == [n \in defined |-> IF n \in required THEN MarkRequired(made[n].schema) ELSE made[n].schema]
      bySchema == Is(raw, "additionalProperties", "obj")
      additional == IF bySchema THEN "additionalProperties" :> Bool(TRUE)
                    ELSE Keep(raw, {"additionalProperties"}, "bool")
      base == Typed("object", raw, additional,
                    IF bySchema THEN "additionalPropertiesSchema" :> raw.additionalProperties ELSE EmptyFcn) IN
  [schema |-> [base EXCEPT !.kids = kids, !.reqd = {n \in defined : kids[n].req}],
   errors |->
     UNION {made[n].errors : n \in defined}
     \cup {Error(At(n), "properties") : n \in DOMAIN props \ defined}
     \cup (IF "properties" \in DOMAIN raw /\ ~listed THEN {Error(path, "properties")} ELSE {})
     \cup (IF bySchema THEN {Warning(path, "additionalProperties")} ELSE {})]

ConvertArray(raw, path) ==
  LET has == Is(raw, "items", "obj")
      items == ConvertNode(raw.items[2], Below(path, "items"))
      unique == IF Is(raw, "uniqueItems", "bool") /\ raw.uniqueItems[2]
                  THEN "uniqueItems" :> Bool(TRUE) ELSE EmptyFcn
      base == Typed("array", raw, Keep(raw, {"minItems", "maxItems"}, "num") @@ unique, EmptyFcn) IN
  [schema |-> IF has THEN With(base, "[*]" :> items.schema) ELSE base,
   errors |-> CASE has -> items.errors
                [] "items" \in DOMAIN raw /\ ~has -> {Error(Below(path, "items"), "items")}
                [] OTHER -> {}]

(* A node of no known type becomes a bare string, nullable or not.         *)
ConvertNode(raw, path) ==
  LET type == ResolveType(raw)
      illTyped == "type" \in DOMAIN raw /\ raw.type[1] \notin {"str", "arr"}
      made ==
        CASE type = "string" -> ConvertString(raw, path)
          [] type \in {"number", "integer"} -> ConvertNumber(raw, type = "integer")
          [] type = "boolean" -> [schema |-> Typed("bool", raw, EmptyFcn, EmptyFcn), errors |-> {}]
          [] type = "object" -> ConvertObject(raw, path)
          [] type = "array" -> ConvertArray(raw, path)
          [] OTHER -> [schema |-> Cell("string"), errors |-> {Error(path, "type")}] IN
  [made EXCEPT !.errors = @ \cup CheckUnsupported(raw, path)
                            \cup IF illTyped THEN {Error(path, "type")} ELSE {}]

FromJSON(doc) == ConvertNode(doc[2], "")

---------------------------------------------------------------------------
(* Export.                                                                 *)
Only(s, keys) == [k \in {x \in keys : Shown(s, x)} |-> s.kw[k]]

MakeBase(s, type) ==
  "type" :> IF s.null THEN Arr(<<Str(type), Str("null")>>) ELSE Str(type)

IncludeMeta(s, out, included) ==
  IF included
    THEN out @@ Without(s.meta, {"exclusiveMinimum", "exclusiveMaximum"})
    ELSE out

(* An exclusive limit noted in the metadata stands for the limit.          *)
\* A mutant: every limit is written as an inclusive one.
MutExportNumber(s) == Only(s, {"minimum", "maximum", "multipleOf"})
ExportNumber(s) ==
  LET Limit(limit, exclusive) ==
        IF exclusive \in DOMAIN s.meta THEN exclusive :> s.meta[exclusive] ELSE Only(s, {limit}) IN
  Limit("minimum", "exclusiveMinimum") @@ Limit("maximum", "exclusiveMaximum")
  @@ Only(s, {"multipleOf"})

(* RequiredFieldNames: those noted, and those that demand it themselves.   *)
\* A mutant: the names noted in requiredFields are forgotten.
MutRequiredFieldNames(s) == {n \in DOMAIN s.kids : Demanded(s.kids[n])}
RequiredFieldNames(s) == s.reqd \cup {n \in DOMAIN s.kids : Demanded(s.kids[n])}

RECURSIVE ExportNode(_, _)
ExportObject(s, included) ==
  LET names == Sorted(RequiredFieldNames(s)) IN
  (IF DOMAIN s.kids = {} THEN EmptyFcn
   ELSE "properties" :> Obj([n \in DOMAIN s.kids |-> Obj(ExportNode(s.kids[n], included))]))
  @@ (IF names = <<>> THEN EmptyFcn
      ELSE "required" :> Arr([i \in DOMAIN names |-> Str(names[i])]))
  @@ (IF "additionalProperties" \in DOMAIN s.kw
        THEN "additionalProperties" :> s.kw.additionalProperties ELSE EmptyFcn)

ExportNode(s, included) ==
  LET type == CASE s.kind = "bool" -> "boolean"
                [] s.kind = "number" /\ Shown(s, "integer") -> "integer"
                [] OTHER -> s.kind
      body ==
        CASE s.kind = "string" -> Only(s, {"minLength", "maxLength", "pattern", "enum", "format"})
          [] s.kind = "number" -> ExportNumber(s)
          [] s.kind = "object" -> ExportObject(s, included)
          [] s.kind = "array" ->
               Only(s, {"minItems", "maxItems", "uniqueItems"})
               @@ IF DOMAIN s.kids = {} THEN EmptyFcn
                  ELSE "items" :> Obj(ExportNode(s.kids["[*]"], included))
          [] OTHER -> EmptyFcn IN
  CASE s.kind \in {"string", "number", "bool", "object", "array"} ->
         IncludeMeta(s, MakeBase(s, type) @@ body, included)
    [] s.kind = "transform" -> ExportNode(s.kids[""], included)
    [] OTHER -> EmptyFcn

ToJSON(s, included) == Obj(ExportNode(s, included))
=============================================================================
