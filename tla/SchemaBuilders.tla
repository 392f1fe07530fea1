--------------------------- MODULE SchemaBuilders ---------------------------
(***************************************************************************)
(* Schemas while a program builds them.  A builder method changes its      *)
(* receiver and returns it, and a schema holds pointers to the schemas it  *)
(* is made of: so the schemas are the cells of a heap, one cell may be     *)
(* part of several others, and a call on it shows in all of them.          *)
(*                                                                         *)
(* A cell has what BaseSchema has (req, null, meta), the keywords its      *)
(* methods set (kw, named as JSON Schema names them), the schemas it holds *)
(* (kids, each under the step that leads to it: a field's name, "[*]",     *)
(* "<and[0]>", and "" for what a wrapper wraps), and, of an object, the    *)
(* names in requiredFields (reqd).  Validators are not part of a cell.     *)
(*                                                                         *)
(* A value carries its JSON type, as an interface{} does.                  *)
(***************************************************************************)
EXTENDS Naturals, Sequences, SequencesExt, TLC

CONSTANTS
  Rank,        \* the rank of a cell: a schema holds schemas of lower rank only
  FieldNames,  \* names of fields
  Numbers,     \* arguments of the numeric methods
  Patterns,    \* arguments of Pattern
  Malformed,   \* those of Patterns that are no regular expressions
  Enums,       \* arguments of Enum: sequences of texts
  Registered,  \* names in the format registry
  Formats,     \* arguments of FormatString
  Metas,       \* arguments of Meta: functions on one key
  MaxCalls     \* builder calls in a behaviour

VARIABLES heap, calls

EmptyFcn == [x \in {} |-> x]
Num(n) == <<"num", n>>
Str(s) == <<"str", s>>
Bool(b) == <<"bool", b>>
Arr(s) == <<"arr", s>>
Obj(f) == <<"obj", f>>

Own == [email |-> "EMAIL", url |-> "URL", uuid |-> "UUID"]   \* the pattern of a built-in format

Cell(kind) ==
  [kind |-> kind, req |-> FALSE, null |-> FALSE, meta |-> EmptyFcn, kids |-> EmptyFcn, reqd |-> {},
   kw |-> IF kind = "datetime" THEN "format" :> Str("RFC3339") ELSE EmptyFcn]
With(cell, kids) == [cell EXCEPT !.kids = kids]

---------------------------------------------------------------------------
(* What each call sets.                                                    *)
Built(f) == [format |-> Str(f), pattern |-> Str(Own[f])]
Pair(low, high, a, b) == low :> Num(a) @@ high :> Num(b)
StringCalls ==
  {k :> Num(n) : k \in {"minLength", "maxLength"}, n \in Numbers}
  \cup {Pair("minLength", "maxLength", n, n) : n \in Numbers}
  \cup {IF p \in Malformed THEN EmptyFcn ELSE "pattern" :> Str(p) : p \in Patterns}
  \cup {"enum" :> Arr([i \in DOMAIN e |-> Str(e[i])]) : e \in Enums}
  \cup {Built(f) : f \in DOMAIN Own}
  \cup {"format" :> Str(f) : f \in Formats}
NumberCalls ==
  {k :> Num(n) : k \in {"minimum", "maximum", "multipleOf"}, n \in Numbers}
  \cup {Pair("minimum", "maximum", a, b) : a, b \in Numbers}
  \cup {"integer" :> Bool(TRUE), "minimum" :> Num(0), "maximum" :> Num(0)}
ArrayCalls ==
  {k :> Num(n) : k \in {"minItems", "maxItems"}, n \in Numbers}
  \cup {Pair("minItems", "maxItems", n, n) : n \in Numbers} \cup {"uniqueItems" :> Bool(TRUE)}
DateTimeCalls ==
  {"format" :> Str("DateOnly"), "strict" :> Bool(TRUE)}
  \cup {k :> Num(n) : k \in {"minimum", "maximum"}, n \in Numbers}
Setters == [string |-> StringCalls, number |-> NumberCalls, array |-> ArrayCalls,
            datetime |-> DateTimeCalls,
            object |-> {"additionalProperties" :> Bool(b) : b \in BOOLEAN}]
Composites == {"and", "or", "not"}

(* The ObjectSchema that a schema with dependencies embeds.                *)
Embedded(h, c) == IF h[c].kind = "dependencies" THEN h[c].kids[""] ELSE c
IsObject(h, c) == h[Embedded(h, c)].kind = "object"

RECURSIVE IsRequired(_, _)
IsRequired(h, c) ==
  h[Embedded(h, c)].req \/ (h[c].kind = "transform" /\ IsRequired(h, h[c].kids[""]))

SetRequired(h, c, b) == [h EXCEPT ![Embedded(h, c)].req = b]

RECURSIVE Tree(_, _)
Tree(h, c) == [h[c] EXCEPT !.kids = [k \in DOMAIN h[c].kids |-> Tree(h, h[c].kids[k])]]

---------------------------------------------------------------------------
Called(h) == calls < MaxCalls /\ calls' = calls + 1 /\ heap' = h

(* Required and Optional; a transform passes them on to what it wraps.     *)
Required(c, b) ==
  LET h == SetRequired(heap, c, b) IN
  Called(IF heap[c].kind = "transform" THEN SetRequired(h, heap[c].kids[""], b) ELSE h)

Nullable(c) ==
  /\ heap[c].kind \notin {"transform", "dependent"}
  /\ Called([heap EXCEPT ![Embedded(heap, c)].null = TRUE])

Meta(c, m) ==
  /\ heap[c].kind \notin Composites \cup {"dependent"}
  /\ Called([heap EXCEPT ![Embedded(heap, c)].meta = m @@ @])

Set(c) ==
  /\ heap[c].kind \in DOMAIN Setters
  /\ \E kw \in Setters[heap[c].kind] : Called([heap EXCEPT ![c].kw = kw @@ @])

(* Field takes note of a field that is required now, and forgets no name.  *)
Field(o, name, c) ==
  LET e == Embedded(heap, o) IN
  /\ IsObject(heap, o) /\ Rank[c] < Rank[e] /\ heap[c].kind # "dependent"
  /\ Called([heap EXCEPT ![e].kids = name :> c @@ @,
                         ![e].reqd = IF IsRequired(heap, c) THEN @ \cup {name} ELSE @])

DependentField(o, name, c) ==
  /\ heap[o].kind = "dependencies" /\ heap[c].kind = "dependent"
  /\ Called([heap EXCEPT ![Embedded(heap, o)].kids = name :> c @@ @])

RequiredFields(o, name) ==
  LET e == Embedded(heap, o)
      h == [heap EXCEPT ![e].reqd = @ \cup {name}] IN
  /\ IsObject(heap, o)
  /\ Called(IF name \in DOMAIN h[e].kids THEN SetRequired(h, h[e].kids[name], TRUE) ELSE h)

Of(a, c) ==
  /\ heap[a].kind = "array" /\ Rank[c] < Rank[a]
  /\ Called([heap EXCEPT ![a].kids = "[*]" :> c])

Build ==
  \E c \in DOMAIN heap :
    \/ \E b \in BOOLEAN : Required(c, b)
    \/ Nullable(c)
    \/ \E m \in Metas : Meta(c, m)
    \/ Set(c)
    \/ \E d \in DOMAIN heap : Of(c, d)
    \/ \E name \in FieldNames :
         \/ RequiredFields(c, name)
         \/ \E d \in DOMAIN heap : Field(c, name, d) \/ DependentField(c, name, d)
=============================================================================
