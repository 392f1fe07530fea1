----------------------------- MODULE SchemaTools -----------------------------
(***************************************************************************)
(* What is computed from a finished schema: Walk, the canonical form that  *)
(* Equal and Hash compare, and Diff.  A schema is a tree of the cells of   *)
(* SchemaBuilders.  Paths and canonical forms are strings, pieced together *)
(* as the code does: two different schemas may well share one.             *)
(*                                                                         *)
(* Ordered lists every name and keyword in the order of sort.Strings.      *)
(***************************************************************************)
EXTENDS Naturals, Sequences, SequencesExt, TLC

CONSTANT Ordered

Sorted(S) == SelectSeq(Ordered, LAMBDA n : n \in S)
Joined(parts, sep) ==
  FoldLeft(LAMBDA s, i : s \o (IF i = 1 THEN "" ELSE sep) \o parts[i], "",
           [i \in DOMAIN parts |-> i])

---------------------------------------------------------------------------
(* Walk.                                                                   *)
AppendPath(base, segment) ==
  IF base = "" THEN segment ELSE base \o (IF segment = "[*]" THEN "" ELSE ".") \o segment

(* The schemas one step below s, at their paths, in the order of the walk. *)
Children(path, s) ==
  LET o == IF s.kind = "dependencies" THEN s.kids[""] ELSE s
      Path(k) == CASE o.kind \in {"object", "array"} -> AppendPath(path, k)
                   [] o.kind = "transform" -> path
                   [] OTHER -> path \o k
      names == Sorted(DOMAIN o.kids) IN
  [i \in DOMAIN names |-> [path |-> Path(names[i]), schema |-> o.kids[names[i]]]]

(* The nodes visited; the visitor fails on the paths in refused.           *)
RECURSIVE WalkNode(_, _, _)
\* A mutant: an error of one child does not keep the walk from the next.
MutWalkNode(path, s, refused) ==
  LET Then(w, kid) ==
        LET below == WalkNode(kid.path, kid.schema, refused) IN
        [seen |-> w.seen \o below.seen, failed |-> w.failed \/ below.failed] IN
  FoldLeft(Then, [seen |-> <<[path |-> path, schema |-> s]>>, failed |-> path \in refused],
           IF path \in refused THEN <<>> ELSE Children(path, s))
WalkNode(path, s, refused) ==
  LET here == <<[path |-> path, schema |-> s]>>
      Then(w, kid) ==
        IF w.failed THEN w
        ELSE LET below == WalkNode(kid.path, kid.schema, refused) IN
             [seen |-> w.seen \o below.seen, failed |-> below.failed] IN
  IF path \in refused THEN [seen |-> here, failed |-> TRUE]
  ELSE FoldLeft(Then, [seen |-> here, failed |-> FALSE], Children(path, s))

Walk(s, refused) == WalkNode("", s, refused)

---------------------------------------------------------------------------
(* Equal.                                                                  *)
RECURSIVE Text(_)
Text(v) ==
  CASE v[1] = "num" -> ToString(v[2])
    [] v[1] = "str" -> v[2]
    [] v[1] = "bool" -> IF v[2] THEN "true" ELSE "false"
    [] v[1] = "arr" -> "[" \o Joined([i \in DOMAIN v[2] |-> Text(v[2][i])], " ") \o "]"
    [] v[1] = "obj" ->
         LET names == Sorted(DOMAIN v[2]) IN
         "map[" \o Joined([i \in DOMAIN names |-> names[i] \o ":" \o Text(v[2][names[i]])], " ") \o "]"

Empty == {<<"str", "">>, <<"arr", <<>>>>, <<"bool", FALSE>>}
Shown(s, k) == k \in DOMAIN s.kw /\ s.kw[k] \notin Empty
Part(s, label, k) == IF Shown(s, k) THEN ";" \o label \o "=" \o Text(s.kw[k]) ELSE ""
Flag(b, label) == IF b THEN ";" \o label ELSE ""
Enum(s) ==
  IF Shown(s, "enum")
    THEN LET vals == s.kw.enum[2] IN
         ";enum=[" \o Joined([i \in DOMAIN vals |-> Text(vals[i])], ",") \o "]"
    ELSE ""

CanonicalMeta(m) ==
  LET keys == Sorted(DOMAIN m) IN
  IF keys = <<>> THEN ""
  ELSE ";meta{" \o Joined([i \in DOMAIN keys |-> keys[i] \o "=" \o Text(m[keys[i]])], ",") \o "}"
\* A mutant: whether null is allowed is not part of the form.
MutCanonicalBase(s) == Flag(s.req, "req") \o CanonicalMeta(s.meta)
CanonicalBase(s) == Flag(s.req, "req") \o Flag(s.null, "null") \o CanonicalMeta(s.meta)

RECURSIVE Canonical(_)
Canonical(s) ==
  LET names == Sorted(DOMAIN s.kids)
      Listed(label) ==
        Joined([i \in DOMAIN names |-> (IF label THEN names[i] \o ":" ELSE "") \o Canonical(s.kids[names[i]])], ",")
      Typed(rest) == s.kind \o CanonicalBase(s) \o rest IN
  CASE s.kind = "string" ->
         Typed(Part(s, "fmt", "format") \o Part(s, "minLen", "minLength")
               \o Part(s, "maxLen", "maxLength") \o Part(s, "pat", "pattern") \o Enum(s))
    [] s.kind = "number" ->
         Typed(Flag(Shown(s, "integer"), "int") \o Part(s, "min", "minimum")
               \o Part(s, "max", "maximum") \o Part(s, "mul", "multipleOf"))
    [] s.kind \in {"bool", "custom"} -> Typed("")
    [] s.kind = "datetime" ->
         Typed(Part(s, "fmt", "format") \o Flag(Shown(s, "strict"), "strict")
               \o Part(s, "min", "minimum") \o Part(s, "max", "maximum"))
    [] s.kind = "object" ->
         Typed((IF "additionalProperties" \in DOMAIN s.kw
                  THEN ";additional=" \o Text(s.kw.additionalProperties) ELSE "")
               \o "{" \o Listed(TRUE) \o "}")
    [] s.kind = "dependencies" -> Canonical(s.kids[""]) \o ";deps"
    [] s.kind = "array" ->
         Typed(Part(s, "minItems", "minItems") \o Part(s, "maxItems", "maxItems")
               \o (IF names = <<>> THEN "" ELSE ";of=" \o Listed(FALSE)))
    [] s.kind = "transform" -> "transform(" \o Listed(FALSE) \o ")" \o CanonicalBase(s)
    [] s.kind \in {"and", "or", "not"} -> s.kind \o "(" \o Listed(FALSE) \o ")"
    [] s.kind = "dependent" -> "unknown<DependentSchema>;type=dependent"

Equal(a, b) == Canonical(a) = Canonical(b)

---------------------------------------------------------------------------
(* Diff.  A field is a node of the walk that is not a container.           *)
\* A mutant: arrays are containers, also those that have no element schema.
MutFields(s) ==
  SelectSeq(Walk(s, {}).seen,
            LAMBDA f : f.path # "" /\ f.schema.kind \notin {"object", "dependencies", "array"})
Fields(s) ==
  SelectSeq(Walk(s, {}).seen,
            LAMBDA f : /\ f.path # "" /\ f.schema.kind \notin {"object", "dependencies"}
                       /\ ~(f.schema.kind = "array" /\ DOMAIN f.schema.kids # {}))

Paths(fields) == {fields[i].path : i \in DOMAIN fields}

(* What the map built from fields holds: the last one at each path.        *)
Lookup(fields, path) ==
  LET at == SelectSeq(fields, LAMBDA f : f.path = path) IN at[Len(at)].schema

RECURSIVE TypeOf(_)
TypeOf(s) ==
  CASE s.kind = "transform" -> TypeOf(s.kids[""])
    [] s.kind = "dependencies" -> "object"
    [] s.kind \in {"and", "or", "not"} -> "composite"
    [] OTHER -> s.kind

(* describeChange takes a schema of the same type for one of the same Go   *)
(* type, and a transform has the type of what it wraps.                    *)
Undescribable(old, new) ==
  old.kind \in {"string", "number"} /\ TypeOf(new) = old.kind /\ new.kind # old.kind

RECURSIVE Demanded(_)
Demanded(s) ==
  CASE s.kind = "dependencies" -> Demanded(s.kids[""])
    [] s.kind = "transform" -> s.req \/ Demanded(s.kids[""])
    [] OTHER -> s.req
MayBeNull(s) == IF s.kind = "dependencies" THEN s.kids[""].null ELSE s.null

(* The keywords a description compares, of two schemas of one type.        *)
Compared(old) ==
  CASE old.kind = "string" -> {"format", "minLength", "maxLength", "pattern"}
    [] old.kind = "number" -> {"integer", "minimum", "maximum"}
    [] OTHER -> {}
Get(s, k) == IF Shown(s, k) THEN {s.kw[k]} ELSE {}
Described(old, new) ==
  IF TypeOf(old) # TypeOf(new) THEN {"type"}
  ELSE (IF Demanded(old) # Demanded(new) THEN {"required"} ELSE {})
       \cup (IF MayBeNull(old) # MayBeNull(new) THEN {"nullable"} ELSE {})
       \cup {k \in Compared(old) : Get(old, k) # Get(new, k)}

Absent(fields, from) ==
  LET only == SelectSeq(fields, LAMBDA f : f.path \notin Paths(from)) IN
  [i \in DOMAIN only |-> only[i].path]

Diff(old, new) ==
  LET was == Fields(old)
      is == Fields(new)
      differ == SelectSeq(is, LAMBDA f : f.path \in Paths(was) /\ ~Equal(Lookup(was, f.path), f.schema))
      Change(f) == [path |-> f.path, details |-> Described(Lookup(was, f.path), f.schema)] IN
  IF was = <<>> /\ is = <<>>
    THEN [added |-> <<>>, removed |-> <<>>, panics |-> FALSE,
          changed |-> IF Equal(old, new) THEN <<>> ELSE <<[path |-> "", details |-> {"schema"}]>>]
    ELSE [removed |-> Absent(was, is), added |-> Absent(is, was),
          panics |-> \E i \in DOMAIN differ : Undescribable(Lookup(was, differ[i].path), differ[i].schema),
          changed |-> [i \in DOMAIN differ |-> Change(differ[i])]]
=============================================================================
