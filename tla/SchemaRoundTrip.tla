--------------------------- MODULE SchemaRoundTrip ---------------------------
(***************************************************************************)
(* A program builds schemas, call by call, or has a JSON Schema document   *)
(* and edits it; the tools are asked about the schemas after every call.   *)
(* What the tools should answer is said here in terms of the schemas, not  *)
(* of paths and canonical strings.                                         *)
(***************************************************************************)
EXTENDS JSONSchema

CONSTANTS
  Heaps,      \* the schemas a program may start from
  Documents,  \* the documents it may start from
  Edits,      \* functions on one key: members to set in a document
  Unsafe      \* texts that hold what separates the parts of a canonical form

VARIABLE doc

NoDoc == Obj(EmptyFcn)
vars == <<heap, calls, doc>>

Init ==
  /\ calls = 0
  /\ \/ heap \in Heaps /\ doc = NoDoc
     \/ heap = EmptyFcn /\ doc \in Documents

Edit ==
  /\ doc # NoDoc /\ calls < MaxCalls
  /\ \E m \in Edits : doc' = Obj(m @@ doc[2])
  /\ calls' = calls + 1 /\ UNCHANGED heap

Next == (heap # EmptyFcn /\ Build /\ UNCHANGED doc) \/ Edit
Spec == Init /\ [][Next]_vars

Live == DOMAIN heap
TreeOf(c) == Tree(heap, c)

RECURSIVE Nodes(_)
Nodes(s) == {s} \cup UNION {Nodes(s.kids[k]) : k \in DOMAIN s.kids}

---------------------------------------------------------------------------
(* A visitor that fails ends the walk: nothing is visited after the first  *)
(* path it refuses, whatever wrappers, objects and arrays it is under, and *)
(* all that comes before is (walk.go: each return of an error).            *)
WalkStops ==
  \A c \in Live :
    LET all == Walk(TreeOf(c), {}).seen IN
    \A i \in DOMAIN all :
      LET w == Walk(TreeOf(c), {all[i].path})
          first == CHOOSE j \in 1..i : all[j].path = all[i].path
                                       /\ \A k \in 1..(j - 1) : all[k].path # all[i].path IN
      w.failed /\ w.seen = SubSeq(all, 1, first)

---------------------------------------------------------------------------
(* What a schema says, as a tree: settings that are empty are none.        *)
RECURSIVE Structure(_)
Structure(s) ==
  [s EXCEPT !.meta = [k \in DOMAIN @ |-> Text(@[k])],
            !.kw = [k \in {x \in DOMAIN @ : @[x] \notin Empty \/ x = "additionalProperties"} |-> @[k]],
            !.kids = [k \in DOMAIN @ |-> Structure(@[k])]]

(* What of it the code compares at least.  Metadata are not to count, says *)
(* MANUAL.md, and they are, says equality_test.go; and the code leaves out *)
(* uniqueItems, requiredFields, the flags of composites and all that a     *)
(* dependent field holds, although it calls equal schemas equivalent.      *)
RECURSIVE Core(_)
Core(s) ==
  LET plain == s.kind \notin Composites \cup {"dependencies"} IN
  IF s.kind = "dependent" THEN Cell(s.kind)
  ELSE [s EXCEPT !.req = plain /\ @, !.null = plain /\ @, !.meta = EmptyFcn, !.reqd = {},
                 !.kw = [k \in DOMAIN @ \ {"uniqueItems"} |-> @[k]],
                 !.kids = [k \in DOMAIN @ |-> Core(@[k])]]

Ambiguous(s) ==
  \E n \in Nodes(s) :
    \/ \E k \in DOMAIN n.meta : Text(n.meta[k]) \in Unsafe
    \/ \E k \in DOMAIN n.kw : ({Text(n.kw[k])} \cup IF n.kw[k][1] = "arr" THEN Texts(n.kw[k]) ELSE {})
                               \cap Unsafe # {}

(* Two schemas, as they are or as they were one call ago, are Equal only   *)
(* if they have one core, and whenever they have one structure, however    *)
(* they were put together and shared, as long as no text of theirs holds a *)
(* separator (equality.go: the canonical form loses and confuses nothing). *)
EqualExact ==
  [][LET trees == {Tree(heap, c) : c \in Live} \cup {Tree(heap', c) : c \in Live}
         forms == {[canonical |-> Canonical(s), structure |-> Structure(s), core |-> Core(Structure(s))] :
                     s \in {t \in trees : ~Ambiguous(t)}} IN
     \A f, g \in forms :
       /\ f.canonical = g.canonical => f.core = g.core
       /\ f.structure = g.structure => f.canonical = g.canonical]_heap

---------------------------------------------------------------------------
(* The leaves of a schema: pairs of a path and a schema.                   *)
RECURSIVE Leaves(_, _)
Leaves(path, s) ==
  LET Under(step, k) == Leaves(step, s.kids[k])
      Dotted(k) == IF path = "" THEN k ELSE path \o "." \o k IN
  CASE s.kind = "object" -> UNION {Under(Dotted(k), k) : k \in DOMAIN s.kids}
    [] s.kind = "dependencies" -> Under(path, "")
    [] s.kind = "array" /\ DOMAIN s.kids # {} -> Under(path \o "[*]", "[*]")
    [] s.kind = "transform" -> {<<path, s>>} \cup Under(path, "")
    [] s.kind \in Composites -> {<<path, s>>} \cup UNION {Under(path \o k, k) : k \in DOMAIN s.kids}
    [] OTHER -> {<<path, s>>}

Named(s) == {l \in Leaves("", s) : l[1] # ""}
Firsts(pairs) == {l[1] : l \in pairs}
OnePerPath(pairs) == \A l, m \in pairs : l[1] = m[1] => l = m

DiffIsExact(old, new) ==
  LET was == Named(old)
      is == Named(new)
      d == Diff(old, new) IN
  /\ ~d.panics
  /\ ToSet(d.removed) = Firsts(was) \ Firsts(is)
  /\ ToSet(d.added) = Firsts(is) \ Firsts(was)
  /\ LET Said(s) == Core(Structure(s))
         Differing(Form(_)) ==
           IF was \cup is = {} THEN (IF Form(old) = Form(new) THEN {} ELSE {""})
           ELSE {l[1] : l \in {m \in is : \E k \in was : k[1] = m[1] /\ Form(k[2]) # Form(m[2])}}
         changed == {x.path : x \in ToSet(d.changed)} IN
     Differing(Said) \subseteq changed /\ changed \subseteq Differing(Structure)

(* Diff of a schema before and after a call names the leaves that came,    *)
(* went and changed, no others (those that changed outside their core it   *)
(* may or may not name), and does not panic, as long as no path has two    *)
(* leaves: a transform and what it wraps do have one path, and so have a   *)
(* field whose name has a dot and a field of a field (diff.go, Diff).      *)
DiffExact ==
  [][\A c \in Live :
       LET old == Tree(heap, c)
           new == Tree(heap', c) IN
       OnePerPath(Named(old)) /\ OnePerPath(Named(new)) /\ ~Ambiguous(old) /\ ~Ambiguous(new)
         => DiffIsExact(old, new) /\ DiffIsExact(new, old)]_heap

---------------------------------------------------------------------------
(* The nodes that JSON Schema can say all of: no transforms, composites or *)
(* the like, a format that an import takes for that format, elements that  *)
(* are not required, metadata under keys that mean nothing to an import,   *)
(* and requiredFields in step with the fields' own flags.                  *)
SayableNode(s) ==
  /\ s.kind \in {"string", "number", "bool", "object", "array"}
  /\ s.kind = "string" /\ Shown(s, "format") =>
       LET f == s.kw.format[2] IN
       IF f \in DOMAIN Own THEN Shown(s, "pattern") /\ s.kw.pattern = Str(Own[f])
       ELSE f \in Registered /\ f \notin {"date-time", "date", "time", "uri"}
  /\ s.kind = "array" => \A k \in DOMAIN s.kids : ~s.kids[k].req
  /\ s.kind = "object" => \A k \in DOMAIN s.kids : k \in s.reqd => s.kids[k].req
  /\ DOMAIN s.meta \cap (Recognised \cup Unsupported \cup {"_nullable"}) = {}
Sayable(s) == \A n \in Nodes(s) : SayableNode(n)

(* Such a schema comes back from an export and an import Equal to what it  *)
(* was, without an error; only whether the root itself is required is not  *)
(* in the document (docs/QUERYFY_INTEROP.md's round trip).                 *)
RoundTrip ==
  \A c \in Live :
    LET s == TreeOf(c)
        back == FromJSON(ToJSON(s, TRUE)) IN
    Sayable(s) => back.errors = {} /\ Equal(back.schema, [s EXCEPT !.req = FALSE])

(* Whatever the document: what an import made of it is exported in words   *)
(* that an import takes without an error, but for the formats it does not  *)
(* know, and understands the same way (jsonschema.go and export.go).       *)
ImportStable ==
  doc # NoDoc =>
    LET s == FromJSON(doc).schema
        again == FromJSON(ToJSON(s, TRUE)) IN
    /\ Equal(again.schema, s)
    /\ \A e \in again.errors : e.keyword = "format" /\ e.warning

(* The fields of its own that an object demands when it validates: those   *)
(* it noted, and those whose schema says so now.                           *)
Demands(s) == {n \in DOMAIN s.kids : n \in s.reqd \/ Demanded(s.kids[n])}

(* The document demands the fields the object demands, those included that *)
(* are noted as required although their schemas are not, and those whose   *)
(* schemas became required after they were added (exportObject).           *)
DemandsSurvive ==
  \A c \in Live :
    heap[c].kind = "object" =>
      Demands(FromJSON(ToJSON(TreeOf(c), TRUE)).schema) = Demands(TreeOf(c))
=============================================================================
