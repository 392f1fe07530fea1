---------------------------- MODULE SchemaTree ----------------------------
(***************************************************************************)
(* A schema and the piece of data it is applied to, unrolled into one tree *)
(* of slots, and the synchronous pass ValidateAndTransform makes over it.  *)
(*                                                                         *)
(* A slot is an occurrence of a schema at a place in the data: the root, a *)
(* field of an object, an element of an array, or a key of the data that   *)
(* the object schema does not define.  The data is a function from slots   *)
(* to values.  A composite slot holds Tree when the data there is a map or *)
(* a slice, and its children hold the contents; Nil is Go's nil; Absent    *)
(* means that the data has nothing at this slot.                           *)
(***************************************************************************)
EXTENDS Naturals, FiniteSets

CONSTANTS
  Slots,      \* the slots of the unrolled tree
  Root,       \* the slot the caller validates
  NoSlot,     \* the parent of Root
  Parent,     \* [Slots -> Slots \cup {NoSlot}]
  Above,      \* [Slots -> SUBSET Slots]: the slots that enclose a slot
  Kind,       \* [Slots -> Kinds]: the Go type of the slot's schema
  Index,      \* [Slots -> Nat]: the position of an array element
  Required,   \* slots whose schema has BaseSchema.required
  Nullable,   \* slots whose schema has BaseSchema.nullable
  MustExist,  \* fields in requiredFields, or whose schema is required
  Closed,     \* objects for which rejectsExtra holds in the call's mode
  MinItems,   \* [Slots -> Nat]
  MaxItems,   \* [Slots -> Nat]
  Unique,     \* arrays with uniqueItems
  Leaf,       \* the scalar values
  Absent, Nil, Tree, Failed,
  Trans,      \* [Slots -> [Leaf \cup {Nil} -> Leaf \cup {Nil, Failed}]]
  Accepts,    \* [Slots -> SUBSET (Leaf \cup {Nil})]
  Shown(_),   \* how fmt's %v verb renders a value
  CustomOK(_, _) \* the verdict of a composite's sync custom validators

Kinds == {"object", "array", "transform", "plain", "extra"}
Values == Leaf \cup {Absent, Nil, Tree}

(* A transform slot stands for a TransformSchema: its chain of transformers *)
(* and its inner schema, which is only ever asked to Validate the outcome.  *)
(* A plain slot stands for any schema without ValidateAndTransform.         *)
Composite(s) == Kind[s] \in {"object", "array"}
AsyncCapable(s) == Kind[s] \in {"object", "array", "transform"}
Kids(s) == {c \in Slots : Parent[c] = s}
Under(s) == {m \in Slots : m = s \/ s \in Above[m]}

ASSUME TreeAssumption ==
  /\ Root \in Slots /\ NoSlot \notin Slots
  /\ Parent \in [Slots -> Slots \cup {NoSlot}]
  /\ Above \in [Slots -> SUBSET Slots]
  /\ Parent[Root] = NoSlot /\ Above[Root] = {}
  /\ \A s \in Slots \ {Root} :
       /\ Parent[s] \in Slots
       /\ Above[s] = {Parent[s]} \cup Above[Parent[s]]
       /\ s \notin Above[s]
       /\ Root \in Above[s]

ASSUME PathAssumption ==
  \A s \in Slots : \A a, b \in Above[s] :
    /\ \E c \in {s} \cup Above[s] : Parent[c] = a
    /\ a = b \/ a \in Above[b] \/ b \in Above[a]

ASSUME SchemaAssumption ==
  /\ Kind \in [Slots -> Kinds]
  /\ Index \in [Slots -> Nat]
  /\ MinItems \in [Slots -> Nat] /\ MaxItems \in [Slots -> Nat]
  /\ \A s \in Slots \ {Root} : Composite(Parent[s])
  /\ \A s \in Slots : Kind[s] = "extra" => s # Root /\ Kind[Parent[s]] = "object"
  /\ \A s \in Unique : \A c \in Kids(s) : ~Composite(c)

ASSUME ValueAssumption ==
  /\ Absent \notin Leaf /\ Nil \notin Leaf /\ Tree \notin Leaf /\ Failed \notin Leaf
  /\ Absent \notin {Nil, Tree, Failed} /\ Nil \notin {Tree, Failed} /\ Tree # Failed
  /\ Trans \in [Slots -> [Leaf \cup {Nil} -> Leaf \cup {Nil, Failed}]]
  /\ Accepts \in [Slots -> SUBSET (Leaf \cup {Nil})]

(* Data the program can be handed: contents only inside containers, and the *)
(* elements of a slice contiguous from its start.                           *)
WellFormed(data) ==
  /\ data \in [Slots -> Values]
  /\ data[Root] # Absent
  /\ \A s \in Slots :
       /\ ~Composite(s) => data[s] # Tree
       /\ \A c \in Kids(s) : data[c] # Absent => data[s] = Tree
       /\ Kind[s] = "array" =>
            \A c, d \in Kids(s) :
              Index[c] < Index[d] /\ data[d] # Absent => data[c] # Absent

---------------------------------------------------------------------------
(* The slots a pass that starts at s visits.                               *)
Reached(s, data) ==
  {m \in Under(s) : /\ data[m] # Absent
                    /\ \A a \in Above[m] \cap Under(s) : data[a] = Tree}

(* What the pass leaves at each slot: transformers applied, and the keys a  *)
(* closed object does not define left out of its result map.                *)
Transformed(m, v) ==
  IF v \in DOMAIN Trans[m] /\ Trans[m][v] # Failed THEN Trans[m][v] ELSE v

SyncOut(s, data) ==
  [m \in Slots |->
     IF m \notin Reached(s, data) THEN data[m]
     ELSE IF Kind[m] = "transform" THEN Transformed(m, data[m])
     ELSE IF Kind[m] = "extra" /\ m # s /\ Parent[m] \in Closed THEN Absent
     ELSE data[m]]

Elements(s, data) == {c \in Kids(s) : data[c] # Absent}

(* The errors a composite finds in its own value before, around and after   *)
(* its children.                                                            *)
NilError(m, data) == Composite(m) /\ data[m] = Nil /\ (m \in Required \/ m \notin Nullable)
TypeError(m, data) == Composite(m) /\ data[m] \notin {Nil, Tree}
ItemsError(m, data) ==
  /\ Kind[m] = "array" /\ data[m] = Tree
  /\ \/ Cardinality(Elements(m, data)) \notin MinItems[m]..MaxItems[m]
     \/ /\ m \in Unique
        /\ \E c, d \in Elements(m, data) : c # d /\ Shown(data[c]) = Shown(data[d])
CustomError(m, data, out) ==
  /\ Composite(m) /\ data[m] = Tree
  /\ ~CustomOK(m, IF Kind[m] = "object" THEN out ELSE data)

(* The errors of the children.                                              *)
MissingError(c, s, data) ==
  /\ c \in Under(s) \ {s} /\ c \in MustExist /\ data[c] = Absent
  /\ Kind[Parent[c]] = "object" /\ Parent[c] \in Reached(s, data) /\ data[Parent[c]] = Tree
ExtraError(m, s) == Kind[m] = "extra" /\ m # s /\ Parent[m] \in Closed
TransformError(m, data) ==
  /\ Kind[m] = "transform"
  /\ data[m] \notin DOMAIN Trans[m] \/ Trans[m][data[m]] = Failed
InnerError(m, data, out) ==
  \/ Kind[m] = "transform" /\ ~TransformError(m, data) /\ out[m] \notin Accepts[m]
  \/ Kind[m] = "plain" /\ data[m] \notin Accepts[m]

Whys == {"null", "type", "items", "custom", "missing", "extra", "transform", "inner"}
Error(s, why, n) == [slot |-> s, why |-> why, n |-> n]

SyncErrs(s, data) ==
  LET out == SyncOut(s, data)
      seen == Reached(s, data)
      At(why, Holds(_)) == {Error(m, why, 0) : m \in {x \in seen : Holds(x)}}
  IN  At("null", LAMBDA m : NilError(m, data))
      \cup At("type", LAMBDA m : TypeError(m, data))
      \cup At("items", LAMBDA m : ItemsError(m, data))
      \cup At("custom", LAMBDA m : CustomError(m, data, out))
      \cup At("extra", LAMBDA m : ExtraError(m, s))
      \cup At("transform", LAMBDA m : TransformError(m, data))
      \cup At("inner", LAMBDA m : InnerError(m, data, out))
      \cup {Error(c, "missing", 0) : c \in {x \in Under(s) : MissingError(x, s, data)}}

(* A pass over its own outcome that finds no error and changes nothing.     *)
Stable(data) ==
  LET out == SyncOut(Root, data)
  IN  SyncErrs(Root, out) = {} /\ SyncOut(Root, out) = out
===========================================================================
