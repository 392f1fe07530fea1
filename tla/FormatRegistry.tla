-------------------------- MODULE FormatRegistry --------------------------
(***************************************************************************)
(* The registry of named string formats (builders/formats.go), shared by   *)
(* goroutines that register formats, build StringSchemas with FormatString *)
(* and validate values with those schemas.  The registry's lock makes each *)
(* lookup and each registration one step; a schema is built before it is   *)
(* used, and afterwards it is only read.                                   *)
(***************************************************************************)
EXTENDS Naturals, FiniteSets

CONSTANTS
  Threads,      \* the goroutines that validate
  Schemas,      \* string schemas, each of one format
  Formats,      \* format names
  Name,         \* [Schemas -> Formats]: the argument of FormatString
  Validators,   \* validator functions
  NoFunc,       \* the nil ValidatorFunc
  Registrable,  \* what callers pass to RegisterFormat
  NoSchema

ASSUME RegistryAssumption ==
  /\ Name \in [Schemas -> Formats]
  /\ NoFunc \notin Validators
  /\ {"unbuilt", "lazy", "none", "unknown", "panic"} \cap Validators = {}
  /\ Registrable \subseteq Validators \cup {NoFunc}
  /\ NoSchema \notin Schemas

VARIABLES
  formats,     \* [Formats -> Validators \cup {NoFunc}]: a missing key reads as nil
  bound,       \* [Schemas -> ...]: "unbuilt", "lazy", or the validator bound to it
  at,          \* [Threads -> {"idle", "first", "second", "call"}]
  schema,      \* the schema each goroutine validates with
  func,        \* the function value it is about to call
  outcome,     \* [Threads -> {"none", "unknown", "panic"} \cup Validators]: what the last validation did
  known        \* history: the formats that were registered when it began

registryVars == <<formats, bound, at, schema, func, outcome, known>>

Unbuilt == "unbuilt"
Lazy == "lazy"

RegistryTypeOK ==
  /\ formats \in [Formats -> Validators \cup {NoFunc}]
  /\ bound \in [Schemas -> Validators \cup {Unbuilt, Lazy}]
  /\ at \in [Threads -> {"idle", "first", "second", "call"}]
  /\ schema \in [Threads -> Schemas \cup {NoSchema}]
  /\ func \in [Threads -> Validators \cup {NoFunc}]
  /\ outcome \in [Threads -> Validators \cup {"none", "unknown", "panic"}]
  /\ known \in [Threads -> SUBSET Formats]

RegistryInit ==
  /\ formats = [f \in Formats |-> NoFunc]
  /\ bound = [s \in Schemas |-> Unbuilt]
  /\ at = [t \in Threads |-> "idle"]
  /\ schema = [t \in Threads |-> NoSchema]
  /\ func = [t \in Threads |-> NoFunc]
  /\ outcome = [t \in Threads |-> "none"]
  /\ known = [t \in Threads |-> {}]

RegisterFormat(f, v) ==
  /\ formats' = [formats EXCEPT ![f] = v]
  /\ UNCHANGED <<bound, at, schema, func, outcome, known>>

(* FormatString: bind the validator found now, or a closure that looks for  *)
(* one at validation time.                                                 *)
Binding(v) == IF v # NoFunc THEN v ELSE Lazy
FormatString(s) ==
  /\ bound[s] = Unbuilt
  /\ bound' = [bound EXCEPT ![s] = Binding(formats[Name[s]])]
  /\ UNCHANGED <<formats, at, schema, func, outcome, known>>

Move(t, from, to) == at[t] = from /\ at' = [at EXCEPT ![t] = to]

(* StringSchema.Validate reaches the format's validator.                   *)
MutAppended(s) == formats[Name[s]]
Appended(s) == bound[s]
Validate(t, s) ==
  /\ bound[s] # Unbuilt
  /\ schema' = [schema EXCEPT ![t] = s]
  /\ outcome' = [outcome EXCEPT ![t] = "none"]
  /\ known' = [known EXCEPT ![t] = {f \in Formats : formats[f] # NoFunc}]
  /\ IF bound[s] = Lazy
     THEN Move(t, "idle", "first") /\ func' = [func EXCEPT ![t] = NoFunc]
     ELSE Move(t, "idle", "call") /\ func' = [func EXCEPT ![t] = Appended(s)]
  /\ UNCHANGED <<formats, bound>>

(* The closure: LookupFormat(name) != nil ...                              *)
MutFoundAtBuild(t) == bound[schema[t]] # Lazy
Found(t) == formats[Name[schema[t]]] # NoFunc
FirstLookup(t) ==
  /\ at[t] = "first"
  /\ IF Found(t)
     THEN Move(t, "first", "second") /\ UNCHANGED outcome
     ELSE Move(t, "first", "idle") /\ outcome' = [outcome EXCEPT ![t] = "unknown"]
  /\ UNCHANGED <<formats, bound, schema, func, known>>

(* ... and then LookupFormat(name)(value), a lookup of its own.            *)
SecondLookup(t) ==
  /\ Move(t, "second", "call")
  /\ func' = [func EXCEPT ![t] = formats[Name[schema[t]]]]
  /\ UNCHANGED <<formats, bound, schema, outcome, known>>

Call(t) ==
  /\ Move(t, "call", "idle")
  /\ outcome' = [outcome EXCEPT ![t] = IF func[t] = NoFunc THEN "panic" ELSE func[t]]
  /\ UNCHANGED <<formats, bound, schema, func, known>>

Work(t) == FirstLookup(t) \/ SecondLookup(t) \/ Call(t)
RegistryNext ==
  \/ \E f \in Formats, v \in Registrable : RegisterFormat(f, v)
  \/ \E s \in Schemas : FormatString(s)
  \/ \E t \in Threads : Work(t) \/ \E s \in Schemas : Validate(t, s)
RegistrySpec == RegistryInit /\ [][RegistryNext]_registryVars
FairRegistry == RegistrySpec /\ \A t \in Threads : WF_registryVars(Work(t))

---------------------------------------------------------------------------
(* A validation that begins when its format is registered never calls the  *)
(* format unknown, whether the schema was built before or after that; and   *)
(* one with a schema that was built on a registered format ends in the      *)
(* verdict of the validator it was given then, whatever is registered later *)
(* under its name.                                                         *)
OutcomeJustified ==
  \A t \in Threads :
    /\ outcome[t] = "unknown" => Name[schema[t]] \notin known[t]
    /\ schema[t] # NoSchema /\ bound[schema[t]] # Lazy => outcome[t] \in {"none", bound[schema[t]]}

(* A schema built too early is not condemned: once its format is           *)
(* registered, a validation with it ends in the verdict of a validator.    *)
LateRegistrationWorks ==
  \A t \in Threads :
    (at[t] = "first" /\ formats[Name[schema[t]]] # NoFunc) ~> (at[t] = "idle" /\ outcome[t] \in Validators)
===========================================================================
