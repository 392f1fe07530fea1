# Queryfy in TLA+

Queryfy is a Go library that validates, transforms and queries dynamic data
(`map[string]interface{}`, slices and scalars). This directory holds TLA+
models of its parts, the TLC configurations that check them, and TLAPS proofs
of the properties that matter for every size of input. Source paths below are
relative to `src/`.

## 1. The system

| component | code | state it keeps | operations |
|---|---|---|---|
| Asynchronous validation | `queryfy.go:87-102`, `builders/{object,array,transform}.go`, `types.go:51-74` | the call stack, one shared `ValidationContext`, the caller's `context.Context` | `ValidateAndTransformAsync` of three schema types, the user's async validators |
| Synchronous validation and transformation | `builders/{object,array,transform,string,number,bool,datetime,custom,composite}.go`, `schema.go`, `validator.go` | none beyond the context; schemas are built once and then read | `Validate`, `ValidateAndTransform` |
| Dependent fields | `builders/dependent.go` | conditions and per-field rules | `When`, `Validate` of objects with dependencies |
| Validation context and errors | `context.go`, `errors.go` | path, slice of errors, slice of transformation records | push and pop, `AddError`, `Reset`, `Error`, `ValidationError.Add` |
| Schema compiler | `compile.go` | immutable chains of checks | `Compile`, `Validate` of the result |
| Format registry | `builders/formats.go` | a package-wide map behind a `sync.RWMutex` | `RegisterFormat`, `LookupFormat`, `StringSchema.FormatString` |
| Query lexer and parser | `query/{lexer,parser,ast}.go` | position, two tokens, the tree built so far | `ParseQuery`, `SimplifyNode`, `PathFromQuery` |
| Query execution and iteration | `query/executor.go`, `iterate.go` | the recursion; what a walk has gathered | `Execute`, `Each`, `Collect`, `ValidateEach` |
| Query cache | `query/query.go` | a package-wide map behind a `sync.RWMutex` | `ExecuteCached`, `ClearCache` |
| Schema builders, walk, equality, diff | `builders/*.go`, `builders/{walk,equality,diff}.go` | the schemas themselves, which share parts by pointer | builder methods, `Walk`, `Equal`, `Hash`, `Diff` |
| JSON Schema | `builders/jsonschema/` | none | `FromJSON`, `ToJSON` |
| Transformers | `builders/transformers/` | none | functions on one value, chained in a transform schema |
| Superjsonic prototype | `superjsonic/prototype/` | parsers, a `sync.Pool` of them | an experimental tokenizer that the library does not use |

How they interact. `queryfy.Query`, `Each`, `Collect` and `ValidateEach` parse
a query and execute it; `ExecuteCached` does the same through the cache. A
schema validates by recursion over the data, and every frame of one call writes
to the *same* context, so that an error of one field is visible to every frame
that runs later. The async path is layered on the sync path: each frame first
runs the whole sync pass of its subtree, then recurses, then asks its own
validators. A transform schema is thus gone through twice. A schema built with
`FormatString` reads the registry when it is built, or else at each validation.
`Compile` turns a schema into another that implements only the sync interface.
Walk, equality, diff and JSON Schema read schemas that a program is building.

What is hard here:

- the **async descent**: cancellation at any point, early returns of one frame
  while those above go on, a second sync pass over data already transformed,
  fields in the random order of a Go map;
- two **package-wide maps** used by any goroutine, one of which drops its lock
  between a lookup that misses and the insertion;
- **check-then-use** in the closure of `FormatString`, which looks a name up twice;
- **aliasing** between the context's slice of errors and the errors handed out,
  between schemas that share a part, and between a pooled parser and the tokens
  its last user still holds;
- **lookahead and flattening** in the query language, where a slice that is
  data must not be taken for the expansion of a wildcard;
- **rules kept in several copies**: `Validate`, `ValidateAndTransform` and the
  compiler; a constraint as a setter, as a canonical string and as a keyword;
  four scanners of JSON text;
- **clocks that change**: a day of a time zone may have no midnight, or two.

Correctness, by component: an async call rejects exactly what the sync rules or
a validator reject, starts no validator on bad data, skips none when it
succeeds, and stops promptly when cancelled. The cache cannot be told from
having none, is never raced on, and stays small. A validation with a registered
format ends in the verdict of a validator. A context reports exactly what was
added to it. A query is accepted exactly when it is in the grammar, and a walk
visits exactly its matches, in the order of the data. Schemas are Equal, and
have no diff, exactly when they say the same, and what JSON Schema can say of
them survives a round trip. A transformer that normalises can be repeated. A
parser from the pool behaves as a new one.

## 2. The modules

| module | models | role |
|---|---|---|
| `SchemaTree` | a schema and its data as one tree of slots; `ValidateAndTransform` as an operator | base of the async model |
| `AsyncValidation` | one call of `ValidateAndTransformAsync` | state machine |
| `AsyncContract` | what such a call promises (`types.go:51-74`) | abstract specification |
| `Validation` | one call of `Validate` or `ValidateAndTransform` on a schema or on what `Compile` makes of it | recursive functions and state machine |
| `QueryCache` | `ExecuteCached` and `ClearCache` over the `RWMutex` | state machine |
| `UncachedQuery` | `query.Execute` as its callers see it | abstract specification |
| `FormatRegistry` | the registry, binding, the closure of `FormatString` | state machine |
| `ValidationContext` | the context's slices and the errors it hands out | state machine |
| `QueryParser` | the recursive descent, one step per production | state machine |
| `QueryEach` | `ExecutePath` as a recursive function; the three walks | function and state machine |
| `Query` | a call from the tokens of its query to its return | composes `QueryParser` and `QueryEach` |
| `SchemaBuilders` | schemas as the cells of a heap, and the calls that build them | state and actions |
| `SchemaTools` | `Walk`, the canonical form of `Equal` and `Hash`, `Diff` | operators |
| `JSONSchema` | `FromJSON` and `ToJSON`, keyword by keyword | operators |
| `SchemaRoundTrip` | a program that builds schemas or edits a document, and the laws the tools obey | state machine over the three above |
| `PhoneNumbers`, `Transformers` | every transformer, as a function of typed values | operators |
| `TransformPipeline` | a chain of transformers in the two passes of an async validation | state machine |
| `Superjson`, `SuperjsonAtoms`, `SuperjsonFlat` | the four tokenizers as functions from a text to the parser they leave behind | operators |
| `JSONGrammar` | which stretches of a text are JSON values, without a parser | reference definition |
| `LexemeParser`, `ParserPool` | the pooled parser one lexeme at a time, and the sessions that share a pool | state machine |
| `PrivateParser` | sessions with a new parser each | abstract specification |
| `AsyncProofs`, `QueryCacheProofs`, `ParserPoolProofs`, `QueryProofs`, `ValidationProofs`, `SharedStateProofs`, `TransformProofs` | | theorems (section 5) |
| `Recursion` | | lemmas on recursive definitions, for the proofs |
| `MC*` | | values of the constants for TLC |

An operator named `Mut...` is a deliberately wrong variant of the definition it
stands before: a dropped guard, a limit off by one, a swapped branch. No
specification uses one. Each property has one (PROJECT.json, `mutants`) under
which TLC finds it violated, which shows that it depends on the code.

### AsyncValidation and SchemaTree

A *slot* is one occurrence of a schema in the data: the root, a field, an array
element, or a key no schema defines. The data is a function from slots to
values. `SyncOut(s, data)` and `SyncErrs(s, data)` are the result and the set
of errors of `ValidateAndTransform` from slot `s`: the required and null checks,
types, sizes, uniqueness (compared *before* the transformation and as `%v`
shows it, `array.go:206-219`), missing and extra fields, transformers, inner
schemas and custom validators.

| action | code |
|---|---|
| `SyncFallback` | the schema has no async methods or no async validators (`queryfy.go:90-101`) |
| `SyncPass` | the frame's own `ValidateAndTransform` and the return on `ctx.HasErrors()` or nil |
| `OpenGate`, `Panic` | the check before the loop; `result.([]interface{})` on a nil |
| `Descend`, `KidsDone` | a turn of the loop over fields (any order) or elements (by index); its end |
| `Clear`, `Ask`, `Answer` | the context check before a validator, its start, its return |
| `Finish`, `GiveUp` | the returns of a frame, without or with a cancellation noticed |
| `Cancel` | the caller's `context.CancelFunc`, at any moment |

`Clear` and `Ask` are separate steps because a cancellation may come between
the check and the call. A validator may also fail because the context was
cancelled. `asked` and `late` are history variables.

### Validation

The library states the rules of a schema up to three times: in `Validate`, in
`ValidateAndTransform` and in the check chains of the compiler. `Validation`
has three definitions, `Validate`, `ValidateAndTransform` and `RunChecks`, over
schemas and data that are nodes of two finite graphs, and yields the set of
errors with their paths. A text is a member of a small set; a number is counted
in a unit, of which the number 1 has `One` and which, as a small enough power of
two, goes into any finite set of `float64`s; and it has a Go type; a test of a string schema is the set of texts that
pass it; a transformer chain is a function on the data; the conditions of
dependent fields are nodes of a third graph. `CustomOK(s, x)` is the verdict of
the custom validators on what the code hands them: the converted text or number,
the map before or after the transformation, or, in a compiled number schema, the
raw value. A compiled `MultipleOf` divides in `float64` and asks whether the
quotient is an integer; `Quotient` rounds to a multiple of `1 / Mantissa` of the
power of two below it, ties to even, and `Truncates` is the round trip through
`int64` (`compile.go:292-300`). The builder's takes the exact remainder, as
`math.Mod` does (`builders/number.go:139-144`). `Compile` is `queryfy.Compile` on the top schema, `CallValidate` and
`CallTransform` the calls on it or on what it was compiled to.

Two models have a `ValidateAndTransform`: the async model needs the transformed
document and only its leaves' verdicts (`SchemaTree`), this one needs every kind
of schema and the paths of the errors.

`Depth` ranks the schemas: a schema is deeper than its parts (`GraphAssumption`).
The builders can put a schema into itself, and `Walk` and `Hash` do not end on it
(section 4); this model is of schemas that are built bottom up.

### QueryCache, FormatRegistry, ValidationContext

In `QueryCache` each goroutine stands at one `stage` of its call. The mutex is
modelled as the Go runtime implements it: a writer first takes the writers'
mutex, then announces itself and waits for the readers inside (`drain*`), while
readers that arrive later block until its `Unlock` lets all of them in. `evict`
and `insert` are separate steps of `set`, so a missing lock would show.

`FormatRegistry` makes each locked lookup or registration one step, so that
registrations interleave with the two lookups of the closure; `known` remembers
what was registered when a validation began. `ValidationContext` models Go
slices as a backing array and a length, with `append` writing in place while
there is room (`heap`, `AppendTo`), because `Error()` shares the context's array
with the caller.

### QueryParser, QueryEach, Query

`QueryParser` starts from tokens and keeps the parser's `current` and `peek`;
the left-leaning `DotNode` tree is represented by the path its simplification
yields. `QueryEach` runs `ExecutePath` on a graph of nodes and then takes one
step per element walked. `Query` joins them: the path the parser built is the
path that is executed. Which call it is and which data it is about is chosen
when the parser is done; nothing before depends on it.

### SchemaBuilders, SchemaTools, JSONSchema, SchemaRoundTrip

A builder method changes its receiver and returns it, and schemas hold pointers
to schemas. So a schema is a cell of a heap, which may be part of several
others; `Build` is any one call of a builder method on any cell, and the tools
are asked about all cells after every call. Paths and canonical forms are the
strings that the code pieces together, so that two schemas may share one.
`FromJSON` and `ToJSON` follow the code keyword by keyword: what becomes a
setter, what a flag, what metadata, what an error and what a warning. `Edit`
sets members of a document that is then imported.

### Transformers and TransformPipeline

A value carries its Go type; a text is a sequence of characters, a float a
decimal `m * 10^e`, a time an instant in a zone, and a zone the sequence of its
offsets and of the instants at which they begin. A regular expression of
`phone.go` is a sequence of repetitions. What package `time` knows (`Read` and
`Write` in a layout, the `Changes` of a zone) is a parameter; `OffsetAt` and
`Date` are its look-up of an offset and its `time.Date`, which looks twice.
`Apply` is what one transformer may make of a value: a set, because
`DetectCountry` ranges over a map. Recursion, over the characters of a text and
over decimal digits, is in functions.

`TransformPipeline` holds a value and the transformers it has still to go through
(`todo`). `Transform` applies the first of them; an error or a panic ends the pass.
`Combine` puts what `Chain` and `Conditional` stand for in their place.
`SecondPass` is the second `ValidateAndTransform` of the async descent, on what the
first one left.

### The superjsonic prototype

The three kinds of tokenizer are functions from a text to the parser they leave
behind: the configurable recursive one (with its scanners of one, eight and
sixteen bytes at a time, and with atoms for keys), the lax one that looks for
commas after members and caches atoms, and the flat loops of the two stress
programs, one of which samples an array to guess how many tokens there will be.
A word is three bytes instead of eight. `MCSuperjson` runs all of them on one
text and compares.

`LexemeParser` is the enhanced parser one step at a time over lexemes, with
its contexts and stack; `ParserPool` has sessions that take parsers from the
pool (`GetParser`), parse any number of texts (`BeginParse`, `Work`), and return
or abandon them, while the garbage collector empties the pool as it likes.

## 3. What is checked

| run | module, cfg | states | shows |
|---|---|---|---|
| `async_fields` | `MCAsyncFields` | 49 k | safety, termination and the contract on nested objects with transformed fields |
| `async_arrays` | `MCAsyncArrays` | 70 k | verdict, order and argument over nullable and unique arrays, with up to two validators on a slot |
| `validation` | `MCValidation` | 19 k | 41 schemas of every kind against 39 data in both modes |
| `query_cache` | `MCQueryCache` | 21 k | all cache properties, liveness and refinement |
| `formats` | `MCFormatRegistry` | 33 k | registration racing with validation |
| `context` | `ValidationContext`, `MCContext.cfg` | 1.56 M | aliasing of the errors handed out |
| `query` | `MCQuery` | 361 k | every sequence of up to four tokens and every path of up to five segments, executed and walked |
| `schema_tools` | `MCSchemaTools` | 30 k | Walk, Equal, Diff, export and import after every builder call or edit |
| `transformers` | `MCTransformers` | 78 k | every transformer alone and some in a row, through two passes, in zones with and without summer time |
| `superjson` | `MCSuperjson` | 37 k | the tokenizers side by side on short texts and on edited documents |
| `parser_pool` | `MCParserPool` | 285 k | two sessions and three parsers, with texts that succeed, fail and panic |

| `never_panics` | `MCAsyncArrays`, `NeverPanics.cfg` | | a *violation* (section 4) |

Where the code does not do what a comment or the manual says of it, the property
leaves that case out, by a premise with a name of its own, and section 4 says what
happens there.

**Asynchronous validation.** `AsyncOnlyAfterCleanSync`: no validator starts on
data that the sync rules reject. `NoSilentSkip`: a call that returns without an
error has asked every due validator and each has accepted. `VerdictExact`: an
uncancelled call succeeds exactly when the sync rules and all due validators
accept, whatever the order of the maps. `OneLateStart`: at most one validator
starts after the cancellation. `InOrder`: leaves first, in order of
registration, none twice. `AskedOnReturnedValue`: a validator judges the value
that the call returns. `Termination`. `ImplementsContract`: the descent
implements `AsyncContract`, with no tree, stack or order.

`VerdictExact` and `AskedOnReturnedValue` hold only when a second sync pass
over the result changes nothing and finds nothing (`Stable`): the code runs
that pass. A compiled schema has no async methods, so that a call on it has the
verdict of the sync rules (both in section 4). `Due` leaves out objects
whose data is nil, since the code returns before their validators.

**Synchronous validation.** `Denotation`: the verdict of `Validate` is the truth
value of the schema read as a formula, in which a dependent field is judged, and
demanded, as its condition chooses. Left out are the cases in which the code
disregards the condition (`ThenHolds`, `RequiredHolds`), and nil on an object with
dependencies (section 4).
`ErrorsLocated`: the path of an error leads to a value of the data, and to a
place where there is none exactly when the error is a missing field. It is stated
for schemas whose transformers wrap no object or array: an error in a document
that a transformer made is located in that document, not in the one passed.
`PathsAgree`: `Validate` and `ValidateAndTransform` give one verdict, unless an
object's custom validators tell a transformed value from the original or the
schema has dependent fields (an object with dependencies inherits the
`ValidateAndTransform` of plain objects, which knows no conditions).
`CompiledAgrees`: a compiled schema accepts all that the original accepts, on
numbers that `toFloat` reads and whose quotients `int64` holds, with custom
validators indifferent to the Go type, and except for nil on transforms and
dependents, which the compiled schema judges before the transformer does. It accepts no
more than the original if a number that is to be a multiple has fewer units than
`Mantissa` (`DividesExactly`). Longer ones, whose quotient is rounded, numbers that
are read as 0, and nil are in section 4.

**Cache.** `NoMapRace`, `CacheBounded` (at most `Limit + 1` entries: `set` tests
`>` before it inserts), `CallsReturn`, and `ImplementsUncached`: the refinement
to `UncachedQuery`.

**Registry.** `OutcomeJustified`: a validation that begins when its format is
registered never calls it unknown, and one with a bound schema ends in the
verdict of what it was bound to. `LateRegistrationWorks`: a schema that was
built too early is not condemned.

**Context.** `ErrorsComplete` and `HeldUntilReset` state how far the aliasing is
harmless: a context loses no error as long as nobody extends an error handed
out, and an error handed out keeps its text until the next `Reset`. Both
provisos are needed: `ValidationError.Add` (`errors.go:47`) can overwrite an
error of the context, and `Reset` followed by `AddError` rewrites an error a
caller still holds.

**Queries.** `ParsesGrammar`: accepted exactly when the tokens satisfy an
adjacency grammar stated without a parser, with the right path, and refused at
the first token that cannot follow. `ExpansionExact`: the depth-first recursion
agrees with a breadth-first reference, except on a slice that is matched without a
wildcard, which the walks take apart (section 4). `WalkExact`: what `Each`, `Collect` and
`ValidateEach` hand over, gather and return. `CallReturns`.

**Schema tools.** `WalkStops`: a visitor's error ends the walk there.
`EqualExact`: schemas with one structure are Equal, and Equal ones have one core, as
they are now or were a call ago. The structure of a schema is all it says; its core
is what the code compares at least: it lacks metadata, of which the manual and the
tests say opposite things, and what the canonical form does not mention. A text that
holds a separator of that form is excepted (section 4 has all three). `DiffExact`: a
diff does not panic, lists exactly the leaves that were added or removed, all whose
core changed and none whose structure did not, where paths are
unambiguous and no transform meets the string or number it wraps.
`RoundTrip`: a schema that JSON Schema can express comes back Equal.
`ImportStable`: whatever the document, what was made of it is exported in words
that are understood the same way. `DemandsSurvive`: a document demands the fields
its object demands.

**Transformers.** `ReapplySafe`: a transformer that says what a value should look
like leaves its own output alone, and does not fail on it (`FormReapplied`), nor is
a number of the default country changed or refused when it is normalised again
(`PhoneReapplied`; not so for Argentina, Bolivia and Brazil, section 4). `PhoneShape`: a normalised number has its country's prefix and length, and
does not depend on the order of the map. `DayKept`: the bounds of a day enclose
a time in its own calendar day, where the clock of its zone changes at most once
within three days and shows each bound once (`Regular`); and the day is found again
when the time comes as ISO 8601 text, in any zone. `ReapplySafe` asks of a bound of
a day only that the clock shows the hour (`BoundShown`); where it skips it, see
section 4.

**Superjsonic.** `AcceptsGrammar`: the strict parser accepts exactly texts that
begin with a JSON value. `ScannersAgree`: reading by bytes, words or two words
makes no difference. `TokenizersAgree`: on JSON documents all tokenizers end and
find the same tokens. `KeysCompareExactly`: keys of up to two words compare as
texts. `OwnTokens`: a session's tokens are those of its own text.
`ImplementsPrivate`: the pool is invisible. `ParsesEnd`.

### Bounds

| bound | value | why it is enough |
|---|---|---|
| slots | 6 | every kind of slot, and two levels of composites with a validator on each, so that frames above and beside a failing one exist |
| `MaxAsync` | 2 | an order among one slot's validators, and a check between them, for objects, transforms and arrays |
| `Inputs` | 15 and 15 documents | good data and each kind of sync error, absent, nil and mistyped values |
| goroutines | 2 | one can miss while another sets, evicts or clears; more are covered by the proofs |
| `Limit` | 1 (code: 1000) | three keys pass it and cause an eviction; the proofs hold for every limit |
| `MaxErrors`, `MaxHeld`, `MaxArrays` | 3, 2, 5 | slices grow through capacities 1, 2 and 4, and two holders share an array |
| `MaxDepth` | 1 | whether an error names a path is all the properties see |
| `MaxTokens`, `MaxPath` | 4, 5 | an error in each place of a bracket; two wildcards with a name before, between and after; the proof of the parser holds for every length |
| schemas and data of `validation` | 41 and 39 | each kind of schema alone, inside objects and arrays, and inside `And`, `Or` and `Not`; each Go type, both sides of every limit, and documents two levels deep |
| `One`, `Mantissa`, `MaxInt64` | 2, 16, 31 (code: a power of two, 2^53, 2^63 - 1) | quotients that are integers, that are not, that are rounded to one, ties and numbers past `int64`; the proofs hold for all |
| zones of `transformers` | UTC, three fixed offsets, Tokyo, and two whose clocks change within the fifteen days | one change in the night that skips no bound (Boston) and one that skips midnight (Havana); the proofs hold for any |
| `MaxCalls` | 2 | a part is changed after it was put into a schema, and a setter is taken back; the heaps to start from have all kinds of schema |
| `Cases` of `transformers` | every transformer with texts, numbers, times and nil; telephone numbers put together from the pieces the formats tell apart | each branch of each transformer and each country's formats |
| texts of `superjson` | all of up to 3 bytes, longer ones over brackets and over number bytes, and all edits by one byte of nine documents | an edit puts each byte in each place of each construct and across the borders of words |
| `Word` | 3 (code: 8) | keys below, at and above one and two words |
| `MaxKeys` | 1 | a bound in the guard of `BeginParse` on a counter nothing else reads |

The bounds of `ValidationContext` are guards of `PushPath`, `Record`, `HandOut`
and `Extend`, `MaxCalls` is a guard of `Build` and `Edit`; the others are sets
of inputs. `schema_tools` and `transformers` disable the deadlock check: a program
that has made its calls, and a pipeline that is through, stop. The other models
that end say so with a step that changes nothing.

### Fairness

- `AsyncValidation`: `WF(Step)`. The call is one goroutine, and a validator that
  has been called returns. Nothing is assumed of `Cancel`. `Termination` is
  therefore relative to validators that do return; the code has no timeout of
  its own.
- `QueryCache`: `WF(Serve(t))`, a runnable goroutine runs, and `SF(Announce(t))`,
  the writers' mutex hands itself over to a waiter that has lost for too long
  (`sync.Mutex` starvation mode). No fairness on `Begin`: nobody has to call.
- `FormatRegistry`: `WF(Work(t))`, a validation under way goes on.
- `Query`: `WF(Work)`, sequential code.
- `ParserPool`: `WF(Work(s))`, a goroutine inside `Parse` runs. Nothing makes a
  session return its parser.

## 4. Where the code and its documentation differ

The run `never_panics` expects TLC to find its property violated, and PROJECT.json
(`findings`) quotes the sentence it contradicts: an async call panics on a nil
nullable array with async elements (`builders/array.go:294`), although
`MANUAL.md:114` says that null passes.

Seen while modelling, with no run of their own; the properties leave these cases out:

*Async validation.* An async validator of a field is asked about the value of a second
transformation, while the first one's is returned (`builders/object.go:478`, against
`builders/transform.go:146`); `Stable` asks that the two are one. The second pass can
also *fail*, and then a document that passed is rejected. An async call on a compiled
schema asks none of its validators (`compile.go:77`), although `README.md:135` calls it
a drop-in replacement. After one refusal, fields visited later return before
their async validators, and which ones depends on the map's order.

*Dependent fields.* `DependentField` makes its field a regular one as well, whose
`Validate` applies the `Then` schema whether or not the condition is met
(`builders/dependent.go:308`, against `:49`), and demands a field that is `Required()`
in any case (against `:61`, "when the condition is met"). An object with dependencies
refuses nil though it is nullable (`builders/dependent.go:339`, against `:330`). The
conditions compare no `int8`, `int16`, `uint8` or `uint16` (`builders/dependent.go:249`).

*Compiled schemas*, against `README.md:135`. The chain of a number schema takes texts,
and integer types that `toFloat` does not know, for 0 (`compile.go:565`). It divides in
`float64` and takes a quotient that was rounded to an integer for one
(`compile.go:296`): `MultipleOf(0.1)` refuses 0.5, and accepts it when compiled. It also
differs on a divisor of 0 and on quotients past 2^63, and hands custom validators the
raw value. Transforms, dependents and objects with dependencies judge nil on their own
when they are compiled (`compile.go:119`). `compileObject` and `compileArray` are not
reached, although `CHANGELOG.md:85` calls compilation recursive.

*Queries.* A slice that a path without a wildcard matches is walked element by element
(`iterate.go:23`), although `iterate.go:11-12` says that the callback is
called once with the single matched value. `ExecuteCached` of `""` is an error while `Execute` of `""` is the
data, so the replies of `QueryCache` are compared with an uncached parse and
execution of the same query. `queryfy.Query` calls `query.Execute`
(`queryfy.go:53-55`), although `README.md:131` says paths are cached.

*Registry.* `RegisterFormat(name, nil)` is accepted, reads as "not registered",
and between the two lookups of `formats.go:78-79` it makes the closure call nil.

*Schema tools.* Metadata alone makes schemas unequal (`builders/equality.go:115`):
`MANUAL.md:588-590` says that it is ignored, `builders/equality_test.go:87` expects that
the hashes differ. Against `builders/equality.go:29`, which calls equal schemas
equivalent: an enumeration of `a,b` equals one of `a` and `b` (`:154`), and so
patterns and metadata that hold a separator are confused; `UniqueItems` makes no
difference (`:223`), nor do the flags of composites, `requiredFields`, or what a
dependent field holds. `Diff` panics when a transform replaces
the string or number it wraps (`builders/diff.go:166-172`). It does not show a
container's own changes, and field names with a dot collide as paths. Neither
`Walk` nor the others guard against a schema that contains itself. An export
loses `Required` of an element and of the root, and a strict bound of
`Positive`. An import without errors or warnings loses `const`, enumerations that
are not texts, a pattern beside the formats that bring their own, ill-typed
values, names in `required` without a property, and titles, against
`jsonschema.go:4-6`.

*Transformers.* `NormalizePhone` tries the default country before the prefix the
number has: `+591 2123456` with default US becomes `+15912123456`. Argentina's
numbers, Bolivia's landlines and some of Brazil's come out in a form that the
patterns of their countries refuse, so that the second pass of an async validation
fails on them; the lower-case `ar` takes the general rule. `ToISO8601` fails on its own output, `Clamp` with its limits
swapped is not repeatable, and a chain of repeatable transformers need not be.
On a day without midnight, as in Havana in spring, `StartOfDay` gives 23:00 of the day
before (`builders/transformers/date.go:120`, against `:101`).
`StartOfDay` and `EndOfDay` panic on texts shorter than ten bytes.

*Superjsonic.* The flat loops do not end on a byte they do not recognise. The
recursive parsers panic after a comma at the end of the text, and ignore what
follows a value. The lax parser accepts trailing commas, numbers without digits
and any byte for a key's opening quote, takes keys after a nested object for
strings, and its wide atoms repeat their first bytes. Keys longer than two words
are compared with their quotes; an empty key equals every target longer than a
word under fast comparison. The cache of atoms grows without bound, `Parse` does
not reset the statistics, and the slice of `GetTokens` is the parser's own.

## 5. What is proved

All proofs hold for every value of the constants that satisfies the named
assumptions, which TLC evaluates in every run of these models. Every property
below is also checked by a run of section 3.

**Cache** (`QueryCacheProofs`, from `CacheAssumption`; any goroutines, keys,
documents, parse function and limit). `CacheInvariant` is the inductive invariant;
from it `TypeCorrect`, `NoRace`, `EntriesSound`, `Bounded`, `RepliesExact`, and
`Transparent`: the cache implements `UncachedQuery`. Soundness of the map
needs to know that a goroutine about to insert holds the parse of *its* key
(`CallInv`). The bound needs to know that no other goroutine inserts between one's
`evict` and `insert` (`LockInv`) and that `evict` leaves at most `Limit` entries
(`SizeInv`).

**Async call** (from `TreeAssumption`, `PathAssumption`, `SchemaAssumption`,
`ValueAssumption` and `CallAssumption`; any tree, data, transformers and number of
validators; `AsyncProofs`). All seven safety properties of the model, and the
refinement, in three layers:

- The call: `CallInvariant`, the conjunction of `TypeOK`, `FrameInv` (only
  the frame on top can be past a check or inside a validator), `CleanInv` (past
  the root's sync pass the data is clean; before it nothing was asked) and
  `LateInv` (a validator that started late consumed the only frame that stood
  past its check). From it `TypeCorrect`, `NoAsyncOnBadData`, `PromptCancellation`.
- The order: `LeavesFirst`, from `StackInv` (the frames above the running
  one stand in their loops), `FreshInv` (what a loop has not come to has not been
  called) and `AskedInv`.
- The verdict: `NothingSkipped`. As long as there is no error, a slot
  whose validators have not all answered is pending: it is on the stack, or the
  loop of a slot above it has not come to it (`Complete`). That needs to know where
  the frames are (`Positions`), and that the sync passes leave the shape of the
  data alone (`Visits`). `AskedRight` and `VerdictRight`: with a result that a
  second pass leaves alone, every frame has the same result, and only a refusal
  puts an error on the context of clean data (`Settled`, from the lemma
  `SecondPass`). `Honoured`: every step of the descent is a step of
  `AsyncContract` or none, if no array may be nil (the panic of section 4), no
  accepted document is changed by a second pass, and the schema is not compiled
  (a compiled schema asks nobody).

**Parser pool** (`ParserPoolProofs`, from `PoolAssumption`; any sessions, parsers
and texts). `PoolSafe`: every parser has one owner, those in the pool are clean,
and frames match the text. `Transparent`: the pool implements `PrivateParser`.
`TokensExact`: `OwnTokens`, since the tokens that a held parser has are those of
the part of its text that it has read, for any text (`AllFaithful`).

**Synchronous validation** (`ValidationProofs`, from `GraphAssumption`; any schemas
of finite depth, any data, transformers and custom validators). `VerdictIsTruth`,
`ErrorsInPlace`, `MethodsSame` and `CompiledSame`: `Denotation`, `ErrorsLocated`,
`PathsAgree` and `CompiledAgrees`; and `TypeCorrect`. The calls are single steps, so
the invariant (`Called`) says only that the errors are those of the rules that were
run, and the weight is on the recursive definitions: each satisfies its equation,
because `Depth` decreases (`ValidateEquation`, `TransformEquation` and the like), and
each claim is proved at a schema of least depth among its counterexamples, kind by
kind (`SimpleDenotes`, `DependenciesDenote`, `RulesLocated`, `MethodsAgree`).
`VerdictIsTruth` and `CompiledSame` have the provisos of the properties (section 3).
For `CompiledSame` the quotient of an exact multiple is that multiple, as far as
`int64` goes (`QuotientIntegral`, `RoundsExactly`), so the chain accepts what the
builder does; and the rounding of a quotient that is no integer is none either, as
long as the number has fewer units than `Mantissa` (`QuotientFractional`,
`RoundsNear`), because the powers of two between which it lies divide each other
(`PowersDivide`).

**Queries** (`QueryProofs`, from `TokenAssumption` and `DataAssumption`; any
vocabulary, queries of any length, any data). `Parses` and `CallParses`:
`ParsesGrammar`, of the parser and of a call. The invariant says where the parser is:
the token before the current one decides which production it is in, everything up
to there follows the grammar, and the path has its segments (`ReadSoFar`). `Expands`:
`ExpansionExact` (slices matched without a wildcard left out), the recursion into one match after the other finds what expanding
all of them level by level finds, by induction on the length of the path.
`Walks`: `WalkExact`, by an invariant that ties what was handed over and gathered to
the position of the walk (`CInv`).

**Format registry** (`SharedStateProofs`; any goroutines, names, schemas and
validators, provided that nil is never registered). `Justified`:
`OutcomeJustified`. `NeverCallsNil`: the two lookups are not atomic, yet the
closure never calls nil, since the registry only grows (`GrowthInv`).

**Context** (`SharedStateProofs`; any number of errors, arrays and holders). `Reports`
and `StillSaid`: `ErrorsComplete` and `HeldUntilReset`. An append changes one cell,
the one past the end of its slice; the invariant says that this cell is past what
every error still in force has said (`HeldInv`).

**Transformers** (`TransformProofs`, from `CharsAssumption`, `CasesAssumption` and
`TimeAssumption`; any pipelines, and values of any size). All three properties.
`PassesKept`: `PInv` is inductive; it says that values keep their types and, of a
field of one transformer, that what it holds is what `Apply` makes of what the pass
was given, and that the second pass is given what the first one made.

- `SecondPassSafe` (`ReapplySafe`), from the next two.
- `FormsTwice` (`FormReapplied`): of each transformer, its result has the property
  that makes its definition the identity. Trimmed text begins and ends with no space
  (`TrimIs`), collapsed text has no two spaces in a row (`Tight`), a decimal that was
  rounded has no digits behind the place it is rounded at.
- `PhonesTwice` (`PhoneReapplied`): the rule of a country makes a number of a form
  that one of its formats takes (`LeadsIs`, `FitsOne`), the country's code in front of
  it is what the format begins with (`NumberMatches`), and the rule leaves it alone
  (`RuleTwice`). A match is a walk through the repetitions of a format. Where the
  rule is to take the last digits (French Guiana) or demands a first digit
  (Chile, Colombia), what the digits are follows from the last repetitions of the
  formats that the text can have matched (`CountedLast`, `LastDigits`).
- `PhonesShaped` (`PhoneShape`), also for the numbers whose form is refused the second
  time; no two countries' prefixes begin one text, so the order of the map is
  without effect.
- `DaysKept` (`DayKept`), for zones with any number of changes. Where the clock
  changes once within three days, an instant is the clock minus one of two offsets,
  so `time.Date`, which looks an offset up where the other has led it, finds an
  instant that shows the bound if exactly one does (`Offsets`, `Dates`, `OneBound`);
  that it encloses the time is division with remainder (`DayFrom`). A second pass
  over a bound that the clock shows leaves it alone (`ShownTwice`, `BoundTwice`),
  which `FormsTwice` needs.

`CharsAssumption` says which characters exist, `CasesAssumption` that transformers
have the arguments of their constructors, and `TimeAssumption` what Go documents of
package `time`: a zone has at least one offset, UTC's are 0, and a time of a year
with four digits begins, in RFC 3339, with ten characters that are its day where it
is, and as a text of a day they are midnight, UTC.

The library's induction theorems take an operator as a parameter, which the provers
cannot instantiate. `Recursion` does without: a definition by recursion on a rank
has a solution (`FixedPoint`), and a claim that fails somewhere fails at a place of
least rank (`LeastRank`, `Shortest`), where its equation and the claim below
contradict it. That is why the recursion of `Validation`, `QueryEach` and
`Transformers` is in functions of ranked arguments.

Only model-checked:

- All liveness: `Termination`, `CallsReturn`, `LateRegistrationWorks`, `CallReturns`
  and `ParsesEnd` rest on fairness.
- The properties of `SchemaRoundTrip`. Paths and canonical forms are the texts that
  the code concatenates, on which the prover has no theory, and the tools are
  RECURSIVE operators over a heap in which a schema may be part of several others.
- The properties of `MCSuperjson`, which compare RECURSIVE tokenizers on texts. The
  control of the enhanced one is proved about in `ParserPoolProofs`.

## 6. What is not modelled

- What lengths, patterns and date formats of a string schema compute: a test of a
  text is the set of texts that pass, a date format a function from texts to
  moments. Negative numbers, not-a-number and infinities; that conversions between Go
  number types round; quotients too small for a normalised `float64`, and those below
  1/2, whose rounding is to no integer but 0. In the async model a
  leaf slot has the set of values it accepts.
- The order and the wording of errors, their paths in the async model, and the
  records of transformations. The returned document in `Validation` (it is
  `SyncOut` in `SchemaTree`). A compiled schema inside another schema. `Future`,
  `Past`, `Age` and `Weekday`, which read the clock.
- The characters of a query: the lexer appears as the tokens it makes. Structs,
  typed maps and pointers in queried data are the maps and slices they are read as.
- JSON text in the import and the export, which go through `encoding/json`; titles
  and identifiers of an export; validators and transformers as parts of a schema
  that is compared.
- Most letters and currency symbols in the transformers; minutes and seconds;
  the schema behind a chain of transformers, which accepts what comes out.
- In the prototype: the detection of large arrays of the configurable parser
  (`superjsonic_multi.go:898-985`), the views on strings, and the programs that
  measure. The flat loops have no pool.
- The examples and benchmarks, which hold no logic of their own.

## 7. What could come next

- `Validation`: compiled schemas inside others, and the order of errors on one
  context.
- The lexer over characters, and its composition with `QueryParser`.
- Proofs: that `Equal` is exact and that an export comes back Equal, once canonical
  forms are sequences of parts; that the tokenizers accept the grammar, by the
  methods of `Recursion`.
