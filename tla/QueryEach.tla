----------------------------- MODULE QueryEach -----------------------------
(***************************************************************************)
(* What a call does behind its parser: ExecutePath over a piece of data,   *)
(* and the walks of Each, Collect and ValidateEach over its matches        *)
(* (query/executor.go, iterate.go).  Data is a graph of nodes; a result is *)
(* one node, or the list of nodes that expanding a wildcard gives.         *)
(***************************************************************************)
EXTENDS Naturals, Sequences, SequencesExt

CONSTANTS
  Nodes,     \* the values in the data
  Missing,   \* no value under a name
  NodeKind,  \* [Nodes -> {"nil", "scalar", "map", "list"}]
  Names,     \* field names
  Field,     \* [Nodes -> [Names -> Nodes \cup {Missing}]]: the contents of maps
  Items,     \* [Nodes -> Seq(Nodes)]: the contents of slices
  Indices,   \* array indices in queries
  Number,    \* [Indices -> Nat]: their values
  Refused    \* the nodes on which the callback or the schema errs

Star == "star"
Segments == Names \cup Indices \cup {Star}

WellFormed ==
  /\ Missing \notin Nodes
  /\ NodeKind \in [Nodes -> {"nil", "scalar", "map", "list"}]
  /\ Field \in [Nodes -> [Names -> Nodes \cup {Missing}]]
  /\ Items \in [Nodes -> Seq(Nodes)]
  /\ Number \in [Indices -> Nat] /\ Refused \subseteq Nodes

One(n) == [kind |-> "one", of |-> <<n>>]
Many(s) == [kind |-> "many", of |-> s]
Err == [kind |-> "error", of |-> <<>>]

---------------------------------------------------------------------------
(* ExecutePath and executeWildcard, depth first as the code recurs.        *)
ContainsWildcard(path) == Star \in ToSet(path)

(* getField and getIndex: a node, or Missing for their errors.             *)
GetField(n, name) == IF NodeKind[n] = "map" THEN Field[n][name] ELSE Missing
GetIndex(n, i) ==
  IF NodeKind[n] = "list" /\ Number[i] < Len(Items[n]) THEN Items[n][Number[i] + 1] ELSE Missing
Get(n, seg) == IF seg \in Names THEN GetField(n, seg) ELSE GetIndex(n, seg)

(* toSlice, and the type assertion on a result: the elements of a slice.    *)
IsSlice(result) == result.kind = "many" \/ (result.kind = "one" /\ NodeKind[result.of[1]] = "list")
Elements(result) == IF result.kind = "many" THEN result.of ELSE Items[result.of[1]]

(* What the result for one element adds to the expansion.                   *)
MutContribution(result, remaining) == IF IsSlice(result) THEN Elements(result) ELSE result.of
Contribution(result, remaining) ==
  IF IsSlice(result) /\ ContainsWildcard(remaining) THEN Elements(result) ELSE result.of

ExecutePath[p \in Seq(Segments)] ==
  [n \in Nodes |->
     IF p = <<>> THEN One(n)
     ELSE IF NodeKind[n] = "nil" THEN Err
     ELSE IF Head(p) # Star
     THEN LET next == Get(n, Head(p))
          IN  IF next = Missing THEN Err ELSE ExecutePath[Tail(p)][next]
     ELSE LET results == [i \in DOMAIN Items[n] |-> ExecutePath[Tail(p)][Items[n][i]]]
          IN  IF NodeKind[n] # "list" \/ Err \in ToSet(results) THEN Err
              ELSE Many(FlattenSeq([i \in DOMAIN results |-> Contribution(results[i], Tail(p))]))]

---------------------------------------------------------------------------
VARIABLES
  op,        \* "each", "collect" or "validateEach"
  root,      \* the data
  path,      \* the query, parsed
  stage,     \* "parse", "query", "walk" or "done"
  items,     \* what is walked over
  seen,      \* the elements handed to the callback or the schema so far
  collected, \* what Collect has gathered, or the errors of ValidateEach
  failed     \* the call returns an error

Ops == {"each", "collect", "validateEach"}

Init ==
  /\ op = "none" /\ root = Missing /\ path = <<>>
  /\ stage = "parse" /\ items = <<>> /\ seen = <<>> /\ collected = <<>> /\ failed = FALSE

Return(err) == stage' = "done" /\ failed' = err

(* The call knows its path, or that it has none.                           *)
Execute(p) == path' = p /\ stage' = "query" /\ UNCHANGED <<items, seen, collected, failed>>
InvalidQuery == Return(TRUE) /\ UNCHANGED <<path, items, seen, collected>>

(* ExecutePath, then toSlice: a single value is walked as a slice of one.  *)
Match ==
  /\ stage = "query"
  /\ LET result == ExecutePath[path][root]
     IN  \/ result = Err /\ Return(TRUE) /\ UNCHANGED items
         \/ /\ result # Err
            /\ items' = IF IsSlice(result) THEN Elements(result) ELSE result.of
            /\ stage' = "walk" /\ UNCHANGED failed
  /\ UNCHANGED <<op, root, path, seen, collected>>

Current == items[Len(seen) + 1]
More == stage = "walk" /\ Len(seen) < Len(items)

(* The callback accepts, or the schema finds no error.                     *)
Accept ==
  /\ More /\ Current \notin Refused
  /\ seen' = Append(seen, Current)
  /\ collected' = IF op = "collect" THEN Append(collected, Current) ELSE collected
  /\ UNCHANGED <<op, root, path, stage, items, failed>>

(* The callback errs: Each and Collect return at once, with no results.    *)
MutStop ==
  /\ More /\ op # "validateEach" /\ Current \in Refused
  /\ seen' = Append(seen, Current)
  /\ failed' = TRUE
  /\ UNCHANGED <<op, root, path, stage, items, collected>>
Stop ==
  /\ More /\ op # "validateEach" /\ Current \in Refused
  /\ seen' = Append(seen, Current) /\ collected' = <<>>
  /\ Return(TRUE)
  /\ UNCHANGED <<op, root, path, items>>

(* ValidateEach notes the element's errors and goes on.                    *)
Note ==
  /\ More /\ op = "validateEach" /\ Current \in Refused
  /\ seen' = Append(seen, Current) /\ collected' = Append(collected, Current)
  /\ UNCHANGED <<op, root, path, stage, items, failed>>

Finish ==
  /\ stage = "walk" /\ seen = items
  /\ Return(op = "validateEach" /\ collected # <<>>)
  /\ UNCHANGED <<op, root, path, items, seen, collected>>

Walk == Match \/ Accept \/ Stop \/ Note \/ Finish

---------------------------------------------------------------------------
(* The matches of a path, breadth first: all the nodes one segment matches, *)
(* then all that the next matches below those.  A fault anywhere is an      *)
(* error of the whole.                                                     *)
Below(n, seg) == IF seg = Star THEN Items[n] ELSE <<Get(n, seg)>>
Faulty(n, seg) ==
  \/ NodeKind[n] = "nil"
  \/ seg = Star /\ NodeKind[n] # "list"
  \/ seg # Star /\ Get(n, seg) = Missing
Widen(front, seg) ==
  IF front = Err \/ \E i \in DOMAIN front.of : Faulty(front.of[i], seg) THEN Err
  ELSE Many(FlattenSeq([i \in DOMAIN front.of |-> Below(front.of[i], seg)]))
Fronts == [kind : {"one", "many", "error"}, of : Seq(Nodes)]
Matches[p \in Seq(Segments)] ==
  [front \in Fronts |-> IF p = <<>> THEN front ELSE Matches[Tail(p)][Widen(front, Head(p))]]

(* The recursive expansion of wildcards finds exactly the matches, in the   *)
(* order of the data, whatever lists the elements hold themselves, and it   *)
(* fails when one of them is missing.  A slice that a path without a        *)
(* wildcard matches is left out: it is one match, so iterate.go says, but   *)
(* the code hands over its elements.                                       *)
ExpansionExact ==
  stage \in {"walk", "done"} =>
    LET front == Matches[path][One(root)]
    IN  IF front = Err THEN stage = "done" /\ failed
        ELSE ContainsWildcard(path) \/ NodeKind[front.of[1]] # "list" => items = front.of

(* Each and Collect hand over the matches in order up to the first error    *)
(* and return it; ValidateEach goes on to the last and returns the errors   *)
(* of all; Collect's results are those of the matches, or none.            *)
Bad(s) == FlattenSeq([i \in DOMAIN s |-> IF s[i] \in Refused THEN <<s[i]>> ELSE <<>>])
WalkExact ==
  stage = "done" /\ items # <<>> =>
    /\ IsPrefix(seen, items)
    /\ failed <=> Bad(items) # <<>>
    /\ IF op # "validateEach" /\ failed
       THEN Bad(seen) = <<Last(seen)>> /\ collected = <<>>
       ELSE /\ seen = items
            /\ collected = CASE op = "each" -> <<>> [] op = "collect" -> items
                             [] OTHER -> Bad(items)
===========================================================================
