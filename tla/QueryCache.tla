---------------------------- MODULE QueryCache ----------------------------
(***************************************************************************)
(* query.ExecuteCached and query.ClearCache called by goroutines that      *)
(* share the package's one cache of parsed queries behind a sync.RWMutex.  *)
(*                                                                         *)
(* A goroutine is idle until it calls and done once it has its reply.  The *)
(* stages in between:                                                      *)
(*   get      wants the read lock       blocked  waits behind a writer     *)
(*   read     holds the read lock       parse    has missed, parses        *)
(*   set      wants the write lock      clear    the same, in ClearCache   *)
(*   drain    keeps new readers out, waits for the present ones            *)
(*   evict, insert, wipe    hold the write lock                            *)
(*   exec     has its query, walks the data                                *)
(***************************************************************************)
EXTENDS Naturals, FiniteSets

CONSTANTS
  Threads,   \* the goroutines
  NoThread,
  Keys,      \* the query strings
  Docs,      \* the data a query is executed on
  Queries,   \* parsed queries
  NoQuery,   \* no entry, or a string that does not parse
  ParseOf,   \* [Keys -> Queries \cup {NoQuery}]: ParseQuery
  Run,       \* [Queries -> [Docs -> Results]]: ExecutePath of the simplified query
  Results, SyntaxError, NoReply,
  Limit      \* the 1000 of cache.set

ASSUME CacheAssumption ==
  /\ NoThread \notin Threads
  /\ NoQuery \notin Queries
  /\ ParseOf \in [Keys -> Queries \cup {NoQuery}]
  /\ Run \in [Queries -> [Docs -> Results]]
  /\ SyntaxError \notin Results /\ NoReply \notin Results /\ SyntaxError # NoReply
  /\ Limit \in Nat

VARIABLES
  cached,    \* [Keys -> Queries \cup {NoQuery}]: the map
  readers,   \* the goroutines inside RLock
  writer,    \* the goroutine that holds or drains for the write lock
  stage,     \* [Threads -> Stages]
  key, doc,  \* what each goroutine asked for
  query,     \* [Threads -> Queries \cup {NoQuery}]: what it got or parsed
  reply

vars == <<cached, readers, writer, stage, key, doc, query, reply>>

Writing == {"evict", "insert", "wipe"}
Stages == {"idle", "get", "blocked", "read", "parse", "set", "clear", "exec", "done",
           "drainSet", "drainClear"} \cup Writing
CachedKeys == {k \in Keys : cached[k] # NoQuery}
Empty == [k \in Keys |-> NoQuery]

TypeOK ==
  /\ cached \in [Keys -> Queries \cup {NoQuery}]
  /\ readers \in SUBSET Threads
  /\ writer \in Threads \cup {NoThread}
  /\ stage \in [Threads -> Stages]
  /\ key \in [Threads -> Keys]
  /\ doc \in [Threads -> Docs]
  /\ query \in [Threads -> Queries \cup {NoQuery}]
  /\ reply \in [Threads -> Results \cup {SyntaxError, NoReply}]

Init ==
  /\ cached = Empty
  /\ readers = {} /\ writer = NoThread
  /\ stage = [t \in Threads |-> "idle"]
  /\ key \in [Threads -> Keys] /\ doc \in [Threads -> Docs]
  /\ query = [t \in Threads |-> NoQuery]
  /\ reply = [t \in Threads |-> NoReply]

Move(t, from, to) == stage[t] = from /\ stage' = [stage EXCEPT ![t] = to]

---------------------------------------------------------------------------
(* The callers.                                                            *)
Begin(t) ==
  /\ Move(t, "idle", "get")
  /\ \E k \in Keys, d \in Docs : key' = [key EXCEPT ![t] = k] /\ doc' = [doc EXCEPT ![t] = d]
  /\ reply' = [reply EXCEPT ![t] = NoReply]
  /\ query' = [query EXCEPT ![t] = NoQuery]
  /\ UNCHANGED <<cached, readers, writer>>

BeginClear(t) ==
  /\ Move(t, "idle", "clear")
  /\ UNCHANGED <<cached, readers, writer, key, doc, query, reply>>

Again(t) ==
  /\ Move(t, "done", "idle")
  /\ UNCHANGED <<cached, readers, writer, key, doc, query, reply>>

(* sync.RWMutex: a writer waits for the mutex w, then keeps new readers out *)
(* while those inside leave; Unlock lets in every reader it kept waiting.   *)
MutNoRLock(t) ==
  /\ Move(t, "get", "read") /\ readers' = readers \cup {t}
  /\ UNCHANGED <<cached, writer, key, doc, query, reply>>
RLock(t) ==
  /\ IF writer = NoThread
     THEN Move(t, "get", "read") /\ readers' = readers \cup {t}
     ELSE Move(t, "get", "blocked") /\ UNCHANGED readers
  /\ UNCHANGED <<cached, writer, key, doc, query, reply>>

Announce(t) ==
  /\ writer = NoThread
  /\ Move(t, "set", "drainSet") \/ Move(t, "clear", "drainClear")
  /\ writer' = t
  /\ UNCHANGED <<cached, readers, key, doc, query, reply>>

Lock(t) ==
  /\ readers = {}
  /\ Move(t, "drainSet", "evict") \/ Move(t, "drainClear", "wipe")
  /\ UNCHANGED <<cached, readers, writer, key, doc, query, reply>>

MutUnlockQuietly(t, from, to) ==
  Move(t, from, to) /\ writer' = NoThread /\ UNCHANGED readers
Unlock(t, from, to) ==
  /\ stage[t] = from
  /\ writer' = NoThread
  /\ readers' = {u \in Threads : stage[u] = "blocked"}
  /\ stage' = [u \in Threads |->
       IF u = t THEN to ELSE IF stage[u] = "blocked" THEN "read" ELSE stage[u]]

(* cache.get: the lookup and the deferred RUnlock.                         *)
Get(t) ==
  /\ query' = [query EXCEPT ![t] = cached[key[t]]]
  /\ Move(t, "read", IF cached[key[t]] # NoQuery THEN "exec" ELSE "parse")
  /\ readers' = readers \ {t}
  /\ UNCHANGED <<cached, writer, key, doc, reply>>

(* ParseQuery, outside every lock.                                         *)
MutOneParserForAll(t) == query' = [u \in Threads |-> ParseOf[key[t]]]
OwnParser(t) == query' = [query EXCEPT ![t] = ParseOf[key[t]]]
Parse(t) ==
  /\ OwnParser(t)
  /\ IF ParseOf[key[t]] = NoQuery
     THEN Move(t, "parse", "done") /\ reply' = [reply EXCEPT ![t] = SyntaxError]
     ELSE Move(t, "parse", "set") /\ UNCHANGED reply
  /\ UNCHANGED <<cached, readers, writer, key, doc>>

(* cache.set.                                                              *)
MutTooLargeLate == Cardinality(CachedKeys) > Limit + 1
TooLarge == Cardinality(CachedKeys) > Limit
Evict(t) ==
  /\ Move(t, "evict", "insert")
  /\ cached' = IF TooLarge THEN Empty ELSE cached
  /\ UNCHANGED <<readers, writer, key, doc, query, reply>>

Insert(t) ==
  /\ cached' = [cached EXCEPT ![key[t]] = query[t]]
  /\ Unlock(t, "insert", "exec")
  /\ UNCHANGED <<key, doc, query, reply>>

Wipe(t) ==
  /\ cached' = Empty
  /\ Unlock(t, "wipe", "done")
  /\ UNCHANGED <<key, doc, query, reply>>

(* SimplifyNode and ExecutePath on the goroutine's own query and data.     *)
Execute(t) ==
  /\ Move(t, "exec", "done")
  /\ reply' = [reply EXCEPT ![t] = Run[query[t]][doc[t]]]
  /\ UNCHANGED <<cached, readers, writer, key, doc, query>>

Serve(t) ==
  \/ RLock(t) \/ Get(t) \/ Parse(t) \/ Announce(t) \/ Lock(t)
  \/ Evict(t) \/ Insert(t) \/ Wipe(t) \/ Execute(t)

Next == \E t \in Threads : Begin(t) \/ BeginClear(t) \/ Again(t) \/ Serve(t)
Spec == Init /\ [][Next]_vars

(* A runnable goroutine is run; the mutex w hands itself to a waiter it has *)
(* passed over for too long (starvation mode).                              *)
Fairness == \A t \in Threads : WF_vars(Serve(t)) /\ SF_vars(Announce(t))
FairSpec == Spec /\ Fairness

---------------------------------------------------------------------------
(* The map is never read while it is written, nor written by two           *)
(* goroutines (Go maps crash on either): the locks of get, set, ClearCache.*)
NoMapRace ==
  \A t, u \in Threads :
    stage[t] \in Writing /\ t # u => stage[u] \notin Writing \cup {"read"}

(* Every entry is the parse of its key, though set stores it long after    *)
(* the key was looked up and other goroutines set and cleared meanwhile.   *)
CacheSound == \A k \in CachedKeys : cached[k] = ParseOf[k]

(* The cache never holds more than Limit + 1 queries, even when several    *)
(* goroutines have missed at once and all go on to insert.                 *)
CacheBounded == IsFiniteSet(CachedKeys) /\ Cardinality(CachedKeys) <= Limit + 1

(* A reply is what parsing and running the query afresh gives, hit or miss.*)
Answer(k, d) == IF ParseOf[k] = NoQuery THEN SyntaxError ELSE Run[ParseOf[k]][d]
ReplyExact == \A t \in Threads : reply[t] # NoReply => reply[t] = Answer(key[t], doc[t])

(* With the cache, the callers see what they would see without it.         *)
Uncached == INSTANCE UncachedQuery
ImplementsUncached == Uncached!Spec

(* Every call returns: no writer starves behind a stream of readers and no *)
(* reader behind a stream of writers.                                      *)
CallsReturn == \A t \in Threads : stage[t] \in {"get", "clear"} ~> stage[t] = "done"
===========================================================================
