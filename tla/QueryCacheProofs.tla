------------------------- MODULE QueryCacheProofs -------------------------
(***************************************************************************)
(* Safety of the query cache for any goroutines, keys, documents and limit.*)
(* IInv joins the typing of the variables, what the locks guarantee        *)
(* (LockInv), what a goroutine knows of its query at each stage (CallInv), *)
(* the soundness of the cache and the bound on its size (SizeInv).         *)
(***************************************************************************)
EXTENDS QueryCache, FiniteSetTheorems, TLAPS

(* The stages of a goroutine that holds, or drains for, the write lock.     *)
Locking == Writing \cup {"drainSet", "drainClear"}

LockInv ==
  /\ \A t \in Threads : t \in readers <=> stage[t] = "read"
  /\ \A t \in Threads : stage[t] \in Locking <=> writer = t
  /\ \A t \in Threads : stage[t] \in Writing => readers = {}

(* The stages at which a goroutine has a query, and those before its reply. *)
Holding == {"set", "drainSet", "evict", "insert", "exec"}
Pending == Holding \cup {"get", "blocked", "read", "parse"}
CallInv ==
  \A t \in Threads :
    /\ stage[t] \in Holding => query[t] # NoQuery /\ query[t] = ParseOf[key[t]]
    /\ stage[t] \in Pending => reply[t] = NoReply

SizeInv ==
  /\ CacheBounded
  /\ \A t \in Threads : stage[t] = "insert" => Cardinality(CachedKeys) <= Limit

IInv == TypeOK /\ LockInv /\ CallInv /\ CacheSound /\ SizeInv /\ ReplyExact

---------------------------------------------------------------------------
(* Every step leaves the variables in their types.                         *)
LEMMA Typing == TypeOK /\ CallInv /\ [Next]_vars => TypeOK'
<1> SUFFICES ASSUME TypeOK, CallInv, [Next]_vars PROVE TypeOK'
  OBVIOUS
<1> USE CacheAssumption DEF TypeOK, Stages, Writing
<1>1. CASE UNCHANGED vars
  BY <1>1 DEF vars
<1>2. ASSUME NEW t \in Threads, Begin(t) PROVE TypeOK'
  BY <1>2 DEF Begin, Move
<1>3. ASSUME NEW t \in Threads, BeginClear(t) \/ Again(t) PROVE TypeOK'
  BY <1>3 DEF BeginClear, Again, Move
<1>4. ASSUME NEW t \in Threads, RLock(t) PROVE TypeOK'
  BY <1>4 DEF RLock, Move
<1>5. ASSUME NEW t \in Threads, Announce(t) \/ Lock(t) PROVE TypeOK'
  BY <1>5 DEF Announce, Lock, Move
<1>6. ASSUME NEW t \in Threads, Get(t) PROVE TypeOK'
  BY <1>6 DEF Get, Move
<1>7. ASSUME NEW t \in Threads, Parse(t) PROVE TypeOK'
  BY <1>7 DEF Parse, OwnParser, Move
<1>8. ASSUME NEW t \in Threads, Evict(t) PROVE TypeOK'
  BY <1>8 DEF Evict, Empty, Move
<1>9. ASSUME NEW t \in Threads, Insert(t) PROVE TypeOK'
  BY <1>9 DEF Insert, Unlock
<1>10. ASSUME NEW t \in Threads, Wipe(t) PROVE TypeOK'
  BY <1>10 DEF Wipe, Unlock, Empty
<1>11. ASSUME NEW t \in Threads, Execute(t) PROVE TypeOK'
  <2>1. query[t] \in Queries
    BY <1>11 DEF Execute, Move, CallInv, Holding
  <2>2. Run[query[t]][doc[t]] \in Results
    BY <2>1
  <2> QED BY <1>11, <2>2 DEF Execute, Move
<1> QED
  BY <1>1, <1>2, <1>3, <1>4, <1>5, <1>6, <1>7, <1>8, <1>9, <1>10, <1>11 DEF Next, Serve

(* The RWMutex: readers are those at "read", one goroutine at most holds or *)
(* drains for the write lock, and whoever has it has no reader beside it.   *)
LEMMA Locks == TypeOK /\ LockInv /\ [Next]_vars => LockInv'
<1> SUFFICES ASSUME TypeOK, LockInv, [Next]_vars PROVE LockInv'
  OBVIOUS
<1> USE CacheAssumption DEF TypeOK, Stages, Writing, Locking, LockInv
<1>1. CASE UNCHANGED vars
  BY <1>1 DEF vars
<1>2. ASSUME NEW t \in Threads, Begin(t) \/ BeginClear(t) \/ Again(t) PROVE LockInv'
  BY <1>2 DEF Begin, BeginClear, Again, Move
<1>3. ASSUME NEW t \in Threads, RLock(t) PROVE LockInv'
  BY <1>3 DEF RLock, Move
<1>4. ASSUME NEW t \in Threads, Announce(t) PROVE LockInv'
  BY <1>4 DEF Announce, Move
<1>5. ASSUME NEW t \in Threads, Lock(t) PROVE LockInv'
  BY <1>5 DEF Lock, Move
<1>6. ASSUME NEW t \in Threads, Get(t) PROVE LockInv'
  BY <1>6 DEF Get, Move
<1>7. ASSUME NEW t \in Threads, Parse(t) PROVE LockInv'
  BY <1>7 DEF Parse, Move
<1>8. ASSUME NEW t \in Threads, Evict(t) PROVE LockInv'
  BY <1>8 DEF Evict, Move
<1>9. ASSUME NEW t \in Threads, Insert(t) PROVE LockInv'
  BY <1>9 DEF Insert, Unlock
<1>10. ASSUME NEW t \in Threads, Wipe(t) PROVE LockInv'
  BY <1>10 DEF Wipe, Unlock
<1>11. ASSUME NEW t \in Threads, Execute(t) PROVE LockInv'
  BY <1>11 DEF Execute, Move
<1> QED
  BY <1>1, <1>2, <1>3, <1>4, <1>5, <1>6, <1>7, <1>8, <1>9, <1>10, <1>11 DEF Next, Serve

(* From its parse or its hit on, a goroutine has the query of its key.      *)
LEMMA Calls == TypeOK /\ CallInv /\ CacheSound /\ [Next]_vars => CallInv'
<1> SUFFICES ASSUME TypeOK, CallInv, CacheSound, [Next]_vars PROVE CallInv'
  OBVIOUS
<1> USE CacheAssumption DEF TypeOK, Stages, Writing, Holding, Pending, CallInv
<1>1. CASE UNCHANGED vars
  BY <1>1 DEF vars
<1>2. ASSUME NEW t \in Threads, Begin(t) PROVE CallInv'
  BY <1>2 DEF Begin, Move
<1>3. ASSUME NEW t \in Threads, BeginClear(t) \/ Again(t) PROVE CallInv'
  BY <1>3 DEF BeginClear, Again, Move
<1>4. ASSUME NEW t \in Threads, RLock(t) PROVE CallInv'
  BY <1>4 DEF RLock, Move
<1>5. ASSUME NEW t \in Threads, Announce(t) \/ Lock(t) \/ Evict(t) PROVE CallInv'
  BY <1>5 DEF Announce, Lock, Evict, Move
<1>6. ASSUME NEW t \in Threads, Get(t) PROVE CallInv'
  <2>1. cached[key[t]] # NoQuery => cached[key[t]] = ParseOf[key[t]]
    BY DEF CacheSound, CachedKeys
  <2> QED BY <1>6, <2>1 DEF Get, Move
<1>7. ASSUME NEW t \in Threads, Parse(t) PROVE CallInv'
  BY <1>7 DEF Parse, OwnParser, Move
<1>8. ASSUME NEW t \in Threads, Insert(t) PROVE CallInv'
  BY <1>8 DEF Insert, Unlock
<1>9. ASSUME NEW t \in Threads, Wipe(t) PROVE CallInv'
  BY <1>9 DEF Wipe, Unlock
<1>10. ASSUME NEW t \in Threads, Execute(t) PROVE CallInv'
  BY <1>10 DEF Execute, Move
<1> QED
  BY <1>1, <1>2, <1>3, <1>4, <1>5, <1>6, <1>7, <1>8, <1>9, <1>10 DEF Next, Serve

(* Only a goroutine that inserts or empties changes the map, and it inserts *)
(* under the key its query was parsed from.                                *)
LEMMA Sound == TypeOK /\ CallInv /\ CacheSound /\ [Next]_vars => CacheSound'
<1> SUFFICES ASSUME TypeOK, CallInv, CacheSound, [Next]_vars PROVE CacheSound'
  OBVIOUS
<1>1. ASSUME UNCHANGED cached PROVE CacheSound'
  BY <1>1 DEF CacheSound, CachedKeys
<1>2. ASSUME cached' = Empty PROVE CacheSound'
  BY <1>2 DEF CacheSound, CachedKeys, Empty
<1>3. ASSUME NEW t \in Threads, Insert(t) PROVE CacheSound'
  <2>1. query[t] = ParseOf[key[t]]
    BY <1>3 DEF Insert, Unlock, CallInv, Holding
  <2>2. cached' = [cached EXCEPT ![key[t]] = query[t]]
    BY <1>3 DEF Insert
  <2> QED BY <2>1, <2>2 DEF CacheSound, CachedKeys, TypeOK
<1>4. ASSUME NEW t \in Threads, Evict(t) PROVE UNCHANGED cached \/ cached' = Empty
  BY <1>4 DEF Evict
<1>5. ASSUME NEW t \in Threads, Wipe(t) PROVE cached' = Empty
  BY <1>5 DEF Wipe
<1>6. ASSUME ~\E t \in Threads : Insert(t) \/ Evict(t) \/ Wipe(t) PROVE UNCHANGED cached
  BY <1>6 DEF vars, Next, Serve, Begin, BeginClear, Again, RLock, Announce, Lock, Get, Parse, Execute
<1> QED
  BY <1>1, <1>2, <1>3, <1>4, <1>5, <1>6

(* The locks let one goroutine at a time through evict and insert, so that *)
(* the room evict has made is still there when insert uses it.             *)
LEMMA Sizes == TypeOK /\ LockInv /\ SizeInv /\ [Next]_vars => SizeInv'
<1> SUFFICES ASSUME TypeOK, LockInv, SizeInv, [Next]_vars PROVE SizeInv'
  OBVIOUS
<1> USE CacheAssumption
<1> DEFINE size == Cardinality(CachedKeys)
<1>1. IsFiniteSet(CachedKeys) /\ size \in Nat /\ size <= Limit + 1
  BY FS_CardinalityType DEF SizeInv, CacheBounded
<1>2. ASSUME cached' = Empty PROVE SizeInv'
  <2>1. CachedKeys' = {}
    BY <1>2 DEF CachedKeys, Empty
  <2>2. IsFiniteSet(CachedKeys') /\ Cardinality(CachedKeys') = 0
    BY <2>1, FS_EmptySet
  <2> QED BY <2>2 DEF SizeInv, CacheBounded
<1>3. ASSUME UNCHANGED cached,
             \A u \in Threads : stage'[u] = "insert" => stage[u] = "insert"
      PROVE  SizeInv'
  <2>1. CachedKeys' = CachedKeys
    BY <1>3 DEF CachedKeys
  <2> QED BY <1>3, <2>1 DEF SizeInv, CacheBounded
<1>4. ASSUME NEW t \in Threads, Insert(t) PROVE SizeInv'
  <2>1. size <= Limit
    BY <1>4 DEF SizeInv, Insert, Unlock
  <2>2. CachedKeys' \subseteq CachedKeys \cup {key[t]}
    BY <1>4 DEF Insert, CachedKeys, TypeOK
  <2>3. /\ IsFiniteSet(CachedKeys \cup {key[t]})
        /\ Cardinality(CachedKeys \cup {key[t]}) <= Limit + 1
    <3>1. CASE key[t] \in CachedKeys
      <4>1. CachedKeys \cup {key[t]} = CachedKeys
        BY <3>1
      <4> QED BY <1>1, <4>1
    <3>2. CASE key[t] \notin CachedKeys
      <4>1. /\ IsFiniteSet(CachedKeys \cup {key[t]})
            /\ Cardinality(CachedKeys \cup {key[t]}) = size + 1
        BY <1>1, <3>2, FS_AddElement
      <4> QED BY <1>1, <2>1, <4>1
    <3> QED BY <3>1, <3>2
  <2>4. IsFiniteSet(CachedKeys') /\ Cardinality(CachedKeys') <= Limit + 1
    BY <2>2, <2>3, FS_Subset, FS_CardinalityType
  <2>5. \A u \in Threads : stage'[u] # "insert"
    BY <1>4 DEF Insert, Unlock, LockInv, Locking, Writing, TypeOK
  <2> QED BY <2>4, <2>5 DEF SizeInv, CacheBounded
<1>5. ASSUME NEW t \in Threads, Evict(t), ~TooLarge PROVE SizeInv'
  <2>1. CachedKeys' = CachedKeys
    BY <1>5 DEF Evict, CachedKeys
  <2>2. size <= Limit
    BY <1>1, <1>5 DEF TooLarge
  <2> QED BY <2>1, <2>2, <1>1 DEF SizeInv, CacheBounded
<1>6. ASSUME NEW t \in Threads, Evict(t), TooLarge PROVE SizeInv'
  BY <1>2, <1>6 DEF Evict
<1>7. ASSUME NEW t \in Threads, Wipe(t) PROVE SizeInv'
  BY <1>2, <1>7 DEF Wipe
<1>8. ASSUME NEW t \in Threads,
             Begin(t) \/ BeginClear(t) \/ Again(t) \/ RLock(t) \/ Announce(t) \/ Lock(t)
      PROVE  SizeInv'
  BY <1>3, <1>8 DEF Begin, BeginClear, Again, RLock, Announce, Lock, Move, TypeOK
<1>9. ASSUME NEW t \in Threads, Get(t) \/ Parse(t) \/ Execute(t) PROVE SizeInv'
  BY <1>3, <1>9 DEF Get, Parse, Execute, Move, TypeOK
<1>10. CASE UNCHANGED vars
  BY <1>3, <1>10 DEF vars
<1> QED
  BY <1>4, <1>5, <1>6, <1>7, <1>8, <1>9, <1>10 DEF Next, Serve

(* A reply is given once, from the goroutine's own query and document.     *)
LEMMA Replies == TypeOK /\ CallInv /\ ReplyExact /\ [Next]_vars => ReplyExact'
<1> SUFFICES ASSUME TypeOK, CallInv, ReplyExact, [Next]_vars PROVE ReplyExact'
  OBVIOUS
<1> USE CacheAssumption DEF TypeOK, ReplyExact, Answer
<1>1. ASSUME UNCHANGED <<key, doc, reply>> PROVE ReplyExact'
  BY <1>1
<1>2. ASSUME NEW t \in Threads, Begin(t) PROVE ReplyExact'
  BY <1>2 DEF Begin
<1>3. ASSUME NEW t \in Threads, Parse(t) PROVE ReplyExact'
  BY <1>3 DEF Parse
<1>4. ASSUME NEW t \in Threads, Execute(t) PROVE ReplyExact'
  <2>1. query[t] # NoQuery /\ query[t] = ParseOf[key[t]]
    BY <1>4 DEF Execute, Move, CallInv, Holding
  <2> QED BY <1>4, <2>1 DEF Execute
<1>5. ASSUME ~\E t \in Threads : Begin(t) \/ Parse(t) \/ Execute(t)
      PROVE  UNCHANGED <<key, doc, reply>>
  BY <1>5 DEF vars, Next, Serve, BeginClear, Again, RLock, Announce, Lock, Get, Evict, Insert, Wipe
<1> QED
  BY <1>1, <1>2, <1>3, <1>4, <1>5

---------------------------------------------------------------------------
LEMMA Initially == Init => IInv
<1> SUFFICES ASSUME Init PROVE IInv
  OBVIOUS
<1> USE CacheAssumption DEF Init
<1>1. TypeOK
  BY DEF TypeOK, Empty, Stages
<1>2. LockInv
  BY DEF LockInv, Locking, Writing
<1>3. CallInv
  BY DEF CallInv, Holding, Pending
<1>4. CachedKeys = {}
  BY DEF CachedKeys, Empty
<1>5. IsFiniteSet(CachedKeys) /\ Cardinality(CachedKeys) = 0
  BY <1>4, FS_EmptySet
<1>6. SizeInv
  BY <1>5 DEF SizeInv, CacheBounded
<1>7. CacheSound /\ ReplyExact
  BY <1>4 DEF CacheSound, ReplyExact
<1> QED
  BY <1>1, <1>2, <1>3, <1>6, <1>7 DEF IInv

LEMMA Inductive == IInv /\ [Next]_vars => IInv'
  BY Typing, Locks, Calls, Sound, Sizes, Replies DEF IInv

(* IInv holds in every reachable state; the theorems below are its parts.   *)
THEOREM CacheInvariant == Spec => []IInv
  BY Initially, Inductive, PTL DEF Spec

(* The variables keep their types.                                         *)
THEOREM TypeCorrect == Spec => []TypeOK
  BY CacheInvariant, PTL DEF IInv

(* The map is never read while it is written, nor written by two           *)
(* goroutines, however many of them call.                                  *)
THEOREM NoRace == Spec => []NoMapRace
<1>1. IInv => NoMapRace
  BY DEF IInv, TypeOK, LockInv, Locking, Writing, NoMapRace, Stages
<1> QED
  BY CacheInvariant, <1>1, PTL

(* Every entry of the cache is the parse of its key, whatever happened      *)
(* between the lookup that missed and the insertion.                       *)
THEOREM EntriesSound == Spec => []CacheSound
  BY CacheInvariant, PTL DEF IInv

(* The cache never exceeds Limit + 1 entries, for any number of goroutines  *)
(* that insert at once.                                                    *)
THEOREM Bounded == Spec => []CacheBounded
  BY CacheInvariant, PTL DEF IInv, SizeInv

(* Every reply is the one an uncached parse and execution would give.      *)
THEOREM RepliesExact == Spec => []ReplyExact
  BY CacheInvariant, PTL DEF IInv

---------------------------------------------------------------------------
(* Each step of the cache is, to the callers, a step without it or none.    *)
LEMMA StepSimulation == IInv /\ [Next]_vars => [Uncached!Next]_(Uncached!uvars)
<1> SUFFICES ASSUME IInv, [Next]_vars PROVE [Uncached!Next]_(Uncached!uvars)
  OBVIOUS
<1> USE CacheAssumption DEF IInv, TypeOK
<1>1. ASSUME UNCHANGED <<key, doc, reply>> PROVE UNCHANGED Uncached!uvars
  BY <1>1 DEF Uncached!uvars
<1>2. ASSUME NEW t \in Threads, Begin(t) PROVE Uncached!Next
  BY <1>2 DEF Begin, Uncached!Next, Uncached!Ask
<1>3. ASSUME NEW t \in Threads, Parse(t), ParseOf[key[t]] = NoQuery PROVE Uncached!Next
  <2>1. reply[t] = NoReply
    BY <1>3 DEF Parse, Move, CallInv, Pending
  <2> QED BY <1>3, <2>1 DEF Parse, Answer, Uncached!Next, Uncached!Respond
<1>4. ASSUME NEW t \in Threads, Parse(t), ParseOf[key[t]] # NoQuery
      PROVE  UNCHANGED <<key, doc, reply>>
  BY <1>4 DEF Parse
<1>5. ASSUME NEW t \in Threads, Execute(t) PROVE Uncached!Next
  <2>1. reply[t] = NoReply /\ query[t] # NoQuery /\ query[t] = ParseOf[key[t]]
    BY <1>5 DEF Execute, Move, CallInv, Holding, Pending
  <2> QED BY <1>5, <2>1 DEF Execute, Answer, Uncached!Next, Uncached!Respond
<1>6. ASSUME ~\E t \in Threads : Begin(t) \/ Parse(t) \/ Execute(t)
      PROVE  UNCHANGED <<key, doc, reply>>
  BY <1>6 DEF vars, Next, Serve, BeginClear, Again, RLock, Announce, Lock, Get, Evict, Insert, Wipe
<1> QED
  BY <1>1, <1>2, <1>3, <1>4, <1>5, <1>6

(* The cache implements execution without a cache: no schedule of lookups,  *)
(* insertions, evictions and clears shows in any reply.                    *)
THEOREM Transparent == Spec => ImplementsUncached
<1>1. Init => Uncached!Init
  BY DEF Init, Uncached!Init
<1> QED
  BY <1>1, CacheInvariant, StepSimulation, PTL DEF Spec, ImplementsUncached, Uncached!Spec
===========================================================================
