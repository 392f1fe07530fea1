----------------------------- MODULE ParserPool -----------------------------
(***************************************************************************)
(* Sessions of several goroutines that take parsers from a sync.Pool, run  *)
(* Parse on them any number of times, read the tokens and return them      *)
(* (superjsonic_atomenhanced.go).  A session keeps to the parser it holds: *)
(* the slice of GetTokens is the parser's own, and is not read after       *)
(* ReturnParser or the next Parse.                                         *)
(*                                                                         *)
(* machine[p] is parser p with the goroutine inside its Parse; held[s] is  *)
(* the parser of session s or None; pool is what the pool has.  A parser   *)
(* that is neither held nor pooled does not exist yet, or not any more.    *)
(***************************************************************************)
EXTENDS LexemeParser, FiniteSetsExt

CONSTANTS
  Sessions, Parsers,
  Texts,              \* the documents, as sequences of lexemes
  MaxKeys,            \* bound: a session that has counted more keys parses no further text
  None

ASSUME PoolAssumption ==
  /\ None \notin Parsers /\ None \notin Machines
  /\ Texts \subseteq Seq(Lexemes)
  /\ MaxKeys \in Nat

VARIABLES pool, held, machine

vars == <<pool, held, machine>>

Init ==
  /\ pool = {}
  /\ held = [s \in Sessions |-> None]
  /\ machine = [p \in Parsers |-> Fresh]

Holds(s) == held[s] # None
Running(s) == Holds(s) /\ machine[held[s]].status = "running"
InUse == {held[s] : s \in Sessions} \ {None}

\* Variant: a parser stays in the pool while it is used.
MutTaken(p) == pool

Taken(p) == pool \ {p}

\* The pool hands out one it has, or makes one with New.
GetParser(s) ==
  /\ ~Holds(s)
  /\ \E p \in Parsers :
       /\ \/ p \in pool /\ UNCHANGED machine
          \/ p \notin pool \cup InUse /\ machine' = [machine EXCEPT ![p] = Fresh]
       /\ held' = [held EXCEPT ![s] = p]
       /\ pool' = Taken(p)

BeginParse(s) ==
  /\ Holds(s) /\ ~Running(s)
  /\ machine[held[s]].keys <= MaxKeys
  /\ \E t \in Texts : machine' = [machine EXCEPT ![held[s]] = Parse(@, t)]
  /\ UNCHANGED <<pool, held>>

Work(s) ==
  /\ Running(s)
  /\ machine' = [machine EXCEPT ![held[s]] = Step(@)]
  /\ UNCHANGED <<pool, held>>

ReturnParser(s) ==
  /\ Holds(s) /\ ~Running(s)
  /\ machine' = [machine EXCEPT ![held[s]] = Reset(@)]
  /\ pool' = pool \cup {held[s]}
  /\ held' = [held EXCEPT ![s] = None]

\* The session ends without ReturnParser, by a panic or an early return.
Abandon(s) ==
  /\ Holds(s) /\ ~Running(s)
  /\ held' = [held EXCEPT ![s] = None]
  /\ UNCHANGED <<pool, machine>>

\* The garbage collector empties the pool as it likes.
Collect == \E p \in pool : pool' = pool \ {p} /\ UNCHANGED <<held, machine>>

Next ==
  \/ \E s \in Sessions : \/ GetParser(s) \/ BeginParse(s) \/ Work(s)
                         \/ ReturnParser(s) \/ Abandon(s)
  \/ Collect

\* A goroutine inside Parse runs.
Spec == Init /\ [][Next]_vars /\ \A s \in Sessions : WF_vars(Work(s))

-----------------------------------------------------------------------------
TypeOK ==
  /\ pool \subseteq Parsers
  /\ held \in [Sessions -> Parsers \cup {None}]
  /\ machine \in [Parsers -> Machines]

\* No parser has two owners, the pool counting as one.
OneOwner ==
  /\ \A s, t \in Sessions : s # t /\ Holds(s) => held[s] # held[t]
  /\ \A s \in Sessions : held[s] \notin pool

\* A parser in the pool is like a new one.
PoolClean == \A p \in pool : machine[p] = Fresh

\* A turn is taken inside a loop.
Framed == \A p \in Parsers : machine[p].next = "turn" => machine[p].frames # <<>>

IInv == TypeOK /\ Framed /\ OneOwner /\ PoolClean

-----------------------------------------------------------------------------
\* How many positions from j to k of text t have a lexeme of B.
Count(t, j, k, B) == Cardinality({n \in j..k : t[n] \in B})

\* The brackets still open before position i of text t.
Open(t, i) ==
  {j \in 1..(i - 1) : /\ t[j] \in {"{", "["}
                      /\ \A k \in (j + 1)..(i - 1) :
                           Count(t, j + 1, k, {"}", "]"}) <= Count(t, j + 1, k, {"{", "["})}

\* A string is a key where a member of an object begins, a value elsewhere.
IsKey(t, i) ==
  /\ t[i] = "str" /\ Open(t, i) # {}
  /\ t[Max(Open(t, i))] = "{" /\ t[i - 1] \in {"{", ","}

KindAt(t, i) == IF IsKey(t, i) THEN "key" ELSE t[i]

(***************************************************************************)
(* The tokens a session reads are those of its own text, up to where its   *)
(* parser has come, and strings are keys exactly where members begin: the  *)
(* contexts and tokens left by an earlier parse, of the same session or of *)
(* one that failed or gave the parser back half way, play no part.         *)
(***************************************************************************)
OwnTokens ==
  \A s \in Sessions : Holds(s) =>
    LET m == machine[held[s]]
    IN m.tokens = [i \in 1..(m.pos - 1) |-> KindAt(m.text, i)]

\* Every parse ends, in whatever way, however the sessions interleave.
ParsesEnd == \A s \in Sessions : Running(s) ~> ~Running(s)

Private == INSTANCE PrivateParser WITH
  view <- [s \in Sessions |-> IF Holds(s) THEN machine[held[s]] ELSE None]

\* Through the pool every session sees a parser that is new and its own.
ImplementsPrivate == Private!Spec
=============================================================================
