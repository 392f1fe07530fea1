------------------------- MODULE ValidationContext -------------------------
(***************************************************************************)
(* The ValidationContext a caller may keep and reuse (context.go), and the *)
(* ValidationErrors it hands out (errors.go).  Error() does not copy the   *)
(* slice of errors: the caller's slice and the context's share a backing   *)
(* array.  A slice is its array and its length; append writes in place     *)
(* while the array has room and otherwise moves to an array twice as long. *)
(***************************************************************************)
EXTENDS Naturals, Sequences

CONSTANTS
  Messages,     \* the texts of errors
  Segments,     \* path segments
  MaxErrors,    \* bound: errors between two resets
  MaxDepth,     \* bound: path segments
  MaxHeld,      \* bound: ValidationErrors handed out
  MaxArrays     \* bound: backing arrays

ASSUME ContextAssumption == {MaxErrors, MaxDepth, MaxHeld, MaxArrays} \subseteq Nat

VARIABLES
  path,      \* ctx.path
  heap,      \* the backing arrays allocated so far
  errs,      \* ctx.errors, a slice
  held,      \* the ValidationErrors handed out, each with what it said then
  recorded   \* history: what was added since the last Reset

vars == <<path, heap, errs, held, recorded>>

FieldErrors == [path : UNION {[1..n -> Segments] : n \in 0..MaxDepth}, message : Messages]
Unused == [path |-> <<>>, message |-> "unused"]
Slice(a, n) == [arr |-> a, len |-> n]
Cap(slice) == Len(heap[slice.arr])
Contents(slice) == SubSeq(heap[slice.arr], 1, slice.len)

TypeOK ==
  /\ path \in Seq(Segments) /\ Len(path) <= MaxDepth
  /\ \A a \in DOMAIN heap : \A i \in DOMAIN heap[a] : heap[a][i] \in FieldErrors \cup {Unused}
  /\ errs.arr \in DOMAIN heap /\ errs.len \in 0..Cap(errs)
  /\ \A h \in DOMAIN held :
       held[h].slice.arr \in DOMAIN heap /\ held[h].slice.len \in 0..Cap(held[h].slice)
  /\ recorded \in Seq(FieldErrors)

(* NewValidationContext.                                                   *)
Init ==
  /\ path = <<>>
  /\ heap = << <<>> >>
  /\ errs = Slice(1, 0)
  /\ held = <<>>
  /\ recorded = <<>>

(* append(slice, e): the heap and the slice after it.                      *)
Blank(n) == [i \in 1..n |-> Unused]
NewCap(n) == IF n = 0 THEN 1 ELSE 2 * n

Destination(slice) == Len(heap) + 1
AppendTo(slice, e) ==
  IF slice.len < Cap(slice)
  THEN [heap |-> [heap EXCEPT ![slice.arr][slice.len + 1] = e],
        slice |-> Slice(slice.arr, slice.len + 1)]
  ELSE [heap |-> Append(heap, Contents(slice) \o <<e>> \o Blank(NewCap(Cap(slice)) - slice.len - 1)),
        slice |-> Slice(Destination(slice), slice.len + 1)]

PushPath(seg) ==
  /\ Len(path) < MaxDepth
  /\ path' = Append(path, seg)
  /\ UNCHANGED <<heap, errs, held, recorded>>

Popped(p) == SubSeq(p, 1, Len(p) - 1)
PopPath ==
  /\ path' = IF path = <<>> THEN path ELSE Popped(path)
  /\ UNCHANGED <<heap, errs, held, recorded>>

Record(e) ==
  LET after == AppendTo(errs, e)
  IN  /\ errs.len < MaxErrors /\ Len(after.heap) <= MaxArrays
      /\ heap' = after.heap /\ errs' = after.slice
      /\ recorded' = Append(recorded, e)
      /\ UNCHANGED <<path, held>>

AddError(message) == Record([path |-> path, message |-> message])

(* A FieldError that names no path gets the context's.                     *)
AddFieldError(p, message) ==
  Record([path |-> IF p = <<>> THEN path ELSE p, message |-> message])

(* Reset truncates the slices and keeps their arrays.                      *)
MutCleared == errs
Cleared == Slice(errs.arr, 0)
Reset ==
  /\ path' = <<>>
  /\ errs' = Cleared
  /\ recorded' = <<>>
  /\ held' = [h \in DOMAIN held |-> [held[h] EXCEPT !.reset = TRUE]]
  /\ UNCHANGED heap

(* Error(): a ValidationError around the context's own slice.              *)
HandOut ==
  /\ errs.len > 0 /\ Len(held) < MaxHeld
  /\ held' = Append(held, [slice |-> errs, said |-> Contents(errs),
                           reset |-> FALSE, extended |-> FALSE])
  /\ UNCHANGED <<path, heap>>
MutErrorDrains == HandOut /\ errs' = Cleared /\ recorded' = <<>>
Error == HandOut /\ UNCHANGED <<errs, recorded>>

(* ValidationError.Add by the caller that holds it.                        *)
Extend(h, message) ==
  LET after == AppendTo(held[h].slice, [path |-> <<>>, message |-> message])
  IN  /\ held[h].slice.len < MaxErrors /\ Len(after.heap) <= MaxArrays
      /\ heap' = after.heap
      /\ held' = [held EXCEPT ![h].slice = after.slice, ![h].extended = TRUE]
      /\ UNCHANGED <<path, errs, recorded>>

Next ==
  \/ \E seg \in Segments : PushPath(seg)
  \/ PopPath
  \/ \E m \in Messages : AddError(m) \/ \E seg \in Segments : AddFieldError(<<seg>>, m)
  \/ Error
  \/ \E h \in DOMAIN held, m \in Messages : Extend(h, m)
  \/ Reset
Spec == Init /\ [][Next]_vars

---------------------------------------------------------------------------
(* What a ValidationError said when it was handed out, read from it now.    *)
StillSays(h) == SubSeq(Contents(held[h].slice), 1, Len(held[h].said)) = held[h].said

(* The context reports every error added since it was created or reset, in *)
(* order, as long as no caller extends an error it holds: nothing is lost  *)
(* when the array grows, or is used again after a Reset.                   *)
ErrorsComplete == (\A h \in DOMAIN held : ~held[h].extended) => Contents(errs) = recorded

(* A ValidationError goes on saying what it said when it was handed out    *)
(* until the context's next Reset, whatever the context and its holder     *)
(* append, as long as no other holder extends an error.                    *)
HeldUntilReset ==
  \A h \in DOMAIN held :
    (~held[h].reset /\ \A k \in DOMAIN held \ {h} : ~held[k].extended) => StillSays(h)
===========================================================================
