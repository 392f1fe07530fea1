------------------------- MODULE SharedStateProofs -------------------------
(***************************************************************************)
(* What the library shares with its callers.                               *)
(*                                                                         *)
(* The slices of errors of a validation context share a backing array, for *)
(* any number of errors, arrays and holders.  An append to a slice changes *)
(* one cell of its array, the one past the slice's end, or none; CInv says *)
(* that this cell is past what every error still in force has said.        *)
(*                                                                         *)
(* What a validation with a format comes to, for any goroutines, schemas,  *)
(* formats and order of registration: RInv relates where each goroutine    *)
(* stands to the binding of its schema and to the registry, which only     *)
(* grows as long as nobody registers the nil function.                     *)
(***************************************************************************)
EXTENDS ValidationContext, FormatRegistry, SequenceTheorems, TLAPS


Cells == [path : Seq(Segments), message : Messages] \cup {Unused}
Slices == [arr : Nat, len : Nat]
IsSlice(h, slice) == slice \in Slices /\ slice.arr \in 1..Len(h) /\ slice.len <= Len(h[slice.arr])
Holders == [slice : Slices, said : Seq(Cells), reset : BOOLEAN, extended : BOOLEAN]

(* What said begins the contents of the slice.                             *)
Says(h, slice, said) ==
  Len(said) <= slice.len /\ \A i \in 1..Len(said) : h[slice.arr][i] = said[i]

Typing ==
  /\ path \in Seq(Segments) /\ recorded \in Seq(Cells)
  /\ heap \in Seq(Seq(Cells)) /\ IsSlice(heap, errs)
  /\ held \in Seq(Holders) /\ \A h \in DOMAIN held : IsSlice(heap, held[h].slice)

ReportedInv ==
  (\A h \in DOMAIN held : ~held[h].extended) =>
    errs.len = Len(recorded) /\ Says(heap, errs, recorded)

HeldInv ==
  \A h \in DOMAIN held :
    /\ Len(held[h].said) <= held[h].slice.len
    /\ ~held[h].reset /\ held[h].slice.arr = errs.arr => Len(held[h].said) <= errs.len
    /\ (~held[h].reset /\ \A k \in DOMAIN held \ {h} : ~held[k].extended)
         => Says(heap, held[h].slice, held[h].said)

CInv == Typing /\ ReportedInv /\ HeldInv

---------------------------------------------------------------------------
LEMMA ContentsIs ==
  ASSUME heap \in Seq(Seq(Cells)), NEW slice, IsSlice(heap, slice)
  PROVE  /\ Contents(slice) \in Seq(Cells) /\ Len(Contents(slice)) = slice.len
         /\ \A i \in 1..slice.len : Contents(slice)[i] = heap[slice.arr][i]
<1> DEFINE array == heap[slice.arr]
<1>1. array \in Seq(Cells) /\ slice.len \in Nat /\ slice.len <= Len(array) /\ Len(array) \in Nat
  BY ElementOfSeq, LenProperties DEF IsSlice, Slices
<1>2. Contents(slice) = SubSeq(array, 1, slice.len)
  BY DEF Contents
<1> HIDE DEF array
<1>3. \A i \in 1..slice.len : array[i] \in Cells
  BY <1>1, ElementOfSeq
<1>4. /\ SubSeq(array, 1, slice.len) \in Seq(Cells) /\ Len(SubSeq(array, 1, slice.len)) = slice.len
      /\ \A i \in 1..slice.len : SubSeq(array, 1, slice.len)[i] = array[i]
  BY <1>1, <1>3, SubSeqProperties
<1> QED
  BY <1>2, <1>4 DEF array

LEMMA OneMore ==
  ASSUME NEW S, NEW q \in Seq(S), NEW x \in S
  PROVE  /\ q \o <<x>> \in Seq(S) /\ Len(q \o <<x>>) = Len(q) + 1
         /\ \A i \in 1..Len(q) : (q \o <<x>>)[i] = q[i]
         /\ (q \o <<x>>)[Len(q) + 1] = x
<1>1. <<x>> \in Seq(S) /\ Len(<<x>>) = 1 /\ <<x>>[1] = x /\ Len(q) \in Nat
  BY LenProperties
<1> DEFINE last == <<x>>
<1> HIDE DEF last
<1>2. /\ q \o last \in Seq(S) /\ Len(q \o last) = Len(q) + Len(last)
      /\ \A i \in 1..Len(q) + Len(last) :
           (q \o last)[i] = IF i <= Len(q) THEN q[i] ELSE last[i - Len(q)]
  BY <1>1, ConcatProperties DEF last
<1>3. Len(last) = 1 /\ last[1] = x
  BY <1>1 DEF last
<1>4. \A i \in 1..Len(q) : (q \o last)[i] = q[i]
  BY <1>1, <1>2, <1>3
<1>5. (q \o last)[Len(q) + 1] = x
  BY <1>1, <1>2, <1>3
<1> QED
  BY <1>2, <1>3, <1>4, <1>5 DEF last

(* append: the slice grows by the error, in its array or in a new one, and  *)
(* no other cell of an array changes.                                      *)
LEMMA AppendToIs ==
  ASSUME heap \in Seq(Seq(Cells)), NEW slice, IsSlice(heap, slice), NEW e \in Cells,
         NEW after, after = AppendTo(slice, e)
  PROVE  /\ after.heap \in Seq(Seq(Cells)) /\ Len(after.heap) >= Len(heap)
         /\ IsSlice(after.heap, after.slice) /\ after.slice.len = slice.len + 1
         /\ \A i \in 1..slice.len : after.heap[after.slice.arr][i] = heap[slice.arr][i]
         /\ after.heap[after.slice.arr][slice.len + 1] = e
         /\ \A a \in 1..Len(heap) : Len(after.heap[a]) = Len(heap[a])
         /\ \A a \in 1..Len(heap) : \A i \in 1..Len(heap[a]) :
              ~(a = slice.arr /\ i = slice.len + 1) => after.heap[a][i] = heap[a][i]
         /\ after.slice.arr = slice.arr \/ after.slice.arr = Len(heap) + 1
<1> DEFINE array == heap[slice.arr]
<1>1. /\ array \in Seq(Cells) /\ slice.len \in Nat /\ slice.len <= Len(array) /\ Len(array) \in Nat
      /\ slice.arr \in 1..Len(heap) /\ Len(heap) \in Nat /\ slice \in Slices
  BY ElementOfSeq, LenProperties DEF IsSlice, Slices
<1>2. Cap(slice) = Len(array)
  BY DEF Cap
<1> HIDE DEF array
<1>3. CASE slice.len < Len(array)
  <2> DEFINE new == [array EXCEPT ![slice.len + 1] = e]
  <2>1. /\ new \in Seq(Cells) /\ Len(new) = Len(array) /\ new[slice.len + 1] = e
        /\ \A i \in 1..Len(array) : i # slice.len + 1 => new[i] = array[i]
    BY <1>1, <1>3, ExceptSeq
  <2>2. /\ after.heap = [heap EXCEPT ![slice.arr] = new]
        /\ after.slice = [arr |-> slice.arr, len |-> slice.len + 1]
    BY <1>2, <1>3 DEF AppendTo, Slice, array
  <2> HIDE DEF new
  <2>3. /\ after.heap \in Seq(Seq(Cells)) /\ Len(after.heap) = Len(heap)
        /\ after.heap[slice.arr] = new
        /\ \A a \in 1..Len(heap) : a # slice.arr => after.heap[a] = heap[a]
    BY <1>1, <2>1, <2>2, ExceptSeq
  <2>4. /\ after.slice.arr = slice.arr /\ after.slice.len = slice.len + 1
        /\ after.slice \in Slices /\ slice.len + 1 \in 1..Len(array)
    BY <1>1, <1>3, <2>2 DEF Slices
  <2>5. IsSlice(after.heap, after.slice)
    BY <1>1, <2>1, <2>3, <2>4 DEF IsSlice
  <2>6. /\ \A a \in 1..Len(heap) : Len(after.heap[a]) = Len(heap[a])
        /\ \A a \in 1..Len(heap) : \A i \in 1..Len(heap[a]) :
             ~(a = slice.arr /\ i = slice.len + 1) => after.heap[a][i] = heap[a][i]
    BY <2>1, <2>3 DEF array
  <2>7. \A i \in 1..slice.len : after.heap[after.slice.arr][i] = heap[slice.arr][i]
    <3>1. \A i \in 1..slice.len : i \in 1..Len(array) /\ i # slice.len + 1
      BY <1>1
    <3>2. \A i \in 1..slice.len : after.heap[after.slice.arr][i] = array[i]
      BY <2>1, <2>3, <2>4, <3>1, SMTT(40)
    <3> QED
      BY <3>2 DEF array
  <2>8. after.heap[after.slice.arr][slice.len + 1] = e /\ Len(after.heap) >= Len(heap)
    BY <1>1, <2>1, <2>3, <2>4, SMTT(40)
  <2> QED
    BY <2>3, <2>4, <2>5, <2>6, <2>7, <2>8
<1>4. CASE ~(slice.len < Len(array))
  <2> DEFINE room == NewCap(Len(array)) - slice.len - 1
             new == Contents(slice) \o <<e>> \o Blank(room)
  <2>1. room \in Nat /\ slice.len = Len(array)
    BY <1>1, <1>4 DEF NewCap
  <2>2. Blank(room) \in Seq(Cells)
    BY <2>1, IsASeq DEF Blank, Cells
  <2>3. /\ Contents(slice) \in Seq(Cells) /\ Len(Contents(slice)) = slice.len
        /\ \A i \in 1..slice.len : Contents(slice)[i] = array[i]
    BY ContentsIs DEF array
  <2>5. /\ Contents(slice) \o <<e>> \in Seq(Cells) /\ Len(Contents(slice) \o <<e>>) = slice.len + 1
        /\ \A i \in 1..slice.len : (Contents(slice) \o <<e>>)[i] = array[i]
        /\ (Contents(slice) \o <<e>>)[slice.len + 1] = e
    BY <2>3, OneMore
  <2>6. /\ new \in Seq(Cells) /\ Len(new) >= slice.len + 1
        /\ \A i \in 1..slice.len : new[i] = array[i]
        /\ new[slice.len + 1] = e
    <3> DEFINE left == Contents(slice) \o <<e>>
               right == Blank(room)
    <3>1. new = left \o right
      OBVIOUS
    <3>2. /\ left \in Seq(Cells) /\ right \in Seq(Cells) /\ Len(left) = slice.len + 1
          /\ \A i \in 1..slice.len : left[i] = array[i]
          /\ left[slice.len + 1] = e
      BY <2>2, <2>5
    <3> HIDE DEF left, right, new
    <3>3. Len(right) \in Nat
      BY <3>2, LenProperties
    <3> QED
      BY <1>1, <3>1, <3>2, <3>3, ConcatProperties, SMTT(40)
  <2>7. /\ after.heap = Append(heap, new)
        /\ after.slice = [arr |-> Len(heap) + 1, len |-> slice.len + 1]
    BY <1>2, <1>4 DEF AppendTo, Slice, Destination
  <2> HIDE DEF new, room
  <2>8. /\ after.heap \in Seq(Seq(Cells)) /\ Len(after.heap) = Len(heap) + 1
        /\ after.heap[Len(heap) + 1] = new
        /\ \A a \in 1..Len(heap) : after.heap[a] = heap[a]
    BY <1>1, <2>6, <2>7, AppendProperties
  <2>9. /\ after.slice.arr = Len(heap) + 1 /\ after.slice.len = slice.len + 1
        /\ after.slice \in Slices
    BY <1>1, <2>7 DEF Slices
  <2>10. IsSlice(after.heap, after.slice)
    BY <1>1, <2>6, <2>8, <2>9, SMTT(40) DEF IsSlice
  <2>11. /\ \A a \in 1..Len(heap) : Len(after.heap[a]) = Len(heap[a])
         /\ \A a \in 1..Len(heap) : \A i \in 1..Len(heap[a]) :
              ~(a = slice.arr /\ i = slice.len + 1) => after.heap[a][i] = heap[a][i]
    BY <2>8
  <2>12. /\ \A i \in 1..slice.len : after.heap[after.slice.arr][i] = heap[slice.arr][i]
         /\ after.heap[after.slice.arr][slice.len + 1] = e
    BY <2>6, <2>8, <2>9 DEF array
  <2>13. Len(after.heap) >= Len(heap)
    BY <1>1, <2>8
  <2> QED
    BY <2>8, <2>9, <2>10, <2>11, <2>12, <2>13
<1> QED
  BY <1>3, <1>4

(* What a slice says survives an append to another one of its array, when   *)
(* the other is longer, and to itself.                                     *)
LEMMA SaysKept ==
  ASSUME heap \in Seq(Seq(Cells)), NEW slice, IsSlice(heap, slice), NEW e \in Cells,
         NEW after, after = AppendTo(slice, e),
         NEW other, IsSlice(heap, other), NEW said \in Seq(Cells), Says(heap, other, said),
         other.arr = slice.arr => Len(said) <= slice.len
  PROVE  Says(after.heap, other, said)
<1>1. /\ \A a \in 1..Len(heap) : \A i \in 1..Len(heap[a]) :
           ~(a = slice.arr /\ i = slice.len + 1) => after.heap[a][i] = heap[a][i]
  BY AppendToIs
<1>2. Len(heap[other.arr]) \in Nat /\ other.arr \in 1..Len(heap) /\ Len(said) \in Nat
  BY ElementOfSeq, LenProperties DEF IsSlice
<1>3. \A i \in 1..Len(said) :
        i \in 1..Len(heap[other.arr]) /\ ~(other.arr = slice.arr /\ i = slice.len + 1)
  BY <1>2, SMTT(40) DEF Says, IsSlice, Slices
<1> QED
  BY <1>1, <1>2, <1>3 DEF Says

(* Slices stay slices when the heap grows.                                 *)
LEMMA SliceKept ==
  ASSUME heap \in Seq(Seq(Cells)), NEW slice, IsSlice(heap, slice), NEW e \in Cells,
         NEW after, after = AppendTo(slice, e), NEW other, IsSlice(heap, other)
  PROVE  IsSlice(after.heap, other)
<1>1. /\ \A a \in 1..Len(heap) : Len(after.heap[a]) = Len(heap[a])
      /\ Len(after.heap) >= Len(heap) /\ after.heap \in Seq(Seq(Cells))
  BY AppendToIs
<1>2. Len(after.heap) \in Nat /\ Len(heap) \in Nat
  BY <1>1, LenProperties
<1> QED
  BY <1>1, <1>2, SMTT(40) DEF IsSlice

---------------------------------------------------------------------------
LEMMA InitInv == Init => CInv
<1> SUFFICES ASSUME Init PROVE CInv
  OBVIOUS
<1>1. /\ \A S : <<>> \in Seq(S)
      /\ <<>> \in Seq(Cells) /\ Len(<<>>) = 0
  BY EmptySeq
<1>2. heap = << <<>> >> /\ heap \in Seq(Seq(Cells)) /\ Len(heap) = 1 /\ heap[1] = <<>>
  BY <1>1 DEF Init
<1>3. errs.arr = 1 /\ errs.len = 0 /\ errs \in Slices
  BY DEF Init, Slice, Slices
<1>4. IsSlice(heap, errs)
  BY <1>1, <1>2, <1>3 DEF IsSlice
<1>5. held = <<>> /\ DOMAIN held = {} /\ held \in Seq(Holders) /\ path = <<>> /\ recorded = <<>>
  BY <1>1 DEF Init
<1> QED
  BY <1>1, <1>2, <1>3, <1>4, <1>5 DEF CInv, Typing, ReportedInv, HeldInv, Says

LEMMA RecordInv ==
  ASSUME CInv, NEW e \in Cells, Record(e)
  PROVE  CInv'
<1> DEFINE after == AppendTo(errs, e)
<1>1. /\ heap' = after.heap /\ errs' = after.slice /\ recorded' = Append(recorded, e)
      /\ path' = path /\ held' = held
  BY DEF Record
<1>2. /\ heap \in Seq(Seq(Cells)) /\ IsSlice(heap, errs) /\ recorded \in Seq(Cells)
      /\ held \in Seq(Holders) /\ errs.len \in Nat /\ errs.arr \in 1..Len(heap)
      /\ \A h \in DOMAIN held : IsSlice(heap, held[h].slice) /\ held[h] \in Holders
  BY ElementOfSeq, LenProperties DEF CInv, Typing, IsSlice, Slices
<1> HIDE DEF after
<1>3. /\ heap' \in Seq(Seq(Cells)) /\ IsSlice(heap', errs') /\ errs'.len = errs.len + 1
      /\ \A i \in 1..errs.len : heap'[errs'.arr][i] = heap[errs.arr][i]
      /\ heap'[errs'.arr][errs.len + 1] = e
      /\ errs'.arr = errs.arr \/ errs'.arr = Len(heap) + 1
  BY <1>1, <1>2, AppendToIs DEF after
<1>4. \A h \in DOMAIN held : IsSlice(heap', held[h].slice)
  BY <1>1, <1>2, SliceKept DEF after
<1>5. /\ recorded' \in Seq(Cells) /\ Len(recorded') = Len(recorded) + 1 /\ Len(recorded) \in Nat
      /\ \A i \in 1..Len(recorded) : recorded'[i] = recorded[i]
      /\ recorded'[Len(recorded) + 1] = e
  BY <1>1, <1>2, AppendProperties, LenProperties
<1>6. Typing'
  BY <1>1, <1>2, <1>3, <1>4, <1>5 DEF CInv, Typing
<1>7. ReportedInv'
  <2> SUFFICES ASSUME \A h \in DOMAIN held : ~held[h].extended
               PROVE  errs'.len = Len(recorded') /\ Says(heap', errs', recorded')
    BY <1>1 DEF ReportedInv
  <2>1. errs.len = Len(recorded) /\ Says(heap, errs, recorded)
    BY DEF CInv, ReportedInv
  <2>2. \A i \in 1..errs.len : heap'[errs'.arr][i] = recorded'[i]
    BY <1>3, <1>5, <2>1 DEF Says
  <2>3. /\ errs'.len = Len(recorded') /\ Len(recorded') = errs.len + 1
        /\ heap'[errs'.arr][errs.len + 1] = recorded'[errs.len + 1]
    BY <1>3, <1>5, <2>1
  <2>4. \A i \in 1..(errs.len + 1) : heap'[errs'.arr][i] = recorded'[i]
    BY <1>2, <2>2, <2>3
  <2> QED
    BY <1>2, <2>3, <2>4 DEF Says
<1>8. HeldInv'
  <2> SUFFICES ASSUME NEW h \in DOMAIN held
               PROVE  /\ Len(held[h].said) <= held[h].slice.len
                      /\ ~held[h].reset /\ held[h].slice.arr = errs'.arr => Len(held[h].said) <= errs'.len
                      /\ (~held[h].reset /\ \A k \in DOMAIN held \ {h} : ~held[k].extended)
                           => Says(heap', held[h].slice, held[h].said)
    BY <1>1 DEF HeldInv
  <2>1. /\ held[h].said \in Seq(Cells) /\ Len(held[h].said) \in Nat
        /\ held[h].slice.arr \in 1..Len(heap) /\ Len(heap) \in Nat
    BY <1>2, LenProperties DEF Holders, IsSlice
  <2>2. ~held[h].reset /\ held[h].slice.arr = errs.arr => Len(held[h].said) <= errs.len
    BY DEF CInv, HeldInv
  <2>3. ~held[h].reset /\ held[h].slice.arr = errs'.arr => Len(held[h].said) <= errs'.len
    BY <1>2, <1>3, <2>1, <2>2
  <2>4. ASSUME ~held[h].reset, Says(heap, held[h].slice, held[h].said)
        PROVE  Says(heap', held[h].slice, held[h].said)
    BY <1>1, <1>2, <2>1, <2>2, <2>4, SaysKept DEF after
  <2> QED
    BY <2>3, <2>4 DEF CInv, HeldInv
<1> QED
  BY <1>6, <1>7, <1>8 DEF CInv

LEMMA ExtendInv ==
  ASSUME CInv, NEW h \in DOMAIN held, NEW m \in Messages, Extend(h, m)
  PROVE  CInv'
<1> DEFINE e == [path |-> <<>>, message |-> m]
           after == AppendTo(held[h].slice, e)
<1>1. /\ heap' = after.heap /\ UNCHANGED <<path, errs, recorded>>
      /\ held' = [held EXCEPT ![h].slice = after.slice, ![h].extended = TRUE]
  BY DEF Extend
<1>2. e \in Cells
  BY EmptySeq DEF Cells
<1>3. /\ heap \in Seq(Seq(Cells)) /\ IsSlice(heap, errs) /\ held \in Seq(Holders)
      /\ errs.arr \in 1..Len(heap) /\ Len(heap) \in Nat
      /\ \A g \in DOMAIN held : IsSlice(heap, held[g].slice) /\ held[g] \in Holders
  BY ElementOfSeq, LenProperties DEF CInv, Typing, IsSlice
<1> HIDE DEF e, after
<1>4. /\ heap' \in Seq(Seq(Cells)) /\ IsSlice(heap', after.slice)
      /\ after.slice.len = held[h].slice.len + 1 /\ after.slice \in Slices
      /\ \A i \in 1..held[h].slice.len : heap'[after.slice.arr][i] = heap[held[h].slice.arr][i]
      /\ after.slice.arr = held[h].slice.arr \/ after.slice.arr = Len(heap) + 1
  <2> DEFINE slice == held[h].slice
  <2>1. after = AppendTo(slice, e) /\ IsSlice(heap, slice) /\ heap \in Seq(Seq(Cells))
    BY <1>3 DEF after
  <2> HIDE DEF slice
  <2>2. /\ after.heap \in Seq(Seq(Cells)) /\ IsSlice(after.heap, after.slice)
        /\ after.slice.len = slice.len + 1
        /\ \A i \in 1..slice.len : after.heap[after.slice.arr][i] = heap[slice.arr][i]
        /\ after.slice.arr = slice.arr \/ after.slice.arr = Len(heap) + 1
    BY <1>2, <2>1, AppendToIs, SMTT(40)
  <2> QED
    BY <1>1, <2>2 DEF IsSlice, slice
<1>5. IsSlice(heap', errs) /\ \A g \in DOMAIN held : IsSlice(heap', held[g].slice)
  BY <1>1, <1>2, <1>3, SliceKept DEF after
<1>6. /\ held' \in Seq(Holders) /\ DOMAIN held' = DOMAIN held
      /\ held'[h].slice = after.slice /\ held'[h].said = held[h].said
      /\ held'[h].reset = held[h].reset /\ held'[h].extended
      /\ \A g \in DOMAIN held \ {h} : held'[g] = held[g]
  <2> DEFINE new == [held[h] EXCEPT !.slice = after.slice, !.extended = TRUE]
  <2>1. /\ new \in Holders /\ new.slice = after.slice /\ new.said = held[h].said
        /\ new.reset = held[h].reset /\ new.extended
    BY <1>3, <1>4 DEF Holders
  <2>2. held' = [held EXCEPT ![h] = new]
    BY <1>1
  <2> HIDE DEF new
  <2>3. DOMAIN held = 1..Len(held)
    BY <1>3, LenProperties
  <2> QED
    BY <1>3, <2>1, <2>2, <2>3, ExceptSeq, LenProperties
<1>7. Typing'
  BY <1>1, <1>4, <1>5, <1>6 DEF CInv, Typing
<1>8. ReportedInv'
  BY <1>6 DEF ReportedInv
<1>9. /\ Len(held[h].said) \in Nat /\ Len(held[h].said) <= held[h].slice.len
      /\ held[h].slice.len \in Nat
  BY <1>3, LenProperties DEF Holders, Slices, CInv, HeldInv
<1>10. /\ Len(held[h].said) <= after.slice.len
       /\ ~held[h].reset /\ after.slice.arr = errs.arr => Len(held[h].said) <= errs.len
  BY <1>3, <1>4, <1>9 DEF CInv, HeldInv
<1>11. ASSUME ~held[h].reset, \A k \in DOMAIN held \ {h} : ~held[k].extended
       PROVE  Says(heap', after.slice, held[h].said)
  <2>1. Says(heap, held[h].slice, held[h].said)
    BY <1>11 DEF CInv, HeldInv
  <2>2. \A i \in 1..Len(held[h].said) : i \in 1..held[h].slice.len
    BY <1>9
  <2> QED
    BY <1>4, <1>10, <2>1, <2>2 DEF Says
<1>12. HeldInv'
  <2> SUFFICES ASSUME NEW g \in DOMAIN held
               PROVE  /\ Len(held'[g].said) <= held'[g].slice.len
                      /\ ~held'[g].reset /\ held'[g].slice.arr = errs.arr => Len(held'[g].said) <= errs.len
                      /\ (~held'[g].reset /\ \A k \in DOMAIN held \ {g} : ~held'[k].extended)
                           => Says(heap', held'[g].slice, held'[g].said)
    BY <1>1, <1>6 DEF HeldInv
  <2>1. CASE g = h
    BY <1>6, <1>10, <1>11, <2>1
  <2>2. CASE g # h
    BY <1>6, <2>2 DEF CInv, HeldInv
  <2> QED
    BY <2>1, <2>2
<1> QED
  BY <1>7, <1>8, <1>12 DEF CInv

LEMMA ErrorInv ==
  ASSUME CInv, Error
  PROVE  CInv'
<1> DEFINE new == [slice |-> errs, said |-> Contents(errs), reset |-> FALSE, extended |-> FALSE]
           n == Len(held)
<1>1. held' = Append(held, new) /\ UNCHANGED <<path, heap, errs, recorded>>
  BY DEF Error, HandOut
<1>2. /\ Contents(errs) \in Seq(Cells) /\ Len(Contents(errs)) = errs.len /\ errs.len \in Nat
      /\ \A i \in 1..errs.len : Contents(errs)[i] = heap[errs.arr][i]
      /\ errs \in Slices
  BY ContentsIs DEF CInv, Typing, IsSlice, Slices
<1>3. new \in Holders /\ new.slice = errs /\ new.said = Contents(errs) /\ ~new.reset
  BY <1>2 DEF Holders
<1> HIDE DEF new
<1>4. held \in Seq(Holders) /\ n \in Nat /\ DOMAIN held = 1..n
  BY LenProperties DEF CInv, Typing
<1>5. /\ held' \in Seq(Holders) /\ DOMAIN held' = 1..(n + 1) /\ held'[n + 1] = new
      /\ \A h \in 1..n : held'[h] = held[h]
  BY <1>1, <1>3, <1>4, AppendProperties, LenProperties
<1> HIDE DEF n
<1>6. Typing'
  BY <1>1, <1>3, <1>4, <1>5 DEF CInv, Typing
<1>7. ReportedInv'
  BY <1>1, <1>4, <1>5 DEF CInv, ReportedInv
<1>8. Says(heap, new.slice, new.said) /\ Len(new.said) <= new.slice.len /\ Len(new.said) <= errs.len
  BY <1>2, <1>3 DEF Says
<1>9. HeldInv'
  <2> SUFFICES ASSUME NEW h \in 1..(n + 1)
               PROVE  /\ Len(held'[h].said) <= held'[h].slice.len
                      /\ ~held'[h].reset /\ held'[h].slice.arr = errs.arr => Len(held'[h].said) <= errs.len
                      /\ (~held'[h].reset /\ \A k \in (1..(n + 1)) \ {h} : ~held'[k].extended)
                           => Says(heap, held'[h].slice, held'[h].said)
    BY <1>1, <1>5 DEF HeldInv
  <2>1. CASE h = n + 1
    BY <1>5, <1>8, <2>1
  <2>2. CASE h \in 1..n
    <3>1. held'[h] = held[h] /\ h \in DOMAIN held
      BY <1>4, <1>5, <2>2
    <3>2. \A k \in DOMAIN held \ {h} : k \in (1..(n + 1)) \ {h} /\ held'[k] = held[k]
      BY <1>4, <1>5
    <3> QED
      BY <3>1, <3>2 DEF CInv, HeldInv
  <2> QED
    BY <1>4, <2>1, <2>2
<1> QED
  BY <1>6, <1>7, <1>9 DEF CInv

LEMMA ResetInv ==
  ASSUME CInv, Reset
  PROVE  CInv'
<1>1. /\ path' = <<>> /\ recorded' = <<>> /\ heap' = heap
      /\ errs' = [arr |-> errs.arr, len |-> 0]
      /\ held' = [h \in DOMAIN held |-> [held[h] EXCEPT !.reset = TRUE]]
  BY DEF Reset, Cleared, Slice
<1>2. /\ held \in Seq(Holders) /\ Len(held) \in Nat /\ DOMAIN held = 1..Len(held)
      /\ \A h \in DOMAIN held : held[h] \in Holders
  BY ElementOfSeq, LenProperties DEF CInv, Typing
<1>3. \A h \in DOMAIN held :
        /\ held'[h] \in Holders /\ held'[h].slice = held[h].slice /\ held'[h].said = held[h].said
        /\ held'[h].reset /\ held'[h].extended = held[h].extended
  BY <1>1, <1>2 DEF Holders
<1>4. held' \in Seq(Holders) /\ DOMAIN held' = DOMAIN held
  BY <1>1, <1>2, <1>3, IsASeq
<1>5. <<>> \in Seq(Segments) /\ <<>> \in Seq(Cells) /\ Len(<<>>) = 0
  BY EmptySeq
<1>6. Len(heap[errs.arr]) \in Nat
  BY ElementOfSeq, LenProperties DEF CInv, Typing, IsSlice
<1>7. IsSlice(heap', errs')
  BY <1>1, <1>6 DEF CInv, Typing, IsSlice, Slices
<1>8. Typing'
  BY <1>1, <1>3, <1>4, <1>5, <1>7 DEF CInv, Typing
<1>9. ReportedInv'
  BY <1>1, <1>5 DEF ReportedInv, Says
<1>10. HeldInv'
  BY <1>3, <1>4 DEF CInv, HeldInv
<1> QED
  BY <1>8, <1>9, <1>10 DEF CInv

(* Pushing and popping the path touches no error.                          *)
LEMMA PathInv ==
  ASSUME CInv, UNCHANGED <<heap, errs, held, recorded>>, path' \in Seq(Segments)
  PROVE  CInv'
  BY DEF CInv, Typing, ReportedInv, HeldInv, Says

LEMMA NextInv == CInv /\ [Next]_vars => CInv'
<1> SUFFICES ASSUME CInv, [Next]_vars PROVE CInv'
  OBVIOUS
<1>1. path \in Seq(Segments)
  BY DEF CInv, Typing
<1>2. ASSUME NEW seg \in Segments, PushPath(seg) PROVE CInv'
  BY <1>1, <1>2, PathInv, AppendProperties DEF PushPath
<1>3. CASE PopPath
  <2>1. CASE path = <<>>
    BY <1>1, <1>3, <2>1, PathInv DEF PopPath
  <2>2. CASE path # <<>>
    <3>1. Popped(path) \in Seq(Segments)
      <4>1. Len(path) \in Nat \ {0} /\ \A i \in 1..(Len(path) - 1) : path[i] \in Segments
        BY <1>1, <2>2, EmptySeq, ElementOfSeq
      <4> QED
        BY <4>1, SubSeqProperties DEF Popped
    <3> QED
      BY <1>3, <2>2, <3>1, PathInv DEF PopPath
  <2> QED
    BY <2>1, <2>2
<1>4. ASSUME NEW m \in Messages, AddError(m) PROVE CInv'
  <2>1. [path |-> path, message |-> m] \in Cells
    BY <1>1 DEF Cells
  <2> QED
    BY <1>4, <2>1, RecordInv DEF AddError
<1>5. ASSUME NEW m \in Messages, NEW seg \in Segments, AddFieldError(<<seg>>, m) PROVE CInv'
  <2> DEFINE p == IF <<seg>> = <<>> THEN path ELSE <<seg>>
  <2>1. p \in Seq(Segments)
    BY <1>1
  <2> HIDE DEF p
  <2>2. [path |-> p, message |-> m] \in Cells
    BY <2>1 DEF Cells
  <2>3. Record([path |-> p, message |-> m])
    BY <1>5 DEF AddFieldError, p
  <2> QED
    BY <2>2, <2>3, RecordInv
<1>6. CASE UNCHANGED vars
  BY <1>1, <1>6, PathInv DEF vars
<1> QED
  BY <1>2, <1>3, <1>4, <1>5, <1>6, ErrorInv, ExtendInv, ResetInv DEF Next

---------------------------------------------------------------------------
(* The errors of a context are those recorded since its last Reset, for     *)
(* any number of them, as long as nobody extends an error it was handed.    *)
THEOREM Reports == Spec => []ErrorsComplete
<1>1. CInv => ErrorsComplete
  <2> SUFFICES ASSUME CInv, \A h \in DOMAIN held : ~held[h].extended
               PROVE  Contents(errs) = recorded
    BY DEF ErrorsComplete
  <2>1. /\ Contents(errs) \in Seq(Cells) /\ Len(Contents(errs)) = errs.len
        /\ \A i \in 1..errs.len : Contents(errs)[i] = heap[errs.arr][i]
    BY ContentsIs DEF CInv, Typing
  <2>2. recorded \in Seq(Cells) /\ errs.len = Len(recorded) /\ Says(heap, errs, recorded)
    BY DEF CInv, Typing, ReportedInv
  <2> QED
    BY <2>1, <2>2, SeqEqual DEF Says
<1> QED
  BY <1>1, InitInv, NextInv, PTL DEF Spec

(* A ValidationError keeps saying what it said, whatever the context       *)
(* records and its holder appends, until the context is reset or another    *)
(* holder extends its error.                                               *)
THEOREM StillSaid == Spec => []HeldUntilReset
<1>1. CInv => HeldUntilReset
  <2> SUFFICES ASSUME CInv, NEW h \in DOMAIN held, ~held[h].reset,
                      \A k \in DOMAIN held \ {h} : ~held[k].extended
               PROVE  StillSays(h)
    BY DEF HeldUntilReset
  <2> DEFINE all == Contents(held[h].slice)
             said == held[h].said
  <2>1. /\ IsSlice(heap, held[h].slice) /\ heap \in Seq(Seq(Cells))
        /\ held[h] \in Holders /\ Says(heap, held[h].slice, said)
    BY ElementOfSeq, LenProperties DEF CInv, Typing, HeldInv
  <2>2. /\ all \in Seq(Cells) /\ Len(all) = held[h].slice.len
        /\ \A i \in 1..held[h].slice.len : all[i] = heap[held[h].slice.arr][i]
    BY <2>1, ContentsIs
  <2>3. /\ said \in Seq(Cells) /\ Len(said) \in Nat /\ held[h].slice.len \in Nat
        /\ Len(said) <= held[h].slice.len
    BY <2>1, LenProperties DEF Holders, Says, Slices
  <2>4. \A i \in 1..Len(said) : all[i] = said[i] /\ all[i] \in Cells
    BY <2>1, <2>2, <2>3, ElementOfSeq DEF Says
  <2> HIDE DEF all, said
  <2>5. /\ SubSeq(all, 1, Len(said)) \in Seq(Cells) /\ Len(SubSeq(all, 1, Len(said))) = Len(said)
        /\ \A i \in 1..Len(said) : SubSeq(all, 1, Len(said))[i] = all[i]
    BY <2>3, <2>4, SubSeqProperties
  <2>6. SubSeq(all, 1, Len(said)) = said
    BY <2>3, <2>4, <2>5, SeqEqual
  <2> QED
    BY <2>6 DEF StillSays, all, said
<1> QED
  BY <1>1, InitInv, NextInv, PTL DEF Spec

---------------------------------------------------------------------------
(* The format registry.                                                    *)
(* A schema in use is built, and a bound one is called with what it was     *)
(* bound to; only a lazy one is looked up again.                           *)
BindingInv ==
  \A t \in Threads :
    /\ at[t] # "idle" => schema[t] # NoSchema
    /\ schema[t] # NoSchema => bound[schema[t]] # Unbuilt
    /\ at[t] \in {"first", "second"} => bound[schema[t]] = Lazy
    /\ at[t] = "call" /\ bound[schema[t]] # Lazy => func[t] = bound[schema[t]]

(* What was known when a validation began, and what its first lookup found, *)
(* is still registered.                                                    *)
GrowthInv ==
  \A t \in Threads :
    /\ \A f \in known[t] : formats[f] # NoFunc
    /\ at[t] = "second" => formats[Name[schema[t]]] # NoFunc
    /\ at[t] = "call" => func[t] # NoFunc

RInv == RegistryTypeOK /\ BindingInv /\ GrowthInv /\ OutcomeJustified /\ \A t \in Threads : outcome[t] # "panic"

---------------------------------------------------------------------------
LEMMA RegistryInitInv == RegistryInit => RInv
  BY RegistryAssumption
     DEF RegistryInit, RInv, RegistryTypeOK, BindingInv, GrowthInv, OutcomeJustified, Unbuilt, Lazy

LEMMA RegisterInv ==
  ASSUME NoFunc \notin Registrable, RInv,
         NEW f \in Formats, NEW v \in Registrable, RegisterFormat(f, v)
  PROVE  RInv'
<1>1. /\ v \in Validators /\ v # NoFunc
      /\ \A g \in Formats : formats'[g] = IF g = f THEN v ELSE formats[g]
      /\ UNCHANGED <<bound, at, schema, func, outcome, known>>
  BY RegistryAssumption DEF RegisterFormat, RInv, RegistryTypeOK
<1>2. RegistryTypeOK'
  BY <1>1 DEF RegisterFormat, RInv, RegistryTypeOK
<1>3. BindingInv' /\ OutcomeJustified'
  BY <1>1 DEF RInv, BindingInv, OutcomeJustified
<1>4. GrowthInv'
  <2> SUFFICES ASSUME NEW t \in Threads
               PROVE  /\ \A g \in known[t] : formats'[g] # NoFunc
                      /\ at[t] = "second" => formats'[Name[schema[t]]] # NoFunc
                      /\ at[t] = "call" => func[t] # NoFunc
    BY <1>1 DEF GrowthInv
  <2>1. known[t] \subseteq Formats /\ (at[t] = "second" => Name[schema[t]] \in Formats)
    BY RegistryAssumption DEF RInv, RegistryTypeOK, BindingInv
  <2> QED
    BY <1>1, <2>1 DEF RInv, GrowthInv
<1> QED
  BY <1>1, <1>2, <1>3, <1>4 DEF RInv

LEMMA BuildInv ==
  ASSUME RInv, NEW s \in Schemas, FormatString(s)
  PROVE  RInv'
<1>1. /\ bound[s] = Unbuilt /\ UNCHANGED <<formats, at, schema, func, outcome, known>>
      /\ bound' = [bound EXCEPT ![s] = Binding(formats[Name[s]])]
      /\ Binding(formats[Name[s]]) \in Validators \cup {Lazy}
  BY RegistryAssumption DEF FormatString, RInv, RegistryTypeOK, Binding
<1>2. RegistryTypeOK'
  BY <1>1 DEF RInv, RegistryTypeOK
<1>3. \A t \in Threads : schema[t] # NoSchema => bound'[schema[t]] = bound[schema[t]]
  BY <1>1 DEF RInv, RegistryTypeOK, BindingInv
<1>4. BindingInv' /\ OutcomeJustified'
  BY <1>1, <1>3 DEF RInv, BindingInv, OutcomeJustified
<1> QED
  BY <1>1, <1>2, <1>4 DEF RInv, GrowthInv

LEMMA ValidateInv ==
  ASSUME RInv, NEW t \in Threads, NEW s \in Schemas, Validate(t, s)
  PROVE  RInv'
<1>1. /\ bound[s] # Unbuilt /\ at[t] = "idle" /\ s # NoSchema
      /\ schema' = [schema EXCEPT ![t] = s] /\ outcome' = [outcome EXCEPT ![t] = "none"]
      /\ known' = [known EXCEPT ![t] = {f \in Formats : formats[f] # NoFunc}]
      /\ UNCHANGED <<formats, bound>>
  BY RegistryAssumption DEF Validate, Move
<1>2. \/ /\ bound[s] = Lazy
         /\ at' = [at EXCEPT ![t] = "first"] /\ func' = [func EXCEPT ![t] = NoFunc]
      \/ /\ bound[s] \in Validators
         /\ at' = [at EXCEPT ![t] = "call"] /\ func' = [func EXCEPT ![t] = bound[s]]
  BY <1>1 DEF Validate, Move, Appended, RInv, RegistryTypeOK, Unbuilt
<1>3. RegistryTypeOK'
  BY <1>1, <1>2 DEF RInv, RegistryTypeOK
<1>4. BindingInv' /\ GrowthInv' /\ OutcomeJustified' /\ \A u \in Threads : outcome'[u] # "panic"
  BY <1>1, <1>2, RegistryAssumption
     DEF RInv, RegistryTypeOK, BindingInv, GrowthInv, OutcomeJustified, Lazy
<1> QED
  BY <1>3, <1>4 DEF RInv

LEMMA WorkInv ==
  ASSUME RInv, NEW t \in Threads, Work(t)
  PROVE  RInv'
<1>1. UNCHANGED <<formats, bound, schema, known>>
  BY DEF Work, FirstLookup, SecondLookup, Call
<1>2. schema[t] \in Schemas /\ Name[schema[t]] \in Formats
  BY RegistryAssumption DEF RInv, RegistryTypeOK, BindingInv, Work, FirstLookup, SecondLookup, Call, Move
<1>3. CASE FirstLookup(t)
  <2>1. RegistryTypeOK'
    BY <1>3 DEF FirstLookup, Move, RInv, RegistryTypeOK
  <2>2. BindingInv' /\ GrowthInv'
    BY <1>1, <1>3 DEF FirstLookup, Found, Move, RInv, RegistryTypeOK, BindingInv, GrowthInv
  <2>3. OutcomeJustified' /\ \A u \in Threads : outcome'[u] # "panic"
    BY <1>1, <1>2, <1>3
       DEF FirstLookup, Found, Move, RInv, RegistryTypeOK, BindingInv, GrowthInv, OutcomeJustified
  <2> QED
    BY <2>1, <2>2, <2>3 DEF RInv
<1>4. CASE SecondLookup(t)
  <2>1. RegistryTypeOK'
    BY <1>2, <1>4 DEF SecondLookup, Move, RInv, RegistryTypeOK
  <2>2. BindingInv' /\ GrowthInv'
    BY <1>1, <1>4 DEF SecondLookup, Move, RInv, RegistryTypeOK, BindingInv, GrowthInv
  <2> QED
    BY <1>1, <1>4, <2>1, <2>2 DEF SecondLookup, RInv, OutcomeJustified
<1>5. CASE Call(t)
  <2>1. func[t] \in Validators /\ at[t] = "call" /\ outcome' = [outcome EXCEPT ![t] = func[t]]
    BY <1>5 DEF Call, Move, RInv, RegistryTypeOK, GrowthInv
  <2>2. RegistryTypeOK'
    BY <1>5, <2>1 DEF Call, Move, RInv, RegistryTypeOK
  <2>3. BindingInv' /\ GrowthInv'
    BY <1>1, <1>5 DEF Call, Move, RInv, RegistryTypeOK, BindingInv, GrowthInv
  <2>4. OutcomeJustified' /\ \A u \in Threads : outcome'[u] # "panic"
    BY <1>1, <2>1, RegistryAssumption DEF RInv, RegistryTypeOK, BindingInv, OutcomeJustified
  <2> QED
    BY <2>2, <2>3, <2>4 DEF RInv
<1> QED
  BY <1>3, <1>4, <1>5 DEF Work

---------------------------------------------------------------------------
LEMMA RegistryNextInv ==
  ASSUME NoFunc \notin Registrable
  PROVE  RInv /\ [RegistryNext]_registryVars => RInv'
<1>1. RInv /\ UNCHANGED registryVars => RInv'
  BY DEF registryVars, RInv, RegistryTypeOK, BindingInv, GrowthInv, OutcomeJustified
<1> QED
  BY <1>1, RegisterInv, BuildInv, ValidateInv, WorkInv DEF RegistryNext

(* With validators registered in any order and at any time, but never nil,  *)
(* a format that is registered when a validation begins is not unknown to   *)
(* it, and a schema that was bound keeps its validator.                    *)
THEOREM Justified ==
  ASSUME NoFunc \notin Registrable
  PROVE  RegistrySpec => []OutcomeJustified
<1>1. RInv /\ [RegistryNext]_registryVars => RInv'
  BY RegistryNextInv
<1>2. RInv => OutcomeJustified
  BY DEF RInv
<1> QED
  BY <1>1, <1>2, RegistryInitInv, PTL DEF RegistrySpec

(* The two lookups of a lazy schema are not atomic, yet its validation     *)
(* never calls the nil function, for the registry only grows.              *)
THEOREM NeverCallsNil ==
  ASSUME NoFunc \notin Registrable
  PROVE  RegistrySpec => [](\A t \in Threads : outcome[t] # "panic")
<1>1. RInv /\ [RegistryNext]_registryVars => RInv'
  BY RegistryNextInv
<1>2. RInv => \A t \in Threads : outcome[t] # "panic"
  BY DEF RInv
<1> QED
  BY <1>1, <1>2, RegistryInitInv, PTL DEF RegistrySpec
===========================================================================
