---------------------------- MODULE PhoneNumbers ----------------------------
(***************************************************************************)
(* The normalisation of telephone numbers, phone.go.  A text is a sequence *)
(* of characters.  A format is a regular expression of that table: a       *)
(* sequence of repetitions, each of characters of one set.  Formats that   *)
(* another format of the same country includes are left out.               *)
(***************************************************************************)
EXTENDS Naturals, Sequences, SequencesExt

Digits == {"0", "1", "2", "3", "4", "5", "6", "7", "8", "9"}

Many(of, m, n) == [of |-> of, min |-> m, max |-> n]
D(n) == Many(Digits, n, n)
Ds(m, n) == Many(Digits, m, n)
One(c) == Many({c}, 1, 1)
Opt(c) == Many({c}, 0, 1)
Sep == Many({"-", ".", " "}, 0, 1)
Spaces == Many({" "}, 1, 9)

Code == [US |-> <<"1">>, UK |-> <<"4", "4">>, MX |-> <<"5", "2">>, AR |-> <<"5", "4">>,
         BR |-> <<"5", "5">>, CL |-> <<"5", "6">>, CO |-> <<"5", "7">>, PE |-> <<"5", "1">>,
         VE |-> <<"5", "8">>, BO |-> <<"5", "9", "1">>, GY |-> <<"5", "9", "2">>,
         EC |-> <<"5", "9", "3">>, GF |-> <<"5", "9", "4">>, PY |-> <<"5", "9", "5">>,
         SR |-> <<"5", "9", "7">>, UY |-> <<"5", "9", "8">>]
Countries == DOMAIN Code
Upper(c) == IF c = "ar" THEN "AR" ELSE c       \* one that is not in capitals

NormalizedLen ==
  [US |-> 10, AR |-> 10, BR |-> 11, BO |-> 8, CL |-> 9, CO |-> 10, EC |-> 9, GF |-> 9, GY |-> 7,
   PY |-> 9, PE |-> 9, SR |-> 7, UY |-> 8, VE |-> 10, UK |-> 10, MX |-> 10]

(* The country's code, and the code with its last digit optional.          *)
Full(c) == <<Opt("+")>> \o [i \in DOMAIN Code[c] |-> One(Code[c][i])]
Loose(c) ==
  LET n == Len(Code[c]) IN
  <<Opt("+")>> \o [i \in 1..n |-> IF i = n THEN Opt(Code[c][i]) ELSE One(Code[c][i])]

Area == <<Opt("("), Opt("0"), D(2), Opt(")"), Sep>>
Formats == [
  US |-> {Loose("US") \o <<Sep, Opt("("), D(3), Opt(")"), Sep, D(3), Sep, D(4)>>},
  AR |-> {Full("AR") \o <<Sep, One("9"), Sep, Ds(2, 4), Sep, D(4), Sep, D(4)>>,
          Full("AR") \o <<Sep, One("9"), Sep, Ds(2, 4), Sep, Ds(6, 8)>>,
          Full("AR") \o <<Spaces, One("9"), Spaces, D(2), Spaces, D(4), Spaces, D(4)>>,
          <<Opt("0"), Ds(2, 4), Sep, One("1"), One("5"), Sep, Ds(3, 4), Sep, Ds(3, 4)>>,
          <<One("1"), One("5"), Sep, Ds(3, 4), Sep, Ds(3, 4)>>,
          <<Opt("0"), Ds(2, 4), One("1"), One("5"), Ds(6, 8)>>,
          <<Ds(10, 11)>>},
  BR |-> {Loose("BR") \o <<Sep>> \o Area \o <<Opt("9"), Ds(4, 5), Sep, D(4)>>,
          Area \o <<Opt("9"), Ds(4, 5), Sep, D(4)>>},
  BO |-> {Loose("BO") \o <<Sep, Many({"6", "7"}, 1, 1), D(7)>>,
          <<Many({"6", "7"}, 1, 1), D(7)>>,
          Loose("BO") \o <<Sep, Many({"2", "3", "4"}, 1, 1), D(6)>>},
  CL |-> {Full("CL") \o <<Sep, One("9"), Sep, D(4), Sep, D(4)>>,
          <<Opt("0"), One("9"), Sep, D(4), Sep, D(4)>>},
  CO |-> {Full("CO") \o <<Sep, One("3"), D(2), Sep, D(3), Sep, D(4)>>,
          <<One("3"), D(2), Sep, D(3), Sep, D(4)>>},
  EC |-> {Loose("EC") \o <<Sep, Ds(8, 9)>>, <<Opt("0"), One("9"), D(8)>>},
  GF |-> {Loose("GF") \o <<Sep, One("6"), One("9"), One("4"), D(6)>>,
          <<Opt("0"), One("6"), One("9"), One("4"), D(6)>>,
          Loose("GF") \o <<Sep, One("5"), One("9"), One("4"), D(6)>>},
  GY |-> {Loose("GY") \o <<Sep, D(7)>>, <<One("6"), D(6)>>},
  PY |-> {Loose("PY") \o <<Sep, Ds(8, 9)>>, <<Opt("0"), One("9"), D(8)>>},
  PE |-> {Loose("PE") \o <<Sep, D(9)>>, <<One("9"), D(8)>>},
  SR |-> {Loose("SR") \o <<Sep, Ds(6, 7)>>, <<Many({"7", "8"}, 1, 1), D(6)>>},
  UY |-> {Full("UY") \o <<Sep, Opt("9"), D(1), Sep, D(3), Sep, D(3)>>,
          Full("UY") \o <<Sep, Opt("0"), One("9"), D(7)>>,
          <<Opt("0"), One("9"), D(1), Sep, D(3), Sep, D(3)>>,
          <<Opt("0"), One("9"), Ds(7, 8)>>},
  VE |-> {Loose("VE") \o <<Sep, D(10)>>, <<Opt("0"), One("4"), D(9)>>},
  UK |-> {Loose("UK") \o <<Sep, Opt("0"), One("7"), D(9)>>,
          <<Opt("0"), One("7"), D(9)>>,
          Loose("UK") \o <<Sep, Opt("("), Opt("0"), Ds(3, 4), Opt(")"), Sep, Ds(6, 7)>>},
  MX |-> {Loose("MX") \o <<Sep, Opt("1"), Sep, D(3), Sep, D(3), Sep, D(4)>>,
          <<D(3), Sep, D(3), Sep, D(4)>>}]

(* The positions that the first i repetitions of a format may have reached. *)
Matches(text, format) ==
  LET reached[i \in 0..Len(format)] ==
        IF i = 0 THEN {0}
        ELSE UNION {{q \in (p + format[i].min)..(p + format[i].max) :
                       q <= Len(text) /\ \A j \in (p + 1)..q : text[j] \in format[i].of} :
                      p \in reached[i - 1]}
  IN Len(text) \in reached[Len(format)]

(* The characters of a text that are in C.                                 *)
Keeping(s, C) ==
  LET kept[i \in 0..Len(s)] ==
        IF i = 0 THEN <<>> ELSE IF s[i] \in C THEN Append(kept[i - 1], s[i]) ELSE kept[i - 1]
  IN kept[Len(s)]

Space == {" ", "\t"}
TrimSpace(s) ==
  LET kept == {i \in DOMAIN s : s[i] \notin Space} IN
  IF kept = {} THEN <<>>
  ELSE SubSeq(s, CHOOSE i \in kept : \A j \in kept : i <= j, CHOOSE i \in kept : \A j \in kept : j <= i)
TrimPrefix(s, prefix) == IF IsPrefix(prefix, s) THEN SubSeq(s, Len(prefix) + 1, Len(s)) ELSE s
Ending(s, n) == SubSeq(s, Len(s) - n + 1, Len(s))

(* The first 15 behind the area code is dropped from a long number.        *)
Without15(d) ==
  LET at == {i \in 3..(Len(d) - 1) : d[i] = "1" /\ d[i + 1] = "5"} IN
  IF Len(d) <= 10 \/ at = {} THEN d
  ELSE LET i == CHOOSE j \in at : \A k \in at : j <= k IN
       SubSeq(d, 1, i - 1) \o SubSeq(d, i + 2, Len(d))

(* The national number a country's rule makes of the digits, as a set of   *)
(* at most one.  The rules go by the country as it is spelled.             *)
Rule(country, digits) ==
  LET d == TrimPrefix(digits, <<"0">>)
      n == Len(d) IN
  CASE country = "AR" -> LET e == Without15(d) IN IF Len(e) = 10 THEN {<<"9">> \o e} ELSE {}
    [] country = "BR" ->
         CASE n = 10 -> {SubSeq(d, 1, 2) \o <<"9">> \o SubSeq(d, 3, n)}
           [] n = 11 -> {d}
           [] OTHER -> {}
    [] country = "CL" -> IF n = 9 THEN {d} ELSE {}
    [] country = "CO" -> IF Len(digits) = 10 THEN {digits} ELSE {}
    [] country = "UY" ->
         CASE n = 8 /\ d[1] = "9" -> {d}
           [] n = 7 -> {<<"9">> \o d}
           [] n = 9 /\ IsPrefix(<<"9", "9">>, d) -> {Tail(d)}
           [] OTHER -> {}
    [] OTHER ->
         LET len == NormalizedLen[Upper(country)] IN
         IF Len(digits) >= len THEN {Ending(digits, len)} ELSE {}

(* What becomes of a text does not depend on the format it matches.        *)
NormalizeForCountry(phone, country) ==
  LET c == Upper(country)
      text == TrimSpace(phone)
      digits == Keeping(text, Digits)
      national == TrimPrefix(digits, Code[c])
      spaced == /\ country = "AR" /\ IsPrefix(<<"+", "5", "4", " ", "9", " ">>, text)
                /\ Len(national) = 11 /\ national[1] = "9" IN
  IF c \notin Countries \/ \A f \in Formats[c] : ~Matches(text, f) THEN {}
  ELSE {<<"+">> \o Code[c] \o n : n \in IF spaced THEN {national} ELSE Rule(country, national)}

\* A table that knows the region of a prefix, and not its country.
MutDetectCountry(phone, default) ==
  LET found == {c \in Countries : IsPrefix(<<"+", Code[c][1]>>, phone)} IN
  IF found = {} THEN {default} ELSE found

(* The countries the range over a map may find: their prefixes come first, *)
(* and every rule behind it answers with the default.                      *)
DetectCountry(phone, default) ==
  LET found == {c \in Countries : IsPrefix(<<"+">> \o Code[c], phone)} IN
  IF found = {} THEN {default} ELSE found

Cleaned(text) == Keeping(text, Digits \cup {"+"})

(* What NormalizePhone may return; nothing is an error.                    *)
NormalizePhone(text, default) ==
  LET asDefault == NormalizeForCountry(text, default)
      found == DetectCountry(Cleaned(text), default) IN
  IF asDefault # {} THEN asDefault ELSE UNION {NormalizeForCountry(text, c) : c \in found}
=============================================================================
