--------------------------- MODULE MCTransformers ---------------------------
\* Every transformer alone, some in a row, and telephone numbers put together
\* from the pieces that the formats of the larger countries tell apart.
EXTENDS TransformPipeline

Spelled(s) == [i \in 1..Len(s) |-> SubSeq(s, i, i)]
MCChars == ToSet(Spelled(" \t$,.+-/_:()<>0123456789")) \cup ToSet(Spelled("abdefhilmnoprstuyzAEFLNORSTUYZ"))
Two(n) == (IF n < 10 THEN "0" ELSE "") \o ToString(n)

(* Hours count from the first of March 2024.  On the tenth, Boston's clock  *)
(* goes from two to three o'clock, and Havana's from midnight to one.      *)
Fixed(off) == <<[at |-> 0, off |-> off]>>
MCChanges == "UTC" :> Fixed(0) @@ "+09:00" :> Fixed(9) @@ "-05:00" :> Fixed(0 - 5) @@ "-04:00" :> Fixed(0 - 4)
          @@ "Tokyo" :> Fixed(9)
          @@ "Boston" :> Append(Fixed(0 - 5), [at |-> 24 * 9 + 7, off |-> 0 - 4])
          @@ "Havana" :> Append(Fixed(0 - 5), [at |-> 24 * 9 + 5, off |-> 0 - 4])
MCLocations == {"UTC", "Tokyo", "Boston", "Havana"}
FixedZones == {"UTC", "+09:00", "-05:00", "-04:00"}
Zone == 0 :> "Z" @@ 9 :> "+09:00" @@ (0 - 5) :> "-05:00" @@ (0 - 4) :> "-04:00"
Day(t) == Two(DayOf(t) + 1)
MCWrite(layout, t) ==
  Spelled(CASE layout = "2006-01-02" -> "2024-03-" \o Day(t)
          [] layout = "01/02/2006" -> "03/" \o Day(t) \o "/2024"
          [] layout = "02/01/2006" -> Day(t) \o "/03/2024"
          [] layout \in {"RFC3339", "String"} ->
               "2024-03-" \o Day(t) \o "T" \o Two(Clock(t) % 24) \o ":00:00" \o Zone[OffsetAt(t.zone, t.at)])
Dated(layouts, times) == {[layout |-> l, text |-> MCWrite(l, t), time |-> t] : l \in layouts, t \in times}
Midnights == [at : {24 * d : d \in 0..14}, zone : {"UTC"}]
Instants(zones) == [at : {24 * d + h : d \in 9..10, h \in {0, 2, 12, 23}}, zone : zones]
MCReadings == Dated({"2006-01-02"}, Midnights) \cup Dated({"RFC3339"}, Instants(FixedZones))
         \cup Dated({"01/02/2006"}, Midnights)
         \cup Dated({"02/01/2006"}, {t \in Midnights : t.at >= 12 * 24})
MCMoments == {t \in [at : 0..(24 * 15), zone : DOMAIN MCChanges] : DayOf(t) \in 0..14}
MCCommon == <<"2006-01-02", "01/02/2006", "02/01/2006">>

Op(name) == [name |-> name]
Texts == {Spelled(s) : s \in {"", "tr", " True ", "of f", "o    f", "Yes", "$1,000", "1.5", "0", "a-1 o_e", "2024-1-2"}}
Values == {Text(s) : s \in Texts} \cup {Nil, Integer(0), Integer(12), Boolean(TRUE)}
          \cup {Float(15, 0 - 1), Float(25, 0 - 2), Float(3, 2), Float(0, 0)}
DateTexts == {Text(MCWrite(l, [at |-> 24 * d, zone |-> "UTC"])) : l \in ToSet(MCCommon), d \in {2, 12}}
             \cup {Text(MCWrite("RFC3339", t)) : t \in Instants(FixedZones)}
DateValues == {Time(t) : t \in Instants(DOMAIN MCChanges)} \cup DateTexts \cup {Text(Spelled("2024-1-2")), Text(Spelled("none of them")), Nil}

Moved == {v \in DateValues : Type(v) = "time" => v[2].zone \in {"+09:00", "Havana"}}

Plain == {Op(n) : n \in TextOps \ {"Replace", "Truncate", "PadLeft"}}
         \cup {Op(n) : n \in {"ToFloat64", "ToInt", "ToString", "ToBoolean", "Percentage", "FromPercentage"}}
         \cup {[name |-> "Replace", old |-> <<"o">>, new |-> <<"o", "f">>],
               [name |-> "Truncate", len |-> 2], [name |-> "PadLeft", len |-> 4, pad |-> "0"],
               [name |-> "Round", decimals |-> 0], [name |-> "Round", decimals |-> 1],
               [name |-> "Clamp", low |-> [m |-> 1, e |-> 0], high |-> [m |-> 2, e |-> 1]],
               [name |-> "Default", default |-> Integer(1)]}
Dates == {Op(n) : n \in {"StartOfDay", "EndOfDay", "ToISO8601"}}
         \cup {[name |-> "ToTimezone", location |-> l] : l \in MCLocations \cup {"Nowhere"}}
         \cup {[name |-> "ParseDate", from |-> "01/02/2006"],
               [name |-> "DateFormat", from |-> "RFC3339", to |-> "2006-01-02"]}
Chained == [name |-> "Chain", ops |-> <<Op("Trim"), Op("ToInt"), Op("ToString")>>]
Filled == [name |-> "Default", default |-> Text(<<"0">>)]
Optional == [name |-> "Conditional", when |-> {Nil}, then |-> Filled]
Rows == { <<Op("Trim"), Op("ToBoolean")>>, <<Op("RemoveCurrencySymbols"), Op("ToFloat64"), Op("Percentage")>>,
          <<Chained, [name |-> "Truncate", len |-> 1]>>, <<Optional, Op("ToInt")>>,
          <<[Optional EXCEPT !.then = Chained], Op("ToInt")>> }

Codes == {"", "+1", "1 ", "+54", "54 9 ", "+54 9 ", "+549", "+55", "55", "+56", "+57 ", "+598", "+591", "+595", "+44"}
Areas == {"", "11", "011", "(299) ", "9", "099", "3", "15-"}
Middles == {"", "15", " "}
Ends == {"12345678", "1234 5678", "1155678", "234-5678", "623456", "934567890"}
PhoneTexts ==
  {Text(Spelled(p \o a \o m \o e)) : p \in Codes, a \in Areas, m \in Middles, e \in Ends}
PhoneOps ==
  {[name |-> "NormalizePhone", country |-> c] : c \in {"US", "AR", "BR", "CL", "CO", "UY", "BO", "UK", "PY", "ar"}}
  \cup {[name |-> "NormalizePhoneWithCountry", country |-> "BR"], Op("FormatPhone")}

MCOps == Plain \cup Dates \cup PhoneOps \cup {Chained, Filled, Optional} \cup UNION {ToSet(r) : r \in Rows}
MCCases ==
  {[ops |-> <<o>>, inputs |-> Values] : o \in Plain}
  \cup {[ops |-> <<o>>, inputs |-> DateValues] : o \in Dates}
  \cup {[ops |-> <<o, p>>, inputs |-> Moved] : o, p \in Dates}
  \cup {[ops |-> r, inputs |-> Values] : r \in Rows}
  \cup {[ops |-> <<o>>, inputs |-> PhoneTexts] : o \in PhoneOps}
=============================================================================
