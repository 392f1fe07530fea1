---------------------------- MODULE MCParserPool ----------------------------
\* Two sessions over three parsers, and texts that succeed, fail and panic in
\* each of the places where the context is not what it was at the start.
EXTENDS ParserPool

MCTexts == {
  <<"str">>,
  <<"{", "str", "str">>,                                          \* fails after a key
  <<"{", "str", ":", "num", ",">>,                                \* panics
  <<"{", "str", ":", "{", "}", ",", "str", ":", "str", "}">>,     \* a member after an object
  <<"[", "{", "str", ":", "lit", "}", ",", "str", "bad", "]">> }    \* fails in an array
=============================================================================
