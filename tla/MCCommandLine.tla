--------------------------- MODULE MCCommandLine ---------------------------
(***************************************************************************)
(* CommandLine with the values TLC gives its constants.                    *)
(***************************************************************************)
EXTENDS CommandLine

\* Every input of up to five characters; words in every position and number;
\* lines around the length at which they are split.
ShortInputs == UNION {[1..n -> Chars] : n \in 0..5}

LongInputs ==
  { <<"get", " ", "x", ":", "x", " ", "x", "nl", "x", " ", "mget", " ", "*", "nl">>,
    <<"x", "x", "x", "x", "x", "x", "cr", "nl", "get", " ", "x", "nl">>,
    <<"get", " ", "x", " ", "*", " ", ":", "nl", "get", "nl">>,
    <<"x", "x", "x", "x", "x", "x", "nl", "get", " ", "x">>,
    <<"get", " ", " ", "x", "x", "cr", "nl", "get", " ", "x", " ", "x", "cr">> }

AllInputs == ShortInputs \cup LongInputs
=============================================================================
