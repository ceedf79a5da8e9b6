-------------------------- MODULE MCResponseFraming --------------------------
(***************************************************************************)
(* ResponseFraming and PassivePort with the values TLC gives their         *)
(* constants: replies of one line, of several, and to PASV, one after the  *)
(* other.                                                                  *)
(***************************************************************************)
EXTENDS PassivePort

OneLine == <<"2", "2", "1", " ", "text", "end">>
TwoLines == <<"2", "1", "1", "-", "text", "end", "2", "1", "1", " ", "end">>

\* 227 (h1,h2,h3,h4,p1,p2), which announces the port 256 * p1 + p2.
Address == <<"1", ",", "2", ",", "0", ",", "1", ",">>
Passive(p1, p2) ==
  <<"2", "2", "7", " ", "(">> \o Address \o p1 \o <<",">> \o p2 \o <<")", "end">>

TestStreams ==
  { OneLine \o OneLine,
    TwoLines \o OneLine \o OneLine,
    OneLine \o TwoLines,
    Passive(<<"7">>, <<"1", "2">>) \o OneLine,
    OneLine \o Passive(<<"0">>, <<"2", "2">>),
    Passive(<<" ", "2">>, <<"0">>) }
TestPorts == {7 * 256 + 12, 22, 2 * 256}
MultilineOnly == {TwoLines}
NoPorts == {}

\* The streams of a run announce its ports, as PortsAreAnnounced assumes
\* (PassivePortProofs).
ASSUME AnnouncedByStreams == WholeRepliesAnnounce
=============================================================================
