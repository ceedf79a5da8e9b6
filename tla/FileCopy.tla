------------------------------ MODULE FileCopy ------------------------------
(***************************************************************************)
(* What a transfer promises.  The source is a sequence of Size units, the  *)
(* i-th of which is i; the copy only grows, by units in their order, and a *)
(* reliable transfer leaves none out and reports success only of a whole   *)
(* copy.                                                                   *)
(***************************************************************************)
EXTENDS Naturals, Sequences

CONSTANT Size

VARIABLES
  copy,      \* the units that have arrived at the destination
  outcome,   \* what the user is told
  reliable   \* no unit may be left out

Ascending(s) == \A i, j \in 1..Len(s) : i < j => s[i] < s[j]
Gapless(s)   == \A i \in 1..Len(s) : s[i] = i

\* The copy may grow in this step, faithfully.
Grow ==
  /\ reliable' = reliable
  /\ copy' \in Seq(1..Size)
  /\ Len(copy) <= Len(copy') /\ \A i \in 1..Len(copy) : copy'[i] = copy[i]
  /\ IF reliable THEN Gapless(copy') ELSE Ascending(copy')

\* What was under way when the user was told of a failure may still arrive.
Progress == Grow /\ outcome # "ok" /\ outcome' = outcome

Succeed ==
  /\ outcome = "running" /\ Grow
  /\ outcome' = "ok" /\ (reliable => Len(copy') = Size)

Fail == outcome = "running" /\ Grow /\ outcome' = "failed"

Init == copy = <<>> /\ outcome = "running" /\ reliable \in BOOLEAN

Next == Progress \/ Succeed \/ Fail

Spec == Init /\ [][Next]_<<copy, outcome, reliable>>
=============================================================================
