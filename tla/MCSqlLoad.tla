------------------------------ MODULE MCSqlLoad ------------------------------
(* Two loads of one destination, over a file with two contents under one     *)
(* header and a third under another.                                         *)
EXTENDS SqlLoad, TLC

CONSTANTS r1, r2

TwoRuns == {r1, r2}
ThreeCsvs == {[header |-> "x", rows |-> 1], [header |-> "x", rows |-> 2],
              [header |-> "y", rows |-> 3]}
RunsAreAlike == Permutations(TwoRuns)

=============================================================================
