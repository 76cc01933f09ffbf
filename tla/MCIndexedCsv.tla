---------------------------- MODULE MCIndexedCsv ----------------------------
(* Small instances of IndexedCsv: two paths, texts "", "A", "B" and "x". *)
EXTENDS IndexedCsv, TLC

CONSTANTS d1, d2        \* comma with quotes; pipe without a quoting character

MCLabel == <<"A", "B">>

\* A plain file, a ragged one whose first record is the narrower, a single column.
MCContent == {<< <<"x", "B">>, <<"B", "">> >>,
              << <<"x">>, <<"A", "x">> >>,
              << <<"x">>, <<"A">> >>,
              <<>>}

MCNeedsQuoting == {<<d2, "A">>}

MCSymmetry == Permutations(Path)
=============================================================================
