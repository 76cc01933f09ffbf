------------------------------ MODULE StoreRows ------------------------------
(***************************************************************************)
(* The rows of a CSV file that one column identifies, as merge reads them. *)
(* A row is a tuple whose first element is the value of the key column.    *)
(***************************************************************************)
EXTENDS Naturals, Sequences, SequencesExt

Keys(rows) == {rows[i][1] : i \in DOMAIN rows}

KeysDiffer(rows) == IsInjective([i \in DOMAIN rows |-> rows[i][1]])

\* The rows whose key is not known, in their order: one after the other is
\* written or skipped.
NewRows(rows, known) ==
    LET upTo[n \in 0..Len(rows)] ==
          IF n = 0 THEN <<>>
          ELSE IF rows[n][1] \in known THEN upTo[n - 1] ELSE Append(upTo[n - 1], rows[n])
    IN upTo[Len(rows)]

=============================================================================
