----------------------------- MODULE KeyedStore -----------------------------
(***************************************************************************)
(* What `append --in-place` and `merge --in-place` promise about the file  *)
(* they maintain: it goes in one step from one complete content to the     *)
(* next, existing rows stay where they are, and a merge adds exactly the   *)
(* incoming rows whose key is new.                                         *)
(***************************************************************************)
EXTENDS StoreRows

CONSTANTS Incoming,   \* the possible incoming files: sequences of <<key, version>>
          NoFile      \* what a missing file holds

VARIABLE file         \* the rows of the store, or NoFile

Init == file \in Incoming \cup {NoFile, <<>>}

Append_(incoming) == file # NoFile /\ file' = file \o incoming

Merge(incoming) ==
    /\ file # NoFile /\ KeysDiffer(file) /\ KeysDiffer(incoming)
    /\ file' = file \o NewRows(incoming, Keys(file))

Create(incoming) == file = NoFile /\ KeysDiffer(incoming) /\ file' = incoming

\* Another program makes the store.
MadeElsewhere == file = NoFile /\ file' \in Incoming

Next ==
    \/ \E incoming \in Incoming : Append_(incoming) \/ Merge(incoming) \/ Create(incoming)
    \/ MadeElsewhere

Spec == Init /\ [][Next]_file
=============================================================================
