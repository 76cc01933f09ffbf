--------------------------- MODULE MCNativeViewer ---------------------------
(* Two rows, two columns, and one more name to type. *)
EXTENDS NativeViewer

CONSTANTS First, Total, Note

TwoColumns == <<First, Total>>

OneName == {Note}

=============================================================================
