--------------------------- MODULE MCStoreUpdate ---------------------------
(* Two keys; the incoming files overlap in one, and one repeats a key. *)
EXTENDS StoreUpdate

MCIncoming == {<< <<"k1", "old">>, <<"k2", "old">> >>,
               << <<"k2", "new">>, <<"k3", "new">> >>,
               << <<"k1", "new">>, <<"k1", "old">> >>}
============================================================================
