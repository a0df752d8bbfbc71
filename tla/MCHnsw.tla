------------------------------- MODULE MCHnsw -------------------------------
(* Model-checking instances of HnswIndex: the marks of a Golomb ruler, no  *)
(* two pairs of which are equally far apart.                               *)
EXTENDS HnswIndex

MCMark == <<0, 10, 1, 4>>
MCFresh == <<12, 17>>
=============================================================================
