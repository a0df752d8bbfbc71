------------------------- MODULE MCEmbeddedBackend -------------------------
(* Model-checking instances of EmbeddedBackend: the chunks k1 and k2       *)
(* belong to the first document, k3 to the second.                         *)
EXTENDS EmbeddedBackend

CONSTANTS d1, d2, k1, k2, k3

MCOwner == [k \in Key |-> IF k = k3 THEN d2 ELSE d1]

(* i1 and i2 are models of one dimension, i3 has another.                  *)
CONSTANT i3
MCDim == [i \in Identity |-> IF i = i3 THEN 8 ELSE 4]

=============================================================================
