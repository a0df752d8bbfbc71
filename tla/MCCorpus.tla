------------------------------ MODULE MCCorpus ------------------------------
EXTENDS Corpus, TLC

CONSTANTS t1, t2

Symmetry == Permutations(Uris) \cup Permutations(Savers)

(* The first text is one chunk, the second two. *)
TextChunks == (t1 :> 1) @@ (t2 :> 2)
=============================================================================
