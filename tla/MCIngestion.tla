---------------------------- MODULE MCIngestion ----------------------------
(***************************************************************************)
(* Model-checking instances of IngestionCoordinator.  Callers are          *)
(* interchangeable, and so are content fingerprints: no definition picks   *)
(* one of them.  Symmetry is used by the safety runs only.                 *)
(***************************************************************************)
EXTENDS IngestionCoordinator, TLC

CallersAndHashes == Permutations(Client) \cup Permutations(Hash)

=============================================================================
