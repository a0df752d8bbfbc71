----------------------------- MODULE MCPostgres -----------------------------
EXTENDS PostgresService, TLC

CONSTANTS a, b

(* The two contents were embedded by different models. *)
Identities == (a :> "i1") @@ (b :> "i2")

Symmetry == Permutations(Clients) \cup Permutations(Connections)
=============================================================================
