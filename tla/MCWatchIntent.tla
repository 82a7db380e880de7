--------------------------- MODULE MCWatchIntent ---------------------------
(* WatchIntent with two requests at a time, for TLC. *)
EXTENDS WatchIntent, TLC

Symmetry == Permutations(Clients) \union Permutations(CreateKeys)
              \union Permutations(ConfirmKeys) \union Permutations(Intents)
=============================================================================
