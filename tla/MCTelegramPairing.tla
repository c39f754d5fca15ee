------------------------- MODULE MCTelegramPairing -------------------------
(* Instances of TelegramPairing for TLC. *)
EXTENDS TelegramPairing, TLC

Symmetry == Permutations(Connections) \cup Permutations(Pairings)
              \cup Permutations(Chats) \cup Permutations(Requests)
=============================================================================
