------------------------- MODULE MCInboxExtraction -------------------------
(***************************************************************************)
(* Instances of InboxExtraction for TLC.                                   *)
(***************************************************************************)
EXTENDS InboxExtraction, TLC

AllOrigins == [source : {"web", "telegram"}, file : BOOLEAN]

Symmetry == Permutations(Workers) \cup Permutations(Clients)
=============================================================================
