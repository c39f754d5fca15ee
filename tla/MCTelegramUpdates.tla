------------------------- MODULE MCTelegramUpdates -------------------------
(* Instances of TelegramUpdates for TLC. *)
EXTENDS TelegramUpdates, TLC

Text(x)        == [kind |-> "text", content |-> x, value |-> TRUE]
Prose(x)       == [kind |-> "text", content |-> x, value |-> FALSE]
Photo(x)       == [kind |-> "photo", content |-> x, value |-> FALSE]
Button(k, d)   == [kind |-> k, draft |-> d]
Extract(x)     == [kind |-> "extract", content |-> x]
Other          == [kind |-> "other"]

\* Buttons and what answers them; the same text, and the same receipt, twice; an
\* extraction of the text before.
ThreeUpdates == UNION {
  {<<Button("edit", d), Text(x), Text(x)>>,
   <<Button("edit", d), Prose(x), Button("cancel", d)>>,
   <<Button("edit", d), Button("confirm", d), Text(x)>>,
   <<Text(x), Photo(x), Photo(x)>>,
   <<Other, Text(x), Extract(x)>>} : d \in Drafts, x \in Contents}

Symmetry == Permutations(Documents) \cup Permutations(Handlers) \cup Permutations(Drafts)
=============================================================================
