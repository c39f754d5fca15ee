--------------------------- MODULE MCDraftReview ---------------------------
(***************************************************************************)
(* Instances of DraftReview for TLC: one draft or two, of one company.     *)
(***************************************************************************)
EXTENDS DraftReview, TLC

CONSTANTS d1, d2, c1

OneDraft     == [d \in {d1} |-> c1]
OneCompany   == [d \in {d1, d2} |-> c1]

Expense(k) == [type |-> "expense", category |-> NoAccount, payment |-> NoAccount, key |-> k]

OneKey  == {Expense("k1")}

NoChange == [type |-> Keep, category |-> Keep, payment |-> Keep, key |-> Keep]

\* Choosing both accounts, as the dashboard does before an approval.
Classify == [NoChange EXCEPT !.category = "expense", !.payment = "bank"]
\* The same for income, switching the type with it.
Reclassify == [type |-> "income", category |-> "revenue", payment |-> "bank", key |-> Keep]
\* What a chat can send.
SetType == [NoChange EXCEPT !.type = "income"]

OnlyClassify   == {Classify}
PostingPatches == {Classify, Reclassify}
AllPatches     == PostingPatches \cup {SetType}

\* What an extraction may find the second time.
BothTypes == {[type |-> t, key |-> "k1"] : t \in {"expense", "income"}}
=============================================================================
