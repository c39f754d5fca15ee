----------------------------- MODULE MCReports -----------------------------
(* Instances of Reports for TLC. *)
EXTENDS Reports, TLC

Chart == {"rent", "sales", "deposit", "bank"}

Kind == [a \in Chart |-> CASE a = "rent"    -> "expense"
                           [] a = "sales"   -> "revenue"
                           [] OTHER         -> "asset"]

Rent(t, n)     == [type |-> "expense", date |-> t, foreign |-> TRUE, amount |-> n,
                   category |-> "rent", payment |-> "bank"]
Sale(t, n)     == [Rent(t, n) EXCEPT !.type = "income", !.category = "sales"]
Refunded(t, n) == [Rent(t, n) EXCEPT !.type = "transfer", !.category = "deposit",
                                     !.foreign = FALSE]

\* A rent that a correction made an income, its category kept.
Misfile(t, n)  == [Rent(t, n) EXCEPT !.type = "income"]

CONSTANTS a, b

\* Two drafts of two days, a misfiled one beside a sale of its day, and a
\* transfer beside a sale.
TwoDrafts == {(a :> Rent(1, 1)) @@ (b :> Sale(3, 3)),
              (a :> Misfile(2, 1)) @@ (b :> Sale(2, 3)),
              (a :> Refunded(1, 2)) @@ (b :> Sale(2, 1))}

Symmetry == Permutations(Requests)
=============================================================================
