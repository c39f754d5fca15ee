------------------------------- MODULE Ledger -------------------------------
(***************************************************************************)
(* What the accounting backend promises about the books of its companies,  *)
(* stated without drafts, requests or transactions.  Each company has one  *)
(* ledger.  It only grows, by one entry at a time; the n-th entry carries   *)
(* the number n (the code prints it JE-00000n); an entry, once in the       *)
(* ledger, is never changed or removed.                                    *)
(*                                                                         *)
(* Nothing in the repository exposes an operation that edits or deletes a   *)
(* journal entry, so the only action is the posting of a new one.          *)
(***************************************************************************)
EXTENDS Naturals, Sequences

CONSTANTS
  Companies,   \* the companies that keep books
  Bodies       \* what an entry may say: source, accounts, poster

VARIABLE ledger

LedgerInit == ledger = [c \in Companies |-> <<>>]

Post(c, b) ==
  ledger' = [ledger EXCEPT ![c] =
               Append(@, [number |-> Len(ledger[c]) + 1, body |-> b])]

LedgerNext == \E c \in Companies, b \in Bodies : Post(c, b)

LedgerSpec == LedgerInit /\ [][LedgerNext]_ledger
=============================================================================
