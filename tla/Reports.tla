------------------------------ MODULE Reports ------------------------------
(***************************************************************************)
(* The financial reports, as functions of the posted journal lines, and    *)
(* the profit and loss report as the code computes it: revenue and         *)
(* expenses are two SELECTs, and at READ COMMITTED a posting can commit     *)
(* between them.                                                           *)
(***************************************************************************)
EXTENDS ExchangeRates, Integers, FiniteSetsExt

---------------------------------------------------------------------------
(* Sums over the lines of posted entries with entry_date in from..to *)

Sum(lines) == MapThenSumSet(LAMBDA e : e.amount, lines)

Debits(accounts, from, to) ==
  Sum({e \in entries : e.debit \in accounts /\ e.date \in from..to})

Credits(accounts, from, to) ==
  Sum({e \in entries : e.credit \in accounts /\ e.date \in from..to})

OfType(type) == {a \in Accounts : TypeOf[a] = type}

\* get_dashboard, get_profit_and_loss and get_expenses_by_category
Income(from, to)   == Credits(OfType("revenue"), from, to)
Expenses(from, to) == Debits(OfType("expense"), from, to)

NetIncome(from, to) == Income(from, to) - Expenses(from, to)

\* get_cash_flow
CashFlow(from, to) == Debits(payable, from, to) - Credits(payable, from, to)

\* Mutant: accounts that were deactivated are left out of the balance sheet.
BalanceOfActive(type, asOf) ==
  Debits(OfType(type) \cap active, 1, asOf) - Credits(OfType(type) \cap active, 1, asOf)

\* Debits less credits of a type, from the first entry on.
Balance(type, asOf) == Debits(OfType(type), 1, asOf) - Credits(OfType(type), 1, asOf)

\* get_balance_sheet
CurrentEarnings(asOf) == -Balance("revenue", asOf) - Balance("expense", asOf)
TotalAssets(asOf)      == Balance("asset", asOf)
TotalLiabilities(asOf) == -Balance("liability", asOf)
TotalEquity(asOf)      == -Balance("equity", asOf) + CurrentEarnings(asOf)

---------------------------------------------------------------------------
(* Reading a profit and loss report *)

\* start is a history variable: the net income when the report began.
ReadRevenue(p, from, to) ==
  /\ Begin(p, [step |-> "revenue", from |-> from, to |-> to,
               revenue |-> Income(from, to), start |-> NetIncome(from, to)])
  /\ UNCHANGED <<plan, today, rate, active, payable, entries>>

\* Mutant: the expenses are read first, the revenue last.
ReadExpensesFirst(p) ==
  LET t == tx[p] IN
  /\ t.step = "revenue"
  /\ Moves(p, [step |-> "shown", net |-> Income(t.from, t.to) - (t.revenue - t.start),
               start |-> t.start, end |-> NetIncome(t.from, t.to)])

ReadExpenses(p) ==
  LET t == tx[p] IN
  /\ t.step = "revenue"
  /\ Moves(p, [step |-> "shown", net |-> t.revenue - Expenses(t.from, t.to),
               start |-> t.start, end |-> NetIncome(t.from, t.to)])

Finish(p) ==
  /\ tx[p].step = "shown"
  /\ Moves(p, NoTx)

ReportsNext ==
  \/ BooksNext
  \/ \E p \in Requests :
       \/ \E from, to \in Days : from <= to /\ ReadRevenue(p, from, to)
       \/ ReadExpenses(p)
       \/ Finish(p)

ReportsSpec == BooksInit /\ [][ReportsNext]_vars

---------------------------------------------------------------------------
(* Properties *)

\* What was posted in a period from drafts whose category does not fit their
\* type.
Misfiled(from, to) == Sum({e \in entries : e.date \in from..to /\ ~Fits(plan[e.draft])})

\* Reports made from different queries tell one story.  The balance sheet of
\* any day balances, whatever was posted.  Profit and loss sums only credits
\* of revenue and only debits of expenses, current earnings sum both sides:
\* for every period they differ by no more than what misfiled drafts posted,
\* so they agree on a period without such a draft.  While only assets are
\* payment accounts, the cash flow is what the other asset accounts do not
\* explain.
ReportsAgree ==
  /\ \A asOf \in Days : TotalAssets(asOf) = TotalLiabilities(asOf) + TotalEquity(asOf)
  /\ \A from, to \in Days : from <= to =>
       NetIncome(from, to) - (CurrentEarnings(to) - CurrentEarnings(from - 1))
         \in -Misfiled(from, to)..Misfiled(from, to)
  /\ payable \subseteq OfType("asset") =>
       \A asOf \in Days :
         CashFlow(1, asOf) = TotalAssets(asOf)
           - (Debits(OfType("asset") \ payable, 1, asOf) - Credits(OfType("asset") \ payable, 1, asOf))

\* A profit and loss report that was read while entries were being posted may
\* show a profit the company never had, but never one above both the profit
\* when the report began and the profit when it was finished: revenue is read
\* first, and entries are only ever added.
ProfitNotOverstated ==
  \A p \in Requests : tx[p].step = "shown" => tx[p].net <= tx[p].start /\ tx[p].net <= tx[p].end
=============================================================================
