--------------------------- MODULE ExchangeRates ---------------------------
(***************************************************************************)
(* What posting does to the books of one company: the exchange rates it    *)
(* looks up, fetches and stores, the two accounts it checks, and the       *)
(* journal entry it writes in the base currency.                           *)
(*                                                                         *)
(* A posting is the part of approve_draft that DraftReview leaves out:     *)
(* create_journal_entry_from_draft with get_exchange_rate.  It runs        *)
(* between other postings, accounting staff who enter rates by hand, and   *)
(* changes of the chart of accounts.  rate, entries, active and payable    *)
(* hold committed rows; what a request has inserted and not committed is   *)
(* in tx.  Rate rows are never updated or deleted.                         *)
(*                                                                         *)
(* One foreign currency is modelled; rows of other currencies have other   *)
(* keys and never meet.  Amounts are integers; a rate is a number of       *)
(* RateScale-ths of the base currency.                                     *)
(***************************************************************************)
EXTENDS Naturals, FiniteSets

CONSTANTS
  Requests,      \* request handlers
  Drafts,        \* drafts a posting can be made from
  Plans,         \* the details the drafts may have
  Accounts,      \* the chart of accounts
  TypeOf,        \* the type of each account, which no operation changes
  Cash,          \* the accounts created with is_payment_account
  Quotes,        \* rates an operator may enter or the provider may answer
  Horizon,       \* bound: the last day of a behaviour
  FetchWindow,   \* FX_AUTO_FETCH_MAX_AGE_DAYS
  RateScale,
  MaxRequests    \* bound: requests in a behaviour

Days == 1..Horizon

NoRate == 0

\* A draft that can be posted has got both accounts from edit_draft, so each
\* was of a type that _validate_accounts takes, and they were not the same.
\* Nothing ties the category to the type: a correction from Telegram changes
\* the type of a draft and keeps its accounts, and posting checks only that
\* they are active.
Detail ==
  {f \in [type     : {"expense", "income", "transfer"},
          date     : Days,
          foreign  : BOOLEAN,
          amount   : Nat,
          category : Accounts,
          payment  : Accounts] :
     /\ TypeOf[f.category] \in {"expense", "revenue", "asset"}
     /\ TypeOf[f.payment] = "asset"
     /\ f.category # f.payment}

\* What edit_draft asks of a category; a draft need no longer meet it.
Fits(f) == TypeOf[f.category] = CASE f.type = "expense" -> "expense"
                                  [] f.type = "income"  -> "revenue"
                                  [] OTHER              -> "asset"

ASSUME BooksAssumption ==
  /\ TypeOf \in [Accounts -> {"asset", "liability", "equity", "revenue", "expense"}]
  /\ Cash \subseteq Accounts
  /\ Horizon \in Nat \ {0} /\ FetchWindow \in Nat /\ MaxRequests \in Nat
  /\ RateScale \in Nat \ {0}
  /\ Quotes \subseteq Nat \ {NoRate}
  /\ Plans \subseteq [Drafts -> Detail]

VARIABLES
  plan,      \* what each draft says; frozen while it is being posted
  today,     \* the server's date
  rate,      \* exchange_rates: the rate stored for each day, or NoRate
  active,    \* accounts with is_active
  payable,   \* accounts with is_payment_account
  entries,   \* posted journal entries with their two lines
  tx,        \* the open transaction of each request, or NoTx
  sent       \* requests made so far

vars == <<plan, today, rate, active, payable, entries, tx, sent>>

---------------------------------------------------------------------------
(* Types *)

NoTx == [step |-> "idle"]

Posting == [step   : {"checking", "looking", "fetching", "inserting", "searching", "quoted"},
            draft  : Drafts,
            rate   : Nat,
            answer : {"pending", "base", "exact", "older"},
            stores : BOOLEAN]

RateInsert == [step : {"adding"}, date : Days, rate : Quotes]

\* answer is a history variable: how get_exchange_rate found the rate.
Entry == [draft  : Drafts,
          date   : Days,
          debit  : Accounts,
          credit : Accounts,
          amount : Nat,
          rate   : Nat,
          answer : {"base", "exact", "older"}]

BooksTypeOK ==
  /\ plan \in [Drafts -> Detail]
  /\ today \in Days
  /\ rate \in [Days -> Quotes \cup {NoRate}]
  /\ active \subseteq Accounts
  /\ payable \subseteq Accounts
  /\ entries \subseteq Entry
  /\ sent \in Nat

---------------------------------------------------------------------------
(* Transactions *)

Posts(p, d) ==
  /\ tx[p].step \in {"checking", "looking", "fetching", "inserting", "searching", "quoted"}
  /\ tx[p].draft = d

\* p has inserted a rate for day t and has not committed it.
HoldsRate(p, t) ==
  \/ tx[p].step = "adding" /\ tx[p].date = t
  \/ tx[p].step = "quoted" /\ tx[p].stores /\ plan[tx[p].draft].date = t

\* The unique index makes a second insert for the day wait for the first.
Insertable(p, t) == \A q \in Requests \ {p} : ~HoldsRate(q, t)

Begin(p, record) ==
  /\ tx[p] = NoTx
  /\ sent < MaxRequests
  /\ sent' = sent + 1
  /\ tx' = [tx EXCEPT ![p] = record]

Moves(p, record) ==
  /\ tx' = [tx EXCEPT ![p] = record]
  /\ UNCHANGED <<plan, today, rate, active, payable, entries, sent>>

---------------------------------------------------------------------------
(* Posting a draft *)

\* _validate_account for the category.  The draft's row is locked, so no two
\* requests post a draft at one time; whether one can be posted twice is
\* DraftReview's question.
StartPosting(p, d) ==
  /\ \A q \in Requests : ~Posts(q, d)
  /\ \A e \in entries : e.draft # d
  /\ plan[d].category \in active
  /\ Begin(p, [step |-> "checking", draft |-> d, rate |-> NoRate,
               answer |-> "pending", stores |-> FALSE])
  /\ UNCHANGED <<plan, today, rate, active, payable, entries>>

\* Mutant: only the category account is looked at.
SkipPayment(p) ==
  /\ tx[p].step = "checking"
  /\ Moves(p, [tx[p] EXCEPT !.step = "looking"])

\* _validate_account for the payment account, a statement later.
CheckPayment(p) ==
  /\ tx[p].step = "checking"
  /\ plan[tx[p].draft].payment \in active
  /\ Moves(p, [tx[p] EXCEPT !.step = "looking"])

Answered(p, r, how, stores) ==
  Moves(p, [tx[p] EXCEPT !.step = "quoted", !.rate = r, !.answer = how, !.stores = stores])

\* The base currency needs no rate.
QuoteBase(p) ==
  /\ tx[p].step = "looking"
  /\ ~plan[tx[p].draft].foreign
  /\ Answered(p, RateScale, "base", FALSE)

\* The row stored for exactly the draft's date.
QuoteExact(p) ==
  LET f == plan[tx[p].draft] IN
  /\ tx[p].step = "looking"
  /\ f.foreign
  /\ rate[f.date] # NoRate
  /\ Answered(p, rate[f.date], "exact", FALSE)

\* None is stored: a recent date is fetched from the provider, any other one
\* falls back to an earlier row.
Recent(t) == t <= today /\ today - t <= FetchWindow

MissExact(p) ==
  LET f == plan[tx[p].draft] IN
  /\ tx[p].step = "looking"
  /\ f.foreign
  /\ rate[f.date] = NoRate
  /\ Moves(p, [tx[p] EXCEPT !.step = IF Recent(f.date) THEN "fetching" ELSE "searching"])

\* The provider answers with today's rate, whatever that is; when it fails
\* the posting is refused (Rollback), with no search for an earlier row.
FetchRate(p, r) ==
  /\ tx[p].step = "fetching"
  /\ Moves(p, [tx[p] EXCEPT !.step = "inserting", !.rate = r])

\* Mutant: the posting uses what it fetched, not what is stored.
StoreFetched(p) ==
  LET t == plan[tx[p].draft].date IN
  /\ tx[p].step = "inserting"
  /\ Insertable(p, t)
  /\ Answered(p, tx[p].rate, "exact", rate[t] = NoRate)

\* INSERT ... ON CONFLICT DO NOTHING, then the exact row is read again: the
\* row of a request that was faster wins over the rate just fetched.
StoreRate(p) ==
  LET t == plan[tx[p].draft].date IN
  /\ tx[p].step = "inserting"
  /\ Insertable(p, t)
  /\ IF rate[t] = NoRate THEN Answered(p, tx[p].rate, "exact", TRUE)
                         ELSE Answered(p, rate[t], "exact", FALSE)

\* The latest row on or before the date; with none the posting is refused.
QuoteOlder(p) ==
  LET stored == {t \in Days : t <= plan[tx[p].draft].date /\ rate[t] # NoRate} IN
  /\ tx[p].step = "searching"
  /\ \E t \in stored :
       /\ \A s \in stored : s <= t
       /\ Answered(p, rate[t], "older", FALSE)

\* quantize(..., ROUND_HALF_UP)
Converted(amount, r) == (2 * amount * r + RateScale) \div (2 * RateScale)

\* create_journal_entry_from_draft: one line on each side, of one amount.
EntryOf(d, r, how) ==
  LET spends == plan[d].type = "expense" IN
  [draft  |-> d,
   date   |-> plan[d].date,
   debit  |-> IF spends THEN plan[d].category ELSE plan[d].payment,
   credit |-> IF spends THEN plan[d].payment ELSE plan[d].category,
   amount |-> Converted(plan[d].amount, r),
   rate   |-> r,
   answer |-> how]

\* The entry, its lines and the rate row commit together.
CommitPosting(p) ==
  LET d == tx[p].draft IN
  /\ tx[p].step = "quoted"
  /\ entries' = entries \cup {EntryOf(d, tx[p].rate, tx[p].answer)}
  /\ rate' = IF tx[p].stores THEN [rate EXCEPT ![plan[d].date] = tx[p].rate] ELSE rate
  /\ tx' = [tx EXCEPT ![p] = NoTx]
  /\ UNCHANGED <<plan, today, active, payable, sent>>

---------------------------------------------------------------------------
(* Rates entered by hand, accounts, time *)

\* create_rate; for a day that has a row the unique index refuses it.
AddRate(p, t, r) ==
  /\ rate[t] = NoRate
  /\ Insertable(p, t)
  /\ Begin(p, [step |-> "adding", date |-> t, rate |-> r])
  /\ UNCHANGED <<plan, today, rate, active, payable, entries>>

CommitRate(p) ==
  /\ tx[p].step = "adding"
  /\ rate' = [rate EXCEPT ![tx[p].date] = tx[p].rate]
  /\ tx' = [tx EXCEPT ![p] = NoTx]
  /\ UNCHANGED <<plan, today, active, payable, entries, sent>>

\* Any exception: an account is not active, the provider fails, no rate is found, an entry number is
\* taken, a connection is lost.
Rollback(p) ==
  /\ tx[p].step \in {"checking", "looking", "fetching", "inserting", "searching", "quoted",
                     "adding"}
  /\ Moves(p, NoTx)

\* update_account writes the one flag it is asked to; the statement and the
\* commit are one step, as nobody waits for the row in between.
SwitchActive(a) ==
  /\ sent < MaxRequests
  /\ sent' = sent + 1
  /\ active' = IF a \in active THEN active \ {a} ELSE active \cup {a}
  /\ UNCHANGED <<plan, today, rate, payable, entries, tx>>

SwitchPayment(a) ==
  /\ sent < MaxRequests
  /\ sent' = sent + 1
  /\ payable' = IF a \in payable THEN payable \ {a} ELSE payable \cup {a}
  /\ UNCHANGED <<plan, today, rate, active, entries, tx>>

Midnight ==
  /\ today < Horizon
  /\ today' = today + 1
  /\ UNCHANGED <<plan, rate, active, payable, entries, tx, sent>>

---------------------------------------------------------------------------
BooksInit ==
  /\ plan \in Plans
  /\ today = 1
  /\ rate = [t \in Days |-> NoRate]
  /\ active = Accounts
  /\ payable = Cash
  /\ entries = {}
  /\ tx = [p \in Requests |-> NoTx]
  /\ sent = 0

BooksNext ==
  \/ \E p \in Requests :
       \/ \E d \in Drafts : StartPosting(p, d)
       \/ CheckPayment(p)
       \/ QuoteBase(p)
       \/ QuoteExact(p)
       \/ MissExact(p)
       \/ \E r \in Quotes : FetchRate(p, r)
       \/ StoreRate(p)
       \/ QuoteOlder(p)
       \/ CommitPosting(p)
       \/ \E t \in Days, r \in Quotes : AddRate(p, t, r)
       \/ CommitRate(p)
       \/ Rollback(p)
  \/ \E a \in Accounts : SwitchActive(a) \/ SwitchPayment(a)
  \/ Midnight

BooksSpec == BooksInit /\ [][BooksNext]_vars

---------------------------------------------------------------------------
(* Properties *)

\* The journal shows no rate the company has not stored: an entry whose rate
\* was looked up or fetched for its date carries the rate stored for that
\* date, so entries of one day agree however many postings fetched at once;
\* and any other foreign entry carries a stored rate of an earlier day.
EntriesCarryStoredRates ==
  \A e \in entries :
    /\ e.answer = "exact" => e.rate = rate[e.date]
    /\ e.answer = "older" => \E t \in Days : t <= e.date /\ rate[t] = e.rate /\ rate[t] # NoRate

\* The accounts that p, posting a draft, has found open.
SeenOpen(p) ==
  LET f == plan[tx[p].draft] IN
  CASE tx[p].step = "checking" -> {f.category}
    [] tx[p].step \in {"looking", "fetching", "inserting", "searching", "quoted"} ->
         {f.category, f.payment}
    [] OTHER -> {}

\* Account a is closed, and no posting that saw it open is still running.
Closed(a) == a \notin active /\ \A p \in Requests : a \notin SeenOpen(p)

\* Once an account is deactivated and the postings that saw it open are over,
\* nothing is posted to it until it is activated again, although the accounts
\* are read one after the other at the start of a posting and never locked.
\* The postings that saw it open do reach it: that is not excluded.
ClosedAccountsRest ==
  [][\A a \in Accounts : Closed(a) =>
       /\ \A e \in entries' \ entries : a \notin {e.debit, e.credit}
       /\ a \notin active' => Closed(a)']_vars
=============================================================================
