--------------------------- MODULE ReportsProofs ---------------------------
(***************************************************************************)
(* The rates in the journal are the stored ones, nothing is posted to a    *)
(* closed account, and the reports agree, for any number of requests,      *)
(* drafts, accounts, days and entries.                                     *)
(*                                                                         *)
(* The inductive invariant says what a posting knows once it has its rate: *)
(* either the day's row is committed and is what it uses, or it has         *)
(* inserted the row itself, and then it is the only one to have done so.   *)
(***************************************************************************)
EXTENDS Reports, FiniteSetTheorems, WellFoundedInduction, TLAPS

PostingSteps == {"checking", "looking", "fetching", "inserting", "searching", "quoted"}

\* What a transaction record holds, by its step.
RequestOK(p) ==
  /\ tx[p].step \in PostingSteps => tx[p] \in Posting
  /\ tx[p].step = "inserting" => tx[p].rate \in Quotes
  /\ tx[p].step = "adding" => tx[p] \in RateInsert

\* A rate that a posting will write into its entry.
QuoteOK(p) ==
  LET t == plan[tx[p].draft].date IN
  tx[p].step = "quoted" =>
    /\ tx[p].answer # "pending"
    /\ tx[p].answer = "exact" /\ ~tx[p].stores => rate[t] = tx[p].rate /\ rate[t] # NoRate
    /\ tx[p].stores => tx[p].answer = "exact" /\ rate[t] = NoRate /\ tx[p].rate \in Quotes
    /\ tx[p].answer = "older" => \E s \in Days : s <= t /\ rate[s] = tx[p].rate /\ rate[s] # NoRate

AddingOK(p) == tx[p].step = "adding" => rate[tx[p].date] = NoRate

OneInsertPerDay ==
  \A p, q \in Requests : \A t \in Days : HoldsRate(p, t) /\ HoldsRate(q, t) => p = q

StoredForEntries ==
  \A e \in entries :
    /\ e.answer = "exact" => e.rate = rate[e.date] /\ rate[e.date] # NoRate
    /\ e.answer = "older" => \E t \in Days : t <= e.date /\ rate[t] = e.rate /\ rate[t] # NoRate

IInv ==
  /\ BooksTypeOK
  /\ tx = [p \in Requests |-> tx[p]]
  /\ \A p \in Requests : RequestOK(p) /\ QuoteOK(p) /\ AddingOK(p)
  /\ OneInsertPerDay
  /\ StoredForEntries

---------------------------------------------------------------------------
\* The initial states satisfy the invariant.
LEMMA IInvInit == BooksInit => IInv
  <1> SUFFICES ASSUME BooksInit PROVE IInv
    OBVIOUS
  <1> USE BooksAssumption DEF BooksInit, NoTx
  <1>1. BooksTypeOK
    <2>1. plan \in [Drafts -> Detail]
      OBVIOUS
    <2>2. today \in Days
      BY DEF Days
    <2> QED
      BY <2>1, <2>2 DEF BooksTypeOK
  <1>2. \A p \in Requests : tx[p].step = "idle"
    OBVIOUS
  <1>3. \A p \in Requests : RequestOK(p) /\ QuoteOK(p) /\ AddingOK(p)
    BY <1>2 DEF RequestOK, QuoteOK, AddingOK, PostingSteps
  <1>4. OneInsertPerDay
    BY <1>2 DEF OneInsertPerDay, HoldsRate
  <1>5. StoredForEntries
    BY DEF StoredForEntries
  <1> QED
    BY <1>1, <1>3, <1>4, <1>5 DEF IInv

---------------------------------------------------------------------------
(* Steps in which one transaction moves *)

\* The records of the requests after one of them has moved.
LEMMA OneMoves ==
  ASSUME tx = [q \in Requests |-> tx[q]], NEW p \in Requests, NEW r,
         tx' = [tx EXCEPT ![p] = r]
  PROVE  /\ tx'[p] = r
         /\ \A q \in Requests \ {p} : tx'[q] = tx[q]
         /\ tx' = [q \in Requests |-> tx'[q]]
  OBVIOUS

\* A transaction that has not inserted a rate, or inserts one it may insert,
\* moves and commits nothing.
LEMMA OthersKeep ==
  ASSUME IInv, NEW p \in Requests, NEW r,
         tx' = [tx EXCEPT ![p] = r],
         UNCHANGED <<plan, rate, entries>>,
         BooksTypeOK',
         (RequestOK(p) /\ QuoteOK(p) /\ AddingOK(p))',
         \A t \in Days : HoldsRate(p, t)' => HoldsRate(p, t) \/ Insertable(p, t)
  PROVE  IInv'
  <1>1. /\ \A q \in Requests \ {p} : tx'[q] = tx[q]
        /\ tx' = [q \in Requests |-> tx'[q]]
    BY OneMoves DEF IInv
  <1>2. \A q \in Requests : (RequestOK(q) /\ QuoteOK(q) /\ AddingOK(q))'
    <2> SUFFICES ASSUME NEW q \in Requests, q # p
                 PROVE  (RequestOK(q) /\ QuoteOK(q) /\ AddingOK(q))'
      OBVIOUS
    <2>1. RequestOK(q) /\ QuoteOK(q) /\ AddingOK(q)
      BY DEF IInv
    <2> QED
      BY <1>1, <2>1 DEF RequestOK, QuoteOK, AddingOK
  <1>3. OneInsertPerDay'
    <2> SUFFICES ASSUME NEW q1 \in Requests, NEW q2 \in Requests, NEW t \in Days,
                        HoldsRate(q1, t)', HoldsRate(q2, t)', q1 # q2
                 PROVE  FALSE
      BY DEF OneInsertPerDay
    <2>1. \A q \in Requests \ {p} : HoldsRate(q, t)' <=> HoldsRate(q, t)
      BY <1>1 DEF HoldsRate
    <2>2. q1 # p /\ q2 # p => FALSE
      BY <2>1 DEF IInv, OneInsertPerDay
    <2>3. ASSUME NEW q \in Requests \ {p}, HoldsRate(q, t), HoldsRate(p, t)'
          PROVE  FALSE
      BY <2>3 DEF Insertable, IInv, OneInsertPerDay
    <2> QED
      BY <2>1, <2>2, <2>3
  <1>4. StoredForEntries'
    BY DEF IInv, StoredForEntries
  <1> QED
    BY <1>1, <1>2, <1>3, <1>4 DEF IInv

\* A rate row, once there, is what it is for the others.
LEMMA OthersSurviveCommit ==
  ASSUME IInv, NEW p \in Requests,
         tx' = [tx EXCEPT ![p] = NoTx],
         UNCHANGED plan,
         \A t \in Days : rate'[t] = rate[t] \/ (rate[t] = NoRate /\ HoldsRate(p, t)),
         BooksTypeOK',
         StoredForEntries'
  PROVE  IInv'
  <1>1. /\ tx'[p] = NoTx
        /\ \A q \in Requests \ {p} : tx'[q] = tx[q]
        /\ tx' = [q \in Requests |-> tx'[q]]
    BY OneMoves DEF IInv
  <1>2. tx'[p].step = "idle"
    BY <1>1 DEF NoTx
  <1>3. ASSUME NEW q \in Requests
        PROVE  (RequestOK(q) /\ QuoteOK(q) /\ AddingOK(q))'
    <2>1. CASE q = p
      BY <1>2, <2>1 DEF RequestOK, QuoteOK, AddingOK, PostingSteps
    <2>2. CASE q # p
      <3>1. RequestOK(q) /\ QuoteOK(q) /\ AddingOK(q) /\ tx'[q] = tx[q]
        BY <1>1, <2>2 DEF IInv
      <3>2. \A t \in Days : HoldsRate(q, t) => rate'[t] = rate[t]
        BY <2>2 DEF IInv, OneInsertPerDay
      <3>3. \A t \in Days : rate[t] # NoRate => rate'[t] = rate[t]
        OBVIOUS
      <3>4. tx[q].step = "quoted" => plan[tx[q].draft].date \in Days
        BY <3>1 DEF RequestOK, PostingSteps, Posting, IInv, BooksTypeOK, Detail
      <3>5. QuoteOK(q)'
        <4> SUFFICES ASSUME tx[q].step = "quoted" PROVE QuoteOK(q)'
          BY <3>1 DEF QuoteOK
        <4> DEFINE t == plan[tx[q].draft].date
        <4>1. tx[q].stores => HoldsRate(q, t)
          BY DEF HoldsRate
        <4> QED
          BY <3>1, <3>2, <3>3, <3>4, <4>1 DEF QuoteOK
      <3>6. AddingOK(q)'
        <4>1. tx[q].step = "adding" => tx[q].date \in Days /\ HoldsRate(q, tx[q].date)
          BY <3>1 DEF RequestOK, RateInsert, HoldsRate
        <4> QED
          BY <3>1, <3>2, <4>1 DEF AddingOK
      <3> QED
        BY <3>1, <3>5, <3>6 DEF RequestOK
    <2> QED
      BY <2>1, <2>2
  <1>4. OneInsertPerDay'
    <2>1. \A q \in Requests, t \in Days : HoldsRate(q, t)' => q # p /\ HoldsRate(q, t)
      BY <1>1, <1>2 DEF HoldsRate
    <2> QED
      BY <2>1 DEF IInv, OneInsertPerDay
  <1> QED
    BY <1>1, <1>3, <1>4 DEF IInv

\* Steps that write no row keep the types.
LEMMA TypeKept ==
  ASSUME BooksTypeOK, UNCHANGED <<plan, today, rate, active, payable, entries, sent>>
  PROVE  BooksTypeOK'
  BY DEF BooksTypeOK

\* A transaction moves to a record that stands for no inserted rate.
LEMMA MoveHoldsNothing ==
  ASSUME IInv, NEW p \in Requests, NEW r,
         tx' = [tx EXCEPT ![p] = r],
         UNCHANGED <<plan, rate, entries>>,
         BooksTypeOK',
         r.step \notin {"quoted", "adding"},
         r.step \in PostingSteps => r \in Posting,
         r.step = "inserting" => r.rate \in Quotes
  PROVE  IInv'
  <1>1. tx'[p] = r
    BY OneMoves DEF IInv
  <1>2. (RequestOK(p) /\ QuoteOK(p) /\ AddingOK(p))'
    BY <1>1 DEF RequestOK, QuoteOK, AddingOK
  <1>3. \A t \in Days : ~HoldsRate(p, t)'
    BY <1>1 DEF HoldsRate
  <1> QED
    BY <1>2, <1>3, OthersKeep

\* A posting gets its answer; one that stores a rate may insert it.
LEMMA AnswerKeeps ==
  ASSUME IInv, NEW p \in Requests, tx[p].step \in PostingSteps,
         NEW x \in Nat, NEW how \in {"base", "exact", "older"}, NEW stores \in BOOLEAN,
         Answered(p, x, how, stores),
         how = "exact" /\ ~stores =>
           rate[plan[tx[p].draft].date] = x /\ rate[plan[tx[p].draft].date] # NoRate,
         stores => /\ how = "exact" /\ x \in Quotes
                   /\ rate[plan[tx[p].draft].date] = NoRate
                   /\ Insertable(p, plan[tx[p].draft].date),
         how = "older" => \E s \in Days :
           s <= plan[tx[p].draft].date /\ rate[s] = x /\ rate[s] # NoRate
  PROVE  IInv'
  <1> DEFINE r == [tx[p] EXCEPT !.step = "quoted", !.rate = x, !.answer = how, !.stores = stores]
  <1>1. tx[p] \in Posting
    BY DEF IInv, RequestOK
  <1>2. /\ r \in Posting /\ r.step = "quoted" /\ r.draft = tx[p].draft
        /\ r.rate = x /\ r.answer = how /\ r.stores = stores
    BY <1>1 DEF Posting
  <1>3. /\ tx' = [tx EXCEPT ![p] = r]
        /\ UNCHANGED <<plan, today, rate, active, payable, entries, sent>>
    BY DEF Answered, Moves
  <1> HIDE DEF r
  <1>4. tx'[p] = r
    BY <1>3, OneMoves DEF IInv
  <1>5. BooksTypeOK'
    BY <1>3, TypeKept DEF IInv
  <1>6. RequestOK(p)' /\ AddingOK(p)'
    BY <1>2, <1>4 DEF RequestOK, AddingOK
  <1>7. QuoteOK(p)'
    BY <1>2, <1>3, <1>4 DEF QuoteOK
  <1>8. \A t \in Days : HoldsRate(p, t)' => Insertable(p, t)
    BY <1>2, <1>3, <1>4 DEF HoldsRate
  <1> QED
    BY <1>3, <1>5, <1>6, <1>7, <1>8, OthersKeep

---------------------------------------------------------------------------
(* The steps of a posting *)

\* A posting that begins holds nothing.
LEMMA StartPostingStep ==
  ASSUME IInv, NEW p \in Requests, NEW d \in Drafts, StartPosting(p, d)
  PROVE  IInv'
  <1> DEFINE r == [step |-> "checking", draft |-> d, rate |-> NoRate,
                   answer |-> "pending", stores |-> FALSE]
  <1>1. r \in Posting /\ r.step = "checking"
    BY DEF Posting, NoRate
  <1>2. /\ tx' = [tx EXCEPT ![p] = r]
        /\ UNCHANGED <<plan, today, rate, active, payable, entries>>
        /\ sent' = sent + 1
    BY DEF StartPosting, Begin
  <1> HIDE DEF r
  <1>3. BooksTypeOK'
    BY <1>2 DEF IInv, BooksTypeOK
  <1> QED
    BY <1>1, <1>2, <1>3, MoveHoldsNothing

\* The answers that read a committed row, or need none.
LEMMA QuoteStep ==
  ASSUME IInv, NEW p \in Requests, QuoteBase(p) \/ QuoteExact(p) \/ QuoteOlder(p)
  PROVE  IInv'
  <1> DEFINE t == plan[tx[p].draft].date
  <1>1. tx[p].step \in PostingSteps
    BY DEF QuoteBase, QuoteExact, QuoteOlder, PostingSteps
  <1>2. t \in Days /\ rate \in [Days -> Nat]
    BY <1>1, BooksAssumption DEF IInv, RequestOK, Posting, BooksTypeOK, Detail, NoRate
  <1>3. CASE QuoteBase(p)
    BY <1>1, <1>3, AnswerKeeps, BooksAssumption DEF QuoteBase
  <1>4. CASE QuoteExact(p)
    BY <1>1, <1>2, <1>4, AnswerKeeps DEF QuoteExact
  <1>5. CASE QuoteOlder(p)
    <2>1. PICK s \in Days : s <= t /\ rate[s] # NoRate /\ Answered(p, rate[s], "older", FALSE)
      BY <1>5 DEF QuoteOlder
    <2> QED
      BY <1>1, <1>2, <2>1, AnswerKeeps
  <1> QED
    BY <1>3, <1>4, <1>5

\* Neither the second check nor a miss nor a fetch holds a row.
LEMMA FetchStep ==
  ASSUME IInv, NEW p \in Requests,
         CheckPayment(p) \/ MissExact(p) \/ \E x \in Quotes : FetchRate(p, x)
  PROVE  IInv'
  <1>1. tx[p] \in Posting
    BY DEF IInv, RequestOK, CheckPayment, MissExact, FetchRate, PostingSteps
  <1>2. \E r : /\ tx' = [tx EXCEPT ![p] = r] /\ r \in Posting
               /\ r.step \notin {"quoted", "adding"}
               /\ r.step = "inserting" => r.rate \in Quotes
    <2>1. CASE CheckPayment(p) \/ MissExact(p)
      <3>1. PICK to \in {"looking", "fetching", "searching"} :
              tx' = [tx EXCEPT ![p] = [tx[p] EXCEPT !.step = to]]
        BY <2>1 DEF CheckPayment, MissExact, Moves
      <3>2. [tx[p] EXCEPT !.step = to] \in Posting /\ [tx[p] EXCEPT !.step = to].step = to
        BY <1>1 DEF Posting
      <3> QED
        BY <3>1, <3>2
    <2>2. CASE \E x \in Quotes : FetchRate(p, x)
      <3>1. PICK x \in Quotes : tx' = [tx EXCEPT ![p] = [tx[p] EXCEPT !.step = "inserting", !.rate = x]]
        BY <2>2 DEF FetchRate, Moves
      <3> DEFINE r == [tx[p] EXCEPT !.step = "inserting", !.rate = x]
      <3>2. r \in Posting /\ r.step = "inserting" /\ r.rate = x
        BY <1>1, BooksAssumption DEF Posting
      <3> QED
        BY <3>1, <3>2
    <2> QED
      BY <2>1, <2>2
  <1>3. UNCHANGED <<plan, today, rate, active, payable, entries, sent>>
    BY DEF CheckPayment, MissExact, FetchRate, Moves
  <1>4. BooksTypeOK'
    BY <1>3, TypeKept DEF IInv
  <1> QED
    BY <1>2, <1>3, <1>4, MoveHoldsNothing

\* The insert happens or finds the row of another request.
LEMMA StoreRateStep ==
  ASSUME IInv, NEW p \in Requests, StoreRate(p)
  PROVE  IInv'
  <1> DEFINE t == plan[tx[p].draft].date
  <1>1. tx[p].step \in PostingSteps /\ tx[p] \in Posting /\ tx[p].rate \in Quotes
    BY DEF StoreRate, PostingSteps, IInv, RequestOK
  <1>2. t \in Days /\ rate \in [Days -> Nat]
    BY <1>1, BooksAssumption DEF IInv, Posting, BooksTypeOK, Detail, NoRate
  <1>3. CASE rate[t] = NoRate
    BY <1>1, <1>3, AnswerKeeps, BooksAssumption DEF StoreRate
  <1>4. CASE rate[t] # NoRate
    BY <1>1, <1>2, <1>4, AnswerKeeps DEF StoreRate
  <1> QED
    BY <1>3, <1>4

\* Conversion yields an amount.
LEMMA ConvertedIsAmount ==
  ASSUME NEW n \in Nat, NEW x \in Nat
  PROVE  Converted(n, x) \in Nat
  <1>1. \A y \in Nat, z \in Nat \ {0} : y \div z \in Nat
    OBVIOUS
  <1>2. 2 * n * x + RateScale \in Nat
    <2>1. n * x \in Nat /\ 2 * n * x = 2 * (n * x)
      OBVIOUS
    <2> QED
      BY <2>1, BooksAssumption
  <1>3. 2 * RateScale \in Nat \ {0}
    BY BooksAssumption
  <1> QED
    BY <1>1, <1>2, <1>3 DEF Converted

\* An entry made of a draft is an entry.
LEMMA EntryOfType ==
  ASSUME BooksTypeOK, NEW d \in Drafts, NEW x \in Nat, NEW how \in {"base", "exact", "older"}
  PROVE  EntryOf(d, x, how) \in Entry
  <1>1. /\ plan[d].category \in Accounts /\ plan[d].payment \in Accounts
        /\ plan[d].date \in Days /\ plan[d].amount \in Nat
    BY DEF BooksTypeOK, Detail
  <1>2. Converted(plan[d].amount, x) \in Nat
    BY <1>1, ConvertedIsAmount
  <1> QED
    BY <1>1, <1>2 DEF EntryOf, Entry

\* The entry and the rate it carries commit together.
LEMMA CommitPostingStep ==
  ASSUME IInv, NEW p \in Requests, CommitPosting(p)
  PROVE  IInv'
  <1> DEFINE d == tx[p].draft
             t == plan[d].date
             e == EntryOf(d, tx[p].rate, tx[p].answer)
  <1>1. tx[p].step = "quoted" /\ tx[p] \in Posting /\ QuoteOK(p)
    BY DEF CommitPosting, IInv, RequestOK, PostingSteps
  <1>2. d \in Drafts /\ t \in Days /\ tx[p].rate \in Nat /\ tx[p].answer \in {"base", "exact", "older"}
    BY <1>1 DEF Posting, QuoteOK, IInv, BooksTypeOK, Detail
  <1>3. e \in Entry /\ e.date = t /\ e.rate = tx[p].rate /\ e.answer = tx[p].answer
    <2>1. e \in Entry
      BY <1>2, EntryOfType DEF IInv
    <2> QED
      BY <2>1 DEF EntryOf
  <1>4. /\ entries' = entries \cup {e}
        /\ rate' = IF tx[p].stores THEN [rate EXCEPT ![t] = tx[p].rate] ELSE rate
        /\ tx' = [tx EXCEPT ![p] = NoTx]
        /\ UNCHANGED <<plan, today, active, payable, sent>>
    BY DEF CommitPosting
  <1> HIDE DEF e
  <1>5. BooksTypeOK /\ StoredForEntries
    BY DEF IInv
  <1>6. tx[p].stores => rate[t] = NoRate /\ HoldsRate(p, t) /\ tx[p].rate \in Quotes
    BY <1>1 DEF QuoteOK, HoldsRate
  <1>7. BooksTypeOK'
    <2>1. rate' \in [Days -> Quotes \cup {NoRate}]
      BY <1>2, <1>4, <1>5, <1>6 DEF BooksTypeOK
    <2> QED
      BY <1>3, <1>4, <1>5, <2>1 DEF BooksTypeOK
  <1>8. \A s \in Days : rate'[s] = rate[s] \/ (rate[s] = NoRate /\ HoldsRate(p, s))
    <2> rate \in [Days -> Quotes \cup {NoRate}]
      BY <1>5 DEF BooksTypeOK
    <2>1. \A s \in Days \ {t} : rate'[s] = rate[s]
      BY <1>4
    <2>2. rate'[t] = rate[t] \/ tx[p].stores
      BY <1>4
    <2> QED
      BY <1>6, <2>1, <2>2
  <1>9. \A s \in Days : rate[s] # NoRate => rate'[s] = rate[s]
    BY <1>8
  <1>10. /\ tx[p].answer = "exact" => tx[p].rate = rate'[t] /\ rate'[t] # NoRate
         /\ tx[p].answer = "older" =>
              \E s \in Days : s <= t /\ rate'[s] = tx[p].rate /\ rate'[s] # NoRate
    <2>1. CASE tx[p].stores
      <3>1. rate'[t] = tx[p].rate /\ tx[p].rate # NoRate /\ tx[p].answer = "exact"
        BY <1>1, <1>2, <1>4, <1>5, <1>6, <2>1, BooksAssumption DEF BooksTypeOK, QuoteOK
      <3> QED
        BY <3>1
    <2>2. CASE ~tx[p].stores
      BY <1>1, <1>4, <2>2 DEF QuoteOK
    <2> QED
      BY <2>1, <2>2
  <1>11. StoredForEntries'
    <2>1. ASSUME NEW f \in entries
          PROVE  /\ f.answer = "exact" => f.rate = rate'[f.date] /\ rate'[f.date] # NoRate
                 /\ f.answer = "older" =>
                      \E s \in Days : s <= f.date /\ rate'[s] = f.rate /\ rate'[s] # NoRate
      <3>1. f.date \in Days
        BY <1>5 DEF BooksTypeOK, Entry
      <3> QED
        BY <1>5, <1>9, <3>1 DEF StoredForEntries
    <2> QED
      BY <1>3, <1>4, <1>10, <2>1 DEF StoredForEntries
  <1> QED
    BY <1>4, <1>7, <1>8, <1>11, OthersSurviveCommit

---------------------------------------------------------------------------
(* Rates entered by hand, roll-backs, accounts, reports *)

\* A rate entered by hand is inserted for a day without one.
LEMMA AddRateStep ==
  ASSUME IInv, NEW p \in Requests, NEW t \in Days, NEW x \in Quotes, AddRate(p, t, x)
  PROVE  IInv'
  <1> DEFINE r == [step |-> "adding", date |-> t, rate |-> x]
  <1>1. r \in RateInsert /\ r.step = "adding" /\ r.date = t
    BY DEF RateInsert
  <1>2. /\ tx' = [tx EXCEPT ![p] = r]
        /\ UNCHANGED <<plan, today, rate, active, payable, entries>>
        /\ sent' = sent + 1 /\ rate[t] = NoRate /\ Insertable(p, t)
    BY DEF AddRate, Begin
  <1> HIDE DEF r
  <1>3. tx'[p] = r
    BY <1>2, OneMoves DEF IInv
  <1>4. BooksTypeOK'
    BY <1>2 DEF IInv, BooksTypeOK
  <1>5. (RequestOK(p) /\ QuoteOK(p) /\ AddingOK(p))'
    BY <1>1, <1>2, <1>3 DEF RequestOK, QuoteOK, AddingOK, PostingSteps
  <1>6. \A s \in Days : HoldsRate(p, s)' => Insertable(p, s)
    BY <1>1, <1>2, <1>3 DEF HoldsRate
  <1> QED
    BY <1>2, <1>4, <1>5, <1>6, OthersKeep

\* It becomes the rate of its day.
LEMMA CommitRateStep ==
  ASSUME IInv, NEW p \in Requests, CommitRate(p)
  PROVE  IInv'
  <1> DEFINE t == tx[p].date
  <1>1. t \in Days /\ tx[p].rate \in Quotes /\ rate[t] = NoRate /\ HoldsRate(p, t)
    BY DEF CommitRate, IInv, RequestOK, AddingOK, RateInsert, HoldsRate
  <1>2. /\ rate' = [rate EXCEPT ![t] = tx[p].rate]
        /\ tx' = [tx EXCEPT ![p] = NoTx]
        /\ UNCHANGED <<plan, today, active, payable, entries, sent>>
    BY DEF CommitRate
  <1> HIDE DEF t
  <1>3. BooksTypeOK /\ StoredForEntries
    BY DEF IInv
  <1>4. BooksTypeOK'
    BY <1>1, <1>2, <1>3 DEF BooksTypeOK
  <1>5. \A s \in Days : rate'[s] = rate[s] \/ (rate[s] = NoRate /\ HoldsRate(p, s))
    <2> rate \in [Days -> Quotes \cup {NoRate}]
      BY <1>3 DEF BooksTypeOK
    <2>1. \A s \in Days \ {t} : rate'[s] = rate[s]
      BY <1>2
    <2> QED
      BY <1>1, <2>1
  <1>6. StoredForEntries'
    <2>1. \A f \in entries : f.date \in Days
      BY <1>3 DEF BooksTypeOK, Entry
    <2>2. \A s \in Days : rate[s] # NoRate => rate'[s] = rate[s]
      BY <1>5
    <2> QED
      BY <1>2, <1>3, <2>1, <2>2 DEF StoredForEntries
  <1> QED
    BY <1>2, <1>4, <1>5, <1>6, OthersSurviveCommit

\* A request that neither posts nor inserts afterwards.
LEMMA RecordStep ==
  ASSUME IInv, NEW p \in Requests, NEW r, tx' = [tx EXCEPT ![p] = r],
         r.step \notin PostingSteps, r.step # "adding",
         UNCHANGED <<plan, today, rate, active, payable, entries>>, sent' \in Nat
  PROVE  IInv'
  <1>1. BooksTypeOK'
    BY DEF IInv, BooksTypeOK
  <1> QED
    BY <1>1, MoveHoldsNothing DEF PostingSteps

\* Rolled-back transactions and reports.
LEMMA RollbackOrReportStep ==
  ASSUME IInv, NEW p \in Requests,
         \/ Rollback(p)
         \/ \E from, to \in Days : ReadRevenue(p, from, to)
         \/ ReadExpenses(p)
         \/ Finish(p)
  PROVE  IInv'
  <1>1. sent \in Nat
    BY DEF IInv, BooksTypeOK
  <1>2. CASE Rollback(p) \/ Finish(p)
    <2>1. NoTx.step \notin PostingSteps /\ NoTx.step # "adding"
      BY DEF NoTx, PostingSteps
    <2> QED
      BY <1>1, <1>2, <2>1, RecordStep DEF Rollback, Finish, Moves
  <1>3. CASE \E from, to \in Days : ReadRevenue(p, from, to)
    <2>1. PICK from \in Days, to \in Days : ReadRevenue(p, from, to)
      BY <1>3
    <2> DEFINE r == [step |-> "revenue", from |-> from, to |-> to,
                     revenue |-> Income(from, to), start |-> NetIncome(from, to)]
    <2>2. r.step \notin PostingSteps /\ r.step # "adding"
      BY DEF PostingSteps
    <2>3. /\ tx' = [tx EXCEPT ![p] = r] /\ sent' = sent + 1
          /\ UNCHANGED <<plan, today, rate, active, payable, entries>>
      BY <2>1 DEF ReadRevenue, Begin
    <2> HIDE DEF r
    <2>4. sent' \in Nat
      BY <1>1, <2>3
    <2> QED
      BY <2>2, <2>3, <2>4, RecordStep
  <1>4. CASE ReadExpenses(p)
    <2> DEFINE t == tx[p]
               r == [step |-> "shown", net |-> t.revenue - Expenses(t.from, t.to),
                     start |-> t.start, end |-> NetIncome(t.from, t.to)]
    <2>1. r.step \notin PostingSteps /\ r.step # "adding"
      BY DEF PostingSteps
    <2>2. /\ tx' = [tx EXCEPT ![p] = r]
          /\ UNCHANGED <<plan, today, rate, active, payable, entries, sent>>
      BY <1>4 DEF ReadExpenses, Moves
    <2> QED
      BY <1>1, <2>1, <2>2, RecordStep
  <1> QED
    BY <1>2, <1>3, <1>4

\* Accounts and time do not concern the invariant.
LEMMA QuietStep ==
  ASSUME IInv, UNCHANGED <<plan, rate, entries, tx>>, BooksTypeOK'
  PROVE  IInv'
  BY DEF IInv, RequestOK, QuoteOK, AddingOK, OneInsertPerDay, HoldsRate, StoredForEntries

\* Changes of accounts, and midnight.
LEMMA SwitchStep ==
  ASSUME IInv, Midnight \/ \E a \in Accounts : SwitchActive(a) \/ SwitchPayment(a)
  PROVE  IInv'
  <1>1. UNCHANGED <<plan, rate, entries, tx>>
    BY DEF Midnight, SwitchActive, SwitchPayment
  <1>2. BooksTypeOK
    BY DEF IInv
  <1>3. BooksTypeOK'
    <2>1. CASE Midnight
      BY <1>2, <2>1, BooksAssumption DEF Midnight, BooksTypeOK, Days
    <2>2. CASE \E a \in Accounts : SwitchActive(a) \/ SwitchPayment(a)
      BY <1>2, <2>2 DEF SwitchActive, SwitchPayment, BooksTypeOK
    <2> QED
      BY <2>1, <2>2
  <1> QED
    BY <1>1, <1>3, QuietStep

\* Every step keeps the invariant.
LEMMA IInvStep == IInv /\ [ReportsNext]_vars => IInv'
  <1> SUFFICES ASSUME IInv, [ReportsNext]_vars PROVE IInv'
    OBVIOUS
  <1>1. CASE UNCHANGED vars
    <2>1. BooksTypeOK'
      BY <1>1, TypeKept DEF IInv, vars
    <2> QED
      BY <1>1, <2>1, QuietStep DEF vars
  <1>2. CASE BooksNext
    <2>1. CASE \E p \in Requests :
                 \/ \E d \in Drafts : StartPosting(p, d)
                 \/ QuoteBase(p) \/ QuoteExact(p) \/ QuoteOlder(p)
                 \/ CheckPayment(p) \/ MissExact(p) \/ (\E r \in Quotes : FetchRate(p, r))
                 \/ StoreRate(p) \/ CommitPosting(p)
      BY <2>1, StartPostingStep, QuoteStep, FetchStep, StoreRateStep, CommitPostingStep
    <2>2. CASE \E p \in Requests :
                 \/ \E t \in Days, r \in Quotes : AddRate(p, t, r)
                 \/ CommitRate(p) \/ Rollback(p)
      BY <2>2, AddRateStep, CommitRateStep, RollbackOrReportStep
    <2>3. CASE Midnight \/ \E a \in Accounts : SwitchActive(a) \/ SwitchPayment(a)
      BY <2>3, SwitchStep
    <2> QED
      BY <1>2, <2>1, <2>2, <2>3 DEF BooksNext
  <1>3. CASE \E p \in Requests :
               \/ \E from, to \in Days : from <= to /\ ReadRevenue(p, from, to)
               \/ ReadExpenses(p)
               \/ Finish(p)
    BY <1>3, RollbackOrReportStep
  <1> QED
    BY <1>1, <1>2, <1>3 DEF ReportsNext

---------------------------------------------------------------------------
(* Theorems *)

\* The invariant above holds whatever requests, days and reports there are.
THEOREM InductiveInvariant == ReportsSpec => []IInv
  <1> QED
    BY IInvInit, IInvStep, PTL DEF ReportsSpec

\* get_exchange_rate and create_rate keep the journal, the rates and the
\* accounts what their columns say they are.
THEOREM TypeCorrect == ReportsSpec => []BooksTypeOK
  <1>1. IInv => BooksTypeOK
    BY DEF IInv
  <1> QED
    BY <1>1, InductiveInvariant, PTL

\* No entry carries a fetched rate that another posting's row replaced: every
\* converted entry can be traced to a row of exchange_rates.
THEOREM StoredRates == ReportsSpec => []EntriesCarryStoredRates
  <1>1. IInv => EntriesCarryStoredRates
    BY DEF IInv, StoredForEntries, EntriesCarryStoredRates
  <1> QED
    BY <1>1, InductiveInvariant, PTL

---------------------------------------------------------------------------
(* Closed accounts *)

\* What a draft says does not change while it is posted.
LEMMA PlanIsFixed == [ReportsNext]_vars => UNCHANGED plan
  BY DEF ReportsNext, BooksNext, vars, StartPosting, CheckPayment, QuoteBase, QuoteExact, MissExact, FetchRate,
    StoreRate, QuoteOlder, Answered, CommitPosting, AddRate, CommitRate, Rollback, SwitchActive,
    SwitchPayment, Midnight, ReadRevenue, ReadExpenses, Finish, Moves

\* What p has seen open it saw before, or sees now.
PostsOn(p) == SeenOpen(p)' \subseteq SeenOpen(p) \cup active

\* What a posting past its checks has seen.
LEMMA SeenBySteps ==
  ASSUME NEW p, tx[p].step \in PostingSteps \ {"checking"}
  PROVE  SeenOpen(p) = {plan[tx[p].draft].category, plan[tx[p].draft].payment}
  BY DEF SeenOpen, PostingSteps

\* A posting past its checks goes on posting the same draft.
LEMMA GoesPostingOn ==
  ASSUME NEW p, UNCHANGED plan, tx[p].step \in PostingSteps \ {"checking"},
         tx'[p].step \in PostingSteps \ {"checking"}, tx'[p].draft = tx[p].draft
  PROVE  PostsOn(p)
  <1>1. SeenOpen(p)' = {plan[tx[p].draft].category, plan[tx[p].draft].payment}
    BY DEF SeenOpen, PostingSteps
  <1> QED
    BY <1>1, SeenBySteps DEF PostsOn

\* An answer goes on posting the same draft.
LEMMA QuotedPostsOn ==
  ASSUME IInv, NEW p \in Requests, NEW x, NEW how, NEW stores,
         tx[p].step \in PostingSteps \ {"checking"}, Answered(p, x, how, stores)
  PROVE  PostsOn(p)
  <1> DEFINE r == [tx[p] EXCEPT !.step = "quoted", !.rate = x, !.answer = how, !.stores = stores]
  <1>1. tx[p] \in Posting
    BY DEF IInv, RequestOK
  <1>2. r.draft = tx[p].draft /\ r.step = "quoted"
    BY <1>1 DEF Posting
  <1>3. tx' = [tx EXCEPT ![p] = r] /\ UNCHANGED plan
    BY DEF Answered, Moves
  <1> HIDE DEF r
  <1>4. tx'[p] = r
    BY <1>3, OneMoves DEF IInv
  <1> QED
    BY <1>2, <1>3, <1>4, GoesPostingOn DEF PostingSteps

\* What a step of request p does to the accounts it has seen.
LEMMA RequestPostsOn ==
  ASSUME IInv, NEW p \in Requests,
         \/ \E d \in Drafts : StartPosting(p, d)
         \/ CheckPayment(p)
         \/ QuoteBase(p) \/ QuoteExact(p) \/ MissExact(p)
         \/ \E x \in Quotes : FetchRate(p, x)
         \/ StoreRate(p) \/ QuoteOlder(p)
  PROVE  PostsOn(p) /\ entries' = entries /\ \E r : tx' = [tx EXCEPT ![p] = r]
  <1>1. CASE \E d \in Drafts : StartPosting(p, d)
    <2>1. PICK d \in Drafts : StartPosting(p, d)
      BY <1>1
    <2> DEFINE r == [step |-> "checking", draft |-> d, rate |-> NoRate,
                     answer |-> "pending", stores |-> FALSE]
    <2>2. r.draft = d /\ r.step = "checking"
      OBVIOUS
    <2>3. /\ tx' = [tx EXCEPT ![p] = r]
          /\ UNCHANGED <<plan, entries>> /\ plan[d].category \in active
      BY <2>1 DEF StartPosting, Begin
    <2> HIDE DEF r
    <2>4. tx'[p] = r
      BY <2>3, OneMoves DEF IInv
    <2>5. SeenOpen(p)' = {plan[d].category}
      BY <2>2, <2>3, <2>4 DEF SeenOpen
    <2> QED
      BY <2>3, <2>5 DEF PostsOn
  <1>2. CASE CheckPayment(p)
    <2> DEFINE r == [tx[p] EXCEPT !.step = "looking"]
               f == plan[tx[p].draft]
    <2>1. tx[p] \in Posting /\ tx[p].step = "checking" /\ f.payment \in active
      BY <1>2 DEF IInv, RequestOK, CheckPayment, PostingSteps
    <2>2. r.draft = tx[p].draft /\ r.step = "looking"
      BY <2>1 DEF Posting
    <2>3. tx' = [tx EXCEPT ![p] = r] /\ UNCHANGED <<plan, entries>>
      BY <1>2 DEF CheckPayment, Moves
    <2> HIDE DEF r
    <2>4. tx'[p] = r
      BY <2>3, OneMoves DEF IInv
    <2>5. SeenOpen(p) = {f.category} /\ SeenOpen(p)' = {f.category, f.payment}
      BY <2>1, <2>2, <2>3, <2>4 DEF SeenOpen
    <2> QED
      BY <2>1, <2>3, <2>5 DEF PostsOn
  <1>3. CASE QuoteBase(p) \/ QuoteExact(p) \/ StoreRate(p) \/ QuoteOlder(p)
    <2>1. tx[p].step \in PostingSteps \ {"checking"}
      BY <1>3 DEF QuoteBase, QuoteExact, StoreRate, QuoteOlder, PostingSteps
    <2>2. \E x, how, stores : Answered(p, x, how, stores)
      BY <1>3 DEF QuoteBase, QuoteExact, StoreRate, QuoteOlder
    <2> QED
      BY <2>1, <2>2, QuotedPostsOn DEF Answered, Moves
  <1>4. CASE MissExact(p) \/ \E x \in Quotes : FetchRate(p, x)
    <2>1. tx[p] \in Posting /\ tx[p].step \in PostingSteps \ {"checking"}
      BY <1>4 DEF IInv, RequestOK, MissExact, FetchRate, PostingSteps
    <2>2. \E r : /\ tx' = [tx EXCEPT ![p] = r] /\ r.draft = tx[p].draft
                 /\ r.step \in PostingSteps \ {"checking"}
                 /\ UNCHANGED <<plan, entries>>
      <3>1. CASE MissExact(p)
        <4>1. PICK to \in {"fetching", "searching"} :
                /\ tx' = [tx EXCEPT ![p] = [tx[p] EXCEPT !.step = to]]
                /\ UNCHANGED <<plan, entries>>
          BY <3>1 DEF MissExact, Moves
        <4>2. [tx[p] EXCEPT !.step = to].draft = tx[p].draft
              /\ [tx[p] EXCEPT !.step = to].step = to
          BY <2>1 DEF Posting
        <4> QED
          BY <4>1, <4>2 DEF PostingSteps
      <3>2. CASE \E x \in Quotes : FetchRate(p, x)
        <4>1. PICK x \in Quotes :
                /\ tx' = [tx EXCEPT ![p] = [tx[p] EXCEPT !.step = "inserting", !.rate = x]]
                /\ UNCHANGED <<plan, entries>>
          BY <3>2 DEF FetchRate, Moves
        <4> DEFINE r == [tx[p] EXCEPT !.step = "inserting", !.rate = x]
        <4>2. r.draft = tx[p].draft /\ r.step = "inserting"
          BY <2>1 DEF Posting
        <4> QED
          BY <4>1, <4>2 DEF PostingSteps
      <3> QED
        BY <1>4, <3>1, <3>2
    <2>3. PICK r : /\ tx' = [tx EXCEPT ![p] = r] /\ r.draft = tx[p].draft
                   /\ r.step \in PostingSteps \ {"checking"}
                   /\ UNCHANGED <<plan, entries>>
      BY <2>2
    <2>4. tx'[p] = r
      BY <2>3, OneMoves DEF IInv
    <2> QED
      BY <2>1, <2>3, <2>4, GoesPostingOn
  <1> QED
    BY <1>1, <1>2, <1>3, <1>4

\* A request that does not post afterwards.
LEMMA StopsPosting ==
  ASSUME IInv, NEW p \in Requests, NEW r, tx' = [tx EXCEPT ![p] = r], r.step \notin PostingSteps
  PROVE  PostsOn(p)
  <1>1. tx'[p] = r
    BY OneMoves DEF IInv
  <1> QED
    BY <1>1 DEF PostsOn, SeenOpen, PostingSteps

\* A closed account stays closed when one request moves.
LEMMA ClosedByRequest ==
  ASSUME IInv, UNCHANGED plan, NEW a \in Accounts, Closed(a), a \notin active',
         NEW p \in Requests, PostsOn(p), NEW r, tx' = [tx EXCEPT ![p] = r]
  PROVE  Closed(a)'
  <1> SUFFICES ASSUME NEW q \in Requests PROVE a \notin SeenOpen(q)'
    BY DEF Closed
  <1>1. CASE q = p
    BY <1>1 DEF Closed, PostsOn
  <1>2. CASE q # p
    <2>1. tx'[q] = tx[q]
      BY <1>2, OneMoves DEF IInv
    <2>2. SeenOpen(q)' = SeenOpen(q)
      BY <2>1 DEF SeenOpen
    <2> QED
      BY <2>2 DEF Closed
  <1> QED
    BY <1>1, <1>2

\* No step posts to a closed account.
LEMMA ClosedStep ==
  ASSUME IInv, [ReportsNext]_vars, NEW a \in Accounts, Closed(a)
  PROVE  /\ \A e \in entries' \ entries : a \notin {e.debit, e.credit}
         /\ a \notin active' => Closed(a)'
  <1>0. UNCHANGED plan
    BY PlanIsFixed
  <1>1. ASSUME NEW p \in Requests, NEW r, tx' = [tx EXCEPT ![p] = r], PostsOn(p), entries' = entries
        PROVE  /\ \A e \in entries' \ entries : a \notin {e.debit, e.credit}
               /\ a \notin active' => Closed(a)'
    BY <1>0, <1>1, ClosedByRequest
  <1>2. ASSUME NEW p \in Requests, CommitPosting(p)
        PROVE  /\ \A e \in entries' \ entries : a \notin {e.debit, e.credit}
               /\ a \notin active' => Closed(a)'
    <2> DEFINE d == tx[p].draft
    <2>1. tx[p].step = "quoted"
      BY <1>2 DEF CommitPosting
    <2>2. a \notin {plan[d].category, plan[d].payment}
      BY <2>1, SeenBySteps DEF Closed, PostingSteps
    <2>3. \A e \in entries' \ entries : e = EntryOf(d, tx[p].rate, tx[p].answer)
      BY <1>2 DEF CommitPosting
    <2>4. \A e \in entries' \ entries : {e.debit, e.credit} = {plan[d].category, plan[d].payment}
      BY <2>3 DEF EntryOf
    <2>5. tx' = [tx EXCEPT ![p] = NoTx] /\ NoTx.step \notin PostingSteps
      BY <1>2 DEF CommitPosting, NoTx, PostingSteps
    <2>6. PostsOn(p)
      BY <2>5, StopsPosting
    <2>7. a \notin active' => Closed(a)'
      BY <1>0, <2>5, <2>6, ClosedByRequest
    <2> QED
      BY <2>2, <2>4, <2>7
  <1>3. ASSUME NEW p \in Requests,
               \/ \E t \in Days, x \in Quotes : AddRate(p, t, x)
               \/ CommitRate(p) \/ Rollback(p)
               \/ \E from, to \in Days : ReadRevenue(p, from, to)
               \/ ReadExpenses(p) \/ Finish(p)
        PROVE  /\ \A e \in entries' \ entries : a \notin {e.debit, e.credit}
               /\ a \notin active' => Closed(a)'
    <2>1. \E r : tx' = [tx EXCEPT ![p] = r] /\ r.step \notin PostingSteps
      <3>1. CASE CommitRate(p) \/ Rollback(p) \/ Finish(p)
        <4>1. NoTx.step \notin PostingSteps
          BY DEF NoTx, PostingSteps
        <4> QED
          BY <3>1, <4>1 DEF CommitRate, Rollback, Finish, Moves
      <3>2. CASE \E t \in Days, x \in Quotes : AddRate(p, t, x)
        <4>1. PICK t \in Days, x \in Quotes : AddRate(p, t, x)
          BY <3>2
        <4> DEFINE r == [step |-> "adding", date |-> t, rate |-> x]
        <4>2. r.step \notin PostingSteps
          BY DEF PostingSteps
        <4>3. tx' = [tx EXCEPT ![p] = r]
          BY <4>1 DEF AddRate, Begin
        <4> HIDE DEF r
        <4> QED
          BY <4>2, <4>3
      <3>3. CASE \E from, to \in Days : ReadRevenue(p, from, to)
        <4>1. PICK from \in Days, to \in Days : ReadRevenue(p, from, to)
          BY <3>3
        <4> DEFINE r == [step |-> "revenue", from |-> from, to |-> to,
                         revenue |-> Income(from, to), start |-> NetIncome(from, to)]
        <4>2. r.step \notin PostingSteps
          BY DEF PostingSteps
        <4>3. tx' = [tx EXCEPT ![p] = r]
          BY <4>1 DEF ReadRevenue, Begin
        <4> HIDE DEF r
        <4> QED
          BY <4>2, <4>3
      <3>4. CASE ReadExpenses(p)
        <4> DEFINE t == tx[p]
                   r == [step |-> "shown", net |-> t.revenue - Expenses(t.from, t.to),
                         start |-> t.start, end |-> NetIncome(t.from, t.to)]
        <4>1. r.step \notin PostingSteps
          BY DEF PostingSteps
        <4>2. tx' = [tx EXCEPT ![p] = r]
          BY <3>4 DEF ReadExpenses, Moves
        <4> HIDE DEF r
        <4> QED
          BY <4>1, <4>2
      <3> QED
        BY <1>3, <3>1, <3>2, <3>3, <3>4
    <2>2. entries' = entries
      BY <1>3 DEF AddRate, CommitRate, Rollback, ReadRevenue, ReadExpenses, Finish, Moves
    <2> QED
      BY <1>1, <2>1, <2>2, StopsPosting
  <1>4. CASE UNCHANGED <<tx, entries>>
    BY <1>0, <1>4 DEF Closed, SeenOpen
  <1>5. CASE Midnight \/ (\E b \in Accounts : SwitchActive(b) \/ SwitchPayment(b)) \/ UNCHANGED vars
    BY <1>4, <1>5 DEF Midnight, SwitchActive, SwitchPayment, vars
  <1>6. ASSUME NEW p \in Requests,
               \/ \E d \in Drafts : StartPosting(p, d)
               \/ CheckPayment(p)
               \/ QuoteBase(p) \/ QuoteExact(p) \/ MissExact(p)
               \/ \E x \in Quotes : FetchRate(p, x)
               \/ StoreRate(p) \/ QuoteOlder(p)
        PROVE  /\ \A e \in entries' \ entries : a \notin {e.debit, e.credit}
               /\ a \notin active' => Closed(a)'
    BY <1>1, <1>6, RequestPostsOn
  <1> QED
    BY <1>2, <1>3, <1>5, <1>6 DEF ReportsNext, BooksNext

\* Deactivating an account stops postings to it, however _validate_account
\* and update_account interleave, once the postings that saw it open end.
THEOREM ClosedStayAtRest == ReportsSpec => ClosedAccountsRest
  <1>1. IInv /\ [ReportsNext]_vars =>
          [\A a \in Accounts : Closed(a) =>
             /\ \A e \in entries' \ entries : a \notin {e.debit, e.credit}
             /\ a \notin active' => Closed(a)']_vars
    BY ClosedStep
  <1> QED
    BY <1>1, InductiveInvariant, PTL DEF ReportsSpec, ClosedAccountsRest
---------------------------------------------------------------------------
(* Sums.  A sum is a recursive function on subsets; what it returns for     *)
(* every finite set is proved with a smallest counterexample.              *)

\* A nonempty set of naturals has a smallest member: induction for this prover.
LEMMA SmallestNumber ==
  ASSUME NEW T \in SUBSET Nat, T # {}
  PROVE  \E n \in T : \A m \in T : n <= m
  <1> DEFINE R == {ss \in Nat \X Nat : ss[1] < ss[2]}
  <1>1. IsWellFoundedOn(R, Nat)
    BY NatLessThanWellFounded, Zenon DEF OpToRel
  <1>2. \E x \in T : \A y \in T : <<y, x>> \notin R
    <2> HIDE DEF R
    <2> QED
      BY <1>1, WFMin, Zenon
  <1>3. PICK n \in T : \A m \in T : <<m, n>> \notin R
    BY <1>2
  <1>4. ASSUME NEW m \in T PROVE n <= m
    <2>1. <<m, n>> \notin R
      BY <1>3
    <2>2. <<m, n>> \in Nat \X Nat /\ m \in Nat /\ n \in Nat
      OBVIOUS
    <2>3. ~(m < n)
      BY <2>1, <2>2
    <2>4. QED
      BY <2>2, <2>3
  <1>5. QED
    BY <1>4

\* Among some subsets of a finite set there is one that does not stay among them
\* when it loses a member.
LEMMA SmallestSubset ==
  ASSUME NEW S, IsFiniteSet(S), NEW B \in SUBSET SUBSET S, B # {}
  PROVE  \E s \in B : \A x \in s : s \ {x} \notin B
  <1> DEFINE T == {Cardinality(s) : s \in B}
  <1>1. \A s \in B : IsFiniteSet(s) /\ Cardinality(s) \in Nat
    BY FS_Subset, FS_CardinalityType
  <1>2. PICK n \in T : \A m \in T : n <= m
    <2>1. T \in SUBSET Nat /\ T # {}
      BY <1>1
    <2> HIDE DEF T
    <2> QED
      BY <2>1, SmallestNumber
  <1>3. PICK s \in B : n = Cardinality(s)
    BY <1>2
  <1>4. ASSUME NEW x \in s, s \ {x} \in B PROVE FALSE
    <2>1. Cardinality(s \ {x}) \in T
      BY <1>4
    <2>2. n <= Cardinality(s \ {x})
      BY <1>2, <2>1
    <2>3. Cardinality(s \ {x}) = Cardinality(s) - 1
      BY <1>1, <1>3, FS_RemoveElement
    <2>4. n \in Nat
      BY <1>1, <1>3
    <2>5. QED
      BY <1>3, <2>2, <2>3, <2>4
  <1>5. QED
    BY <1>3, <1>4

\* The member that a sum takes first, and the functions that compute a sum over S.
First(s) == CHOOSE e \in s : TRUE

Follows(g, S) ==
  g = [s \in SUBSET S |-> IF s = {} THEN 0 ELSE First(s).amount + g[s \ {First(s)}]]

\* A sum takes a member first.
LEMMA FirstIsMember ==
  ASSUME NEW s, s # {}
  PROVE  First(s) \in s
  BY DEF First

\* Sum is what such a function computes.
LEMMA SumIsChosen ==
  ASSUME NEW S
  PROVE  Sum(S) = (CHOOSE g : Follows(g, S))[S]
  BY Zenon DEF Sum, MapThenSumSet, MapThenFoldSet, Follows, First

\* If there is such a function, Sum has the value that one of them has.
LEMMA SumFollows ==
  ASSUME NEW S, NEW g, Follows(g, S)
  PROVE  \E h : Follows(h, S) /\ Sum(S) = h[S]
  <1>1. Follows(CHOOSE h : Follows(h, S), S)
    OBVIOUS
  <1>2. QED
    BY <1>1, SumIsChosen

\* Such a function is what its definition says.
LEMMA Unfold ==
  ASSUME NEW S, NEW g, Follows(g, S)
  PROVE  \A s \in SUBSET S : g[s] = IF s = {} THEN 0 ELSE First(s).amount + g[s \ {First(s)}]
  BY Zenon DEF Follows

\* Two such functions agree where both are defined.
LEMMA FollowsAgree ==
  ASSUME NEW S, NEW T, NEW g, NEW h, Follows(g, S), Follows(h, T), IsFiniteSet(S),
         NEW s \in SUBSET (S \cap T)
  PROVE  g[s] = h[s]
  <1> DEFINE B == {r \in SUBSET S : r \subseteq T /\ g[r] # h[r]}
  <1>1. SUFFICES ASSUME B # {} PROVE FALSE
    OBVIOUS
  <1>2. B \in SUBSET SUBSET S
    OBVIOUS
  <1>3. PICK r \in B : \A x \in r : r \ {x} \notin B
    <2> HIDE DEF B
    <2> QED
      BY <1>1, <1>2, SmallestSubset
  <1>4. r \in SUBSET S /\ r \in SUBSET T /\ g[r] # h[r]
    OBVIOUS
  <1>5. /\ g[r] = IF r = {} THEN 0 ELSE First(r).amount + g[r \ {First(r)}]
        /\ h[r] = IF r = {} THEN 0 ELSE First(r).amount + h[r \ {First(r)}]
    <2>1. \A q \in SUBSET S : g[q] = IF q = {} THEN 0 ELSE First(q).amount + g[q \ {First(q)}]
      BY Unfold, Zenon
    <2>2. \A q \in SUBSET T : h[q] = IF q = {} THEN 0 ELSE First(q).amount + h[q \ {First(q)}]
      BY Unfold, Zenon
    <2> HIDE DEF B
    <2> QED
      BY <1>4, <2>1, <2>2, Zenon
  <1>6. CASE r = {}
    BY <1>4, <1>6, <1>5
  <1>7. CASE r # {}
    <2>1. First(r) \in r
      BY <1>7, FirstIsMember
    <2>2. g[r \ {First(r)}] = h[r \ {First(r)}]
      BY <1>3, <1>4, <2>1
    <2>3. QED
      BY <1>4, <1>7, <1>5, <2>2
  <1>8. QED
    BY <1>6, <1>7

\* A sum is one member and the sum of the others.
Unfolds(s) == Sum(s) = IF s = {} THEN 0 ELSE First(s).amount + Sum(s \ {First(s)})

\* Where the functions exist, a sum is one member and the sum of the others.
LEMMA SumUnfoldsIf ==
  ASSUME NEW s, IsFiniteSet(s), NEW g, Follows(g, s), NEW h, Follows(h, s \ {First(s)})
  PROVE  Unfolds(s)
  <1>1. PICK g1 : Follows(g1, s) /\ Sum(s) = g1[s]
    BY SumFollows
  <1>2. PICK h1 : Follows(h1, s \ {First(s)}) /\ Sum(s \ {First(s)}) = h1[s \ {First(s)}]
    BY SumFollows
  <1>3. g1[s \ {First(s)}] = h1[s \ {First(s)}]
    <2>1. s \ {First(s)} \in SUBSET (s \cap (s \ {First(s)}))
      OBVIOUS
    <2>2. QED
      BY <1>1, <1>2, <2>1, FollowsAgree
  <1>4. g1[s] = IF s = {} THEN 0 ELSE First(s).amount + g1[s \ {First(s)}]
    BY <1>1, Unfold
  <1>5. QED
    BY <1>1, <1>2, <1>3, <1>4 DEF Unfolds

\* They exist for every finite set.
LEMMA FunctionExists ==
  ASSUME NEW S, IsFiniteSet(S)
  PROVE  \E g : Follows(g, S)
  <1> DEFINE Lacks(s) == ~ \E g : Follows(g, s)
             B == {s \in SUBSET S : \E r \in SUBSET s : Lacks(r)}
  <1>1. SUFFICES ASSUME S \in B PROVE FALSE
    OBVIOUS
  <1>2. B \in SUBSET SUBSET S /\ B # {}
    BY <1>1
  <1>3. PICK s \in B : \A x \in s : s \ {x} \notin B
    <2> HIDE DEF B
    <2> QED
      BY <1>2, SmallestSubset
  <1>4. \A x \in s : \A r \in SUBSET (s \ {x}) : ~Lacks(r)
    BY <1>3
  <1>5. Lacks(s)
    <2>1. PICK r \in SUBSET s : Lacks(r)
      OBVIOUS
    <2>2. CASE r # s
      <3>1. PICK x \in s : x \notin r
        BY <2>2
      <3>2. r \in SUBSET (s \ {x})
        BY <3>1
      <3>3. QED
        BY <1>4, <2>1, <3>2
    <2>3. QED
      BY <2>1, <2>2
  <1>6. IsFiniteSet(s)
    BY FS_Subset
  <1> DEFINE g == [r \in SUBSET s |-> IF r = {} THEN 0 ELSE First(r).amount + Sum(r \ {First(r)})]
  <1>7. ASSUME NEW r \in SUBSET s, r # {}
        PROVE  g[r \ {First(r)}] = Sum(r \ {First(r)})
    <2> DEFINE q == r \ {First(r)}
    <2>1. First(r) \in r
      BY <1>7, FirstIsMember
    <2>2. q \in SUBSET (s \ {First(r)}) /\ q \ {First(q)} \in SUBSET (s \ {First(r)})
      OBVIOUS
    <2>3. PICK g1 : Follows(g1, q)
      BY <1>4, <2>1, <2>2
    <2>4. PICK h1 : Follows(h1, q \ {First(q)})
      BY <1>4, <2>1, <2>2
    <2>5. IsFiniteSet(q)
      BY <1>6, FS_Subset
    <2>6. Unfolds(q)
      <3> HIDE DEF q
      <3> QED
        BY <2>3, <2>4, <2>5, SumUnfoldsIf
    <2>7. q \in SUBSET s
      OBVIOUS
    <2>8. g[q] = IF q = {} THEN 0 ELSE First(q).amount + Sum(q \ {First(q)})
      <3> HIDE DEF q
      <3> QED
        BY <2>7
    <2>9. QED
      BY <2>6, <2>8 DEF Unfolds
  <1>8. g = [r \in SUBSET s |-> IF r = {} THEN 0 ELSE First(r).amount + g[r \ {First(r)}]]
    <2> DEFINE F(r) == IF r = {} THEN 0 ELSE First(r).amount + Sum(r \ {First(r)})
               G(r) == IF r = {} THEN 0 ELSE First(r).amount + g[r \ {First(r)}]
    <2>1. \A r \in SUBSET s : F(r) = G(r)
      <3> HIDE DEF g
      <3> QED
        BY <1>7
    <2>2. g = [r \in SUBSET s |-> F(r)]
      OBVIOUS
    <2>3. [r \in SUBSET s |-> F(r)] = [r \in SUBSET s |-> G(r)]
      <3> HIDE DEF F, G, g
      <3> QED
        BY <2>1
    <2>4. QED
      BY <2>2, <2>3, Zenon
  <1>9. Follows(g, s)
    BY <1>8, Zenon DEF Follows
  <1>10. QED
    BY <1>5, <1>9

\* A sum over a finite set is one member and the sum of the others.
LEMMA SumUnfolds ==
  ASSUME NEW s, IsFiniteSet(s)
  PROVE  Unfolds(s)
  <1>1. PICK g : Follows(g, s)
    BY FunctionExists
  <1>2. IsFiniteSet(s \ {First(s)})
    BY FS_Subset
  <1>3. PICK h : Follows(h, s \ {First(s)})
    BY <1>2, FunctionExists
  <1>4. QED
    BY <1>1, <1>3, SumUnfoldsIf

\* What is summed: finitely many naturals.
Amounts(s) == IsFiniteSet(s) /\ \A e \in s : e.amount \in Nat

\* And what a part of them is.
LEMMA AmountsOfPart ==
  ASSUME NEW s, Amounts(s), NEW r \in SUBSET s
  PROVE  Amounts(r)
  BY FS_Subset DEF Amounts

\* A sum of naturals is one.
LEMMA SumIsNat ==
  ASSUME NEW S, Amounts(S)
  PROVE  Sum(S) \in Nat
  <1> DEFINE B == {s \in SUBSET S : Sum(s) \notin Nat}
  <1>1. SUFFICES ASSUME B # {} PROVE FALSE
    OBVIOUS
  <1>2. B \in SUBSET SUBSET S /\ IsFiniteSet(S)
    BY DEF Amounts
  <1>3. PICK s \in B : \A x \in s : s \ {x} \notin B
    <2> HIDE DEF B
    <2> QED
      BY <1>1, <1>2, SmallestSubset
  <1>4. s \in SUBSET S /\ Sum(s) \notin Nat /\ Amounts(s)
    BY AmountsOfPart
  <1>5. Unfolds(s)
    BY <1>4, SumUnfolds DEF Amounts
  <1>6. CASE s = {}
    BY <1>4, <1>5, <1>6 DEF Unfolds
  <1>7. CASE s # {}
    <2>1. First(s) \in s
      BY <1>7, FirstIsMember
    <2>2. Sum(s \ {First(s)}) \in Nat
      BY <1>3, <1>4, <2>1
    <2>3. First(s).amount \in Nat
      BY <1>4, <2>1 DEF Amounts
    <2>4. Sum(s) = First(s).amount + Sum(s \ {First(s)})
      BY <1>5, <1>7 DEF Unfolds
    <2>5. QED
      BY <1>4, <2>2, <2>3, <2>4
  <1>8. QED
    BY <1>6, <1>7

\* The sum of no lines.
LEMMA SumOfNone == Sum({}) = 0
  <1>1. IsFiniteSet({})
    BY FS_EmptySet
  <1>2. QED
    BY <1>1, SumUnfolds DEF Unfolds

\* Any member may be taken first.
LEMMA SumLess ==
  ASSUME NEW S, Amounts(S), NEW z \in S
  PROVE  Sum(S) = z.amount + Sum(S \ {z})
  <1> DEFINE Wrong(s) == \E x \in s : Sum(s) # x.amount + Sum(s \ {x})
             B == {s \in SUBSET S : Wrong(s)}
  <1>1. SUFFICES ASSUME B # {} PROVE FALSE
    OBVIOUS
  <1>2. B \in SUBSET SUBSET S /\ IsFiniteSet(S)
    BY DEF Amounts
  <1>3. PICK s \in B : \A x \in s : s \ {x} \notin B
    <2> HIDE DEF B
    <2> QED
      BY <1>1, <1>2, SmallestSubset
  <1>4. PICK x \in s : Sum(s) # x.amount + Sum(s \ {x})
    OBVIOUS
  <1> DEFINE f == First(s)
             r == s \ {f, x}
  <1>5. f \in s
    BY <1>4, FirstIsMember
  <1>6. Sum(s) = f.amount + Sum(s \ {f})
    <2>1. Amounts(s)
      BY AmountsOfPart
    <2>2. QED
      BY <1>5, <2>1, SumUnfolds DEF Amounts, Unfolds
  <1>7. x # f
    BY <1>4, <1>6
  <1>8. Sum(s \ {f}) = x.amount + Sum(r)
    <2>1. ~Wrong(s \ {f})
      BY <1>3, <1>5
    <2>2. x \in s \ {f} /\ (s \ {f}) \ {x} = r
      BY <1>4, <1>7
    <2>3. QED
      BY <2>1, <2>2
  <1>9. Sum(s \ {x}) = f.amount + Sum(r)
    <2>1. ~Wrong(s \ {x})
      BY <1>3, <1>4
    <2>2. f \in s \ {x} /\ (s \ {x}) \ {f} = r
      BY <1>5, <1>7
    <2>3. QED
      BY <2>1, <2>2
  <1>10. f.amount \in Nat /\ x.amount \in Nat /\ Sum(r) \in Nat
    <2>1. Amounts(r)
      BY AmountsOfPart
    <2>2. QED
      BY <1>4, <1>5, <2>1, SumIsNat DEF Amounts
  <1> HIDE DEF f, r
  <1>11. QED
    BY <1>4, <1>6, <1>8, <1>9, <1>10

\* A sum over two sets that share nothing.
LEMMA SumOfUnion ==
  ASSUME NEW S, NEW T, Amounts(S), Amounts(T), S \cap T = {}
  PROVE  Sum(S \cup T) = Sum(S) + Sum(T)
  <1> DEFINE B == {s \in SUBSET T : Sum(S \cup s) # Sum(S) + Sum(s)}
  <1>1. SUFFICES ASSUME B # {} PROVE FALSE
    OBVIOUS
  <1>2. B \in SUBSET SUBSET T /\ IsFiniteSet(T)
    BY DEF Amounts
  <1>3. PICK s \in B : \A x \in s : s \ {x} \notin B
    <2> HIDE DEF B
    <2> QED
      BY <1>1, <1>2, SmallestSubset
  <1>4. s \in SUBSET T /\ Sum(S \cup s) # Sum(S) + Sum(s)
    OBVIOUS
  <1>5. Sum(S) \in Nat
    BY SumIsNat
  <1>6. CASE s = {}
    <2>1. S \cup s = S /\ Sum(s) = 0
      BY <1>6, SumOfNone
    <2>2. QED
      BY <1>4, <1>5, <2>1
  <1>7. ASSUME NEW x \in s PROVE FALSE
    <2>1. Sum(S \cup (s \ {x})) = Sum(S) + Sum(s \ {x})
      BY <1>3
    <2>2. Amounts(s) /\ Amounts(S \cup s)
      <3>1. IsFiniteSet(S \cup s)
        BY FS_Subset, FS_Union DEF Amounts
      <3>2. QED
        BY <3>1, AmountsOfPart DEF Amounts
    <2>3. Sum(s) = x.amount + Sum(s \ {x})
      BY <2>2, SumLess
    <2>4. Sum(S \cup s) = x.amount + Sum((S \cup s) \ {x})
      BY <2>2, SumLess
    <2>5. (S \cup s) \ {x} = S \cup (s \ {x})
      BY <1>4
    <2>6. x.amount \in Nat /\ Sum(s \ {x}) \in Nat
      <3>1. Amounts(s \ {x})
        BY <2>2, AmountsOfPart
      <3>2. QED
        BY <2>2, <3>1, SumIsNat DEF Amounts
    <2>7. QED
      BY <1>4, <1>5, <2>1, <2>3, <2>4, <2>5, <2>6
  <1>8. QED
    BY <1>6, <1>7

\* More lines, and no smaller sum.
LEMMA SumOfPart ==
  ASSUME NEW T, Amounts(T), NEW S \in SUBSET T
  PROVE  Sum(S) <= Sum(T)
  <1>1. Amounts(S) /\ Amounts(T \ S) /\ S \cup (T \ S) = T /\ S \cap (T \ S) = {}
    BY AmountsOfPart
  <1>2. Sum(S) \in Nat /\ Sum(T \ S) \in Nat
    BY <1>1, SumIsNat
  <1>3. Sum(T) = Sum(S) + Sum(T \ S)
    BY <1>1, SumOfUnion
  <1>4. QED
    BY <1>2, <1>3

---------------------------------------------------------------------------
(* Reports *)

\* Every posting has a line on each side, of an expense, a revenue or an asset;
\* one made from a draft that fits debits no revenue and credits no expense.
LinesOK ==
  /\ IsFiniteSet(entries)
  /\ \A e \in entries :
       /\ TypeOf[e.debit] \in {"expense", "revenue", "asset"}
       /\ TypeOf[e.credit] \in {"expense", "revenue", "asset"}
       /\ Fits(plan[e.draft]) => TypeOf[e.debit] # "revenue" /\ TypeOf[e.credit] # "expense"

\* What a report has read, against the journal as it is now: there may be more
\* revenue and more expenses by now, never less.
Reading(p) ==
  LET t == tx[p] IN
  /\ t.step = "revenue" =>
       /\ t.revenue \in Nat /\ t.start \in Int
       /\ t.revenue <= Income(t.from, t.to)
       /\ t.revenue - Expenses(t.from, t.to) <= t.start
  /\ t.step = "shown" => t.net <= t.start /\ t.net <= t.end

\* The invariant of both theorems, beside IInv.
SumsInv == LinesOK /\ \A p \in Requests : Reading(p)

\* The journal can be summed.
LEMMA EntriesAreAmounts ==
  ASSUME BooksTypeOK, LinesOK
  PROVE  Amounts(entries)
  BY DEF BooksTypeOK, LinesOK, Amounts, Entry

\* Sums over lines of entries are naturals.
LEMMA LineSums ==
  ASSUME BooksTypeOK, LinesOK, NEW A, NEW f, NEW t
  PROVE  Debits(A, f, t) \in Nat /\ Credits(A, f, t) \in Nat
  <1>1. /\ Amounts({e \in entries : e.debit \in A /\ e.date \in f..t})
        /\ Amounts({e \in entries : e.credit \in A /\ e.date \in f..t})
    BY EntriesAreAmounts, AmountsOfPart
  <1>2. QED
    BY <1>1, SumIsNat DEF Debits, Credits

\* Sums over accounts of two kinds.
LEMMA KindsAdd ==
  ASSUME BooksTypeOK, LinesOK, NEW A, NEW B, A \cap B = {}, NEW f, NEW t
  PROVE  /\ Debits(A \cup B, f, t) = Debits(A, f, t) + Debits(B, f, t)
         /\ Credits(A \cup B, f, t) = Credits(A, f, t) + Credits(B, f, t)
  <1> DEFINE D(X) == {e \in entries : e.debit \in X /\ e.date \in f..t}
             C(X) == {e \in entries : e.credit \in X /\ e.date \in f..t}
  <1>1. /\ D(A \cup B) = D(A) \cup D(B) /\ D(A) \cap D(B) = {}
        /\ C(A \cup B) = C(A) \cup C(B) /\ C(A) \cap C(B) = {}
    OBVIOUS
  <1>2. Amounts(D(A)) /\ Amounts(D(B)) /\ Amounts(C(A)) /\ Amounts(C(B))
    BY EntriesAreAmounts, AmountsOfPart
  <1> HIDE DEF D, C
  <1>3. /\ Sum(D(A \cup B)) = Sum(D(A)) + Sum(D(B))
        /\ Sum(C(A \cup B)) = Sum(C(A)) + Sum(C(B))
    BY <1>1, <1>2, SumOfUnion
  <1>4. QED
    BY <1>3 DEF D, C, Debits, Credits

\* Sums over a period and the time before it.
LEMMA PeriodsAdd ==
  ASSUME BooksTypeOK, LinesOK, NEW A, NEW f \in Days, NEW t \in Days, f <= t
  PROVE  /\ Debits(A, 1, t) = Debits(A, 1, f - 1) + Debits(A, f, t)
         /\ Credits(A, 1, t) = Credits(A, 1, f - 1) + Credits(A, f, t)
  <1> DEFINE D(P) == {e \in entries : e.debit \in A /\ e.date \in P}
             C(P) == {e \in entries : e.credit \in A /\ e.date \in P}
  <1>1. 1..t = (1..(f - 1)) \cup (f..t) /\ (1..(f - 1)) \cap (f..t) = {}
    BY BooksAssumption DEF Days
  <1>2. /\ D(1..t) = D(1..(f - 1)) \cup D(f..t) /\ D(1..(f - 1)) \cap D(f..t) = {}
        /\ C(1..t) = C(1..(f - 1)) \cup C(f..t) /\ C(1..(f - 1)) \cap C(f..t) = {}
    BY <1>1
  <1>3. /\ Amounts(D(1..(f - 1))) /\ Amounts(D(f..t))
        /\ Amounts(C(1..(f - 1))) /\ Amounts(C(f..t))
    BY EntriesAreAmounts, AmountsOfPart
  <1> HIDE DEF D, C
  <1>4. /\ Sum(D(1..t)) = Sum(D(1..(f - 1))) + Sum(D(f..t))
        /\ Sum(C(1..t)) = Sum(C(1..(f - 1))) + Sum(C(f..t))
    BY <1>2, <1>3, SumOfUnion
  <1>5. QED
    BY <1>4 DEF D, C, Debits, Credits

\* Kinds of accounts that no posting names.
LEMMA NoOtherKinds ==
  ASSUME LinesOK, NEW f, NEW t, NEW type \in {"liability", "equity"}
  PROVE  Debits(OfType(type), f, t) = 0 /\ Credits(OfType(type), f, t) = 0
  <1>1. /\ {e \in entries : e.debit \in OfType(type) /\ e.date \in f..t} = {}
        /\ {e \in entries : e.credit \in OfType(type) /\ e.date \in f..t} = {}
    BY DEF LinesOK, OfType
  <1>2. QED
    BY <1>1, SumOfNone DEF Debits, Credits

\* Only misfiled drafts debit a revenue or credit an expense.
LEMMA WrongSides ==
  ASSUME BooksTypeOK, LinesOK, NEW f, NEW t
  PROVE  /\ Debits(OfType("revenue"), f, t) <= Misfiled(f, t)
         /\ Credits(OfType("expense"), f, t) <= Misfiled(f, t)
         /\ Misfiled(f, t) \in Nat
  <1> DEFINE D == {e \in entries : e.debit \in OfType("revenue") /\ e.date \in f..t}
             C == {e \in entries : e.credit \in OfType("expense") /\ e.date \in f..t}
             M == {e \in entries : e.date \in f..t /\ ~Fits(plan[e.draft])}
  <1>1. D \in SUBSET M /\ C \in SUBSET M
    BY DEF LinesOK, OfType
  <1>2. Amounts(M)
    BY EntriesAreAmounts, AmountsOfPart
  <1>3. /\ Debits(OfType("revenue"), f, t) = Sum(D) /\ Credits(OfType("expense"), f, t) = Sum(C)
        /\ Misfiled(f, t) = Sum(M)
    BY DEF Debits, Credits, Misfiled
  <1> HIDE DEF D, C, M
  <1>4. QED
    BY <1>1, <1>2, <1>3, SumOfPart, SumIsNat

\* Both sides of the journal are equal.
LEMMA SidesAreEqual ==
  ASSUME BooksTypeOK, LinesOK, NEW f, NEW t
  PROVE  Debits(OfType("expense"), f, t) + Debits(OfType("revenue"), f, t)
             + Debits(OfType("asset"), f, t)
           = Credits(OfType("expense"), f, t) + Credits(OfType("revenue"), f, t)
             + Credits(OfType("asset"), f, t)
  <1> DEFINE X == OfType("expense")
             R == OfType("revenue")
             A == OfType("asset")
  <1>1. {e \in entries : e.debit \in (X \cup R) \cup A /\ e.date \in f..t}
          = {e \in entries : e.credit \in (X \cup R) \cup A /\ e.date \in f..t}
    BY DEF BooksTypeOK, LinesOK, Entry, OfType
  <1>2. X \cap R = {} /\ (X \cup R) \cap A = {}
    BY DEF OfType
  <1> HIDE DEF X, R, A
  <1>3. Debits((X \cup R) \cup A, f, t) = Credits((X \cup R) \cup A, f, t)
    BY <1>1 DEF Debits, Credits
  <1>4. /\ Debits((X \cup R) \cup A, f, t) = Debits(X \cup R, f, t) + Debits(A, f, t)
        /\ Credits((X \cup R) \cup A, f, t) = Credits(X \cup R, f, t) + Credits(A, f, t)
    BY <1>2, KindsAdd
  <1>5. /\ Debits(X \cup R, f, t) = Debits(X, f, t) + Debits(R, f, t)
        /\ Credits(X \cup R, f, t) = Credits(X, f, t) + Credits(R, f, t)
    BY <1>2, KindsAdd
  <1>6. QED
    BY <1>3, <1>4, <1>5 DEF X, R, A

\* The state predicate follows from what every posting looks like.
LEMMA AgreeingReports == BooksTypeOK /\ LinesOK => ReportsAgree
  <1> SUFFICES ASSUME BooksTypeOK, LinesOK PROVE ReportsAgree
    OBVIOUS
  <1> DEFINE D(type, f, t) == Debits(OfType(type), f, t)
             C(type, f, t) == Credits(OfType(type), f, t)
  <1>1. \A type, f, t : D(type, f, t) \in Nat /\ C(type, f, t) \in Nat
    BY LineSums
  <1>2. \A f, t : /\ D("liability", f, t) = 0 /\ C("liability", f, t) = 0
                  /\ D("equity", f, t) = 0 /\ C("equity", f, t) = 0
    BY NoOtherKinds
  <1>3. \A f, t : D("expense", f, t) + D("revenue", f, t) + D("asset", f, t)
                   = C("expense", f, t) + C("revenue", f, t) + C("asset", f, t)
    BY SidesAreEqual
  <1>4. \A type, t : Balance(type, t) = D(type, 1, t) - C(type, 1, t)
    BY DEF Balance
  <1>5. \A t : CurrentEarnings(t) = (C("revenue", 1, t) - D("revenue", 1, t))
                                     + (C("expense", 1, t) - D("expense", 1, t))
    <2> HIDE DEF D, C
    <2>1. QED
      BY <1>1, <1>4 DEF CurrentEarnings
  <1>6. ASSUME NEW t \in Days PROVE TotalAssets(t) = TotalLiabilities(t) + TotalEquity(t)
    <2> HIDE DEF D, C
    <2>1. TotalAssets(t) = D("asset", 1, t) - C("asset", 1, t)
      BY <1>4 DEF TotalAssets
    <2>2. TotalLiabilities(t) = 0 /\ TotalEquity(t) = CurrentEarnings(t)
      <3>1. Balance("liability", t) = 0 /\ Balance("equity", t) = 0 /\ CurrentEarnings(t) \in Int
        BY <1>1, <1>2, <1>4, <1>5
      <3>2. QED
        BY <3>1 DEF TotalLiabilities, TotalEquity
    <2>3. QED
      BY <1>1, <1>3, <1>5, <2>1, <2>2
  <1>7. ASSUME NEW f \in Days, NEW t \in Days, f <= t
        PROVE  NetIncome(f, t) - (CurrentEarnings(t) - CurrentEarnings(f - 1))
                 \in -Misfiled(f, t)..Misfiled(f, t)
    <2>1. /\ C("revenue", 1, t) = C("revenue", 1, f - 1) + C("revenue", f, t)
          /\ D("revenue", 1, t) = D("revenue", 1, f - 1) + D("revenue", f, t)
          /\ C("expense", 1, t) = C("expense", 1, f - 1) + C("expense", f, t)
          /\ D("expense", 1, t) = D("expense", 1, f - 1) + D("expense", f, t)
      BY <1>7, PeriodsAdd
    <2>2. NetIncome(f, t) = C("revenue", f, t) - D("expense", f, t)
      BY DEF NetIncome, Income, Expenses
    <2>3. D("revenue", f, t) <= Misfiled(f, t) /\ C("expense", f, t) <= Misfiled(f, t)
          /\ Misfiled(f, t) \in Nat
      BY WrongSides
    <2> HIDE DEF D, C
    <2>4. NetIncome(f, t) - (CurrentEarnings(t) - CurrentEarnings(f - 1))
            = D("revenue", f, t) - C("expense", f, t)
      BY <1>1, <1>5, <2>1, <2>2
    <2>5. QED
      BY <1>1, <2>3, <2>4
  <1>8. ASSUME payable \subseteq OfType("asset"), NEW t \in Days
        PROVE  CashFlow(1, t) = TotalAssets(t)
                 - (Debits(OfType("asset") \ payable, 1, t)
                    - Credits(OfType("asset") \ payable, 1, t))
    <2> DEFINE rest == OfType("asset") \ payable
    <2>1. payable \cup rest = OfType("asset") /\ payable \cap rest = {}
      BY <1>8
    <2> HIDE DEF rest
    <2>2. /\ D("asset", 1, t) = Debits(payable, 1, t) + Debits(rest, 1, t)
          /\ C("asset", 1, t) = Credits(payable, 1, t) + Credits(rest, 1, t)
      BY <2>1, KindsAdd
    <2>3. /\ Debits(payable, 1, t) \in Nat /\ Debits(rest, 1, t) \in Nat
          /\ Credits(payable, 1, t) \in Nat /\ Credits(rest, 1, t) \in Nat
      BY LineSums
    <2>4. TotalAssets(t) = D("asset", 1, t) - C("asset", 1, t)
      BY <1>4 DEF TotalAssets
    <2>5. CashFlow(1, t) = Debits(payable, 1, t) - Credits(payable, 1, t)
      BY DEF CashFlow
    <2> HIDE DEF D, C
    <2>6. CashFlow(1, t) = TotalAssets(t) - (Debits(rest, 1, t) - Credits(rest, 1, t))
      BY <2>2, <2>3, <2>4, <2>5
    <2>7. QED
      BY <2>6 DEF rest
  <1>9. QED
    BY <1>6, <1>7, <1>8 DEF ReportsAgree

\* Reports only grow with the journal.
LEMMA SumsGrow ==
  ASSUME BooksTypeOK', LinesOK', entries \subseteq entries', NEW f, NEW t
  PROVE  /\ Income(f, t) <= Income(f, t)'
         /\ Expenses(f, t) <= Expenses(f, t)'
         /\ Income(f, t)' \in Nat /\ Expenses(f, t)' \in Nat
  <1> DEFINE D == {e \in entries : e.debit \in OfType("expense") /\ e.date \in f..t}
             DD == {e \in entries' : e.debit \in OfType("expense") /\ e.date \in f..t}
             C == {e \in entries : e.credit \in OfType("revenue") /\ e.date \in f..t}
             CC == {e \in entries' : e.credit \in OfType("revenue") /\ e.date \in f..t}
  <1>1. Amounts(entries')
    BY DEF BooksTypeOK, LinesOK, Amounts, Entry
  <1>2. Amounts(DD) /\ Amounts(CC) /\ D \in SUBSET DD /\ C \in SUBSET CC
    BY <1>1, AmountsOfPart
  <1>3. Sum(D) <= Sum(DD) /\ Sum(C) <= Sum(CC) /\ Sum(DD) \in Nat /\ Sum(CC) \in Nat
    <2> HIDE DEF D, DD, C, CC
    <2> QED
      BY <1>2, SumOfPart, SumIsNat
  <1>4. /\ Income(f, t) = Sum(C) /\ Expenses(f, t) = Sum(D)
        /\ Income(f, t)' = Sum(CC) /\ Expenses(f, t)' = Sum(DD)
    BY DEF Income, Expenses, Debits, Credits, OfType
  <1>5. QED
    BY <1>3, <1>4

\* A report is right about what it has read while entries are only added.
LEMMA ReadingKept ==
  ASSUME BooksTypeOK, LinesOK, BooksTypeOK', LinesOK', entries \subseteq entries',
         NEW p, Reading(p), tx'[p] = tx[p]
  PROVE  Reading(p)'
  <1> DEFINE t == tx[p]
  <1>1. CASE t.step = "revenue"
    <2>1. /\ Income(t.from, t.to) <= Income(t.from, t.to)'
          /\ Expenses(t.from, t.to) <= Expenses(t.from, t.to)'
          /\ Income(t.from, t.to)' \in Nat /\ Expenses(t.from, t.to)' \in Nat
      BY SumsGrow
    <2>2. Income(t.from, t.to) \in Nat /\ Expenses(t.from, t.to) \in Nat
      BY LineSums DEF Income, Expenses
    <2>3. QED
      BY <1>1, <2>1, <2>2 DEF Reading
  <1>2. CASE t.step # "revenue"
    BY <1>2 DEF Reading
  <1>3. QED
    BY <1>1, <1>2

\* What a posting writes has a line of the kinds that its draft may name.
LEMMA EntryOfKinds ==
  ASSUME BooksTypeOK, NEW d \in Drafts, NEW x, NEW how
  PROVE  /\ TypeOf[EntryOf(d, x, how).debit] \in {"expense", "revenue", "asset"}
         /\ TypeOf[EntryOf(d, x, how).credit] \in {"expense", "revenue", "asset"}
         /\ EntryOf(d, x, how).draft = d
         /\ Fits(plan[d]) => /\ TypeOf[EntryOf(d, x, how).debit] # "revenue"
                             /\ TypeOf[EntryOf(d, x, how).credit] # "expense"
  <1>1. plan[d] \in Detail
    BY DEF BooksTypeOK
  <1>2. /\ plan[d].type \in {"expense", "income", "transfer"}
        /\ TypeOf[plan[d].payment] = "asset"
        /\ TypeOf[plan[d].category] \in {"expense", "revenue", "asset"}
    BY <1>1 DEF Detail
  <1>3. QED
    BY <1>2 DEF EntryOf, Fits

\* The journal keeps its form when an entry is added.
LEMMA LinesStep ==
  ASSUME IInv, LinesOK, [ReportsNext]_vars
  PROVE  LinesOK' /\ entries \subseteq entries'
  <1>0. UNCHANGED plan
    BY PlanIsFixed
  <1>1. CASE UNCHANGED entries
    BY <1>0, <1>1 DEF LinesOK, Fits
  <1>2. ASSUME NEW p \in Requests, CommitPosting(p)
        PROVE  LinesOK' /\ entries \subseteq entries'
    <2> DEFINE e == EntryOf(tx[p].draft, tx[p].rate, tx[p].answer)
    <2>1. tx[p].draft \in Drafts
      <3>1. tx[p] \in Posting
        BY <1>2 DEF IInv, RequestOK, PostingSteps, CommitPosting
      <3>2. QED
        BY <3>1 DEF Posting
    <2>2. /\ TypeOf[e.debit] \in {"expense", "revenue", "asset"}
          /\ TypeOf[e.credit] \in {"expense", "revenue", "asset"}
          /\ Fits(plan[e.draft]) => TypeOf[e.debit] # "revenue" /\ TypeOf[e.credit] # "expense"
      BY <2>1, EntryOfKinds DEF IInv
    <2>3. entries' = entries \cup {e}
      BY <1>2 DEF CommitPosting
    <2> HIDE DEF e
    <2>4. IsFiniteSet(entries')
      BY <2>3, FS_AddElement DEF LinesOK
    <2>5. QED
      BY <1>0, <2>2, <2>3, <2>4 DEF LinesOK, Fits
  <1>3. UNCHANGED entries \/ \E p \in Requests : CommitPosting(p)
    BY DEF ReportsNext, BooksNext, vars, StartPosting, CheckPayment, QuoteBase, QuoteExact,
      MissExact, FetchRate, StoreRate, QuoteOlder, Answered, AddRate, CommitRate, Rollback,
      SwitchActive, SwitchPayment, Midnight, ReadRevenue, ReadExpenses, Finish, Begin, Moves
  <1>4. QED
    BY <1>1, <1>2, <1>3

\* What becomes of the request that takes a step.
LEMMA ReadingStep ==
  ASSUME IInv, SumsInv, [ReportsNext]_vars, NEW p \in Requests, tx'[p] # tx[p],
         LinesOK', BooksTypeOK'
  PROVE  Reading(p)'
  <1>1. tx = [q \in Requests |-> tx[q]] /\ BooksTypeOK /\ LinesOK /\ Reading(p)
    BY DEF IInv, SumsInv
  <1>2. ASSUME NEW q \in Requests, NEW r, tx' = [tx EXCEPT ![q] = r]
        PROVE  tx'[p] = r
    BY <1>1, <1>2
  <1>3. CASE \E from, to \in Days : ReadRevenue(p, from, to)
    <2>1. PICK from \in Days, to \in Days : ReadRevenue(p, from, to)
      BY <1>3
    <2> DEFINE r == [step |-> "revenue", from |-> from, to |-> to,
                     revenue |-> Income(from, to), start |-> NetIncome(from, to)]
    <2>2. tx'[p] = r /\ entries' = entries
      BY <1>2, <2>1 DEF ReadRevenue, Begin
    <2>3. Income(from, to) \in Nat /\ Expenses(from, to) \in Nat
      BY <1>1, LineSums DEF Income, Expenses
    <2>4. Income(from, to)' = Income(from, to) /\ Expenses(from, to)' = Expenses(from, to)
      BY <2>2 DEF Income, Expenses, Debits, Credits, OfType
    <2>5. QED
      BY <2>2, <2>3, <2>4 DEF Reading, NetIncome
  <1>4. CASE ReadExpenses(p)
    <2> DEFINE t == tx[p]
               r == [step |-> "shown", net |-> t.revenue - Expenses(t.from, t.to),
                     start |-> t.start, end |-> NetIncome(t.from, t.to)]
    <2>1. tx'[p] = r /\ t.step = "revenue"
      BY <1>2, <1>4 DEF ReadExpenses, Moves
    <2>2. Income(t.from, t.to) \in Nat /\ Expenses(t.from, t.to) \in Nat
      BY <1>1, LineSums DEF Income, Expenses
    <2>3. /\ t.revenue \in Nat /\ t.start \in Int
          /\ t.revenue <= Income(t.from, t.to)
          /\ t.revenue - Expenses(t.from, t.to) <= t.start
      BY <1>1, <2>1 DEF Reading
    <2>4. r.net <= r.start /\ r.net <= r.end
      BY <2>2, <2>3 DEF NetIncome
    <2>5. QED
      BY <2>1, <2>4 DEF Reading
  <1>5. CASE tx'[p].step \notin {"revenue", "shown"}
    BY <1>5 DEF Reading
  <1>6. \/ \E from, to \in Days : ReadRevenue(p, from, to)
        \/ ReadExpenses(p)
        \/ tx'[p].step \notin {"revenue", "shown"}
    <2>1. ASSUME NEW q \in Requests, NEW r, tx' = [tx EXCEPT ![q] = r]
          PROVE  q = p /\ tx'[p] = r
      BY <1>1, <2>1
    <2>2. ASSUME NEW q \in Requests, tx[q].step \in PostingSteps,
                 NEW s \in PostingSteps, NEW x, NEW how, NEW stores,
                 \/ tx' = [tx EXCEPT ![q] = [tx[q] EXCEPT !.step = s]]
                 \/ tx' = [tx EXCEPT ![q] = [tx[q] EXCEPT !.step = s, !.rate = x]]
                 \/ tx' = [tx EXCEPT ![q] = [tx[q] EXCEPT !.step = s, !.rate = x,
                                              !.answer = how, !.stores = stores]]
          PROVE  tx'[p].step \notin {"revenue", "shown"}
      <3>1. tx[q] \in Posting
        BY <2>2 DEF IInv, RequestOK
      <3>2. tx'[p].step = s
        <4>1. CASE tx' = [tx EXCEPT ![q] = [tx[q] EXCEPT !.step = s]]
          BY <2>1, <3>1, <4>1 DEF Posting
        <4>2. CASE tx' = [tx EXCEPT ![q] = [tx[q] EXCEPT !.step = s, !.rate = x]]
          BY <2>1, <3>1, <4>2 DEF Posting
        <4>3. CASE tx' = [tx EXCEPT ![q] = [tx[q] EXCEPT !.step = s, !.rate = x,
                                            !.answer = how, !.stores = stores]]
          BY <2>1, <3>1, <4>3 DEF Posting
        <4>4. QED
          BY <2>2, <4>1, <4>2, <4>3
      <3>3. QED
        BY <2>2, <3>2 DEF PostingSteps
    <2>3. CASE \E q \in Requests :
                 QuoteBase(q) \/ QuoteExact(q) \/ StoreRate(q) \/ QuoteOlder(q)
      <3>1. PICK q \in Requests :
                 QuoteBase(q) \/ QuoteExact(q) \/ StoreRate(q) \/ QuoteOlder(q)
        BY <2>3
      <3>2. PICK x, how, stores : Answered(q, x, how, stores)
        BY <3>1 DEF QuoteBase, QuoteExact, StoreRate, QuoteOlder
      <3>3. tx[q].step \in PostingSteps /\ "quoted" \in PostingSteps
        BY <3>1 DEF QuoteBase, QuoteExact, StoreRate, QuoteOlder, PostingSteps
      <3>4. QED
        BY <2>2, <3>2, <3>3 DEF Answered, Moves
    <2>4. CASE \E q \in Requests :
                 CheckPayment(q) \/ MissExact(q) \/ \E x \in Quotes : FetchRate(q, x)
      <3>1. PICK q \in Requests :
                 CheckPayment(q) \/ MissExact(q) \/ \E x \in Quotes : FetchRate(q, x)
        BY <2>4
      <3>2. /\ tx[q].step \in PostingSteps
            /\ {"looking", "fetching", "searching", "inserting"} \subseteq PostingSteps
        BY <3>1 DEF CheckPayment, MissExact, FetchRate, PostingSteps
      <3>3. CASE CheckPayment(q) \/ MissExact(q)
        <4>1. PICK s \in PostingSteps : tx' = [tx EXCEPT ![q] = [tx[q] EXCEPT !.step = s]]
          BY <3>2, <3>3 DEF CheckPayment, MissExact, Moves
        <4>2. QED
          BY <2>2, <3>2, <4>1
      <3>4. CASE \E x \in Quotes : FetchRate(q, x)
        BY <2>2, <3>2, <3>4 DEF FetchRate, Moves
      <3>5. QED
        BY <3>1, <3>3, <3>4
    <2>5. CASE \E q \in Requests :
                 \/ \E d \in Drafts : StartPosting(q, d)
                 \/ \E t \in Days, x \in Quotes : AddRate(q, t, x)
                 \/ CommitPosting(q) \/ CommitRate(q) \/ Rollback(q) \/ Finish(q)
      <3>1. PICK q \in Requests :
                 \E r : tx' = [tx EXCEPT ![q] = r] /\ r.step \in {"checking", "adding", "idle"}
        BY <2>5 DEF StartPosting, AddRate, CommitPosting, CommitRate, Rollback, Finish, Begin,
                    Moves, NoTx
      <3>2. QED
        BY <2>1, <3>1
    <2>6. CASE UNCHANGED tx
      BY <2>6
    <2>7. CASE \E q \in Requests :
                 \/ \E from, to \in Days : ReadRevenue(q, from, to)
                 \/ ReadExpenses(q)
      <3>1. PICK q \in Requests :
                 \/ \E from, to \in Days : ReadRevenue(q, from, to)
                 \/ ReadExpenses(q)
        BY <2>7
      <3>2. q = p
        BY <2>1, <3>1 DEF ReadRevenue, ReadExpenses, Begin, Moves
      <3>3. QED
        BY <3>1, <3>2
    <2>8. UNCHANGED tx \/ ReportsNext
      BY DEF vars
    <2>9. CASE \E a \in Accounts : SwitchActive(a) \/ SwitchPayment(a)
      BY <2>9 DEF SwitchActive, SwitchPayment
    <2>10. CASE Midnight
      BY <2>10 DEF Midnight
    <2>11. QED
      BY <2>3, <2>4, <2>5, <2>6, <2>7, <2>8, <2>9, <2>10 DEF ReportsNext, BooksNext
  <1>7. QED
    BY <1>3, <1>4, <1>5, <1>6

\* Nothing is posted and nothing read at first.
LEMMA SumsInit == BooksInit => SumsInv
  <1> SUFFICES ASSUME BooksInit PROVE SumsInv
    OBVIOUS
  <1>1. LinesOK
    BY FS_EmptySet DEF BooksInit, LinesOK
  <1>2. \A p \in Requests : tx[p].step = "idle"
    BY DEF BooksInit, NoTx
  <1>3. QED
    BY <1>1, <1>2 DEF SumsInv, Reading

\* Every step keeps what the reports need.
LEMMA SumsStep == IInv /\ SumsInv /\ [ReportsNext]_vars => SumsInv'
  <1> SUFFICES ASSUME IInv, SumsInv, [ReportsNext]_vars PROVE SumsInv'
    OBVIOUS
  <1>1. BooksTypeOK /\ BooksTypeOK' /\ LinesOK
    BY IInvStep DEF IInv, SumsInv
  <1>2. LinesOK' /\ entries \subseteq entries'
    BY <1>1, LinesStep
  <1>3. ASSUME NEW p \in Requests PROVE Reading(p)'
    <2>1. CASE tx'[p] = tx[p]
      BY <1>1, <1>2, <2>1, ReadingKept DEF SumsInv
    <2>2. CASE tx'[p] # tx[p]
      BY <1>1, <1>2, <2>2, ReadingStep
    <2>3. QED
      BY <2>1, <2>2
  <1>4. QED
    BY <1>2, <1>3 DEF SumsInv

\* Reports made from different queries agree whatever has been posted, but for
\* what drafts with a category that does not fit their type have posted.
THEOREM ReportsTellOneStory == ReportsSpec => []ReportsAgree
  <1>1. IInv /\ SumsInv => ReportsAgree
    BY AgreeingReports DEF IInv, SumsInv
  <1>2. QED
    BY <1>1, SumsInit, SumsStep, InductiveInvariant, PTL DEF ReportsSpec

\* However many postings commit between the two SELECTs of a report, the profit it
\* shows is not above both of the company's at its beginning and at its end.
THEOREM ProfitIsNotOverstated == ReportsSpec => []ProfitNotOverstated
  <1>1. SumsInv => ProfitNotOverstated
    BY DEF SumsInv, Reading, ProfitNotOverstated
  <1>2. QED
    BY <1>1, SumsInit, SumsStep, InductiveInvariant, PTL DEF ReportsSpec
=============================================================================
