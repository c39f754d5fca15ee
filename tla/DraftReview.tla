---------------------------- MODULE DraftReview ----------------------------
(***************************************************************************)
(* Review and posting of draft transactions.                               *)
(*                                                                         *)
(* A draft comes out of the extraction pipeline waiting for clarification  *)
(* or ready for review.  Dashboard users edit it, approve it (which posts  *)
(* a journal entry), reject it or send it back for clarification; the      *)
(* owner of a Telegram chat edits it and confirms it.  Every request runs  *)
(* in one PostgreSQL transaction at READ COMMITTED: each SELECT sees what  *)
(* is committed at that moment, an UPDATE or a SELECT ... FOR UPDATE waits  *)
(* for the transaction that holds the row, and an exception rolls          *)
(* everything back.  The steps of a request below are the statements       *)
(* between which another request can run.                                  *)
(*                                                                         *)
(* The pipeline is not out of the way when review begins.  A retry that    *)
(* read its inbox item before the draft was created extracts the item once *)
(* more, and if it came from a chat and its draft still waits for          *)
(* clarification, the draft is corrected: the extraction writes a new type *)
(* into it, and leaves the accounts chosen for the old one.                *)
(*                                                                         *)
(* draft, inbox and journal hold committed rows only; what a transaction   *)
(* has read, or written and not yet committed, is in tx and in worker.     *)
(***************************************************************************)
EXTENDS Naturals, Sequences, FiniteSets

CONSTANTS
  Companies,
  Drafts,
  CompanyOf,         \* the company of each draft
  Users,             \* dashboard users, members of every company here
  Chats,             \* paired Telegram chats
  Workers,           \* Celery workers that extract an item once more
  Approvers,         \* users with a role in DRAFT_APPROVAL_ROLES
  Editors,           \* users with a role in DRAFT_EDIT_ROLES
  Nobody,            \* NULL in draft_transactions.approved_by
  TransactionTypes,
  Keys,              \* one key per distinct (amount, currency, date, text)
  Extracted,         \* the field values extraction leaves in a draft
  InitialDups,       \* the duplicate flags extraction leaves in a draft
  FromTelegram,      \* the drafts whose items a chat submitted
  Findings,          \* what an extraction may find the second time
  Patches,           \* the partial updates editors send
  MaxRequests,       \* bound: requests one actor makes in a behaviour
  MaxInFlight,       \* bound: requests the server handles at one time
  MaxRetries         \* bound: further extractions of an item

Actors == Users \cup Chats

NoAccount == "none"
Keep      == "keep"  \* a field a partial update does not supply

\* A draft's accounts are abstracted to the kind of account they are.
Fields == [type     : TransactionTypes,
           category : {NoAccount, "expense", "revenue", "asset"},
           payment  : {NoAccount, "bank"},
           key      : Keys]

Patch == [type     : TransactionTypes \cup {Keep},
          category : {NoAccount, "expense", "revenue", "asset", Keep},
          payment  : {NoAccount, "bank", Keep},
          key      : Keys \cup {Keep}]

ExpectedCategory(type) ==
  CASE type = "expense" -> "expense"
    [] type = "income"  -> "revenue"
    [] OTHER            -> "asset"

\* DraftEditableState and _validate_accounts on the merged state.
ValidFields(f) ==
  f.category # NoAccount => f.category = ExpectedCategory(f.type)

ASSUME ConstantsAssumption ==
  /\ CompanyOf \in [Drafts -> Companies]
  /\ Approvers \subseteq Users
  /\ Editors \subseteq Users
  /\ Users \cap Chats = {}
  /\ Workers \cap Actors = {}
  /\ Nobody \notin Actors
  /\ TransactionTypes \subseteq {"expense", "income", "transfer"}
  /\ Keep \notin Keys
  /\ Extracted \subseteq Fields
  /\ \A f \in Extracted : f.category = NoAccount /\ f.payment = NoAccount
  /\ InitialDups \subseteq {"unique", "likely_duplicate", "exact_duplicate"}
  /\ FromTelegram \subseteq Drafts
  /\ Findings \subseteq [type : TransactionTypes, key : Keys]
  /\ Patches \subseteq Patch
  /\ MaxRequests \in Nat
  /\ MaxInFlight \in Nat
  /\ MaxRetries \in Nat

VARIABLES
  draft,    \* committed rows of draft_transactions
  inbox,    \* committed status of the inbox item each draft came from
  journal,  \* per company, the committed journal entries in commit order
  tx,       \* the open transaction of each actor's request, or NoTx
  sent,     \* how many requests each actor has made
  worker,   \* the further extraction each worker runs
  retried,  \* how often the item of each draft was extracted again
  retyped   \* history: drafts whose type a correction changed, the
            \* category having been chosen

pipeline == <<worker, retried, retyped>>

vars == <<draft, inbox, journal, tx, sent, pipeline>>

---------------------------------------------------------------------------
(* Types *)

OpenStatuses  == {"draft", "needs_clarification", "ready_for_review"}
DraftStatuses == OpenStatuses \cup {"posted", "rejected"}
DupStatuses   == {"unchecked", "unique", "likely_duplicate", "exact_duplicate"}

Row == [status      : DraftStatuses,
        fields      : Fields,
        dup         : DupStatuses,
        approved_by : Users \cup {Nobody}]

Body == [draft     : Drafts,
         type      : TransactionTypes,
         key       : Keys,
         debit     : {"expense", "revenue", "asset", "bank"},
         credit    : {"expense", "revenue", "asset", "bank"},
         posted_by : Users]

Entry == [number : Nat \ {0}, body : Body]

NoTx == [op |-> "none", step |-> "idle"]

Steps == {"read", "edited", "flushed", "numbered", "inserted"}

Transaction ==
  [op     : {"approve", "reject", "clarify", "confirm", "edit"},
   step   : Steps,
   draft  : Drafts,
   fields : Fields,
   dup    : DupStatuses,
   number : Nat]

ItemStatuses == {"review_required", "archived", "processing", "failed"}

Idle == [step |-> "idle"]

Extraction == [step : {"extracting"}, draft : Drafts]

\* What the UPDATE of a correction will write.
Correction == [step   : {"correcting"},
               draft  : Drafts,
               fields : {p \in Patch : p.category = Keep /\ p.payment = Keep},
               dup    : DupStatuses \cup {Keep}]

TypeOK ==
  /\ draft \in [Drafts -> Row]
  /\ inbox \in [Drafts -> ItemStatuses]
  /\ journal \in [Companies -> Seq(Entry)]
  /\ tx \in [Actors -> Transaction \cup {NoTx}]
  /\ sent \in [Actors -> Nat]
  /\ worker \in [Workers -> Extraction \cup Correction \cup {Idle}]
  /\ retried \in [Drafts -> Nat]
  /\ retyped \subseteq Drafts

---------------------------------------------------------------------------
(* Locks and requests *)

\* The steps at which a transaction holds the lock on its draft's row.
HoldsRow(a, d) == tx[a].step \notin {"idle", "read"} /\ tx[a].draft = d

\* An UPDATE or SELECT ... FOR UPDATE by a on d need not wait.
RowFree(a, d) == \A b \in Actors \ {a} : ~HoldsRow(b, d)

\* Mutant: the claim is not committed before the provider is called.
HoldsItemLonger(w, d) == worker[w].step # "idle" /\ worker[w].draft = d

\* A correction holds its item from its first statement on.
HoldsItem(w, d) == worker[w].step = "correcting" /\ worker[w].draft = d

\* Mutant: the item of a draft that is being corrected can be updated.
NeverLocked(d) == d \in Drafts

ItemFree(d) == \A w \in Workers : ~HoldsItem(w, d)

Busy == {a \in Actors : tx[a] # NoTx}

Admit(a) ==
  /\ tx[a] = NoTx
  /\ sent[a] < MaxRequests
  /\ Cardinality(Busy) < MaxInFlight
  /\ sent' = [sent EXCEPT ![a] = @ + 1]

Start(a, op, step, d, fields, dup) ==
  /\ Admit(a)
  /\ tx' = [tx EXCEPT ![a] = [op |-> op, step |-> step, draft |-> d,
                              fields |-> fields, dup |-> dup, number |-> 0]]
  /\ UNCHANGED <<draft, inbox, journal, pipeline>>

Advance(a, to) ==
  /\ tx' = [tx EXCEPT ![a].step = to]
  /\ UNCHANGED <<draft, inbox, journal, sent, pipeline>>

Finish(a) ==
  /\ tx' = [tx EXCEPT ![a] = NoTx]
  /\ UNCHANGED <<sent, pipeline>>

---------------------------------------------------------------------------
(* The decisions of a reviewer and the confirmation of a chat all start    *)
(* with an unlocked SELECT of the draft and a test of its status.          *)

RequiredStatus(op) ==
  IF op = "confirm" THEN "needs_clarification" ELSE "ready_for_review"

MayRequest(a, op) ==
  CASE op = "confirm" -> a \in Chats
    [] op = "edit"    -> a \in Editors \cup Chats
    [] OTHER          -> a \in Approvers

\* Mutant: the status test of approve_draft and reject_draft is dropped.
ReadDraftUnchecked(a, op, d) ==
  /\ MayRequest(a, op)
  /\ Start(a, op, "read", d, draft[d].fields, draft[d].dup)

ReadDraft(a, op, d) ==
  /\ MayRequest(a, op)
  /\ draft[d].status = RequiredStatus(op)
  /\ Start(a, op, "read", d, draft[d].fields, draft[d].dup)

\* The first UPDATE.  It names the row by its primary key and does not test
\* the status again, so it applies to whatever was committed meanwhile.
FlushStatus(a) ==
  /\ tx[a].step = "read"
  /\ RowFree(a, tx[a].draft)
  /\ Advance(a, "flushed")

\* Mutant: a status that is only ever flushed, never committed.
DecidedApproved(op) == IF op = "reject" THEN "rejected" ELSE "approved"

Decided(op) ==
  CASE op = "reject"  -> "rejected"
    [] op = "clarify" -> "needs_clarification"
    [] OTHER          -> "ready_for_review"

\* Commit of reject, request-clarification and confirm.  The item's row is
\* read and updated in one step here and in PostAndCommit.
CommitDecision(a) ==
  LET d == tx[a].draft IN
  /\ tx[a].step = "flushed"
  /\ tx[a].op \in {"reject", "clarify", "confirm"}
  /\ tx[a].op = "reject" => ItemFree(d)
  /\ draft' = [draft EXCEPT ![d].status = Decided(tx[a].op)]
  /\ inbox' = IF tx[a].op = "reject" THEN [inbox EXCEPT ![d] = "archived"]
                                     ELSE inbox
  /\ Finish(a)
  /\ UNCHANGED journal

---------------------------------------------------------------------------
(* Approval: number the entry, insert it, mark the draft posted, commit.   *)

Postable(f) == f.category # NoAccount /\ f.payment # NoAccount

DebitAccount(f)  == IF f.type = "expense" THEN f.category ELSE f.payment
CreditAccount(f) == IF f.type = "expense" THEN f.payment ELSE f.category

BodyOf(a, d, f) ==
  [draft |-> d, type |-> f.type, key |-> f.key,
   debit |-> DebitAccount(f), credit |-> CreditAccount(f), posted_by |-> a]

\* Mutant: numbering from zero.
EntryCount(c) == Len(journal[c])

NextEntryNumber(c) == Len(journal[c]) + 1

\* get_next_entry_number: a SELECT count(*), after the account checks.
NumberEntry(a) ==
  /\ tx[a].step = "flushed"
  /\ tx[a].op = "approve"
  /\ Postable(tx[a].fields)
  /\ tx' = [tx EXCEPT ![a].step   = "numbered",
                      ![a].number = NextEntryNumber(CompanyOf[tx[a].draft])]
  /\ UNCHANGED <<draft, inbox, journal, sent, pipeline>>

\* UNIQUE (company_id, entry_number): among committed entries ...
NumberTaken(c, n) == \E i \in 1..Len(journal[c]) : journal[c][i].number = n

\* ... and among those another open transaction has inserted, for whose
\* outcome the INSERT waits.
NumberInFlight(a, c, n) ==
  \E b \in Actors \ {a} : /\ tx[b].step = "inserted"
                          /\ CompanyOf[tx[b].draft] = c
                          /\ tx[b].number = n

InsertEntry(a) ==
  /\ tx[a].step = "numbered"
  /\ ~NumberTaken(CompanyOf[tx[a].draft], tx[a].number)
  /\ ~NumberInFlight(a, CompanyOf[tx[a].draft], tx[a].number)
  /\ Advance(a, "inserted")

\* The rest of approve_draft: only status, approved_by and approved_at are
\* dirty, so the fields of the row stay what other requests committed.
PostAndCommit(a) ==
  LET d == tx[a].draft
      c == CompanyOf[d] IN
  /\ tx[a].step = "inserted"
  /\ ItemFree(d)
  /\ journal' = [journal EXCEPT ![c] =
                   Append(@, [number |-> tx[a].number,
                              body   |-> BodyOf(a, d, tx[a].fields)])]
  /\ draft' = [draft EXCEPT ![d].status = "posted", ![d].approved_by = a]
  /\ inbox' = [inbox EXCEPT ![d] = "archived"]
  /\ Finish(a)

\* Mutants: a JournalError handler that returns instead of raising, so that
\* get_db commits; an INSERT that retries a number that is taken.
RefusalCommits(a) ==
  /\ tx[a].step = "flushed"
  /\ tx[a].op = "approve"
  /\ ~Postable(tx[a].fields)
  /\ draft' = [draft EXCEPT ![tx[a].draft].status = "posted"]
  /\ Finish(a)
  /\ UNCHANGED <<inbox, journal>>

RefuseUnpostable(a) ==
  /\ tx[a].step = "flushed"
  /\ tx[a].op = "approve"
  /\ ~Postable(tx[a].fields)
  /\ Finish(a)
  /\ UNCHANGED <<draft, inbox, journal>>

\* JournalError (no category or payment account) and IntegrityError (the
\* number was committed by somebody else): both roll the request back.
RefusePosting(a) ==
  /\ \/ /\ tx[a].step = "flushed"
        /\ tx[a].op = "approve"
        /\ ~Postable(tx[a].fields)
     \/ /\ tx[a].step = "numbered"
        /\ NumberTaken(CompanyOf[tx[a].draft], tx[a].number)
  /\ Finish(a)
  /\ UNCHANGED <<draft, inbox, journal>>

---------------------------------------------------------------------------
(* Editing: SELECT ... FOR UPDATE, then everything is decided on the locked *)
(* row, so the check, the merge and the write are one step.                *)

Supplied(new, old) == IF new = Keep THEN old ELSE new

Merged(f, p) == [type     |-> Supplied(p.type, f.type),
                 category |-> Supplied(p.category, f.category),
                 payment  |-> Supplied(p.payment, f.payment),
                 key      |-> Supplied(p.key, f.key)]

DuplicateRelevant(f, g) == f.key # g.key \/ f.type # g.type

HasTwin(d, f) ==
  \E e \in Drafts \ {d} : /\ CompanyOf[e] = CompanyOf[d]
                          /\ draft[e].fields.key = f.key
                          /\ draft[e].status \in {"ready_for_review", "posted"}

\* Mutant: the early return for exact duplicates is dropped.
ReevaluatedAll(d, f) ==
  CASE HasTwin(d, f) -> "likely_duplicate"
    [] draft[d].dup = "likely_duplicate" /\ ~HasTwin(d, f) -> "unchecked"
    [] OTHER -> "unique"

Reevaluated(d, f) ==
  CASE draft[d].dup = "exact_duplicate"  -> "exact_duplicate"
    [] draft[d].dup # "exact_duplicate" /\ HasTwin(d, f) -> "likely_duplicate"
    [] draft[d].dup = "likely_duplicate" /\ ~HasTwin(d, f) -> "unchecked"
    [] OTHER -> "unique"

\* A chat sends one field at a time, and not the accounts.
ChatPatch(p) ==
  /\ p.category = Keep /\ p.payment = Keep
  /\ p.type = Keep \/ p.key = Keep

\* Mutant: the 409 for drafts that are decided is dropped.
AlwaysEditable(d) == TRUE

Editable(d) == draft[d].status \in OpenStatuses

\* Mutant: _validate_accounts is not called.
AnyChange(old, new) == new # old

ValidChange(old, new) == new # old /\ ValidFields(new)

EditDraft(a, d, p) ==
  LET old == draft[d].fields
      new == Merged(old, p) IN
  /\ MayRequest(a, "edit")
  /\ a \in Chats => ChatPatch(p)
  /\ RowFree(a, d)
  /\ Editable(d)
  /\ ValidChange(old, new)
  /\ Start(a, "edit", "edited", d, new,
           IF DuplicateRelevant(old, new) THEN Reevaluated(d, new)
                                          ELSE draft[d].dup)

CommitEdit(a) ==
  LET d == tx[a].draft IN
  /\ tx[a].step = "edited"
  /\ draft' = [draft EXCEPT ![d].fields = tx[a].fields, ![d].dup = tx[a].dup]
  /\ Finish(a)
  /\ UNCHANGED <<inbox, journal>>

---------------------------------------------------------------------------
(* Extraction of an item that has its draft already: InboxExtraction has   *)
(* the retries that lead to it, here it simply happens.                    *)

\* An asked-for retry and the claim of its task.  The item may have gone back
\* to review, or have been archived, since the retry read it.
ExtractAgain(w, d) ==
  /\ worker[w] = Idle
  /\ retried[d] < MaxRetries
  /\ inbox[d] # "processing"
  /\ ItemFree(d)
  /\ inbox' = [inbox EXCEPT ![d] = "processing"]
  /\ worker' = [worker EXCEPT ![w] = [step |-> "extracting", draft |-> d]]
  /\ retried' = [retried EXCEPT ![d] = @ + 1]
  /\ UNCHANGED <<draft, journal, tx, sent, retyped>>

IsCorrection(d) ==
  /\ d \in FromTelegram
  /\ draft[d].status = "needs_clarification"
  /\ inbox[d] = "processing"

SetItem(w, status) ==
  /\ worker[w].step = "extracting"
  /\ ItemFree(worker[w].draft)
  /\ inbox' = [inbox EXCEPT ![worker[w].draft] = status]
  /\ worker' = [worker EXCEPT ![w] = Idle]
  /\ UNCHANGED <<draft, journal, tx, sent, retried, retyped>>

\* The draft stays, whatever became of it, and its item goes back to review.
FinalizeExisting(w) ==
  /\ worker[w].step = "extracting"
  /\ ~IsCorrection(worker[w].draft)
  /\ SetItem(w, "review_required")

\* The provider fails, or what it returned is of no use for a correction.
ExtractionFails(w) == SetItem(w, "failed")

\* A new key is another amount, currency, date or text.  Whether another item
\* has the same content is not in this module, so it may have or not.
FindDuplicate(d, found) ==
  {"exact_duplicate", IF HasTwin(d, found) THEN "likely_duplicate" ELSE "unique"}

Changed(new, old) == IF new = old THEN Keep ELSE new

\* SQLAlchemy writes the columns that differ from the row it has read.
CorrectionOf(f, found) == [type     |-> Changed(found.type, f.type),
                           category |-> Keep,
                           payment  |-> Keep,
                           key      |-> Changed(found.key, f.key)]

\* _finalize_extraction locks the item and reads the draft, without a lock ...
StartCorrection(w) ==
  LET d == worker[w].draft IN
  /\ worker[w].step = "extracting"
  /\ ItemFree(d)
  /\ IsCorrection(d)
  /\ \E found \in Findings : \E dup \in FindDuplicate(d, found) :
       worker' = [worker EXCEPT ![w] = [step   |-> "correcting",
                                        draft  |-> d,
                                        fields |-> CorrectionOf(draft[d].fields, found),
                                        dup    |-> Changed(dup, draft[d].dup)]]
  /\ UNCHANGED <<draft, inbox, journal, tx, sent, retried, retyped>>

\* ... and updates the draft when its row is free.  There is always something
\* to update, if only the confidence; the status is assigned the value that was
\* read, so it is not part of it.
CommitCorrection(w) ==
  LET d == worker[w].draft
      c == worker[w] IN
  /\ c.step = "correcting"
  /\ RowFree(w, d)
  /\ draft' = [draft EXCEPT ![d].fields = Merged(@, c.fields), ![d].dup = Supplied(c.dup, @)]
  /\ inbox' = [inbox EXCEPT ![d] = "review_required"]
  /\ worker' = [worker EXCEPT ![w] = Idle]
  /\ retyped' = IF /\ draft[d].fields.category # NoAccount
                   /\ Merged(draft[d].fields, c.fields).type # draft[d].fields.type
                  THEN retyped \cup {d} ELSE retyped
  /\ UNCHANGED <<journal, tx, sent, retried>>

\* A transaction that has updated the draft and waits for the item.
WaitsForItem(a) ==
  \/ tx[a].step = "inserted"
  \/ tx[a].step = "flushed" /\ tx[a].op = "reject"

Drop(w) ==
  /\ worker' = [worker EXCEPT ![w] = Idle]
  /\ UNCHANGED <<draft, inbox, journal, tx, sent, retried, retyped>>

\* Item, then draft, and draft, then item: PostgreSQL breaks the cycle.  If it
\* chooses the reviewer's request, that is a Rollback.
AbortCorrection(w) ==
  /\ worker[w].step = "correcting"
  /\ \E a \in Actors : HoldsRow(a, worker[w].draft) /\ WaitsForItem(a)
  /\ Drop(w)

\* The worker dies; its transaction, if it has one, is rolled back.
LoseWorker(w) == worker[w] # Idle /\ Drop(w)

---------------------------------------------------------------------------
\* The handler raises (no exchange rate, account deactivated), the client
\* disconnects or the process dies: get_db rolls the transaction back.
Rollback(a) ==
  /\ tx[a] # NoTx
  /\ Finish(a)
  /\ UNCHANGED <<draft, inbox, journal>>

Init ==
  /\ draft \in [Drafts -> [status      : {"ready_for_review", "needs_clarification"},
                           fields      : Extracted,
                           dup         : InitialDups,
                           approved_by : {Nobody}]]
  /\ \A d \in Drafts : draft[d].status =
       IF d \in FromTelegram THEN "needs_clarification" ELSE "ready_for_review"
  /\ inbox = [d \in Drafts |-> "review_required"]
  /\ journal = [c \in Companies |-> <<>>]
  /\ tx = [a \in Actors |-> NoTx]
  /\ sent = [a \in Actors |-> 0]
  /\ worker = [w \in Workers |-> Idle]
  /\ retried = [d \in Drafts |-> 0]
  /\ retyped = {}

RequestStep(a) ==
  \/ \E op \in {"approve", "reject", "clarify", "confirm"}, d \in Drafts :
       ReadDraft(a, op, d)
  \/ \E d \in Drafts, p \in Patches : EditDraft(a, d, p)
  \/ FlushStatus(a)
  \/ CommitDecision(a)
  \/ NumberEntry(a)
  \/ InsertEntry(a)
  \/ PostAndCommit(a)
  \/ RefusePosting(a)
  \/ CommitEdit(a)
  \/ Rollback(a)

WorkerStep(w) ==
  \/ \E d \in Drafts : ExtractAgain(w, d)
  \/ FinalizeExisting(w)
  \/ ExtractionFails(w)
  \/ StartCorrection(w)
  \/ CommitCorrection(w)
  \/ AbortCorrection(w)
  \/ LoseWorker(w)

Next == (\E a \in Actors : RequestStep(a)) \/ (\E w \in Workers : WorkerStep(w))

Spec == Init /\ [][Next]_vars

\* A handler that can take its next step takes it.  Weak fairness is enough
\* for the two steps that wait for another transaction: only MaxRequests
\* requests of each actor can overtake the waiting one (without that bound
\* one would rely on PostgreSQL's lock queues being FIFO).  Calls of the
\* provider end, and deadlocks are detected.  Nothing obliges a client to send
\* a request or to retry, nor anything to fail.
Fairness ==
  /\ \A a \in Actors :
       /\ WF_vars(FlushStatus(a))
       /\ WF_vars(CommitDecision(a))
       /\ WF_vars(NumberEntry(a))
       /\ WF_vars(InsertEntry(a))
       /\ WF_vars(PostAndCommit(a))
       /\ WF_vars(RefusePosting(a))
       /\ WF_vars(CommitEdit(a))
  /\ \A w \in Workers :
       /\ WF_vars(FinalizeExisting(w) \/ ExtractionFails(w) \/ StartCorrection(w))
       /\ WF_vars(CommitCorrection(w))
       /\ WF_vars(AbortCorrection(w))

FairSpec == Spec /\ Fairness

---------------------------------------------------------------------------
(* Properties *)

\* The numbers of a company's entries are 1, 2, 3, ... in commit order: the
\* count(*) that numbers an entry and the unique index that checks it leave
\* no gap and no repetition, whatever requests interleave and roll back.
EntryNumbersGapless ==
  \A c \in Companies : \A i \in 1..Len(journal[c]) : journal[c][i].number = i

\* A posted draft has a journal entry, signed by the user the draft names as
\* its approver, and a settled inbox item; so has a rejected one the latter.
\* approve_draft commits all three together or none, and no stale decision
\* that lands on the row afterwards leaves it posted without them.  (An item that
\* was extracted again leaves the archive: a stale retry takes it out.)
PostedIsJournaled ==
  \A d \in Drafts :
    /\ draft[d].status = "posted" =>
         \E i \in 1..Len(journal[CompanyOf[d]]) :
           /\ journal[CompanyOf[d]][i].body.draft = d
           /\ journal[CompanyOf[d]][i].body.posted_by = draft[d].approved_by
    /\ draft[d].status \in {"posted", "rejected"} =>
         inbox[d] = "archived" \/ retried[d] > 0

\* The accounts an entry debits and credits are those its type calls for.
SidesFit(b) ==
  <<b.debit, b.credit>> = CASE b.type = "expense" -> <<"expense", "bank">>
                            [] b.type = "income"  -> <<"bank", "revenue">>
                            [] OTHER              -> <<"bank", "asset">>

\* Only a correction separates a category from its type.  Edits that change one
\* field at a time, from several editors, never do; so a draft whose category
\* does not belong to its type, and an entry whose accounts do not, which is
\* posted because posting does not check this again, belong to a draft whose
\* type an extraction has changed after its category was chosen.
MismatchNeedsCorrection ==
  /\ \A d \in Drafts : ValidFields(draft[d].fields) \/ d \in retyped
  /\ \A c \in Companies : \A i \in 1..Len(journal[c]) :
       SidesFit(journal[c][i].body) \/ journal[c][i].body.draft \in retyped

\* While a draft is posted nothing changes what it says: an edit that was
\* waiting for the row when the approval committed finds it not editable, and
\* a correction holds the item that an approval must update before it commits.
PostedFieldsFrozen ==
  [][\A d \in Drafts : draft[d].status = "posted" => draft'[d].fields = draft[d].fields]_vars

Corrects(d) == \E w \in Workers : HoldsItem(w, d) /\ worker'[w] = Idle

\* No edit clears an exact duplicate, and none turns a likely duplicate into
\* a unique draft without the "unchecked" state a reviewer sees in between.
\* Only an extraction that looks for duplicates again may.
DuplicateFlagKept ==
  [][\A d \in Drafts : ~Corrects(d) =>
       /\ draft[d].dup = "exact_duplicate" => draft'[d].dup = "exact_duplicate"
       /\ draft[d].dup = "likely_duplicate" => draft'[d].dup # "unique"]_vars

\* Every request is answered and every further extraction ends: the waits for a
\* draft's row, for its item and for an entry number another approval has
\* inserted form no cycle but that of a correction and a decision of its draft.
RequestsAnswered ==
  /\ \A a \in Actors : tx[a] # NoTx ~> tx[a] = NoTx
  /\ \A w \in Workers : worker[w] # Idle ~> worker[w] = Idle

\* The journal refines the ledger a bookkeeper is promised.
WellFormedBodies ==
  {BodyOf(a, d, f) : a \in Approvers, d \in Drafts, f \in {g \in Fields : Postable(g)}}

Books == INSTANCE Ledger WITH Bodies <- WellFormedBodies, ledger <- journal

\* Only approvals touch the journal; they append one well formed entry, with
\* the next number, and never change one that is there.
JournalIsLedger == Books!LedgerSpec

\* One draft is posted once: so it is while its decisions do not overlap, whatever
\* edits, confirms or corrects it meanwhile.
AtMostOneEntryPerDraft ==
  \A c \in Companies : \A i, j \in 1..Len(journal[c]) :
    journal[c][i].body.draft = journal[c][j].body.draft => i = j

\* The entry of a posted draft says what the draft says: so it does if nothing is
\* done to the draft between the read of its approval and the commit.
EntryMatchesDraft ==
  \A d \in Drafts : draft[d].status = "posted" =>
    \E i \in 1..Len(journal[CompanyOf[d]]) :
      journal[CompanyOf[d]][i].body = BodyOf(draft[d].approved_by, d, draft[d].fields)

\* A posted or rejected draft is never changed again: not by an edit or correction
\* that began before the decision, nor, while decisions do not overlap, by another.
DecisionIsFinal ==
  [][\A d \in Drafts : draft[d].status \in {"posted", "rejected"} =>
       draft'[d] = draft[d]]_vars
=============================================================================
