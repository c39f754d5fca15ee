# TLA+ models of the CFO AI accounting backend

The repository is a multi-tenant bookkeeping service. Texts and receipts arrive
from a dashboard or a Telegram chat, a language model extracts a draft
transaction, members of the company review the draft, and an approved draft
becomes a journal entry. The backend (`src/cfo-backend`) is FastAPI on
PostgreSQL at READ COMMITTED through SQLAlchemy's async session, with Celery
workers fed by Redis. This directory holds specifications of its stateful parts,
TLC configurations that check them on small instances, and theorems about them
that TLAPS proves for every instance.

## 1. What the system consists of

Paths are below `src/cfo-backend/app`. The last column names the modules.

| Component | State it keeps | Operations | Hard behaviour | What makes it correct | Modules |
|---|---|---|---|---|---|
| Draft review and posting: `api/v1/draft_transactions.py`, `services/draft_editing.py`, `services/journal.py`, chat confirm and edit in `api/v1/telegram.py`, corrections by `tasks/ai_extraction.py` | `draft_transactions`, `journal_entries`, status of `inbox_items` | edit, approve (posts), reject, request clarification, confirm, correct | status tested on an unlocked read; entry numbers by `count(*)`; several rows in one transaction; a worker that rewrites a draft under review | entries numbered without gaps, posted drafts have exactly their entry, posted fields do not move, a decision is final | `Ledger`, `DraftReview` |
| Inbox items and extraction: `tasks/ai_extraction.py`, `tasks/receipt_processing.py`, `api/v1/intake.py`, `api/v1/ai_extraction.py` | `inbox_items`, the drafts they yield, tasks in the broker | submit, claim, finalize, correct, retry, dispatch | provider call between two transactions; at-least-once delivery; automatic and requested retries; crashes | one draft per item, one extraction at a time, nothing forgotten, decided drafts left alone | `InboxExtraction` |
| Document intake: `services/document_intake.py`, `api/v1/documents.py` | `documents`, object storage | upload, repeat upload, delete | upload between two commits; advisory lock released by the first; file deleted before the row | a content is taken in once; a document left half done was left by a failure | `DocumentIntake` |
| Polling worker: `services/telegram_polling.py` | the offset | poll, deliver, restart | at-least-once delivery, one update at a time; offset behind the deliveries | no update lost or overtaken but those answered before their commit | `TelegramUpdates` |
| Telegram webhook: `api/v1/telegram.py` | `telegram_updates`, the rows its messages change | texts, receipts, corrections, buttons | repeated updates; commit before or after the response; Redis not rolled back | an update takes effect once | `TelegramUpdates` |
| Edit state: `services/telegram_edit_state.py` | a key per chat in Redis | set, get, clear | expiry; cleared before the commit | a correction is not filed as a new transaction | `TelegramUpdates` |
| Pairing and connections: `services/telegram_pairing.py`, `api/v1/integrations.py` | `telegram_connections`, `telegram_pairings` | connect, disconnect, send a code | unlocked searches, opposite lock orders, expiry | one working code, and only that one pairs; a pairing is not undone by a stale request | `TelegramPairing` |
| Sessions: `services/refresh_tokens.py`, `api/v1/auth.py`, `dependencies.py` | `refresh_tokens`, `token_version` | sign in, rotate, sign out, change password | replay and simultaneous rotation; copies of the user that grow old | one live token per sign-in; no session outlives its password | `RefreshTokens` |
| Membership: `services/company_authorization.py`, `api/v1/companies.py` | `company_members`, `invitations` | change, remove, invite, revoke | rows read before they are locked | the last owner stays; no deadlock among requests with one view | `CompanyMembership` |
| Exchange rates: `services/currency.py`, `api/v1/exchange_rates.py` | `exchange_rates` | look up, fetch and store, enter | two fetches at once; accounts and days that change meanwhile | entries carry stored rates | `ExchangeRates` |
| Accounts: `api/v1/accounts.py` | `accounts` | switch two flags | read by postings without a lock | only postings that saw an account open reach it once it is closed | `ExchangeRates` |
| Reports: `services/report.py` | none | queries | two statements at READ COMMITTED | reports agree with each other | `Reports` |
| Budgets: `api/v1/budgets.py` | `budgets`, `budget_lines` | create, change, delete | constraint errors | | not modelled |
| Vendors, notifications, approvals, audit log | their own tables | single-statement handlers | none of their own | | not modelled |
| Provider calls, outgoing messages, configuration, dashboard | none | | environment | | not modelled |

Interaction: handlers and workers share only the database and the broker. An
API handler runs in one session that `database.get_db` commits when the handler
returns and rolls back on any exception. Intake commits an inbox item and then
sends a task; the worker's finalization creates the draft and moves the item to
`review_required`; a decision on the draft archives the item. `PROJECT.json`
lists every component with its status and every hazard with its line.

## 2. Plan

The order was: what posts to the books, what feeds it, who may do it, how it gets
in, what is read from it. All of it is done, from `DraftReview` to `Reports`.
What would come next:

1. The composition of `DraftReview` and `InboxExtraction`, which share a part of
   each other now (a further extraction there, decisions here), with several items
   and the duplicate search of two transactions that do not see each other.
2. `Tended` with reviewers: which lock order of a decision strands an item, and a
   theorem that nothing else does.

## 3. Modules

Every module cuts a request at the statements between which another transaction
can be seen or can see it: an unlocked read, a lock that may be waited for, a
commit. What a request has read is in its record and may be outdated when it is
used; what it has written appears at its commit. `Fail`, `Rollback` and `Abandon` are
any exception, a refusal, or the victim of a deadlock: PostgreSQL undoes the
transaction, and nothing else.

### DraftReview and Ledger

`Ledger` is what a bookkeeper is promised: per company a sequence that only
grows, entry n bearing number n, every body well formed.

`DraftReview` holds committed rows in `draft`, `inbox` and `journal`, and in
`tx` the open transaction of each actor with what it has read and written but not
committed. A request is cut at the statements between which another
transaction can run:

| Action | Code |
|---|---|
| `ReadDraft` | the unlocked SELECT and the status test of approve, reject, clarify, confirm |
| `FlushStatus` | the UPDATE that takes the draft's row lock in `approve_draft` |
| `NumberEntry` | `get_next_entry_number` |
| `InsertEntry` | the INSERT, which waits for a transaction that inserted the same number and fails if that one commits |
| `PostAndCommit`, `RefusePosting` | the rest of `approve_draft`; a `JournalError` |
| `CommitDecision` | reject, clarify and confirm: UPDATE, item, commit |
| `EditDraft`, `CommitEdit` | `edit_draft` from SELECT ... FOR UPDATE to the commit |
| `Rollback` | any exception: nothing of the transaction stays |
| `ExtractAgain`, `FinalizeExisting`, `ExtractionFails` | a retried item is claimed, and goes back to review or fails |
| `StartCorrection`, `CommitCorrection`, `AbortCorrection` | the correction branch of `_finalize_extraction` |
| `LoseWorker` | a worker dies; its transaction is rolled back |

The last three rows run in `worker`. A retry that read its item before the draft
was created extracts it once more (`InboxExtraction` shows how; here it may
happen whenever the claim allows it). If a chat sent the item and the draft still
waits for clarification, the extraction writes what it has found into the draft: a
new type, and nothing into the accounts that an editor may have chosen for the
old one. It locks the item, reads the draft without a lock, and its UPDATE sets
the columns in which the copy differs, the status not among them. A decision
holds the draft and needs the item to commit, so each may wait for the other:
`AbortCorrection`, or `Rollback`, is PostgreSQL's victim. `retyped` remembers the drafts
whose type changed under a chosen category. Whether another item has the same
content is not in this module, so `FindDuplicate` leaves an exact duplicate open.
Approval's SELECT and UPDATE of the item are one step.

Abstracted: amounts, tax, currency conversion and descriptions (`key` stands for
the fields the duplicate search compares), accounts (their kind), memberships
(constant sets), the audit log.

### InboxExtraction

`item` and `drafts` are committed rows, `queue` counts the copies of each task in the
broker, `worker`, `client` and `reviewer` are what each process is doing. A worker's
extraction is `Claim` (one transaction), a provider call with no transaction open
(`ProviderAnswers`, `ProviderTimesOut`, `ProviderFails`), then
`_finalize_extraction`: `FinalizeExisting`, `FinalizeInvalid`, or `StartDraft`, which
holds the item's lock until `CreateDraft` or `CommitCorrection`. A receipt goes
through `ReadReceipt`, `StartReceipt`, `ReceiptRead`, `SendExtraction` first;
`ReadReceipt` reads without a lock and `StartReceipt` writes later, as the code does;
a copy that says `processing` already leaves the status out of the UPDATE.
`RetryTask` is Celery's autoretry. `ReadForRetry`, `CommitRetry`, `SendTask` are the
retry and dispatch handlers, whose UPDATE contains only the columns that changed
since the read. `CrashWorker`, `CrashRequest`, `Redeliver` are the faults: tasks are
acknowledged late, so the broker delivers a task again when its worker dies or
exceeds the visibility time-out. Deciding a draft takes two locks in the opposite
order of a correction; `AbortCorrection` and `RollbackDecision` are PostgreSQL's ways
out. Decisions that overlap each other are `DraftReview`'s subject and do not overlap
here. The duplicate search and the reply to the chat are left out; the upload before
a receipt's task is `DocumentIntake`'s.

### RefreshTokens

`user` and `token` are the committed rows of one user, `access` the access tokens
handed out, which no row stands for. Both kinds of token carry the version of the
user they were made for. `SignIn` and `Issue` are `login`; `Present` is the read of
`refresh_token`, `Rotate` the UPDATE with `revoked_at IS NULL` that decides who
exchanges a token, `CommitRotation` the successor and the commit; a request that
finds its token used goes to `RefuseReplay`, where the revocation of the family
meets the 401 that rolls it back. `Authenticate`, `StartRevocation`, `CommitLogout`,
`CommitChange` are sign-out and change of password: a revocation concerns the rows
that its query found, and a change computes the new version from the copy of the
user it authenticated with. `overlap` remembers that two changes did so from the
same copy.

### CompanyMembership

`ReadActor` and `ReadTarget` are the unlocked reads, `FindOwners`, `LockOwner`,
`LockActor` the three locking queries of `authorize_member_update` and
`authorize_member_removal`, `UpdateMember` and `RemoveMember` the decision and the
commit. A locking SELECT of a row that the session has already loaded does not
refresh it, so `actorRow` and `targetRow` stay what they were before the locks; the
count of owners is fresh. `Patched` writes the columns that the copy says have
changed. Invitations are searched and inserted without a lock.

### TelegramPairing

`ConnectToPending`, `ConnectToActive`, `ConnectToNone` are the three outcomes of the
search in `connect_telegram`, followed by the disabled row (`FindDisabled`,
`LockConnection`; if it is no longer disabled when its lock is free, `Missed`, the
locking SELECT goes on to the next one, or finds none, `InsertInstead`) or an insert;
`CreatePairing` revokes the old code and makes a new one. `ReadOpen`,
`FlushDisabled`, `CommitDisconnect` are `disconnect_telegram`, and `LockPairing`,
`Expire`, `Pair` are `consume_pairing`, which locks code and connection the other way
round. Which columns an UPDATE sets depends on the copy (`Renewed`): that is why a
stale connect leaves an active connection active.

### DocumentIntake

`document`, `files` and `receipts` are the rows, the keys in storage and the tasks
sent. `FindDocument`, `InsertDocument`, `BeginReupload` are the branches of
`store_document_intake` under the advisory lock. A new row is not visible to other
searches before `CommitInsert`, with which the lock ends, before the upload
(`WriteFile`, `CommitStored`, `CommitFailed`); for a repeated content it ends after
it. `EraseFile` and `CommitDelete` are `delete_document`. `broken` remembers the
documents at which a request failed.

### TelegramUpdates

Extends `DocumentIntake` with the way an update takes. The worker is `Start`, `Poll`,
`Post`, `Accepted`, `FinishBatch`, `Die`; a post that times out kills it while the
webhook goes on. The webhook's request takes the advisory lock of the update
(`Taken`, or `Duplicate`), does what the update says, and commits in `CommitUpdate`,
or earlier where the handler itself commits (`FileText`, `TakeReceipt`). FastAPI runs
`get_db`'s commit before or after the response, depending on the version, and the
project does not pin one. The constant `AnswersEarly` says which: if it is TRUE
`Accepted` may come before `CommitUpdate`, and `early` remembers the updates for
which it did. The edit state changes at once and is not rolled back. A receipt goes
through the actions of `DocumentIntake`. `/start`, `/status`, `correct:`, `approve:`
and `reject:` are one action, `AnswerOther`: they only answer, except that `/start`
with a code pairs, which is `TelegramPairing`'s subject. The button extract
(`PressExtract`) sends its task before anything is committed. Decisions in the
dashboard are one action, `Decide`.

### ExchangeRates and Reports

`ExchangeRates` is the part of an approval that `DraftReview` abstracts: the checks
of the two accounts (`StartPosting`, `CheckPayment`), which are two SELECTs and ask
only whether an account is active, `get_exchange_rate` (`QuoteBase`, `QuoteExact`,
`MissExact`, `FetchRate`, `StoreRate`, `QuoteOlder`) and the entry in base currency
(`CommitPosting`), beside rates entered by hand, accounts switched on and off, and
midnight. A draft's category need not fit its type (`Fits`): a correction may have
changed the type, and posting does not look. `Reports` adds the reports as operators
on the committed entries, and the profit and loss report as its two SELECTs. Money is
an integer and a rate a multiple of 1/`RateScale`, rounded half up as the code does.

## 4. Runs

The longest run (`updates`, 3.8 million states) takes two to three minutes on two
workers. `CHECK_DEADLOCK FALSE` is set throughout: clients may stop sending requests
once their bound is reached, and then nothing happens.

| Run | Instance | Shows |
|---|---|---|
| `review_concurrent` | two drafts of a company, two approvers who also edit, a chat; two requests each, two at a time, rollbacks anywhere, fair handlers, no further extraction | posted drafts have their entry, the refinement of `Ledger`, every request is answered |
| `review_corrections` | one draft from a chat, flagged as a duplicate of either kind; one approver who also edits, the chat, two workers; three requests each, two at a time, two further extractions, fair handlers and workers | only a correction separates a category from its type or drops a duplicate flag; while decisions do not overlap each other, neither edits, confirmations nor corrections change a decided draft or get it posted again; every request and extraction ends although item and draft are locked in both orders |
| `review_double_posting` | one draft, two approvers | violated: two approvals of a draft both post it |
| `extraction_faults` | one item of any origin, two workers, two clients, a reviewer; two requests, one automatic retry, one crash or redelivery | one draft per item, review implies a draft, one extraction at a time unless a user asked for more, decided drafts not rewritten |
| `extraction_live` | one item of any origin, two workers, two clients, two requests, two automatic retries, fair workers, no faults | no waiting item is forgotten, every item with a text comes to rest |
| `sessions` | three requests, three tokens, two changes of password | one live token per sign-in; no token of an old password works unless two changes overlapped |
| `sessions_replay` | two requests, three tokens | violated: a replay does not revoke the family |
| `membership` | the founder and a second member, two requests, two invitations of one address; each single change of role and status | the last owner is lost only on an outdated copy or by `invited`; requests with one view do not deadlock; invitations of one address are bounded |
| `pairing` | two connections, three codes, two chats, two requests | one code per connection, only that one pairs, no pairing undone, as many connections as requests at most |
| `documents` | three rows, two contents, three requests | one document per content; nothing is half done but where a request failed |
| `updates` | three updates in five conversations, two requests, one document, one draft, two faults; responses may come before commits | updates take effect once; one is forgotten, or overtaken, only if it was answered before its commit; a correction is filed anew only after a failed commit |
| `books` | two drafts of one day, of two days, or a transfer, of categories that fit or not; three days, two requests, four in a behaviour, two quotes | entries carry stored rates, closed accounts rest once the postings that saw them open are over, reports agree up to what was misfiled, profit is not overstated |

Bounds. Two actors are what each race in the code needs: every lock, number or status
test concerns one row and two transactions. Where a third party's commit between the
two matters there are three (`review_concurrent`, `sessions`, `documents`). Two
requests each let an actor act on the outcome of the first. Items do not interact
except through the workers, so one is enough; two deliveries of one task, two
extractions and two requests overlap in the instance. Three updates are a button, its
answer, and a message behind them; with two faults a worker may die and its
successor's request fail. Three codes let one be consumed and one be revoked while
the third works. The bounds on the environment are `MaxRequests`, `MaxInFlight`,
`MaxFaults`, `MaxChanges`, `MaxRetries` of `DraftReview`, `N`, `Horizon` and the ids
still free in `Tokens`, `Invitations`, `Connections`, `Pairings`, `Documents`;
`MaxRetries` of `InboxExtraction` is Celery's `max_retries` (3 in the code). Symmetry
is used only in runs without temporal properties that need fairness.

Fairness. In `DraftReview` a handler that can go on goes on (weak fairness per
step); nobody has to send a request, and nothing has to fail; an extraction's call
of the provider ends and a deadlock is detected. In
`InboxExtraction` workers take tasks while there are any, provider calls end
(each has an HTTP time-out), and accepted requests are carried out. Reviewers,
retries and crashes are not fair. The other modules state safety only: their
requests may fail at any step, and nobody comes back to what they leave.

Conditions worth knowing. `Tended` and `ItemsSettle` are checked without crashes
and reviewers because the code does not keep them otherwise: a worker that dies
after the claim leaves the item in `processing`, which the redelivered task takes
for another worker's, and a worker chosen as deadlock victim does the same. Both
also except a receipt that a user retries before its text was read: the failure
`_claim_item` records for it is never committed. `ItemsSettle` counts an item whose
retries are used up, `queued` with the provider's error, as settled.
`SingleFlight` speaks of texts: `process_receipt` claims nothing, so a second
delivery starts a second extraction.

What the properties do not exclude. Some name in their statement what the code lets
through, and say that nothing else happens. `NothingForgotten` and `InOrder` except
an update that was answered before its commit: while that commit is outstanding a
later update may be committed, and if it fails the update is lost. In a behaviour
without such answers they say that updates are committed in order and that none is
lost; `StrictOrder` states that for responses that wait, and is proved (section 6).
`UpdateOnce` counts commits: a task that was sent before a commit that failed is sent
again. `CorrectionNotRefiled` excepts a correction whose commit failed after the edit
state was cleared. `DocumentsTended` excepts the documents at which a request failed:
nothing ever looks for them. `ClosedAccountsRest` excepts the postings that saw an
account open, `SessionsEndWithThePassword` overlapping changes of the password,
`OwnerLossExplained` the outdated copy and the status `invited`. `InvitationsBounded`
and `OpenConnectionsBounded` bound how many rows two unlocked searches may create;
the code does create two. `MismatchNeedsCorrection` and `ReportsAgree` allow for
drafts whose type a correction changed: such a draft is posted, an income entry may
then credit an expense account, and profit and loss, which sums credits of revenue
and debits of expenses only, differs from the growth of current earnings.
`ReportsAgree` bounds the difference by what was posted from such drafts
(`Misfiled`).

## 5. Disagreements with the repository's own words

* `approve_draft` (`api/v1/draft_transactions.py:116`) can post a draft twice,
  though the workflow test reads its entry with `scalar_one`
  (`review_double_posting`).
* The 401 at `api/v1/auth.py:163` rolls back the revocation of the token family that
  the docstring of `rotate_refresh_token` promises (`sessions_replay`).

Six more were met on the way and have no run of their own:

* A correction (`tasks/ai_extraction.py:231`) leaves a draft with a category that
  `_validate_accounts` would refuse for its type (`services/draft_editing.py:98`), and
  it can be posted (`services/journal.py:55`).
* With two approvers `DecisionIsFinal` fails: a decision that read the draft early
  overwrites a later one (`api/v1/draft_transactions.py:173`).
* `EntryMatchesDraft` fails when an edit or a correction commits between the read of
  an approval and its UPDATE: the entry says what the draft said before
  (`api/v1/draft_transactions.py:116`).
* The second edit of a draft with a duplicate warning makes it unique
  (`services/draft_editing.py:142`, `:148`), against the name of the test that
  covers it; `DuplicateFlagKept` says what is true, that one edit does not.
* `OwnerRemains` fails: a change to `invited` is not seen by the rule about the
  last owner (`services/company_authorization.py:86`), and an outdated copy passes it.
  `OwnerLossExplained` says that nothing else does.
* `SessionsKnowThePassword` fails when two changes of password overlap
  (`api/v1/auth.py:221`): both compute the same version.

## 6. Proofs

`DraftReviewProofs` proves, for any companies, drafts, users, patches and bounds
that satisfy `ConstantsAssumption`: `TypeCorrect`, `NumbersAreGapless`,
`PostedHasEntry`, `MismatchesAreCorrections`, `FieldsFrozen`, and `RefinesLedger` (the
refinement `review_concurrent` checks, by a step simulation).

None of the invariants is inductive alone. `IInv` adds what each open transaction
knows: `TxOK` (its record fits its operation), `DraftsValid` (a draft, and the merged
fields of an open edit, keep category and type together unless a correction changed
the type), `WorkersOK` (while a correction is open its draft is not decided, because
the correction holds the item that a decision must update), `OneWriter` (the
row lock), `EditedIsOpen` (a draft under an edit is still open, which is why a
waiting edit cannot touch a posted one), and `NumbersOK`: a counted number is at
most the next one, an inserted number is exactly the next, and one transaction
per company holds it. The last part is the argument for gapless numbers: the
unique index makes the second inserter wait, and it fails when the first commits.

`DuplicateFlagsKept` needs no condition, the commit of a correction being excepted:
an edit holds the draft's row from the read to the commit, so the flag it carries was
computed from the one in the row (`FlagCarried`). What is false when decisions
overlap (section 5) is proved from what must not overlap. `OneDecision`: at a draft
one decision is open at a time, beside any edits, any correction, and anything at
other drafts. It gives `OnePostingPerDraft` and `DecisionsAreFinal`, as a decision
then still finds the status that it tested (`PostedOnce`). `review_corrections`, with
one approver and one chat, is such an instance. `OneRequest`: while a decision is
open at a draft, nothing else is, no correction either. It gives
`EntriesMatchDrafts`, as the fields that were read are still those of the row
(`PostedAsRead`). `OneAtATimeIsSafe` derives the first condition from `MaxInFlight =
1`, and `OneAtATimeMatches` the second one from that and `Workers = {}`. A correction
must be excluded there: it may commit a new amount after an approval has read the old
one, if the chat confirmed the draft in between.

`InboxExtractionProofs` proves, for any items, workers, clients, reviewers and
bounds: `TypeCorrect`, `OneDraft`, `ReviewIsPossible` and `DecidedKept`. The
invariant is about the item's row lock: `OneHolder` (one finalization holds an
item), `CreatingIsFirst` and `CorrectingIsOpen` (what it read about the item's
draft under that lock is still so when it commits), and `DecidingHasDraft`.
`CorrectingIsOpen` is where the two lock orders meet: a correction holds the item
and never locks the draft it read, but a decision, which locks the draft, must
also update the item before it commits, so it cannot finish in between.
`DraftEffect` lists what a step may do to an item's drafts (nothing, create the
first, rewrite one and keep what is decided); the three theorems follow from it.

`OneFlightPerRequest` proves `SingleFlight` with all faults. Its invariant is a budget
(`Paid`): the extractions of an item that run, the retries that have read it and
will write `queued`, one if it is not in `processing` and so can be claimed, and one
if a decision can still take it out of `processing`, are together at most one more
than the retries that were asked for. Redeliveries and crashes only spend. The
rest of `FlightInv` says that a draft has one decision at a time and that text
recognition, which claims nothing, is only run for files.

`ItemsAreTended` proves `Tended` for instances with `Reviewers = {}` and `MaxFaults =
0`, the conditions of `extraction_live` (section 4 says why the code needs them).
`TendedInv` strengthens it: an item in `processing` is with a worker in one of six
steps; an item that waits has a task of a fitting kind in the broker, a request that
is about to send one, or a worker that is about to queue or send it; and a request of
kind `extract` exists only for an item with a text or one that a user has retried.

`RefreshTokensProofs` proves, for any requests, tokens and number of changes:
`TypeCorrect`, `OneLiveToken`, `SessionsEnd`. `Chains` holds what the row lock of a
rotation gives: the rotated token is live and has one rotator (`RotatedIsLive`,
`OneRotator`), so replacing it leaves its sign-in with one live token; a new sign-in
starts a chain of its own because the first token of every chain was issued
before the others (`LoginIssued`). `VersionsArePasswords`, kept as long as `overlap`
is false, says that a version stands for one password in the row, in every token
and in what requests have read: a request that read before a change writes a token
of the old version, which does not work.

`CompanyMembershipProofs` proves, for any members, roles, patches, invitations and
requests: `TypeCorrect`, `InvitationsAreBounded`, `DeadlocksExplained`,
`OwnerLossIsExplained`. `OwnersStand` says that the owners a request counts are
locked and still owners when it decides, so that of two counted owners one stays;
`FirstHeld`, that who holds any lock holds the first owner it found, so that two
requests that found the same owners cannot both hold something. The count of
invitations is an argument on cardinalities.

`ReportsProofs` proves about `ReportsSpec`, for any drafts, accounts, days, quotes
and requests: `TypeCorrect`, `StoredRates`, `ClosedStayAtRest`,
`ReportsTellOneStory`, `ProfitIsNotOverstated`. The invariant says that a posting
with an answer uses the committed row of its day, or has inserted it and is the only
one to have done so (`QuoteOK`, `OneInsertPerDay`); the unique index gives the second
part. For `ClosedStayAtRest` it is enough that a request goes on posting the draft
whose accounts it checks, one after the other (`PostsOn`).

The last two need sums. `Sum` is a fold, a recursive function on the subsets of a
finite set. The library's induction theorems take the formula to prove as an
operator, which the provers cannot instantiate; but the counterexamples form a set,
and a nonempty set of subsets of a finite set has a member that leaves it when it
loses an element (`SmallestSubset`, from the well-foundedness of the naturals). With
that `FunctionExists` and `FollowsAgree` show that the recursive function is well
defined, `SumLess` that any member may be taken first, `SumOfUnion` and `SumOfPart`
that sums add and grow. `ReportsAgree` then follows from what every entry looks like
(`LinesOK`: its lines are of an expense, a revenue or an asset, and if the category
of its draft fits the type, no revenue is debited and no expense credited), and
`ProfitNotOverstated` from `Reading`: the revenue a report has read is at most the
revenue now.

`TelegramPairingProofs` proves, for any connections, pairings, chats and requests:
`TypeCorrect`, `OneCode`, `PairedByCurrent`, `StaysActive`, `OpenIsBounded`. The
invariant says what the row locks give: one holder of a row (`OneHolder`,
`OneConsumer`), the rows a connect has locked stay disabled (`StaleDisabled`), the
code a chat is consuming stays pending (`ConsumedIsPending`). `CopyKnown` carries the
argument for `StaysActive`: a connect renews either a row it read as pending without
a lock, and then its UPDATE has no column to set, or a disabled row that it has read
again under the lock. `RowEffect` and `CodeEffect` list what a step may do to a row
and to a code. A searching connect and the one that is reviving a row may each make
one connection (`Making`); the bound counts them with the open ones.

`DocumentIntakeProofs` proves, for any documents, contents and requests: `OneDocument`
and `DocumentsAreTended`. Only a committed insertion brings a document to life. From the
search that found none to that commit the advisory lock keeps every other request
away from the content (`InsertersAlone`). `WrittenIsKept`
says that what a request has uploaded is there when it commits, unless another one
is about to delete the document or has failed at it; without it the commit of a
document whose file is gone could not be excluded.

`TelegramUpdatesProofs` proves, for any number of updates, conversations, documents,
drafts and failures: `UpdatesTyped`, `UpdatesTakeEffectOnce`, `NothingIsForgotten`,
`CorrectionsNotRefiled`, `UpdatesInOrder`, and, for `AnswersEarly = FALSE`,
`StrictlyInOrder` and `NothingIsLost`. `UInv` says what overlapping requests of the
webhook know: one holds the advisory lock of an update (`OneHolder`); a request that
has not committed finds its row absent, and one that goes on after its own commit
finds it there (`FitsRow`), so the effect and the row come together (`Counted`).
`Ordered` is the argument for order: every offset, the worker's, the file's and
Telegram's, and the place of every request, also of one whose worker has died, lie
behind updates that are settled: recorded, or answered before their commit, of which
there are none if responses wait. `Corrected` says that a text taken for a correction
is recorded as one or is with a request that will do so, unless a request failed.
`ImplementsDocuments` proves that every step here is a step of `DocumentIntake` or
leaves it alone, and `ReceiptsAreTended` carries over its two theorems.

Each inductive invariant was checked by TLC on the instance of its runs before it
was proved.

Assumptions: the `ASSUME` of each module, which fixes the types of its constants, and
in eight theorems the hypotheses named above. Where a run checks the same property
they hold in it; `EntriesMatchDrafts`, `OneAtATimeMatches`, `StrictlyInOrder` and
`NothingIsLost` have no run, but the invariants they follow from were checked by TLC
like the others.

Every safety property that a passing run checks has its theorem. Only
model-checked is liveness, `RequestsAnswered` and `ItemsSettle`: fairness and
ENABLED are beyond the prover.

## 7. Not modelled

Budgets: their rows are read by one report and by nothing else. What can go wrong
there is an error of one statement: two active budgets make the comparison raise
(`services/report.py:397`).

Vendors, notifications, approvals, company settings, the user's profile: handlers of
one statement. The audit log: rows appended in the transaction of what they describe.
Outgoing messages, configuration, rate limits and the dashboard: no state that
another part depends on. The provider's answers, text recognition and Telegram are
environment. Of the reports, the series by month, the lists by vendor and the
comparison with budgets are left out; of the modelled parts, what section 3 names as
abstracted.
