-------------------------- MODULE InboxExtraction --------------------------
(***************************************************************************)
(* From a submitted text or receipt to a draft transaction.                *)
(*                                                                         *)
(* An API handler stores an inbox item, commits, and only then sends a     *)
(* Celery task.  A worker that runs the task claims the item, calls the    *)
(* extraction provider with no transaction open, and finalizes: it locks   *)
(* the item again and creates the draft.  A receipt goes through text      *)
(* recognition first.  Tasks are acknowledged late: the broker delivers a  *)
(* task again when its worker died, or when it thinks so.  Users may ask   *)
(* for a retry, or for another extraction, at any time, and reviewers      *)
(* decide the drafts meanwhile.                                            *)
(*                                                                         *)
(* item and drafts hold committed rows.  SELECT ... FOR UPDATE and UPDATE  *)
(* wait for the transaction that holds the row.  Two transactions decide   *)
(* on what they read under a lock and write later, so they appear as lock  *)
(* holders: a finalization (steps "creating" and "correcting", holds the   *)
(* item) and a reviewer's decision (step "deciding", holds the draft).     *)
(***************************************************************************)
EXTENDS Naturals, Sequences, FiniteSets

CONSTANTS
  Items,
  Origins,       \* what may be submitted: from where, and texts or files
  Workers,       \* worker processes of the task queues
  Clients,       \* API clients that submit, retry and dispatch
  Reviewers,     \* dashboard users who approve and reject
  MaxRetries,    \* max_retries of the Celery tasks
  MaxRequests,   \* bound: retry, dispatch and callback requests per item
  MaxFaults      \* bound: crashes of processes and repeated deliveries

ASSUME ConstantsAssumption ==
  /\ Origins \subseteq [source : {"web", "telegram"}, file : BOOLEAN]
  /\ MaxRetries \in Nat
  /\ MaxRequests \in Nat
  /\ MaxFaults \in Nat

VARIABLES
  item,      \* committed rows of inbox_items
  drafts,    \* the drafts of each item, oldest first
  queue,     \* how many copies of each task the broker holds
  worker,    \* what each worker runs
  client,    \* the open request of each client
  reviewer,  \* the open decision of each reviewer
  requests,  \* retry, dispatch and callback requests made for each item
  faults     \* crashes and repeated deliveries so far

vars == <<item, drafts, queue, worker, client, reviewer, requests, faults>>

---------------------------------------------------------------------------
(* Types *)

ItemStatuses  == {"absent", "queued", "processing", "failed", "review_required", "archived"}
Errors        == {"none", "transient", "permanent"}
DraftStatuses == {"needs_clarification", "ready_for_review", "decided"}

\* text: whether original_text has been set, which for a file it is later.
Row == [status : ItemStatuses, error : Errors, text : BOOLEAN,
        source : {"web", "telegram"}, file : BOOLEAN]

\* content flips whenever an extraction rewrites the draft.
Draft == [status : DraftStatuses, content : {0, 1}]

Tasks == [item : Items, kind : {"extract", "receipt"}, try : 0..MaxRetries]

Idle == [step |-> "idle"]

WorkerSteps == {"provider", "valid", "invalid", "creating", "correcting",
                "start", "restart", "ocr", "send", "raise"}
Job         == [step : WorkerSteps, task : Tasks]

Request == [step : {"read", "committed"}, kind : {"extract", "receipt"}, item : Items,
            op : {"submit", "retry", "dispatch"}, status : ItemStatuses, error : Errors]

Decision == [step : {"deciding"}, item : Items]

TypeOK ==
  /\ item \in [Items -> Row]
  /\ drafts \in [Items -> Seq(Draft)]
  /\ queue \in [Tasks -> Nat]
  /\ worker \in [Workers -> Job \cup {Idle}]
  /\ client \in [Clients -> Request \cup {Idle}]
  /\ reviewer \in [Reviewers -> Decision \cup {Idle}]
  /\ requests \in [Items -> Nat]
  /\ faults \in Nat

---------------------------------------------------------------------------
(* Locks and messages *)

HoldsItem(w, i) == worker[w].step \in {"creating", "correcting"} /\ worker[w].task.item = i

\* Mutant: SELECT without FOR UPDATE, nobody waits for an item.
NeverLocked(i) == i \in Items

ItemFree(i) == \A w \in Workers : ~HoldsItem(w, i)

DraftFree(i) == \A r \in Reviewers :
  ~(reviewer[r].step = "deciding" /\ reviewer[r].item = i)

FirstTry(i, kind) == [item |-> i, kind |-> kind, try |-> 0]

Sent(q, t) == [q EXCEPT ![t] = @ + 1]

\* Mutant: the two columns are swapped.
WriteSwapped(i, status, error) ==
  item' = [item EXCEPT ![i].status = error, ![i].error = status]

Write(i, status, error) ==
  item' = [item EXCEPT ![i].status = status, ![i].error = error]

Goto(w, step) == worker' = [worker EXCEPT ![w].step = step]
Ack(w)        == worker' = [worker EXCEPT ![w] = Idle]

Running(w, step) == worker[w].step = step

---------------------------------------------------------------------------
(* The API: rows are committed first, tasks sent afterwards. *)

\* create_text_inbox and store_document_intake, whose advisory lock lets one
\* of several requests with the same content create the item.
Submit(c, i, o) ==
  /\ client[c] = Idle
  /\ item[i].status = "absent"
  /\ item' = [item EXCEPT ![i] = [status |-> "queued", error |-> "none", text |-> ~o.file,
                                  source |-> o.source, file |-> o.file]]
  /\ client' = [client EXCEPT ![c] =
                  [step |-> "committed", op |-> "submit", item |-> i,
                   kind |-> IF o.file THEN "receipt" ELSE "extract",
                   status |-> "queued", error |-> "none"]]
  /\ UNCHANGED <<drafts, queue, worker, reviewer, requests, faults>>

\* retry_inbox_item and _dispatch_extraction read the row without a lock.
ReadForRetry(c, i, op) ==
  /\ client[c] = Idle
  /\ requests[i] < MaxRequests
  /\ item[i].status # "absent"
  /\ op = "retry" => item[i].status # "review_required"
  /\ op = "dispatch" => item[i].text
  /\ requests' = [requests EXCEPT ![i] = @ + 1]
  /\ client' = [client EXCEPT ![c] =
                  [step |-> "read", op |-> op, item |-> i, kind |-> "extract",
                   status |-> item[i].status, error |-> item[i].error]]
  /\ UNCHANGED <<item, drafts, queue, worker, reviewer, faults>>

\* The UPDATE contains the columns whose value differs from the one read.
CommitRetry(c) ==
  LET q == client[c]
      requeue == q.op = "retry" \/ q.status = "failed"
      dirty   == requeue /\ (q.status # "queued" \/ q.error # "none") IN
  /\ q.step = "read"
  /\ dirty => ItemFree(q.item)
  /\ item' = IF requeue
               THEN [item EXCEPT
                       ![q.item].status = IF q.status # "queued" THEN "queued" ELSE @,
                       ![q.item].error  = IF q.error # "none" THEN "none" ELSE @]
               ELSE item
  /\ client' = [client EXCEPT ![c].step = "committed"]
  /\ UNCHANGED <<drafts, queue, worker, reviewer, requests, faults>>

\* run_ai_extraction.delay or process_receipt.delay, after the commit.
SendTask(c) ==
  /\ client[c].step = "committed"
  /\ queue' = Sent(queue, FirstTry(client[c].item, client[c].kind))
  /\ client' = [client EXCEPT ![c] = Idle]
  /\ UNCHANGED <<item, drafts, worker, reviewer, requests, faults>>

\* The "extract:" button of a chat sends a task and touches no row.
ExtractCallback(i) ==
  /\ item[i].source = "telegram"
  /\ item[i].status # "absent"
  /\ requests[i] < MaxRequests
  /\ requests' = [requests EXCEPT ![i] = @ + 1]
  /\ queue' = Sent(queue, FirstTry(i, "extract"))
  /\ UNCHANGED <<item, drafts, worker, client, reviewer, faults>>

---------------------------------------------------------------------------
(* Workers: extraction *)

Take(w, t) ==
  /\ worker[w] = Idle
  /\ queue[t] > 0
  /\ queue' = [queue EXCEPT ![t] = @ - 1]

\* Mutant: an item that is being processed can be claimed again.
ClaimableTwice(i) == item[i].status # "review_required" /\ item[i].text

Claimable(i) ==
  /\ item[i].status \notin {"review_required", "processing"}
  /\ item[i].text

\* _claim_item, on the locked row, up to its commit.
Claim(w, t) ==
  /\ t.kind = "extract"
  /\ Take(w, t)
  /\ ItemFree(t.item)
  /\ Claimable(t.item)
  /\ Write(t.item, "processing", "none")
  /\ worker' = [worker EXCEPT ![w] = [step |-> "provider", task |-> t]]
  /\ UNCHANGED <<drafts, client, reviewer, requests, faults>>

\* The other outcomes of _claim_item.  The failure it records for an item
\* without text is never committed.
SkipClaim(w, t) ==
  /\ t.kind = "extract"
  /\ Take(w, t)
  /\ ItemFree(t.item)
  /\ ~Claimable(t.item)
  /\ UNCHANGED <<item, drafts, worker, client, reviewer, requests, faults>>

\* extract_from_text returns; ExtractionResult accepts what it returned or not.
ProviderAnswers(w) ==
  /\ Running(w, "provider")
  /\ \E outcome \in {"valid", "invalid"} : Goto(w, outcome)
  /\ UNCHANGED <<item, drafts, queue, client, reviewer, requests, faults>>

\* Mutant: the time-out is raised without giving the item back.
TimeOutKeepsItem(w) ==
  /\ Running(w, "provider")
  /\ Goto(w, "raise")
  /\ UNCHANGED <<item, drafts, queue, client, reviewer, requests, faults>>

\* A time-out or transport error: _record_transient_failure, then raise.
ProviderTimesOut(w) ==
  LET i == worker[w].task.item IN
  /\ Running(w, "provider")
  /\ ItemFree(i)
  /\ IF item[i].status = "processing" THEN Write(i, "queued", "transient")
                                      ELSE UNCHANGED item
  /\ Goto(w, "raise")
  /\ UNCHANGED <<drafts, queue, client, reviewer, requests, faults>>

\* Any other exception of the provider call: the item fails, whatever its status.
ProviderFails(w) ==
  LET i == worker[w].task.item IN
  /\ Running(w, "provider")
  /\ ItemFree(i)
  /\ Write(i, "failed", "permanent")
  /\ Ack(w)
  /\ UNCHANGED <<drafts, queue, client, reviewer, requests, faults>>

\* autoretry_for: publish the task once more, unless it was retried enough.
RetryTask(w) ==
  LET t == worker[w].task IN
  /\ Running(w, "raise")
  /\ queue' = IF t.try < MaxRetries THEN Sent(queue, [t EXCEPT !.try = @ + 1]) ELSE queue
  /\ Ack(w)
  /\ UNCHANGED <<item, drafts, client, reviewer, requests, faults>>

\* Mutant: any draft of a chat is corrected, whatever became of it.
CorrectsAny(i) == item[i].source = "telegram" /\ drafts[i] # <<>> /\ item[i].status = "processing"

IsCorrection(i) ==
  /\ item[i].source = "telegram"
  /\ drafts[i] # <<>>
  /\ drafts[i][1].status = "needs_clarification"
  /\ item[i].status = "processing"

\* _finalize_extraction: the item has its draft already.
FinalizeExisting(w) ==
  LET i == worker[w].task.item IN
  /\ worker[w].step \in {"valid", "invalid"}
  /\ ItemFree(i)
  /\ drafts[i] # <<>>
  /\ ~IsCorrection(i)
  /\ item' = [item EXCEPT ![i].status = "review_required"]
  /\ Ack(w)
  /\ UNCHANGED <<drafts, queue, client, reviewer, requests, faults>>

\* Mutant: what the provider returned goes to review unread.
ReviewInvalid(w) ==
  LET i == worker[w].task.item IN
  /\ Running(w, "invalid")
  /\ ItemFree(i)
  /\ drafts[i] = <<>> \/ IsCorrection(i)
  /\ Write(i, "review_required", "none")
  /\ Ack(w)
  /\ UNCHANGED <<drafts, queue, client, reviewer, requests, faults>>

FinalizeInvalid(w) ==
  LET i == worker[w].task.item IN
  /\ Running(w, "invalid")
  /\ ItemFree(i)
  /\ drafts[i] = <<>> \/ IsCorrection(i)
  /\ Write(i, "failed", "permanent")
  /\ Ack(w)
  /\ UNCHANGED <<drafts, queue, client, reviewer, requests, faults>>

FirstStatus(i) == IF item[i].source = "telegram" THEN "needs_clarification"
                                            ELSE "ready_for_review"

\* The rest of _finalize_extraction: the item is locked and its draft read,
\* without a lock on the draft ...
StartDraft(w) ==
  LET i == worker[w].task.item IN
  /\ Running(w, "valid")
  /\ ItemFree(i)
  /\ drafts[i] = <<>> \/ IsCorrection(i)
  /\ Goto(w, IF drafts[i] = <<>> THEN "creating" ELSE "correcting")
  /\ UNCHANGED <<item, drafts, queue, client, reviewer, requests, faults>>

\* ... an item without a draft gets one ...
CreateDraft(w) ==
  LET i == worker[w].task.item IN
  /\ Running(w, "creating")
  /\ drafts' = [drafts EXCEPT ![i] = Append(@, [status |-> FirstStatus(i), content |-> 0])]
  /\ item' = [item EXCEPT ![i].status = "review_required"]
  /\ Ack(w)
  /\ UNCHANGED <<queue, client, reviewer, requests, faults>>

\* ... and a chat's draft that waits for clarification gets new content.
\* draft.status is assigned the value that was read, which is no change and
\* writes nothing.
CommitCorrection(w) ==
  LET i == worker[w].task.item IN
  /\ Running(w, "correcting")
  /\ DraftFree(i)
  /\ drafts' = [drafts EXCEPT ![i][1].content = 1 - @]
  /\ item' = [item EXCEPT ![i].status = "review_required"]
  /\ Ack(w)
  /\ UNCHANGED <<queue, client, reviewer, requests, faults>>

\* PostgreSQL breaks the wait cycle of a correction (item, then draft) and a
\* decision (draft, then item) at the worker's expense.  The error is not one
\* that autoretry_for names, so the task ends.
AbortCorrection(w) ==
  /\ Running(w, "correcting")
  /\ ~DraftFree(worker[w].task.item)
  /\ Ack(w)
  /\ UNCHANGED <<item, drafts, queue, client, reviewer, requests, faults>>

---------------------------------------------------------------------------
(* Workers: text recognition *)

AlreadyRead(i) ==
  item[i].text /\ item[i].status \in {"queued", "processing", "review_required"}

SkipReceipt(w, t) ==
  /\ t.kind = "receipt"
  /\ worker[w] = Idle
  /\ queue[t] > 0
  /\ AlreadyRead(t.item)
  /\ queue' = LET rest == [queue EXCEPT ![t] = @ - 1] IN
              IF item[t.item].status = "queued"
                THEN Sent(rest, FirstTry(t.item, "extract")) ELSE rest
  /\ UNCHANGED <<item, drafts, worker, client, reviewer, requests, faults>>

\* The row is read without a lock, so this claims nothing: two workers may do
\* it, and what is written next may overwrite what was committed since.
ReadReceipt(w, t) ==
  /\ t.kind = "receipt"
  /\ Take(w, t)
  /\ ~AlreadyRead(t.item)
  /\ LET step == IF item[t.item].status = "processing" THEN "restart" ELSE "start" IN
     worker' = [worker EXCEPT ![w] = [step |-> step, task |-> t]]
  /\ UNCHANGED <<item, drafts, client, reviewer, requests, faults>>

\* The UPDATE leaves out the status if the copy had it already.
StartReceipt(w) ==
  LET i == worker[w].task.item IN
  /\ Running(w, "start") \/ Running(w, "restart")
  /\ ItemFree(i)
  /\ item' = IF worker[w].step = "restart" THEN item
             ELSE [item EXCEPT ![i].status = "processing"]
  /\ Goto(w, "ocr")
  /\ UNCHANGED <<drafts, queue, client, reviewer, requests, faults>>

\* Mutant: the text is stored and nobody sends the extraction task.
ReceiptForgotten(w) ==
  LET i == worker[w].task.item IN
  /\ Running(w, "ocr")
  /\ ItemFree(i)
  /\ item' = [item EXCEPT ![i].status = "queued", ![i].error = "none", ![i].text = TRUE]
  /\ Ack(w)
  /\ UNCHANGED <<drafts, queue, client, reviewer, requests, faults>>

ReceiptRead(w) ==
  LET i == worker[w].task.item IN
  /\ Running(w, "ocr")
  /\ ItemFree(i)
  /\ item' = [item EXCEPT ![i].status = "queued", ![i].error = "none", ![i].text = TRUE]
  /\ Goto(w, "send")
  /\ UNCHANGED <<drafts, queue, client, reviewer, requests, faults>>

\* The extraction task of a receipt is sent after the commit.
SendExtraction(w) ==
  /\ Running(w, "send")
  /\ queue' = Sent(queue, FirstTry(worker[w].task.item, "extract"))
  /\ Ack(w)
  /\ UNCHANGED <<item, drafts, client, reviewer, requests, faults>>

\* _fail_item: a time-out is raised again and retried, anything else is final.
ReceiptFails(w) ==
  LET i == worker[w].task.item IN
  /\ Running(w, "ocr")
  /\ ItemFree(i)
  /\ \/ Write(i, "failed", "transient") /\ Goto(w, "raise")
     \/ Write(i, "failed", "permanent") /\ Ack(w)
  /\ UNCHANGED <<drafts, queue, client, reviewer, requests, faults>>

---------------------------------------------------------------------------
(* Faults *)

\* A process dies.  The broker delivers a worker's task again; what a client's
\* request had not sent is lost.
CrashWorker(w) ==
  /\ worker[w] # Idle
  /\ faults < MaxFaults
  /\ faults' = faults + 1
  /\ queue' = Sent(queue, worker[w].task)
  /\ Ack(w)
  /\ UNCHANGED <<item, drafts, client, reviewer, requests>>

CrashRequest(c) ==
  /\ client[c] # Idle
  /\ faults < MaxFaults
  /\ faults' = faults + 1
  /\ client' = [client EXCEPT ![c] = Idle]
  /\ UNCHANGED <<item, drafts, queue, worker, reviewer, requests>>

\* A task outlives the broker's visibility timeout and is delivered again.
Redeliver(w) ==
  /\ worker[w] # Idle
  /\ faults < MaxFaults
  /\ faults' = faults + 1
  /\ queue' = Sent(queue, worker[w].task)
  /\ UNCHANGED <<item, drafts, worker, client, reviewer, requests>>

---------------------------------------------------------------------------
(* Review, as far as it concerns extraction: module DraftReview has it all. *)

Confirm(i) ==
  /\ drafts[i] # <<>>
  /\ drafts[i][1].status = "needs_clarification"
  /\ item[i].source = "telegram"
  /\ DraftFree(i)
  /\ drafts' = [drafts EXCEPT ![i][1].status = "ready_for_review"]
  /\ UNCHANGED <<item, queue, worker, client, reviewer, requests, faults>>

RequestClarification(i) ==
  /\ drafts[i] # <<>>
  /\ drafts[i][1].status = "ready_for_review"
  /\ Reviewers # {}
  /\ DraftFree(i)
  /\ drafts' = [drafts EXCEPT ![i][1].status = "needs_clarification"]
  /\ UNCHANGED <<item, queue, worker, client, reviewer, requests, faults>>

\* approve_draft and reject_draft update the draft first, then the item.
StartDecision(r, i) ==
  /\ reviewer[r] = Idle
  /\ drafts[i] # <<>>
  /\ drafts[i][1].status = "ready_for_review"
  /\ DraftFree(i)
  /\ reviewer' = [reviewer EXCEPT ![r] = [step |-> "deciding", item |-> i]]
  /\ UNCHANGED <<item, drafts, queue, worker, client, requests, faults>>

CommitDecision(r) ==
  LET i == reviewer[r].item IN
  /\ reviewer[r].step = "deciding"
  /\ ItemFree(i)
  /\ drafts' = [drafts EXCEPT ![i][1].status = "decided"]
  /\ item' = [item EXCEPT ![i].status = "archived"]
  /\ reviewer' = [reviewer EXCEPT ![r] = Idle]
  /\ UNCHANGED <<queue, worker, client, requests, faults>>

RollbackDecision(r) ==
  /\ reviewer[r] # Idle
  /\ reviewer' = [reviewer EXCEPT ![r] = Idle]
  /\ UNCHANGED <<item, drafts, queue, worker, client, requests, faults>>

---------------------------------------------------------------------------
(* The specification *)

Init ==
  /\ item = [i \in Items |-> [status |-> "absent", error |-> "none", text |-> FALSE,
                             source |-> "web", file |-> FALSE]]
  /\ drafts = [i \in Items |-> <<>>]
  /\ queue = [t \in Tasks |-> 0]
  /\ worker = [w \in Workers |-> Idle]
  /\ client = [c \in Clients |-> Idle]
  /\ reviewer = [r \in Reviewers |-> Idle]
  /\ requests = [i \in Items |-> 0]
  /\ faults = 0

ClientStep(c) ==
  \/ \E i \in Items, o \in Origins : Submit(c, i, o)
  \/ \E i \in Items : ReadForRetry(c, i, "retry") \/ ReadForRetry(c, i, "dispatch")
  \/ CommitRetry(c)
  \/ SendTask(c)

TakeTask(w) == \E t \in Tasks :
  Claim(w, t) \/ SkipClaim(w, t) \/ SkipReceipt(w, t) \/ ReadReceipt(w, t)

CallProvider(w) == ProviderAnswers(w) \/ ProviderTimesOut(w) \/ ProviderFails(w)

Finalize(w) ==
  \/ FinalizeExisting(w) \/ FinalizeInvalid(w) \/ StartDraft(w)
  \/ CreateDraft(w) \/ CommitCorrection(w) \/ AbortCorrection(w)

Recognize(w) == StartReceipt(w) \/ ReceiptRead(w) \/ ReceiptFails(w) \/ SendExtraction(w)

Fault ==
  \/ \E w \in Workers : CrashWorker(w) \/ Redeliver(w)
  \/ \E c \in Clients : CrashRequest(c)

Review ==
  \/ \E i \in Items : Confirm(i) \/ RequestClarification(i)
  \/ \E r \in Reviewers : CommitDecision(r) \/ RollbackDecision(r)
  \/ \E r \in Reviewers, i \in Items : StartDecision(r, i)

Next ==
  \/ \E c \in Clients : ClientStep(c)
  \/ \E i \in Items : ExtractCallback(i)
  \/ \E w \in Workers : TakeTask(w) \/ CallProvider(w) \/ Finalize(w) \/ Recognize(w) \/ RetryTask(w)
  \/ Fault
  \/ Review

Spec == Init /\ [][Next]_vars

\* Workers take tasks while there are any and the calls they make end: every
\* call of a provider has a time-out.  Requests that were accepted are carried
\* out.  Nobody has to submit, to retry, to confirm, to decide or to crash.
FairSpec ==
  /\ Spec
  /\ \A w \in Workers :
       /\ WF_vars(TakeTask(w))
       /\ WF_vars(CallProvider(w))
       /\ WF_vars(Finalize(w))
       /\ WF_vars(Recognize(w))
       /\ WF_vars(RetryTask(w))
  /\ \A c \in Clients : WF_vars(CommitRetry(c) \/ SendTask(c))

---------------------------------------------------------------------------
(* Properties *)

\* However often a task is delivered, retried or asked for, an item yields one
\* draft: _finalize_extraction looks for it and creates it under the item's lock.
OneDraftPerItem == \A i \in Items : Len(drafts[i]) <= 1

\* An item in review has a draft, which may be decided already: neither a failed
\* nor a skipped extraction, nor a stale retry, leaves review_required behind.
ReviewHasDraft == \A i \in Items : item[i].status = "review_required" => drafts[i] # <<>>

ExtractionsOf(i) ==
  {w \in Workers : worker[w].step \in {"provider", "valid", "invalid", "creating", "correcting"}
                     /\ worker[w].task.item = i}

\* The provider is called for a text by one worker at a time, redeliveries,
\* crashes and automatic retries included: each further extraction at the same
\* time was asked for by a user, whose retry takes the item out of "processing".
\* (Not for a receipt: process_receipt claims nothing, so a second delivery of it
\* puts an item back that is being extracted.)
SingleFlight == \A i \in Items :
  item[i].file \/ Cardinality(ExtractionsOf(i)) <= 1 + requests[i]

\* What a reviewer has decided on no extraction rewrites.  A correction only
\* reads the draft's status; that the decision must also update the item, whose
\* lock the correction holds, is what keeps the two apart.
DecidedNotRewritten == [][ \A i \in Items : \A n \in 1..Len(drafts[i]) :
  drafts[i][n].status = "decided" => drafts'[i][n].content = drafts[i][n].content ]_vars

TaskFor(i) ==
  \/ \E t \in Tasks : t.item = i /\ queue[t] > 0
  \/ \E w \in Workers : worker[w] # Idle /\ worker[w].task.item = i
  \/ \E c \in Clients : client[c] # Idle /\ client[c].item = i

\* As long as nothing crashes and no reviewer interferes, an item that the
\* dashboard shows as waiting or in progress is somebody's: a task for it is in
\* the broker or with a worker, or a request is about to send one.  (A receipt
\* a user retried before its text was read is the exception, see SkipClaim,
\* and so is an item whose task timed out too often.)
Tended == \A i \in Items :
  \/ item[i].status = "queued" /\ item[i].error = "none" /\ (item[i].text \/ requests[i] = 0)
  \/ item[i].status = "processing"
  => TaskFor(i)

\* Under the same conditions every item with a text comes to rest: in review, as
\* failed, or queued with the error that tells the user to retry.
Settled(i) ==
  \/ item[i].status \in {"absent", "failed", "review_required", "archived"}
  \/ item[i].status = "queued" /\ item[i].error = "transient"
  \/ item[i].status = "queued" /\ ~item[i].text /\ requests[i] > 0

ItemsSettle == \A i \in Items : <>[]Settled(i)
=============================================================================
