-------------------------- MODULE TelegramUpdates --------------------------
(***************************************************************************)
(* The way of a chat's updates from Telegram to the company: the polling   *)
(* worker, the webhook it posts to, and the pending correction in Redis.   *)
(*                                                                         *)
(* The worker fetches what Telegram has, posts one update at a time until  *)
(* the webhook accepts it, and confirms a batch when all of it has been    *)
(* accepted.  A worker that dies, or whose post times out, starts again    *)
(* from the offset in its file, while the webhook may still work on what   *)
(* was posted.  The webhook takes an advisory lock on the update, looks    *)
(* for its row in telegram_updates, and commits that row with what the     *)
(* update does.  FastAPI runs the commit of get_db before or after the     *)
(* response, depending on its version, which the project does not pin:     *)
(* AnswersEarly says which.                                                *)
(*                                                                         *)
(* One chat, connected to one company.  A receipt goes through the intake  *)
(* of documents, step by step; the requests of the web are left to         *)
(* DocumentIntake.                                                         *)
(***************************************************************************)
EXTENDS DocumentIntake

CONSTANTS
  N,              \* bound: the updates of the chat are 1..N
  Conversations,  \* bound: what the N updates may say
  Drafts,         \* drafts of the company that the chat has buttons for
  NoDraft,
  AnswersEarly,   \* whether the response is sent before the commit of get_db
  MaxFaults       \* bound: failures of requests and of the worker

Updates == 1..N

\* text is the text of a new transaction or, if it is a value that the field
\* accepts, a correction; edit, cancel, confirm and extract are buttons, extract
\* for the item of a text; other stands for what only gets an answer, as /start,
\* /status, correct:, approve: and reject:.
Messages == [kind : {"text", "photo"}, content : Contents, value : BOOLEAN]
              \cup [kind : {"edit", "cancel", "confirm"}, draft : Drafts]
              \cup [kind : {"extract"}, content : Contents]
              \cup [kind : {"other"}]

ASSUME ConstantsAssumption ==
  /\ N \in Nat /\ MaxFaults \in Nat /\ AnswersEarly \in BOOLEAN
  /\ NoDraft \notin Drafts
  /\ Conversations \subseteq [Updates -> Messages]

VARIABLES
  message,      \* what each update says
  confirmed,    \* updates that Telegram has forgotten
  saved,        \* the number of updates behind the offset in the worker's file
  worker,       \* the polling worker
  webhook,      \* what each request of the webhook does
  update,       \* rows of telegram_updates
  edit,         \* the edit state in Redis
  draft,        \* status of the drafts
  texts,        \* contents of the inbox items made from texts
  extractions,  \* contents for which run_ai_extraction was sent
  faults,       \* failures so far
  effects,      \* history: commits that carried an effect of the update
  corrections,  \* history: updates that were taken for a correction
  failed,       \* history: updates at which a request has failed or died
  early         \* history: updates that were accepted before their commit

chat      == <<message, confirmed, saved>>
inbox     == <<texts, extractions>>
histories == <<effects, corrections, failed, early>>

chatVars == <<chat, worker, webhook, update, edit, draft, inbox, histories, faults>>

vars == <<documentVars, chatVars>>

---------------------------------------------------------------------------
(* Types *)

Idle == [step |-> "idle"]

\* draft is the one that the request edits or confirms, status what the row of
\* the update gets.
Handling == [step : {"posted", "edit", "edited", "confirm", "attach", "commit", "dispatch", "done"},
             update : Updates, draft : Drafts \cup {NoDraft}, status : {"processed",
             "validation_failed", "dispatched", "attachment_failed"}]

Down == [step |-> "down"]

\* offset, next and last: updates confirmed, delivered, and in the batch.
Polling == [step : {"poll", "deliver"}, offset : 0..N, next : 0..N, last : 0..N]
Waiting == [step : {"wait"}, offset : 0..N, next : 0..N, last : 0..N, for : Handlers]

TypeOK ==
  /\ DocumentTypeOK
  /\ message \in Conversations /\ faults \in 0..MaxFaults
  /\ confirmed \in 0..N /\ saved \in 0..N
  /\ worker \in {Down} \cup Polling \cup Waiting
  /\ webhook \in [Handlers -> {Idle} \cup Handling]
  /\ update \in [Updates -> {"absent", "received", "processed", "validation_failed",
                             "dispatched", "attachment_failed"}]
  /\ edit \in Drafts \cup {NoDraft}
  /\ draft \in [Drafts -> {"needs_clarification", "ready_for_review", "decided"}]
  /\ texts \subseteq Contents /\ extractions \subseteq texts
  /\ effects \in [Updates -> 0..N]
  /\ corrections \subseteq Updates /\ failed \subseteq Updates
  /\ early \subseteq IF AnswersEarly THEN Updates ELSE {}

---------------------------------------------------------------------------
(* The polling worker *)

Max2(m, n) == IF m > n THEN m ELSE n

\* A step of the worker alone, or of a request of the webhook alone.
WorkerOnly  == UNCHANGED <<documentVars, message, webhook, update, edit,
                           draft, inbox, effects, corrections, failed>>
WebhookOnly == UNCHANGED <<documentVars, chat, worker, inbox, faults>>

Fault == faults < MaxFaults /\ faults' = faults + 1

\* Restarted by Docker: load_offset, which finds nothing in a new installation.
Start ==
  /\ worker = Down
  /\ worker' = [step |-> "poll", offset |-> saved, next |-> saved, last |-> saved]
  /\ UNCHANGED <<confirmed, saved, faults, early>> /\ WorkerOnly

\* getUpdates: Telegram forgets what is below the offset and sends what the chat
\* has said since.
Poll ==
  LET c == Max2(confirmed, worker.offset) IN
  /\ worker.step = "poll"
  /\ confirmed' = c
  /\ \E last \in (c + 1)..N :
       worker' = [worker EXCEPT !.step = "deliver", !.next = c, !.last = last]
  /\ UNCHANGED <<saved, faults, early>> /\ WorkerOnly

Post(h) ==
  /\ worker.step = "deliver" /\ worker.next < worker.last
  /\ webhook[h] = Idle /\ intake[h] = NoIntake
  /\ webhook' = [webhook EXCEPT ![h] = [step |-> "posted", update |-> worker.next + 1,
                                        draft |-> NoDraft, status |-> "processed"]]
  /\ worker' = [step |-> "wait", offset |-> worker.offset, next |-> worker.next,
                last |-> worker.last, for |-> h]
  /\ UNCHANGED <<documentVars, chat, update, edit, draft, inbox, histories, faults>>

WaitsFor(h) == worker.step = "wait" /\ worker.for = h

Delivering(next) == [step |-> "deliver", offset |-> worker.offset, next |-> next,
                     last |-> worker.last]

\* Mutant: the worker goes on to the next update whatever the response.
AcceptedAnyhow ==
  /\ worker.step = "wait"
  /\ worker' = Delivering(worker.next + 1)
  /\ UNCHANGED <<confirmed, saved, faults, early>> /\ WorkerOnly

\* A response 2xx.
Accepted ==
  /\ worker.step = "wait"
  /\ \/ webhook[worker.for].step = "done" /\ early' = early
     \/ /\ AnswersEarly /\ webhook[worker.for].step = "commit"
        /\ early' = early \cup {worker.next + 1}
  /\ worker' = Delivering(worker.next + 1)
  /\ UNCHANGED <<confirmed, saved, faults>> /\ WorkerOnly

\* Mutant: the offset is one too high.
FinishPastBatch ==
  /\ worker.step = "deliver" /\ worker.next = worker.last
  /\ worker' = [worker EXCEPT !.step = "poll", !.offset = worker.last + 1]
  /\ saved' \in {saved, worker.last + 1}
  /\ UNCHANGED <<confirmed, faults, early>> /\ WorkerOnly

\* save_offset only logs it if the file cannot be written.
FinishBatch ==
  /\ worker.step = "deliver" /\ worker.next = worker.last
  /\ worker' = [worker EXCEPT !.step = "poll", !.offset = worker.last]
  /\ saved' \in {saved, worker.last}
  /\ UNCHANGED <<confirmed, faults, early>> /\ WorkerOnly

\* The worker crashes, or its post times out: httpx raises out of run().
Die ==
  /\ worker # Down
  /\ Fault
  /\ worker' = Down
  /\ UNCHANGED <<confirmed, saved, early>> /\ WorkerOnly

---------------------------------------------------------------------------
(* telegram_webhook *)

Says(h, kind) == message[webhook[h].update].kind = kind

\* The advisory lock on the update ends with the commit of its row.
HoldsUpdate(h, u) ==
  /\ webhook[h].step \in {"edit", "edited", "confirm", "attach", "commit"}
  /\ webhook[h].update = u
  /\ update[u] = "absent"

\* Mutant: there is no advisory lock.
TakenUnlocked(h) == webhook[h].step = "posted" /\ update[webhook[h].update] = "absent"

\* The request has the advisory lock, and finds no row.
Taken(h) ==
  /\ webhook[h].step = "posted"
  /\ \A k \in Handlers \ {h} : ~HoldsUpdate(k, webhook[h].update)
  /\ update[webhook[h].update] = "absent"

Duplicate(h) ==
  /\ webhook[h].step = "posted"
  /\ update[webhook[h].update] # "absent"
  /\ webhook' = [webhook EXCEPT ![h].step = "done"]
  /\ UNCHANGED <<update, edit, draft, histories>> /\ WebhookOnly

\* The handler has returned: what is left is the commit of get_db.
Returns(h, status) == webhook' = [webhook EXCEPT ![h].step = "commit", ![h].status = status]

AnswerOther(h) ==
  /\ Taken(h) /\ Says(h, "other")
  /\ Returns(h, "processed")
  /\ UNCHANGED <<update, edit, draft, histories>> /\ WebhookOnly

\* The row, and what the request wrote with it, appear.
CommitUpdate(h) ==
  LET u == webhook[h].update  d == webhook[h].draft IN
  /\ webhook[h].step = "commit"
  /\ update' = [update EXCEPT ![u] = webhook[h].status]
  /\ effects' = [effects EXCEPT ![u] = IF d = NoDraft THEN @ ELSE @ + 1]
  /\ draft' = IF d # NoDraft /\ Says(h, "confirm")
              THEN [draft EXCEPT ![d] = "ready_for_review"] ELSE draft
  /\ webhook' = [webhook EXCEPT ![h].step = "done"]
  /\ UNCHANGED <<edit, corrections, failed, early>> /\ WebhookOnly

\* The response is out, or nobody waits for it any more.
Leave(h) ==
  /\ webhook[h].step = "done"
  /\ ~WaitsFor(h)
  /\ webhook' = [webhook EXCEPT ![h] = Idle]
  /\ UNCHANGED <<update, edit, draft, histories>> /\ WebhookOnly

\* An exception, answered by 500, or the end of the process: PostgreSQL rolls
\* back, Redis does not.  The worker posts again, or dies of the broken connection.
FailUpdate(h) ==
  /\ webhook[h].step \notin {"idle", "done"}
  /\ Fault
  /\ webhook' = [webhook EXCEPT ![h] = Idle]
  /\ failed' = failed \cup {webhook[h].update}
  /\ IF intake[h] = NoIntake THEN UNCHANGED documentVars ELSE Abandon(h)
  /\ worker' \in IF WaitsFor(h) THEN {Down, Delivering(worker.next)} ELSE {worker}
  /\ UNCHANGED <<chat, update, edit, draft, inbox, effects, corrections, early>>

---------------------------------------------------------------------------
(* A text: a correction if Redis says so, or else a new transaction *)

TakeAsCorrection(h) ==
  /\ Taken(h) /\ Says(h, "text")
  /\ edit # NoDraft
  /\ webhook' = [webhook EXCEPT ![h].step = "edit", ![h].draft = edit]
  /\ corrections' = corrections \cup {webhook[h].update}
  /\ UNCHANGED <<update, edit, draft, effects, failed, early>> /\ WebhookOnly

\* The row of the draft is locked from the first UPDATE to the commit.
Unlocked(d) == \A k \in Handlers :
  webhook[k].step \in {"edited", "commit"} => webhook[k].draft # d

\* The chat is told, and the edit state kept.
RefuseCorrection(h) ==
  LET d == webhook[h].draft IN
  /\ webhook[h].step = "edit"
  /\ \/ ~message[webhook[h].update].value
     \/ Unlocked(d) /\ draft[d] = "decided"
  /\ webhook' = [webhook EXCEPT ![h].step = "commit", ![h].draft = NoDraft,
                                ![h].status = "validation_failed"]
  /\ UNCHANGED <<update, edit, draft, histories>> /\ WebhookOnly

\* edit_draft locks and writes the draft.
EditDraft(h) ==
  LET d == webhook[h].draft IN
  /\ webhook[h].step = "edit"
  /\ message[webhook[h].update].value
  /\ Unlocked(d) /\ draft[d] # "decided"
  /\ webhook' = [webhook EXCEPT ![h].step = "edited"]
  /\ UNCHANGED <<update, edit, draft, histories>> /\ WebhookOnly

ClearEditState(h) ==
  /\ webhook[h].step = "edited"
  /\ edit' = NoDraft
  /\ Returns(h, "processed")
  /\ UNCHANGED <<update, draft, histories>> /\ WebhookOnly

\* create_text_inbox, and the commit before the task is sent.  A content that
\* is known makes neither an item nor a task.
FileText(h) ==
  LET u == webhook[h].update  x == message[u].content IN
  /\ Taken(h) /\ Says(h, "text")
  /\ edit = NoDraft
  /\ update' = [update EXCEPT ![u] = "dispatched"]
  /\ texts' = texts \cup {x}
  /\ effects' = [effects EXCEPT ![u] = IF x \in texts THEN @ ELSE @ + 1]
  /\ webhook' = [webhook EXCEPT ![h].step = IF x \in texts THEN "done" ELSE "dispatch"]
  /\ UNCHANGED <<documentVars, chat, worker, edit, draft, extractions, corrections, failed, early,
                 faults>>

DispatchText(h) ==
  /\ webhook[h].step = "dispatch" /\ Says(h, "text")
  /\ extractions' = extractions \cup {message[webhook[h].update].content}
  /\ webhook' = [webhook EXCEPT ![h].step = "done"]
  /\ UNCHANGED <<documentVars, chat, worker, update, edit, draft, texts, histories, faults>>

---------------------------------------------------------------------------
(* Buttons: _handle_callback_query *)

PressEdit(h) ==
  LET d == message[webhook[h].update].draft IN
  /\ Taken(h) /\ Says(h, "edit")
  /\ edit' = IF draft[d] = "decided" THEN edit ELSE d
  /\ Returns(h, "processed")
  /\ UNCHANGED <<update, draft, histories>> /\ WebhookOnly

PressCancel(h) ==
  /\ Taken(h) /\ Says(h, "cancel")
  /\ edit' = NoDraft
  /\ Returns(h, "processed")
  /\ UNCHANGED <<update, draft, histories>> /\ WebhookOnly

\* The status is tested on an unlocked read; the edit state is cleared whatever
\* draft it is for.
PressConfirm(h) ==
  LET d == message[webhook[h].update].draft IN
  /\ Taken(h) /\ Says(h, "confirm")
  /\ draft[d] = "needs_clarification"
  /\ edit' = NoDraft
  /\ webhook' = [webhook EXCEPT ![h].step = "confirm", ![h].draft = d]
  /\ UNCHANGED <<update, draft, histories>> /\ WebhookOnly

FlushConfirm(h) ==
  /\ webhook[h].step = "confirm"
  /\ Unlocked(webhook[h].draft)
  /\ Returns(h, "processed")
  /\ UNCHANGED <<update, edit, draft, histories>> /\ WebhookOnly

DenyConfirm(h) ==
  /\ Taken(h) /\ Says(h, "confirm")
  /\ draft[message[webhook[h].update].draft] # "needs_clarification"
  /\ Returns(h, "processed")
  /\ UNCHANGED <<update, edit, draft, histories>> /\ WebhookOnly

\* run_ai_extraction is sent before anything is committed, whatever has become
\* of the item; without an item the chat is told so.
PressExtract(h) ==
  /\ Taken(h) /\ Says(h, "extract")
  /\ extractions' = extractions \cup (texts \cap {message[webhook[h].update].content})
  /\ Returns(h, "processed")
  /\ UNCHANGED <<documentVars, chat, worker, update, edit, draft, texts, histories, faults>>

---------------------------------------------------------------------------
(* A receipt *)

\* It is not accepted, or cannot be downloaded.
RefuseReceipt(h) ==
  /\ Taken(h) /\ Says(h, "photo")
  /\ Returns(h, "attachment_failed")
  /\ UNCHANGED <<update, edit, draft, histories>> /\ WebhookOnly

\* The first commit of the intake commits the row of the update with it.
Received(h) ==
  LET u == webhook[h].update IN
  IF document' = document THEN UNCHANGED <<update, effects>>
  ELSE /\ update' = [update EXCEPT ![u] = "received"]
       /\ effects' = [effects EXCEPT ![u] = IF update[u] = "absent" THEN @ + 1 ELSE @]

\* The advisory lock, the search, and the INSERT of a new document.
TakeReceipt(h) ==
  LET x == message[webhook[h].update].content IN
  /\ Taken(h) /\ Says(h, "photo")
  /\ \E d \in Documents :
       FindDocument(h, x, d) \/ InsertDocument(h, x, d) \/ BeginReupload(h, x, d)
  /\ Received(h)
  /\ webhook' = [webhook EXCEPT ![h].step = "attach"]
  /\ UNCHANGED <<chat, worker, edit, draft, inbox, corrections, failed, early, faults>>

StoreReceipt(h) ==
  /\ webhook[h].step = "attach"
  /\ Store(h)
  /\ Received(h)
  /\ UNCHANGED <<chat, worker, webhook, edit, draft, inbox, corrections, failed, early, faults>>

CommitReceipt(h) ==
  /\ webhook[h].step = "attach"
  /\ intake[h].step \in {"known", "stored"}
  /\ update' = [update EXCEPT ![webhook[h].update] = "dispatched"]
  /\ webhook' = [webhook EXCEPT ![h].step = "dispatch"]
  /\ UNCHANGED <<edit, draft, histories>> /\ WebhookOnly

DispatchReceipt(h) ==
  /\ webhook[h].step = "dispatch" /\ Says(h, "photo")
  /\ Dispatch(h)
  /\ webhook' = [webhook EXCEPT ![h].step = "done"]
  /\ UNCHANGED <<chat, worker, update, edit, draft, inbox, histories, faults>>

\* DocumentStorageError
GiveUpReceipt(h) ==
  /\ webhook[h].step = "attach"
  /\ intake[h].step = "refused"
  /\ Dispatch(h)
  /\ Returns(h, "attachment_failed")
  /\ UNCHANGED <<chat, worker, update, edit, draft, inbox, histories, faults>>

---------------------------------------------------------------------------
(* The surroundings *)

\* TELEGRAM_EDIT_TTL_MINUTES pass.
ExpireEditState ==
  /\ edit # NoDraft
  /\ edit' = NoDraft
  /\ UNCHANGED <<documentVars, chat, worker, webhook, update, draft, inbox, histories, faults>>

\* A reviewer approves or rejects in the dashboard: DraftReview.
Decide(d) ==
  /\ draft[d] = "ready_for_review"
  /\ Unlocked(d)
  /\ draft' = [draft EXCEPT ![d] = "decided"]
  /\ UNCHANGED <<documentVars, chat, worker, webhook, update, edit, inbox, histories, faults>>

---------------------------------------------------------------------------
(* The specification *)

Init ==
  /\ DocumentInit
  /\ message \in Conversations /\ faults = 0
  /\ confirmed = 0 /\ saved = 0
  /\ worker = Down
  /\ webhook = [h \in Handlers |-> Idle]
  /\ update = [u \in Updates |-> "absent"]
  /\ edit = NoDraft
  /\ draft \in [Drafts -> {"needs_clarification", "ready_for_review"}]
  /\ texts = {} /\ extractions = {}
  /\ effects = [u \in Updates |-> 0]
  /\ corrections = {} /\ failed = {} /\ early = {}

Webhook(h) ==
  \/ Duplicate(h) \/ AnswerOther(h) \/ CommitUpdate(h) \/ Leave(h) \/ FailUpdate(h)
  \/ TakeAsCorrection(h) \/ RefuseCorrection(h) \/ EditDraft(h) \/ ClearEditState(h)
  \/ FileText(h) \/ DispatchText(h)
  \/ PressEdit(h) \/ PressCancel(h) \/ PressConfirm(h) \/ FlushConfirm(h) \/ DenyConfirm(h)
  \/ PressExtract(h)
  \/ RefuseReceipt(h) \/ TakeReceipt(h) \/ StoreReceipt(h) \/ CommitReceipt(h)
  \/ DispatchReceipt(h) \/ GiveUpReceipt(h)

Next ==
  \/ Start \/ Poll \/ Accepted \/ FinishBatch \/ Die
  \/ \E h \in Handlers : Post(h) \/ Webhook(h)
  \/ ExpireEditState
  \/ \E d \in Drafts : Decide(d)

Spec == Init /\ [][Next]_vars

---------------------------------------------------------------------------
(* Properties *)

\* Redeliveries, time-outs and restarts notwithstanding, an update files one
\* item or changes one draft, once.
UpdateOnce == \A u \in Updates : effects[u] <= 1

\* What has become of an update that the worker does not post again.
Settled(u) == update[u] # "absent" \/ u \in early

\* Telegram forgets, and a restarted worker skips, only updates that the webhook
\* has recorded, or that it had answered before their commit: those are lost if
\* that commit fails.
NothingForgotten == \A u \in Updates : u <= Max2(confirmed, saved) => Settled(u)

TakesEffect(u) == update[u] = "absent" /\ update'[u] # "absent"

\* A correction is not committed before the button it answers, nor a text before
\* an earlier one, unless the earlier one was answered before its commit.
InOrder == [][\A u \in Updates : TakesEffect(u) => \A v \in 1..(u - 1) : Settled(v)]_vars

\* If responses wait for the commit, updates are committed in the order in which
\* the chat sent them, and none is left out.
StrictOrder ==
  [][\A u \in Updates : TakesEffect(u) => \A v \in 1..(u - 1) : update[v] # "absent"]_vars

\* The edit state is cleared before the correction is committed.  If that commit
\* fails, the update comes again and its text is filed as a new transaction; it
\* takes such a failure.
CorrectionNotRefiled == \A u \in corrections \ failed : update[u] # "dispatched"
=============================================================================
