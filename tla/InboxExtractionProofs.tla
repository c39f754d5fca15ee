---------------------- MODULE InboxExtractionProofs ----------------------
(***************************************************************************)
(* Theorems about InboxExtraction for any items, workers, clients,         *)
(* reviewers and bounds that satisfy ConstantsAssumption; the last one is  *)
(* about its instances without reviewers and faults, as its run is.        *)
(***************************************************************************)
EXTENDS InboxExtraction, FiniteSetTheorems, TLAPS

(***************************************************************************)
(* The inductive invariant.                                                *)
(***************************************************************************)

\* FOR UPDATE on the item: one finalization holds it.
OneHolder ==
  \A i \in Items : \A v, w \in Workers : HoldsItem(v, i) /\ HoldsItem(w, i) => v = w

\* What a finalization read under that lock is still true when it commits.
CreatingIsFirst ==
  \A w \in Workers : worker[w].step = "creating" => drafts[worker[w].task.item] = <<>>

CorrectingIsOpen ==
  \A w \in Workers : worker[w].step = "correcting" =>
    /\ drafts[worker[w].task.item] # <<>>
    /\ drafts[worker[w].task.item][1].status # "decided"

\* A decision is about a draft that exists.
DecidingHasDraft ==
  \A r \in Reviewers : reviewer[r].step = "deciding" => drafts[reviewer[r].item] # <<>>

LocksOK == OneHolder /\ CreatingIsFirst /\ CorrectingIsOpen /\ DecidingHasDraft

IInv == TypeOK /\ LocksOK /\ OneDraftPerItem /\ ReviewHasDraft

---------------------------------------------------------------------------
(* Type correctness *)

\* What a worker that is not idle runs.
LEMMA RunningJob ==
  ASSUME TypeOK, NEW w \in Workers, worker[w].step # "idle"
  PROVE  /\ worker[w] \in Job
         /\ worker[w].task \in Tasks
         /\ worker[w].task.item \in Items
  BY DEF TypeOK, Idle, Job, Tasks

\* The open request of a client that is not idle.
LEMMA OpenRequest ==
  ASSUME TypeOK, NEW c \in Clients, client[c].step # "idle"
  PROVE  client[c] \in Request /\ client[c].item \in Items
  BY DEF TypeOK, Idle, Request

\* The open decision of a reviewer that is not idle.
LEMMA OpenDecision ==
  ASSUME TypeOK, NEW r \in Reviewers, reviewer[r].step # "idle"
  PROVE  reviewer[r] \in Decision /\ reviewer[r].item \in Items
  BY DEF TypeOK, Idle, Decision

\* Moving a job to another step, and ending it.
LEMMA GotoType ==
  ASSUME TypeOK, NEW w \in Workers, worker[w].step # "idle", NEW s \in WorkerSteps, Goto(w, s)
  PROVE  worker' \in [Workers -> Job \cup {Idle}]
  <1>1. [worker[w] EXCEPT !.step = s] \in Job
    BY RunningJob DEF Job
  <1>2. QED
    BY <1>1 DEF TypeOK, Goto

\* Ending a job.
LEMMA AckType ==
  ASSUME TypeOK, NEW w \in Workers, Ack(w)
  PROVE  worker' \in [Workers -> Job \cup {Idle}]
  BY DEF TypeOK, Ack

\* Taking a task from the broker to run it.
LEMMA JobType ==
  ASSUME TypeOK, NEW w \in Workers, NEW t \in Tasks, NEW s \in WorkerSteps,
         worker' = [worker EXCEPT ![w] = [step |-> s, task |-> t]]
  PROVE  worker' \in [Workers -> Job \cup {Idle}]
  <1>1. [step |-> s, task |-> t] \in Job
    BY DEF Job
  <1>2. QED
    BY <1>1 DEF TypeOK

\* Counting one copy of a task more, or one less.
LEMMA SentType ==
  ASSUME NEW q \in [Tasks -> Nat], NEW t \in Tasks
  PROVE  Sent(q, t) \in [Tasks -> Nat]
  BY DEF Sent

\* One copy less of a task that the broker holds.
LEMMA TakeType ==
  ASSUME NEW q \in [Tasks -> Nat], NEW t \in Tasks, q[t] > 0
  PROVE  [q EXCEPT ![t] = @ - 1] \in [Tasks -> Nat]
  <1>1. q[t] - 1 \in Nat
    OBVIOUS
  <1>2. QED
    BY <1>1

\* The first try of a task is a task, and so is the next one.
LEMMA FirstTryType ==
  ASSUME NEW i \in Items, NEW k \in {"extract", "receipt"}
  PROVE  FirstTry(i, k) \in Tasks
  BY ConstantsAssumption DEF FirstTry, Tasks

\* A retry stays within MaxRetries.
LEMMA NextTryType ==
  ASSUME NEW t \in Tasks, t.try < MaxRetries
  PROVE  [t EXCEPT !.try = @ + 1] \in Tasks
  <1>1. t.try + 1 \in 0..MaxRetries
    BY ConstantsAssumption DEF Tasks
  <1>2. QED
    BY <1>1 DEF Tasks

\* The UPDATEs of an item's row.
LEMMA RowType ==
  ASSUME NEW r \in Row, NEW s \in ItemStatuses, NEW e \in Errors, NEW b \in BOOLEAN
  PROVE  /\ [r EXCEPT !.status = s] \in Row
         /\ [r EXCEPT !.status = s, !.error = e] \in Row
         /\ [r EXCEPT !.status = s, !.error = e, !.text = b] \in Row
  BY DEF Row

\* Writing status and error keeps the rows rows.
LEMMA WriteType ==
  ASSUME TypeOK, NEW i \in Items, NEW s \in ItemStatuses, NEW e \in Errors, Write(i, s, e)
  PROVE  item' \in [Items -> Row]
  <1>1. [item[i] EXCEPT !.status = s, !.error = e] \in Row
    BY RowType DEF TypeOK
  <1>2. QED
    BY <1>1 DEF TypeOK, Write

\* Writing the status alone does too.
LEMMA StatusType ==
  ASSUME TypeOK, NEW i \in Items, NEW s \in ItemStatuses,
         item' = [item EXCEPT ![i].status = s]
  PROVE  item' \in [Items -> Row]
  <1>1. [item[i] EXCEPT !.status = s] \in Row
    BY DEF TypeOK, Row
  <1>2. QED
    BY <1>1 DEF TypeOK

\* Rewriting the draft of an item in place.
Amends(i, d) == drafts' = [drafts EXCEPT ![i] = [@ EXCEPT ![1] = d]]

\* The effect on a sequence of drafts ...
LEMMA AmendedSeq ==
  ASSUME NEW s \in Seq(Draft), s # <<>>, NEW d \in Draft
  PROVE  /\ [s EXCEPT ![1] = d] \in Seq(Draft)
         /\ [s EXCEPT ![1] = d] # <<>>
         /\ Len([s EXCEPT ![1] = d]) = Len(s)
         /\ [s EXCEPT ![1] = d][1] = d
         /\ \A n \in 1..Len(s) : n # 1 => [s EXCEPT ![1] = d][n] = s[n]
  OBVIOUS

\* ... and on the drafts of all items.
LEMMA Amended ==
  ASSUME TypeOK, NEW i \in Items, drafts[i] # <<>>, NEW d \in Draft, Amends(i, d)
  PROVE  /\ drafts' \in [Items -> Seq(Draft)]
         /\ drafts'[i] # <<>> /\ Len(drafts'[i]) = Len(drafts[i])
         /\ drafts'[i][1] = d
         /\ \A n \in 1..Len(drafts[i]) : n # 1 => drafts'[i][n] = drafts[i][n]
         /\ \A j \in Items : j # i => drafts'[j] = drafts[j]
  <1>1. drafts[i] \in Seq(Draft)
    BY DEF TypeOK
  <1>2. drafts'[i] = [drafts[i] EXCEPT ![1] = d]
    BY DEF TypeOK, Amends
  <1>3. [drafts[i] EXCEPT ![1] = d] \in Seq(Draft)
    BY <1>1, AmendedSeq
  <1>4. drafts' \in [Items -> Seq(Draft)]
    BY <1>3 DEF TypeOK, Amends
  <1>5. \A j \in Items : j # i => drafts'[j] = drafts[j]
    BY DEF TypeOK, Amends
  <1>6. QED
    BY <1>1, <1>2, <1>4, <1>5, AmendedSeq

\* The draft of an item that has none yet.
LEMMA Created ==
  ASSUME TypeOK, NEW i \in Items, NEW d \in Draft,
         drafts' = [drafts EXCEPT ![i] = Append(@, d)]
  PROVE  /\ drafts' \in [Items -> Seq(Draft)]
         /\ drafts'[i] # <<>> /\ Len(drafts'[i]) = Len(drafts[i]) + 1
         /\ \A n \in 1..Len(drafts[i]) : drafts'[i][n] = drafts[i][n]
         /\ \A j \in Items : j # i => drafts'[j] = drafts[j]
  <1>1. drafts[i] \in Seq(Draft)
    BY DEF TypeOK
  <1>2. drafts'[i] = Append(drafts[i], d)
    BY DEF TypeOK
  <1>3. /\ drafts' \in [Items -> Seq(Draft)]
        /\ \A j \in Items : j # i => drafts'[j] = drafts[j]
    BY <1>1 DEF TypeOK
  <1>4. QED
    BY <1>1, <1>2, <1>3

\* What an extraction creates is a draft.
LEMMA NewDraft ==
  ASSUME NEW i \in Items
  PROVE  [status |-> FirstStatus(i), content |-> 0] \in Draft
  BY DEF FirstStatus, Draft, DraftStatuses

\* So is the first draft of an item that has one.
LEMMA FirstDraft ==
  ASSUME TypeOK, NEW i \in Items, drafts[i] # <<>>
  PROVE  drafts[i][1] \in Draft
  BY DEF TypeOK

\* Review changes a draft's status, a correction its content.
LEMMA DraftTypes ==
  ASSUME NEW d \in Draft, NEW s \in DraftStatuses
  PROVE  /\ [d EXCEPT !.status = s] \in Draft
         /\ [d EXCEPT !.status = s].status = s
         /\ [d EXCEPT !.status = s].content = d.content
         /\ [d EXCEPT !.content = 1 - @] \in Draft
         /\ [d EXCEPT !.content = 1 - @].status = d.status
  BY DEF Draft

\* Every item is absent, and nothing runs, at first.
LEMMA InitTypeOK == Init => TypeOK
  <1> SUFFICES ASSUME Init PROVE TypeOK
    OBVIOUS
  <1>1. item \in [Items -> Row]
    BY DEF Init, Row, ItemStatuses, Errors
  <1>2. drafts \in [Items -> Seq(Draft)]
    BY DEF Init
  <1>3. QED
    BY <1>1, <1>2 DEF Init, TypeOK

\* The API's requests commit well typed rows and send well typed tasks.
LEMMA ClientType ==
  ASSUME TypeOK, NEW c \in Clients, ClientStep(c)
  PROVE  TypeOK'
  <1>1. ASSUME NEW i \in Items, NEW o \in Origins, Submit(c, i, o)
        PROVE  TypeOK'
    <2> DEFINE kind == IF o.file THEN "receipt" ELSE "extract"
    <2>1. o.source \in {"web", "telegram"} /\ o.file \in BOOLEAN
      BY ConstantsAssumption
    <2>2. [status |-> "queued", error |-> "none", text |-> ~o.file,
           source |-> o.source, file |-> o.file] \in Row
      BY <2>1 DEF Row, ItemStatuses, Errors
    <2>3. item' \in [Items -> Row]
      BY <1>1, <2>2 DEF Submit, TypeOK
    <2>4. [step |-> "committed", op |-> "submit", item |-> i, kind |-> kind,
           status |-> "queued", error |-> "none"] \in Request
      BY DEF Request, ItemStatuses, Errors
    <2>5. client' \in [Clients -> Request \cup {Idle}]
      BY <1>1, <2>4 DEF Submit, TypeOK
    <2>6. QED
      BY <1>1, <2>3, <2>5 DEF Submit, TypeOK
  <1>2. ASSUME NEW i \in Items, NEW op \in {"retry", "dispatch"}, ReadForRetry(c, i, op)
        PROVE  TypeOK'
    <2>1. item[i].status \in ItemStatuses /\ item[i].error \in Errors
      BY DEF TypeOK, Row
    <2>2. [step |-> "read", op |-> op, item |-> i, kind |-> "extract",
           status |-> item[i].status, error |-> item[i].error] \in Request
      BY <2>1 DEF Request
    <2>3. client' \in [Clients -> Request \cup {Idle}]
      BY <1>2, <2>2 DEF ReadForRetry, TypeOK
    <2>4. requests' \in [Items -> Nat]
      BY <1>2 DEF ReadForRetry, TypeOK
    <2>5. QED
      BY <1>2, <2>3, <2>4 DEF ReadForRetry, TypeOK
  <1>3. ASSUME CommitRetry(c)
        PROVE  TypeOK'
    <2> DEFINE q == client[c]
               i == q.item
               status == IF q.status # "queued" THEN "queued" ELSE item[i].status
               error  == IF q.error # "none" THEN "none" ELSE item[i].error
    <2>1. q \in Request /\ i \in Items
      BY <1>3, OpenRequest DEF CommitRetry
    <2>2. item[i] \in Row /\ item[i].status \in ItemStatuses /\ item[i].error \in Errors
      BY <2>1 DEF TypeOK, Row
    <2>3. status \in ItemStatuses /\ error \in Errors
      BY <2>2 DEF ItemStatuses, Errors
    <2>4. [item[i] EXCEPT !.status = status, !.error = error] \in Row
      BY <2>2, <2>3, RowType
    <2>5. \/ item' = item
          \/ item' = [item EXCEPT ![i] = [item[i] EXCEPT !.status = status, !.error = error]]
      BY <1>3 DEF CommitRetry
    <2>6. item' \in [Items -> Row]
      BY <2>1, <2>4, <2>5 DEF TypeOK
    <2>7. [q EXCEPT !.step = "committed"] \in Request
      BY <2>1 DEF Request
    <2>8. client' \in [Clients -> Request \cup {Idle}]
      BY <1>3, <2>7 DEF CommitRetry, TypeOK
    <2>9. QED
      BY <1>3, <2>6, <2>8 DEF CommitRetry, TypeOK
  <1>4. ASSUME SendTask(c)
        PROVE  TypeOK'
    <2>1. client[c] \in Request /\ client[c].item \in Items
      BY <1>4, OpenRequest DEF SendTask
    <2>2. FirstTry(client[c].item, client[c].kind) \in Tasks
      BY <2>1, FirstTryType DEF Request
    <2>3. queue' \in [Tasks -> Nat]
      BY <1>4, <2>2, SentType DEF SendTask, TypeOK
    <2>4. client' \in [Clients -> Request \cup {Idle}]
      BY <1>4 DEF SendTask, TypeOK
    <2>5. QED
      BY <1>4, <2>3, <2>4 DEF SendTask, TypeOK
  <1>5. QED
    BY <1>1, <1>2, <1>3, <1>4 DEF ClientStep

\* So does the chat's button.
LEMMA CallbackType ==
  ASSUME TypeOK, NEW i \in Items, ExtractCallback(i)
  PROVE  TypeOK'
  <1>1. queue' \in [Tasks -> Nat]
    BY FirstTryType, SentType DEF ExtractCallback, TypeOK
  <1>2. requests' \in [Items -> Nat]
    BY DEF ExtractCallback, TypeOK
  <1>3. QED
    BY <1>1, <1>2 DEF ExtractCallback, TypeOK

\* Workers take tasks ...
LEMMA TakeTaskType ==
  ASSUME TypeOK, NEW w \in Workers, TakeTask(w)
  PROVE  TypeOK'
  <1> USE DEF WorkerSteps
  <1>1. PICK t \in Tasks :
          Claim(w, t) \/ SkipClaim(w, t) \/ SkipReceipt(w, t) \/ ReadReceipt(w, t)
    BY DEF TakeTask
  <1>2. t.item \in Items
    BY DEF Tasks
  <1>3. [queue EXCEPT ![t] = @ - 1] \in [Tasks -> Nat]
    BY <1>1, TakeType DEF Claim, SkipClaim, SkipReceipt, ReadReceipt, Take, TypeOK
  <1>4. CASE Claim(w, t)
    <2>1. item' \in [Items -> Row]
      BY <1>2, <1>4, WriteType DEF Claim, ItemStatuses, Errors
    <2>2. worker' \in [Workers -> Job \cup {Idle}]
      BY <1>4, JobType DEF Claim
    <2>3. QED
      BY <1>3, <1>4, <2>1, <2>2 DEF Claim, Take, TypeOK
  <1>5. CASE SkipClaim(w, t)
    BY <1>3, <1>5 DEF SkipClaim, Take, TypeOK
  <1>6. CASE SkipReceipt(w, t)
    <2>1. queue' \in [Tasks -> Nat]
      BY <1>2, <1>3, <1>6, FirstTryType, SentType DEF SkipReceipt
    <2>2. QED
      BY <1>6, <2>1 DEF SkipReceipt, TypeOK
  <1>7. CASE ReadReceipt(w, t)
    <2>1. worker' \in [Workers -> Job \cup {Idle}]
      BY <1>7, JobType DEF ReadReceipt
    <2>2. QED
      BY <1>3, <1>7, <2>1 DEF ReadReceipt, Take, TypeOK
  <1>8. QED
    BY <1>1, <1>4, <1>5, <1>6, <1>7

\* ... call the provider, retry ...
LEMMA ProviderType ==
  ASSUME TypeOK, NEW w \in Workers, CallProvider(w) \/ RetryTask(w)
  PROVE  TypeOK'
  <1> DEFINE i == worker[w].task.item
  <1> USE DEF WorkerSteps
  <1>1. worker[w].step # "idle" /\ i \in Items /\ worker[w].task \in Tasks
    BY RunningJob DEF CallProvider, ProviderAnswers, ProviderTimesOut, ProviderFails,
                      RetryTask, Running
  <1>2. CASE ProviderAnswers(w)
    BY <1>1, <1>2, GotoType DEF ProviderAnswers, TypeOK
  <1>3. CASE ProviderTimesOut(w)
    <2>1. worker' \in [Workers -> Job \cup {Idle}]
      BY <1>1, <1>3, GotoType DEF ProviderTimesOut
    <2>2. item' \in [Items -> Row]
      <3>1. item' = item \/ Write(i, "queued", "transient")
        BY <1>3 DEF ProviderTimesOut
      <3>2. QED
        BY <1>1, <3>1, WriteType DEF ItemStatuses, Errors, TypeOK
    <2>3. QED
      BY <1>3, <2>1, <2>2 DEF ProviderTimesOut, TypeOK
  <1>4. CASE ProviderFails(w)
    <2>1. worker' \in [Workers -> Job \cup {Idle}]
      BY <1>4, AckType DEF ProviderFails
    <2>2. item' \in [Items -> Row]
      BY <1>1, <1>4, WriteType DEF ProviderFails, ItemStatuses, Errors
    <2>3. QED
      BY <1>4, <2>1, <2>2 DEF ProviderFails, TypeOK
  <1>5. CASE RetryTask(w)
    <2>1. worker' \in [Workers -> Job \cup {Idle}]
      BY <1>5, AckType DEF RetryTask
    <2>2. queue' \in [Tasks -> Nat]
      BY <1>1, <1>5, NextTryType, SentType DEF RetryTask, TypeOK
    <2>3. QED
      BY <1>5, <2>1, <2>2 DEF RetryTask, TypeOK
  <1>6. QED
    BY <1>2, <1>3, <1>4, <1>5 DEF CallProvider

\* ... finalize ...
LEMMA FinalizeType ==
  ASSUME TypeOK, LocksOK, NEW w \in Workers, Finalize(w)
  PROVE  TypeOK'
  <1> DEFINE i == worker[w].task.item
  <1> USE DEF WorkerSteps
  <1>1. worker[w].step # "idle" /\ i \in Items
    BY RunningJob DEF Finalize, FinalizeExisting, FinalizeInvalid, StartDraft,
                      CreateDraft, CommitCorrection, AbortCorrection, Running
  <1>2. CASE FinalizeExisting(w)
    <2>1. item' \in [Items -> Row]
      BY <1>1, <1>2, StatusType DEF FinalizeExisting, ItemStatuses
    <2>2. QED
      BY <1>2, <2>1, AckType DEF FinalizeExisting, TypeOK
  <1>3. CASE FinalizeInvalid(w)
    <2>1. item' \in [Items -> Row]
      BY <1>1, <1>3, WriteType DEF FinalizeInvalid, ItemStatuses, Errors
    <2>2. QED
      BY <1>3, <2>1, AckType DEF FinalizeInvalid, TypeOK
  <1>4. CASE StartDraft(w)
    BY <1>1, <1>4, GotoType DEF StartDraft, TypeOK
  <1>5. CASE CreateDraft(w)
    <2>1. item' \in [Items -> Row]
      BY <1>1, <1>5, StatusType DEF CreateDraft, ItemStatuses
    <2>2. drafts' \in [Items -> Seq(Draft)]
      BY <1>1, <1>5, NewDraft, Created DEF CreateDraft
    <2>3. QED
      BY <1>5, <2>1, <2>2, AckType DEF CreateDraft, TypeOK
  <1>6. CASE CommitCorrection(w)
    <2>1. item' \in [Items -> Row]
      BY <1>1, <1>6, StatusType DEF CommitCorrection, ItemStatuses
    <2>2. drafts[i] # <<>>
      BY <1>6 DEF CommitCorrection, Running, LocksOK, CorrectingIsOpen
    <2>3. Amends(i, [drafts[i][1] EXCEPT !.content = 1 - @])
      BY <1>6 DEF CommitCorrection, Amends
    <2>4. drafts' \in [Items -> Seq(Draft)]
      BY <1>1, <2>2, <2>3, FirstDraft, DraftTypes, Amended DEF DraftStatuses
    <2>5. QED
      BY <1>6, <2>1, <2>4, AckType DEF CommitCorrection, TypeOK
  <1>7. CASE AbortCorrection(w)
    BY <1>7, AckType DEF AbortCorrection, TypeOK
  <1>8. QED
    BY <1>2, <1>3, <1>4, <1>5, <1>6, <1>7 DEF Finalize

\* ... and read receipts.
LEMMA RecognizeType ==
  ASSUME TypeOK, NEW w \in Workers, Recognize(w)
  PROVE  TypeOK'
  <1> DEFINE i == worker[w].task.item
  <1> USE DEF WorkerSteps
  <1>1. worker[w].step # "idle" /\ i \in Items
    BY RunningJob DEF Recognize, StartReceipt, ReceiptRead, ReceiptFails, SendExtraction, Running
  <1>2. CASE StartReceipt(w)
    <2>1. item' \in [Items -> Row]
      BY <1>1, <1>2, StatusType DEF StartReceipt, ItemStatuses, TypeOK
    <2>2. worker' \in [Workers -> Job \cup {Idle}]
      BY <1>1, <1>2, GotoType DEF StartReceipt
    <2>3. QED
      BY <1>2, <2>1, <2>2 DEF StartReceipt, TypeOK
  <1>3. CASE ReceiptRead(w)
    <2>1. [item[i] EXCEPT !.status = "queued", !.error = "none", !.text = TRUE] \in Row
      BY <1>1, RowType DEF TypeOK, ItemStatuses, Errors
    <2>2. item' \in [Items -> Row]
      BY <1>3, <2>1 DEF ReceiptRead, TypeOK
    <2>3. worker' \in [Workers -> Job \cup {Idle}]
      BY <1>1, <1>3, GotoType DEF ReceiptRead
    <2>4. QED
      BY <1>3, <2>2, <2>3 DEF ReceiptRead, TypeOK
  <1>4. CASE ReceiptFails(w)
    <2>1. item' \in [Items -> Row]
      BY <1>1, <1>4, WriteType DEF ReceiptFails, ItemStatuses, Errors
    <2>2. worker' \in [Workers -> Job \cup {Idle}]
      BY <1>1, <1>4, GotoType, AckType DEF ReceiptFails
    <2>3. QED
      BY <1>4, <2>1, <2>2 DEF ReceiptFails, TypeOK
  <1>5. CASE SendExtraction(w)
    <2>1. queue' \in [Tasks -> Nat]
      BY <1>1, <1>5, FirstTryType, SentType DEF SendExtraction, TypeOK
    <2>2. QED
      BY <1>5, <2>1, AckType DEF SendExtraction, TypeOK
  <1>6. QED
    BY <1>2, <1>3, <1>4, <1>5 DEF Recognize

\* A crash or a second delivery puts back a task that was running.
LEMMA FaultType ==
  ASSUME TypeOK, Fault
  PROVE  TypeOK'
  <1>1. ASSUME NEW w \in Workers, CrashWorker(w) \/ Redeliver(w)
        PROVE  TypeOK'
    <2>1. worker[w] # Idle
      BY <1>1 DEF CrashWorker, Redeliver
    <2>2. worker[w].task \in Tasks
      BY <2>1 DEF TypeOK, Job
    <2>3. queue' \in [Tasks -> Nat]
      BY <1>1, <2>2, SentType DEF CrashWorker, Redeliver, TypeOK
    <2>4. worker' \in [Workers -> Job \cup {Idle}]
      BY <1>1, AckType DEF CrashWorker, Redeliver, TypeOK
    <2>5. QED
      BY <1>1, <2>3, <2>4 DEF CrashWorker, Redeliver, TypeOK
  <1>2. ASSUME NEW c \in Clients, CrashRequest(c)
        PROVE  TypeOK'
    BY <1>2 DEF CrashRequest, TypeOK
  <1>3. QED
    BY <1>1, <1>2 DEF Fault

\* A review step rewrites the status of a draft that exists.
LEMMA ReviewType ==
  ASSUME TypeOK, LocksOK, Review
  PROVE  TypeOK'
  <1>1. ASSUME NEW i \in Items, Confirm(i) \/ RequestClarification(i)
        PROVE  TypeOK'
    <2>1. PICK s \in DraftStatuses : Amends(i, [drafts[i][1] EXCEPT !.status = s])
      BY <1>1 DEF Confirm, RequestClarification, Amends, DraftStatuses
    <2>2. drafts' \in [Items -> Seq(Draft)]
      BY <1>1, <2>1, FirstDraft, DraftTypes, Amended DEF Confirm, RequestClarification
    <2>3. QED
      BY <1>1, <2>2 DEF Confirm, RequestClarification, TypeOK
  <1>2. ASSUME NEW r \in Reviewers, CommitDecision(r)
        PROVE  TypeOK'
    <2> DEFINE i == reviewer[r].item
    <2>1. i \in Items /\ drafts[i] # <<>>
      BY <1>2, OpenDecision DEF CommitDecision, LocksOK, DecidingHasDraft
    <2>2. Amends(i, [drafts[i][1] EXCEPT !.status = "decided"])
      BY <1>2 DEF CommitDecision, Amends
    <2>3. drafts' \in [Items -> Seq(Draft)]
      BY <2>1, <2>2, FirstDraft, DraftTypes, Amended DEF DraftStatuses
    <2>4. item' \in [Items -> Row]
      BY <1>2, <2>1, StatusType DEF CommitDecision, ItemStatuses
    <2>5. QED
      BY <1>2, <2>3, <2>4 DEF CommitDecision, TypeOK
  <1>3. ASSUME NEW r \in Reviewers, RollbackDecision(r)
        PROVE  TypeOK'
    BY <1>3 DEF RollbackDecision, TypeOK
  <1>4. ASSUME NEW r \in Reviewers, NEW i \in Items, StartDecision(r, i)
        PROVE  TypeOK'
    <2>1. [step |-> "deciding", item |-> i] \in Decision
      BY DEF Decision
    <2>2. QED
      BY <1>4, <2>1 DEF StartDecision, TypeOK
  <1>5. QED
    BY <1>1, <1>2, <1>3, <1>4 DEF Review

\* Every step of the pipeline keeps the types.
LEMMA TypeOKStep == TypeOK /\ LocksOK /\ [Next]_vars => TypeOK'
  <1> SUFFICES ASSUME TypeOK, LocksOK, [Next]_vars PROVE TypeOK'
    OBVIOUS
  <1>1. CASE UNCHANGED vars
    BY <1>1 DEF vars, TypeOK
  <1>2. CASE Next
    BY <1>2, ClientType, CallbackType, TakeTaskType, ProviderType, FinalizeType,
       RecognizeType, FaultType, ReviewType DEF Next
  <1>3. QED
    BY <1>1, <1>2

---------------------------------------------------------------------------
(* Locks *)

\* Worker w is not in the middle of a finalization after this step, or it is
\* exactly where it was.
KeepsOrLeaves(w) == worker'[w] = worker[w] \/ worker'[w].step \notin {"creating", "correcting"}

\* Steps that leave the drafts and the decisions alone and start no
\* finalization disturb no lock.
LEMMA QuietStep ==
  ASSUME LocksOK, drafts' = drafts, reviewer' = reviewer,
         \A w \in Workers : KeepsOrLeaves(w)
  PROVE  LocksOK'
  <1>1. OneHolder'
    BY DEF LocksOK, OneHolder, HoldsItem, KeepsOrLeaves
  <1>2. CreatingIsFirst'
    BY DEF LocksOK, CreatingIsFirst, KeepsOrLeaves
  <1>3. CorrectingIsOpen'
    BY DEF LocksOK, CorrectingIsOpen, KeepsOrLeaves
  <1>4. DecidingHasDraft'
    BY DEF LocksOK, DecidingHasDraft
  <1>5. QED
    BY <1>1, <1>2, <1>3, <1>4 DEF LocksOK

\* What a step of worker w does to the workers.
LEMMA GotoKeeps ==
  ASSUME TypeOK, NEW w \in Workers, NEW s, s \notin {"creating", "correcting"},
         Goto(w, s), worker[w].step # "idle"
  PROVE  \A v \in Workers : KeepsOrLeaves(v)
  <1>1. worker'[w].step = s
    BY RunningJob DEF Goto, TypeOK, Job
  <1>2. \A v \in Workers : v # w => worker'[v] = worker[v]
    BY DEF Goto, TypeOK
  <1>3. QED
    BY <1>1, <1>2 DEF KeepsOrLeaves

\* A job that ends gives its locks back.
LEMMA AckKeeps ==
  ASSUME TypeOK, NEW w \in Workers, Ack(w)
  PROVE  /\ \A v \in Workers : KeepsOrLeaves(v)
         /\ worker'[w] = Idle
         /\ \A v \in Workers : v # w => worker'[v] = worker[v]
  BY DEF Ack, TypeOK, KeepsOrLeaves, Idle

\* A worker that takes a task, or moves to a step outside finalization, holds no item.
LEMMA JobKeeps ==
  ASSUME TypeOK, NEW w \in Workers, NEW t, NEW s, s \notin {"creating", "correcting"},
         worker' = [worker EXCEPT ![w] = [step |-> s, task |-> t]]
  PROVE  \A v \in Workers : KeepsOrLeaves(v)
  BY DEF TypeOK, KeepsOrLeaves

\* A step of somebody else leaves every job as it is.
LEMMA SameKeeps ==
  ASSUME worker' = worker
  PROVE  \A v \in Workers : KeepsOrLeaves(v)
  BY DEF KeepsOrLeaves

\* The steps that neither start nor end a finalization, nor touch a draft.
LEMMA ClientLocks ==
  ASSUME LocksOK, NEW c \in Clients, ClientStep(c)
  PROVE  LocksOK' /\ drafts' = drafts
  <1>1. drafts' = drafts /\ reviewer' = reviewer /\ worker' = worker
    BY DEF ClientStep, Submit, ReadForRetry, CommitRetry, SendTask
  <1>2. QED
    BY <1>1, SameKeeps, QuietStep

\* Taking a task locks nothing beyond its own transaction.
LEMMA TakeTaskLocks ==
  ASSUME TypeOK, LocksOK, NEW w \in Workers, TakeTask(w)
  PROVE  LocksOK' /\ drafts' = drafts
  <1>1. PICK t \in Tasks :
          Claim(w, t) \/ SkipClaim(w, t) \/ SkipReceipt(w, t) \/ ReadReceipt(w, t)
    BY DEF TakeTask
  <1>2. drafts' = drafts /\ reviewer' = reviewer
    BY <1>1 DEF Claim, SkipClaim, SkipReceipt, ReadReceipt
  <1>3. \A v \in Workers : KeepsOrLeaves(v)
    BY <1>1, JobKeeps, SameKeeps DEF Claim, SkipClaim, SkipReceipt, ReadReceipt
  <1>4. QED
    BY <1>2, <1>3, QuietStep

\* Nor does a provider call, which runs between two transactions.
LEMMA ProviderLocks ==
  ASSUME TypeOK, LocksOK, NEW w \in Workers, CallProvider(w) \/ RetryTask(w)
  PROVE  LocksOK' /\ drafts' = drafts
  <1>1. drafts' = drafts /\ reviewer' = reviewer
    BY DEF CallProvider, ProviderAnswers, ProviderTimesOut, ProviderFails, RetryTask
  <1>2. worker[w].step # "idle"
    BY DEF CallProvider, ProviderAnswers, ProviderTimesOut, ProviderFails, RetryTask, Running
  <1>3. Ack(w) \/ \E s \in {"valid", "invalid", "raise"} : Goto(w, s)
    BY DEF CallProvider, ProviderAnswers, ProviderTimesOut, ProviderFails, RetryTask
  <1>4. \A v \in Workers : KeepsOrLeaves(v)
    BY <1>2, <1>3, GotoKeeps, AckKeeps
  <1>5. QED
    BY <1>1, <1>4, QuietStep

\* Text recognition neither locks an item nor touches a draft.
LEMMA RecognizeLocks ==
  ASSUME TypeOK, LocksOK, NEW w \in Workers, Recognize(w)
  PROVE  LocksOK' /\ drafts' = drafts
  <1>1. drafts' = drafts /\ reviewer' = reviewer
    BY DEF Recognize, StartReceipt, ReceiptRead, ReceiptFails, SendExtraction
  <1>2. worker[w].step # "idle"
    BY DEF Recognize, StartReceipt, ReceiptRead, ReceiptFails, SendExtraction, Running
  <1>3. Ack(w) \/ \E s \in {"ocr", "send", "raise"} : Goto(w, s)
    BY DEF Recognize, StartReceipt, ReceiptRead, ReceiptFails, SendExtraction
  <1>4. \A v \in Workers : KeepsOrLeaves(v)
    BY <1>2, <1>3, GotoKeeps, AckKeeps
  <1>5. QED
    BY <1>1, <1>4, QuietStep

\* A crash can only give locks back.
LEMMA FaultLocks ==
  ASSUME TypeOK, LocksOK, Fault
  PROVE  LocksOK' /\ drafts' = drafts
  <1>1. drafts' = drafts /\ reviewer' = reviewer
    BY DEF Fault, CrashWorker, CrashRequest, Redeliver
  <1>2. worker' = worker \/ \E w \in Workers : Ack(w)
    BY DEF Fault, CrashWorker, CrashRequest, Redeliver
  <1>3. \A v \in Workers : KeepsOrLeaves(v)
    BY <1>2, AckKeeps, SameKeeps
  <1>4. QED
    BY <1>1, <1>3, QuietStep

\* Only a worker that saw the item free starts a finalization; what it read
\* is what the invariant says.
LEMMA StartDraftLocks ==
  ASSUME TypeOK, LocksOK, NEW w \in Workers, StartDraft(w)
  PROVE  LocksOK' /\ drafts' = drafts
  <1> DEFINE i == worker[w].task.item
             s == IF drafts[i] = <<>> THEN "creating" ELSE "correcting"
  <1>1. drafts' = drafts /\ reviewer' = reviewer
    BY DEF StartDraft
  <1>2. worker[w].step # "idle" /\ i \in Items
    BY RunningJob DEF StartDraft, Running
  <1>3. worker'[w].step = s /\ worker'[w].task = worker[w].task
    BY <1>2, RunningJob DEF StartDraft, Goto, TypeOK, Job
  <1>4. \A v \in Workers : v # w => worker'[v] = worker[v]
    BY DEF StartDraft, Goto, TypeOK
  <1>5. \A v \in Workers : ~HoldsItem(v, i)
    BY DEF StartDraft, ItemFree
  <1>6. drafts[i] # <<>> => drafts[i][1].status = "needs_clarification"
    BY DEF StartDraft, IsCorrection
  <1>7. OneHolder'
    BY <1>3, <1>4, <1>5 DEF OneHolder, HoldsItem, LocksOK
  <1>8. CreatingIsFirst'
    BY <1>1, <1>3, <1>4 DEF CreatingIsFirst, LocksOK
  <1>9. CorrectingIsOpen'
    BY <1>1, <1>3, <1>4, <1>6 DEF CorrectingIsOpen, LocksOK
  <1>10. DecidingHasDraft'
    BY <1>1 DEF DecidingHasDraft, LocksOK
  <1>11. QED
    BY <1>1, <1>7, <1>8, <1>9, <1>10 DEF LocksOK

\* The end of a finalization: the holder of the item, and nobody else, was
\* working on its draft.
LEMMA CommitLocks ==
  ASSUME TypeOK, LocksOK, NEW w \in Workers, CreateDraft(w) \/ CommitCorrection(w)
  PROVE  LocksOK'
  <1> DEFINE i == worker[w].task.item
  <1>1. worker[w].step # "idle" /\ i \in Items /\ HoldsItem(w, i)
    BY RunningJob DEF CreateDraft, CommitCorrection, Running, HoldsItem
  <1>2. reviewer' = reviewer /\ Ack(w)
    BY DEF CreateDraft, CommitCorrection
  <1>3. /\ worker'[w] = Idle
        /\ \A v \in Workers : v # w => worker'[v] = worker[v]
    BY <1>2, AckKeeps
  <1>4. \A v \in Workers : v # w => ~HoldsItem(v, i)
    BY <1>1 DEF LocksOK, OneHolder
  <1>5. /\ drafts'[i] # <<>>
        /\ \A j \in Items : j # i => drafts'[j] = drafts[j]
    <2>1. CASE CreateDraft(w)
      BY <1>1, <2>1, NewDraft, Created DEF CreateDraft
    <2>2. CASE CommitCorrection(w)
      <3>1. drafts[i] # <<>>
        BY <2>2 DEF CommitCorrection, Running, LocksOK, CorrectingIsOpen
      <3>2. Amends(i, [drafts[i][1] EXCEPT !.content = 1 - @])
        BY <2>2 DEF CommitCorrection, Amends
      <3>3. QED
        BY <1>1, <3>1, <3>2, FirstDraft, DraftTypes, Amended DEF DraftStatuses
    <2>3. QED
      BY <2>1, <2>2
  <1>6. OneHolder'
    BY <1>3 DEF OneHolder, HoldsItem, LocksOK, Idle
  <1>7. ASSUME NEW v \in Workers, worker'[v].step \in {"creating", "correcting"}
        PROVE  /\ worker'[v] = worker[v]
               /\ drafts'[worker[v].task.item] = drafts[worker[v].task.item]
    <2>1. v # w /\ worker'[v] = worker[v]
      BY <1>3, <1>7 DEF Idle
    <2>2. worker[v].step # "idle"
      BY <1>7, <2>1
    <2>3. worker[v].task.item \in Items
      BY <2>2, RunningJob
    <2>4. worker[v].task.item # i
      BY <1>4, <1>7, <2>1 DEF HoldsItem
    <2>5. QED
      BY <1>5, <2>1, <2>3, <2>4
  <1>8. CreatingIsFirst'
    BY <1>7 DEF CreatingIsFirst, LocksOK
  <1>9. CorrectingIsOpen'
    BY <1>7 DEF CorrectingIsOpen, LocksOK
  <1>10. DecidingHasDraft'
    BY <1>2, <1>5, OpenDecision DEF DecidingHasDraft, LocksOK
  <1>11. QED
    BY <1>6, <1>8, <1>9, <1>10 DEF LocksOK

\* The other ends of an extraction leave the drafts alone.
LEMMA FinalizeLocks ==
  ASSUME TypeOK, LocksOK, NEW w \in Workers, Finalize(w)
  PROVE  LocksOK'
  <1>1. CASE FinalizeExisting(w) \/ FinalizeInvalid(w) \/ AbortCorrection(w)
    <2>1. drafts' = drafts /\ reviewer' = reviewer /\ Ack(w)
      BY <1>1 DEF FinalizeExisting, FinalizeInvalid, AbortCorrection
    <2>2. QED
      BY <2>1, AckKeeps, QuietStep
  <1>2. CASE StartDraft(w)
    BY <1>2, StartDraftLocks
  <1>3. CASE CreateDraft(w) \/ CommitCorrection(w)
    BY <1>3, CommitLocks
  <1>4. QED
    BY <1>1, <1>2, <1>3 DEF Finalize

\* A review step gives the draft of item i another status.
Rewritten(i, s) ==
  /\ drafts[i] # <<>>
  /\ Amends(i, [drafts[i][1] EXCEPT !.status = s])
  /\ worker' = worker
  /\ s = "decided" => ItemFree(i)

\* A status that is rewritten belongs to a draft that exists, so nobody is
\* creating it; it becomes "decided" only while nobody holds the item.
LEMMA ReviewLocks ==
  ASSUME TypeOK, LocksOK, Review
  PROVE  LocksOK'
  <1>1. ASSUME NEW i \in Items, NEW s \in DraftStatuses, Rewritten(i, s),
               \A r \in Reviewers : reviewer'[r] = reviewer[r] \/ reviewer'[r] = Idle
        PROVE  LocksOK'
    <2>1. /\ drafts'[i] # <<>>
          /\ drafts'[i][1].status = s
          /\ \A j \in Items : j # i => drafts'[j] = drafts[j]
      <3>1. drafts[i] # <<>> /\ Amends(i, [drafts[i][1] EXCEPT !.status = s])
        BY <1>1 DEF Rewritten
      <3>2. /\ [drafts[i][1] EXCEPT !.status = s] \in Draft
            /\ [drafts[i][1] EXCEPT !.status = s].status = s
        BY <3>1, FirstDraft, DraftTypes
      <3>3. QED
        BY <3>1, <3>2, Amended
    <2>2. OneHolder'
      BY <1>1 DEF Rewritten, OneHolder, HoldsItem, LocksOK
    <2>3. ASSUME NEW w \in Workers, worker[w].step \in {"creating", "correcting"}
          PROVE  worker[w].task.item \in Items
      BY <2>3, RunningJob
    <2>4. CreatingIsFirst'
      BY <1>1, <2>1, <2>3 DEF Rewritten, CreatingIsFirst, LocksOK
    <2>5. s = "decided" => \A w \in Workers : ~HoldsItem(w, i)
      BY <1>1 DEF Rewritten, ItemFree
    <2>6. CorrectingIsOpen'
      BY <1>1, <2>1, <2>3, <2>5 DEF Rewritten, CorrectingIsOpen, LocksOK, HoldsItem
    <2>7. DecidingHasDraft'
      BY <1>1, <2>1, OpenDecision DEF DecidingHasDraft, LocksOK, Idle
    <2>8. QED
      BY <2>2, <2>4, <2>6, <2>7 DEF LocksOK
  <1>2. ASSUME NEW i \in Items, Confirm(i) \/ RequestClarification(i)
        PROVE  LocksOK'
    <2>1. PICK s \in {"ready_for_review", "needs_clarification"} :
            Amends(i, [drafts[i][1] EXCEPT !.status = s])
      BY <1>2 DEF Confirm, RequestClarification, Amends
    <2>2. Rewritten(i, s) /\ reviewer' = reviewer
      BY <1>2, <2>1 DEF Rewritten, Confirm, RequestClarification
    <2>3. QED
      BY <1>1, <2>2 DEF DraftStatuses
  <1>3. ASSUME NEW r \in Reviewers, CommitDecision(r)
        PROVE  LocksOK'
    <2> DEFINE i == reviewer[r].item
    <2>1. i \in Items /\ drafts[i] # <<>>
      BY <1>3, OpenDecision DEF CommitDecision, LocksOK, DecidingHasDraft
    <2>2. Rewritten(i, "decided")
      BY <1>3, <2>1 DEF Rewritten, CommitDecision, Amends
    <2>3. \A q \in Reviewers : reviewer'[q] = reviewer[q] \/ reviewer'[q] = Idle
      BY <1>3 DEF CommitDecision, TypeOK
    <2>4. QED
      BY <1>1, <2>1, <2>2, <2>3 DEF DraftStatuses
  <1>4. ASSUME NEW r \in Reviewers, RollbackDecision(r)
        PROVE  LocksOK'
    <2>1. drafts' = drafts /\ worker' = worker
      BY <1>4 DEF RollbackDecision
    <2>2. DecidingHasDraft'
      BY <1>4, <2>1 DEF RollbackDecision, DecidingHasDraft, LocksOK, Idle, TypeOK
    <2>3. QED
      BY <2>1, <2>2 DEF LocksOK, OneHolder, HoldsItem, CreatingIsFirst, CorrectingIsOpen
  <1>5. ASSUME NEW r \in Reviewers, NEW i \in Items, StartDecision(r, i)
        PROVE  LocksOK'
    <2>1. drafts' = drafts /\ worker' = worker
      BY <1>5 DEF StartDecision
    <2>2. DecidingHasDraft'
      BY <1>5, <2>1 DEF StartDecision, DecidingHasDraft, LocksOK, TypeOK
    <2>3. QED
      BY <2>1, <2>2 DEF LocksOK, OneHolder, HoldsItem, CreatingIsFirst, CorrectingIsOpen
  <1>6. QED
    BY <1>2, <1>3, <1>4, <1>5 DEF Review

\* Every step keeps what the locks protect.
LEMMA LocksStep == TypeOK /\ LocksOK /\ [Next]_vars => LocksOK'
  <1> SUFFICES ASSUME TypeOK, LocksOK, [Next]_vars PROVE LocksOK'
    OBVIOUS
  <1>1. CASE UNCHANGED vars
    <2>1. drafts' = drafts /\ reviewer' = reviewer /\ worker' = worker
      BY <1>1 DEF vars
    <2>2. QED
      BY <2>1, SameKeeps, QuietStep
  <1>2. CASE \E i \in Items : ExtractCallback(i)
    <2>1. drafts' = drafts /\ reviewer' = reviewer /\ worker' = worker
      BY <1>2 DEF ExtractCallback
    <2>2. QED
      BY <2>1, SameKeeps, QuietStep
  <1>3. CASE Next
    BY <1>2, <1>3, ClientLocks, TakeTaskLocks, ProviderLocks, FinalizeLocks,
       RecognizeLocks, FaultLocks, ReviewLocks DEF Next
  <1>4. QED
    BY <1>1, <1>3

---------------------------------------------------------------------------
(* Drafts *)

\* What a step may do to the drafts of an item: nothing, create the first one,
\* or rewrite what is not decided.
DraftEffect(i) ==
  \/ drafts'[i] = drafts[i]
  \/ drafts[i] = <<>> /\ Len(drafts'[i]) = 1
  \/ /\ drafts[i] # <<>> /\ drafts'[i] # <<>>
     /\ Len(drafts'[i]) = Len(drafts[i])
     /\ \A n \in 1..Len(drafts[i]) :
          drafts[i][n].status = "decided" => drafts'[i][n].content = drafts[i][n].content

\* A rewriting of the first draft that keeps the content, or finds it open.
LEMMA AmendEffect ==
  ASSUME TypeOK, NEW i \in Items, drafts[i] # <<>>, NEW d \in Draft, Amends(i, d),
         d.content = drafts[i][1].content \/ drafts[i][1].status # "decided"
  PROVE  \A j \in Items : DraftEffect(j)
  <1>1. /\ drafts'[i] # <<>> /\ Len(drafts'[i]) = Len(drafts[i])
        /\ drafts'[i][1] = d
        /\ \A n \in 1..Len(drafts[i]) : n # 1 => drafts'[i][n] = drafts[i][n]
        /\ \A j \in Items : j # i => drafts'[j] = drafts[j]
    BY Amended
  <1>2. DraftEffect(i)
    BY <1>1 DEF DraftEffect
  <1>3. QED
    BY <1>1, <1>2 DEF DraftEffect

\* Every step does one of these things to the drafts of an item.
LEMMA DraftStep == TypeOK /\ LocksOK /\ [Next]_vars => \A i \in Items : DraftEffect(i)
  <1> SUFFICES ASSUME TypeOK, LocksOK, [Next]_vars PROVE \A i \in Items : DraftEffect(i)
    OBVIOUS
  <1>1. CASE drafts' = drafts
    BY <1>1 DEF DraftEffect
  <1>2. ASSUME NEW w \in Workers, CreateDraft(w)
        PROVE  \A i \in Items : DraftEffect(i)
    <2> DEFINE i == worker[w].task.item
    <2>1. worker[w].step # "idle" /\ drafts[i] = <<>>
      BY <1>2 DEF CreateDraft, Running, LocksOK, CreatingIsFirst
    <2>2. i \in Items
      BY <2>1, RunningJob
    <2>3. /\ Len(drafts'[i]) = Len(drafts[i]) + 1
          /\ \A j \in Items : j # i => drafts'[j] = drafts[j]
      BY <1>2, <2>2, NewDraft, Created DEF CreateDraft
    <2>4. Len(drafts'[i]) = 1
      BY <2>1, <2>3
    <2>5. QED
      BY <2>1, <2>3, <2>4 DEF DraftEffect
  <1>3. ASSUME NEW w \in Workers, CommitCorrection(w)
        PROVE  \A i \in Items : DraftEffect(i)
    <2> DEFINE i == worker[w].task.item
    <2>1. worker[w].step # "idle" /\ drafts[i] # <<>> /\ drafts[i][1].status # "decided"
      BY <1>3 DEF CommitCorrection, Running, LocksOK, CorrectingIsOpen
    <2>2. i \in Items
      BY <2>1, RunningJob
    <2>3. Amends(i, [drafts[i][1] EXCEPT !.content = 1 - @])
      BY <1>3 DEF CommitCorrection, Amends
    <2>4. [drafts[i][1] EXCEPT !.content = 1 - @] \in Draft
      BY <2>1, <2>2, FirstDraft, DraftTypes DEF DraftStatuses
    <2>5. QED
      BY <2>1, <2>2, <2>3, <2>4, AmendEffect
  <1>4. ASSUME NEW i \in Items, NEW s \in DraftStatuses, Rewritten(i, s)
        PROVE  \A j \in Items : DraftEffect(j)
    <2>1. drafts[i] # <<>> /\ Amends(i, [drafts[i][1] EXCEPT !.status = s])
      BY <1>4 DEF Rewritten
    <2>2. /\ [drafts[i][1] EXCEPT !.status = s] \in Draft
          /\ [drafts[i][1] EXCEPT !.status = s].content = drafts[i][1].content
      BY <2>1, FirstDraft, DraftTypes
    <2>3. QED
      BY <2>1, <2>2, AmendEffect
  <1>5. CASE Review
    <2>1. ASSUME NEW i \in Items, Confirm(i) \/ RequestClarification(i)
          PROVE  \E s \in DraftStatuses : Rewritten(i, s)
      <3>1. CASE Confirm(i)
        <4>1. Rewritten(i, "ready_for_review")
          BY <3>1 DEF Confirm, Rewritten, Amends
        <4>2. QED
          BY <4>1 DEF DraftStatuses
      <3>2. CASE RequestClarification(i)
        <4>1. Rewritten(i, "needs_clarification")
          BY <3>2 DEF RequestClarification, Rewritten, Amends
        <4>2. QED
          BY <4>1 DEF DraftStatuses
      <3>3. QED
        BY <2>1, <3>1, <3>2
    <2>2. ASSUME NEW r \in Reviewers, CommitDecision(r)
          PROVE  reviewer[r].item \in Items /\ Rewritten(reviewer[r].item, "decided")
      <3>1. reviewer[r].item \in Items /\ drafts[reviewer[r].item] # <<>>
        BY <2>2, OpenDecision DEF CommitDecision, LocksOK, DecidingHasDraft
      <3>2. QED
        BY <2>2, <3>1 DEF CommitDecision, Rewritten, Amends
    <2>3. ASSUME NEW r \in Reviewers,
                 RollbackDecision(r) \/ \E i \in Items : StartDecision(r, i)
          PROVE  drafts' = drafts
      BY <2>3 DEF RollbackDecision, StartDecision
    <2>4. "decided" \in DraftStatuses
      BY DEF DraftStatuses
    <2>5. QED
      BY <1>1, <1>4, <1>5, <2>1, <2>2, <2>3, <2>4 DEF Review
  <1>6. ASSUME NEW w \in Workers, Finalize(w)
        PROVE  \A i \in Items : DraftEffect(i)
    <2>1. CASE FinalizeExisting(w) \/ FinalizeInvalid(w) \/ StartDraft(w) \/ AbortCorrection(w)
      BY <1>1, <2>1 DEF FinalizeExisting, FinalizeInvalid, StartDraft, AbortCorrection
    <2>2. QED
      BY <1>2, <1>3, <1>6, <2>1 DEF Finalize
  <1>7. (\E i \in Items : ExtractCallback(i)) => drafts' = drafts
    BY DEF ExtractCallback
  <1>8. UNCHANGED vars => drafts' = drafts
    BY DEF vars
  <1>9. QED
    BY <1>1, <1>5, <1>6, <1>7, <1>8, ClientLocks, TakeTaskLocks, ProviderLocks,
       RecognizeLocks, FaultLocks DEF Next

\* So an item with at most one draft keeps at most one.
LEMMA OneDraftStep ==
  TypeOK /\ LocksOK /\ OneDraftPerItem /\ [Next]_vars => OneDraftPerItem'
  <1> SUFFICES ASSUME TypeOK, LocksOK, OneDraftPerItem, [Next]_vars,
                      NEW i \in Items
               PROVE  Len(drafts'[i]) <= 1
    BY DEF OneDraftPerItem
  <1>1. DraftEffect(i)
    BY DraftStep
  <1>2. Len(drafts[i]) <= 1
    BY DEF OneDraftPerItem
  <1>3. Len(drafts'[i]) = 1 \/ Len(drafts'[i]) = Len(drafts[i])
    BY <1>1, Zenon DEF DraftEffect
  <1>4. CASE Len(drafts'[i]) = 1
    <2> DEFINE n == Len(drafts'[i])
    <2>1. n = 1
      BY <1>4
    <2> HIDE DEF n
    <2>2. n <= 1
      BY <2>1
    <2>3. QED
      BY <2>2 DEF n
  <1>5. CASE Len(drafts'[i]) = Len(drafts[i])
    BY <1>2, <1>5, Zenon
  <1>6. QED
    BY <1>3, <1>4, <1>5, Zenon

---------------------------------------------------------------------------
(* Items in review *)

\* Writing another status than review puts nothing in review.
LEMMA WriteKeeps ==
  ASSUME TypeOK, NEW i \in Items, NEW j, NEW s, NEW e,
         Write(j, s, e),
         s # "review_required" \/ s = item[j].status,
         item'[i].status = "review_required"
  PROVE  item[i].status = "review_required"
  <1>1. i # j => item'[i] = item[i]
    BY DEF Write, TypeOK
  <1>2. i = j => item'[i].status = s
    <2>1. item[i] \in Row
      BY DEF TypeOK
    <2>2. i = j => item'[i] = [item[i] EXCEPT !.status = s, !.error = e]
      BY DEF Write, TypeOK
    <2>3. [item[i] EXCEPT !.status = s, !.error = e].status = s
      BY <2>1 DEF Row
    <2>4. QED
      BY <2>2, <2>3
  <1>3. QED
    BY <1>1, <1>2

\* Nor does writing another status alone.
LEMMA StatusKeeps ==
  ASSUME TypeOK, NEW i \in Items, NEW j, NEW s,
         item' = [item EXCEPT ![j].status = s],
         s # "review_required",
         item'[i].status = "review_required"
  PROVE  item[i].status = "review_required"
  <1>1. i # j => item'[i] = item[i]
    BY DEF TypeOK
  <1>2. i = j => item'[i].status = s
    <2>1. item[i] \in Row
      BY DEF TypeOK
    <2>2. i = j => item'[i] = [item[i] EXCEPT !.status = s]
      BY DEF TypeOK
    <2>3. [item[i] EXCEPT !.status = s].status = s
      BY <2>1 DEF Row
    <2>4. QED
      BY <2>2, <2>3
  <1>3. QED
    BY <1>1, <1>2

\* A step sends to review only items that have a draft when it ends.
LEMMA ReviewEffect ==
  ASSUME TypeOK, LocksOK, [Next]_vars, NEW i \in Items,
         item'[i].status = "review_required"
  PROVE  item[i].status = "review_required" \/ drafts[i] # <<>> \/ drafts'[i] # <<>>
  <1> DEFINE Was == item[i].status = "review_required"
  <1>0. UNCHANGED item => Was
    OBVIOUS
  <1>1. ASSUME NEW c \in Clients, ClientStep(c)
        PROVE  Was
    <2>1. CASE \E j \in Items, o \in Origins : Submit(c, j, o)
      <3>1. PICK j \in Items, o \in Origins : Submit(c, j, o)
        BY <2>1
      <3>2. item' = [item EXCEPT ![j] = [status |-> "queued", error |-> "none", text |-> ~o.file,
                                         source |-> o.source, file |-> o.file]]
        BY <3>1 DEF Submit
      <3>3. QED
        BY <3>2 DEF TypeOK
    <2>2. CASE CommitRetry(c)
      <3> DEFINE j == client[c].item
      <3> DEFINE s == IF client[c].status # "queued" THEN "queued" ELSE item[j].status
      <3> DEFINE e == IF client[c].error # "none" THEN "none" ELSE item[j].error
      <3>1. UNCHANGED item \/ Write(j, s, e)
        BY <2>2 DEF CommitRetry, Write
      <3>2. s # "review_required" \/ s = item[j].status
        OBVIOUS
      <3> HIDE DEF s, e
      <3>3. QED
        BY <1>0, <3>1, <3>2, WriteKeeps
    <2>3. CASE ~(\E j \in Items, o \in Origins : Submit(c, j, o)) /\ ~CommitRetry(c)
      BY <1>0, <1>1, <2>3 DEF ClientStep, ReadForRetry, SendTask
    <2>4. QED
      BY <2>1, <2>2, <2>3
  <1>2. ASSUME NEW w \in Workers, TakeTask(w)
        PROVE  Was
    <2>1. ASSUME NEW t \in Tasks, Claim(w, t)
          PROVE  Was
      BY <2>1, WriteKeeps DEF Claim
    <2>2. ASSUME NEW t \in Tasks, SkipClaim(w, t) \/ SkipReceipt(w, t) \/ ReadReceipt(w, t)
          PROVE  Was
      BY <1>0, <2>2 DEF SkipClaim, SkipReceipt, ReadReceipt
    <2>3. QED
      BY <1>2, <2>1, <2>2 DEF TakeTask
  <1>3. ASSUME NEW w \in Workers, CallProvider(w) \/ RetryTask(w)
        PROVE  Was
    <2>1. CASE ProviderTimesOut(w)
      BY <1>0, <2>1, WriteKeeps DEF ProviderTimesOut
    <2>2. CASE ProviderFails(w)
      BY <2>2, WriteKeeps DEF ProviderFails
    <2>3. CASE ProviderAnswers(w) \/ RetryTask(w)
      BY <1>0, <2>3 DEF ProviderAnswers, RetryTask
    <2>4. QED
      BY <1>3, <2>1, <2>2, <2>3 DEF CallProvider
  <1>4. ASSUME NEW w \in Workers, Recognize(w)
        PROVE  Was
    <2>1. CASE StartReceipt(w)
      BY <2>1, StatusKeeps DEF StartReceipt
    <2>2. CASE ReceiptRead(w)
      <3> DEFINE j == worker[w].task.item
      <3>1. item' = [item EXCEPT ![j].status = "queued", ![j].error = "none", ![j].text = TRUE]
        BY <2>2 DEF ReceiptRead
      <3>2. i = j =>
              item'[i] = [item[i] EXCEPT !.status = "queued", !.error = "none", !.text = TRUE]
        BY <3>1 DEF TypeOK
      <3>3. item[i] \in Row
        BY DEF TypeOK
      <3>4. [item[i] EXCEPT !.status = "queued", !.error = "none", !.text = TRUE].status = "queued"
        BY <3>3 DEF Row
      <3>5. i # j => item'[i] = item[i]
        BY <3>1 DEF TypeOK
      <3>6. QED
        BY <3>2, <3>4, <3>5
    <2>3. CASE ReceiptFails(w)
      BY <2>3, WriteKeeps DEF ReceiptFails
    <2>4. CASE SendExtraction(w)
      BY <1>0, <2>4 DEF SendExtraction
    <2>5. QED
      BY <1>4, <2>1, <2>2, <2>3, <2>4 DEF Recognize
  <1>5. ASSUME NEW w \in Workers, Finalize(w)
        PROVE  item[i].status = "review_required" \/ drafts[i] # <<>> \/ drafts'[i] # <<>>
    <2> DEFINE j == worker[w].task.item
    <2>1. CASE StartDraft(w) \/ AbortCorrection(w)
      BY <2>1 DEF StartDraft, AbortCorrection
    <2>2. CASE FinalizeInvalid(w)
      BY <2>2 DEF FinalizeInvalid, Write, TypeOK, Row
    <2>3. CASE FinalizeExisting(w)
      BY <2>3 DEF FinalizeExisting, TypeOK, Row
    <2>4. CASE CommitCorrection(w)
      BY <2>4 DEF CommitCorrection, Running, LocksOK, CorrectingIsOpen, TypeOK, Row
    <2>5. CASE CreateDraft(w)
      <3>1. i # j => item[i].status = "review_required"
        BY <2>5 DEF CreateDraft, TypeOK, Row
      <3>2. i = j => drafts'[i] # <<>>
        BY <2>5, NewDraft, Created DEF CreateDraft
      <3>3. QED
        BY <3>1, <3>2
    <2>6. QED
      BY <1>5, <2>1, <2>2, <2>3, <2>4, <2>5 DEF Finalize
  <1>6. Fault \/ UNCHANGED vars \/ (\E j \in Items : ExtractCallback(j))
          => item[i].status = "review_required"
    BY DEF Fault, CrashWorker, CrashRequest, Redeliver, ExtractCallback, vars
  <1>7. ASSUME Review
        PROVE  Was
    <2>1. ASSUME NEW j \in Items, Confirm(j) \/ RequestClarification(j)
          PROVE  Was
      BY <1>0, <2>1 DEF Confirm, RequestClarification
    <2>2. ASSUME NEW r \in Reviewers, CommitDecision(r)
          PROVE  Was
      BY <2>2, StatusKeeps DEF CommitDecision
    <2>3. ASSUME NEW r \in Reviewers,
                 RollbackDecision(r) \/ \E j \in Items : StartDecision(r, j)
          PROVE  Was
      BY <1>0, <2>3 DEF RollbackDecision, StartDecision
    <2>4. QED
      BY <1>7, <2>1, <2>2, <2>3 DEF Review
  <1>8. QED
    BY <1>1, <1>2, <1>3, <1>4, <1>5, <1>6, <1>7 DEF Next

\* So an item in review still has a draft after a step.
LEMMA ReviewStep ==
  TypeOK /\ LocksOK /\ ReviewHasDraft /\ [Next]_vars => ReviewHasDraft'
  <1> SUFFICES ASSUME TypeOK, LocksOK, ReviewHasDraft, [Next]_vars, NEW i \in Items,
                      item'[i].status = "review_required"
               PROVE  drafts'[i] # <<>>
    BY DEF ReviewHasDraft
  <1>1. drafts[i] # <<>> \/ drafts'[i] # <<>>
    BY ReviewEffect DEF ReviewHasDraft
  <1>2. DraftEffect(i)
    BY DraftStep
  <1>3. QED
    BY <1>1, <1>2 DEF DraftEffect

---------------------------------------------------------------------------
(* Theorems *)

\* The invariant holds before the first request.
LEMMA InitIInv == Init => IInv
  <1> SUFFICES ASSUME Init PROVE IInv
    OBVIOUS
  <1>1. LocksOK
    BY DEF Init, Idle, LocksOK, OneHolder, HoldsItem, CreatingIsFirst, CorrectingIsOpen,
           DecidingHasDraft
  <1>2. OneDraftPerItem /\ ReviewHasDraft
    BY DEF Init, OneDraftPerItem, ReviewHasDraft
  <1>3. QED
    BY <1>1, <1>2, InitTypeOK DEF IInv

\* Every step keeps the invariant.
LEMMA IInvStep == IInv /\ [Next]_vars => IInv'
  BY TypeOKStep, LocksStep, OneDraftStep, ReviewStep DEF IInv

\* Every state the pipeline can reach satisfies the invariant.
THEOREM InductiveInvariant == Spec => []IInv
  BY InitIInv, IInvStep, PTL DEF Spec

\* Rows, tasks and jobs keep their types; no task is tried too often.
THEOREM TypeCorrect == Spec => []TypeOK
  <1>1. IInv => TypeOK
    BY DEF IInv
  <1>2. QED
    BY <1>1, InductiveInvariant, PTL

\* However many workers, deliveries, retries and crashes: one draft per item.
THEOREM OneDraft == Spec => []OneDraftPerItem
  <1>1. IInv => OneDraftPerItem
    BY DEF IInv
  <1>2. QED
    BY <1>1, InductiveInvariant, PTL

\* An item in review has a draft to review.
THEOREM ReviewIsPossible == Spec => []ReviewHasDraft
  <1>1. IInv => ReviewHasDraft
    BY DEF IInv
  <1>2. QED
    BY <1>1, InductiveInvariant, PTL

\* No extraction rewrites what a reviewer has decided.
THEOREM DecidedKept == Spec => DecidedNotRewritten
  <1>1. IInv /\ [Next]_vars =>
          [\A i \in Items : \A n \in 1..Len(drafts[i]) :
             drafts[i][n].status = "decided" => drafts'[i][n].content = drafts[i][n].content]_vars
    <2> SUFFICES ASSUME IInv, [Next]_vars, NEW i \in Items, NEW n \in 1..Len(drafts[i]),
                        drafts[i][n].status = "decided"
                 PROVE  drafts'[i][n].content = drafts[i][n].content
      OBVIOUS
    <2>1. DraftEffect(i)
      BY DraftStep DEF IInv
    <2>2. Len(drafts[i]) # 0
      BY DEF IInv, TypeOK
    <2>3. QED
      BY <2>1, <2>2 DEF DraftEffect
  <1>2. QED
    BY <1>1, InductiveInvariant, PTL DEF Spec, DecidedNotRewritten

---------------------------------------------------------------------------
(* How many extractions run at a time *)

\* The draft of one item is locked by one decision, which it keeps reviewable.
OneDecider ==
  \A q, r \in Reviewers :
    /\ reviewer[q].step = "deciding"
    /\ reviewer[r].step = "deciding"
    /\ reviewer[q].item = reviewer[r].item
    => q = r

\* The draft under a decision is still open.
DecidingIsOpen ==
  \A r \in Reviewers :
    reviewer[r].step = "deciding" => drafts[reviewer[r].item][1].status = "ready_for_review"

\* Text recognition is for files: who sends or runs it, or is about to.
FilesAreStored == \A i \in Items : item[i].file => item[i].status # "absent"

QueuedFiles == \A t \in Tasks : t.kind = "receipt" /\ queue[t] > 0 => item[t.item].file

JobFile(w) ==
  /\ worker[w].step # "idle" /\ worker[w].task.kind = "receipt" => item[worker[w].task.item].file
  /\ worker[w].step \in {"start", "restart", "ocr", "send"} => worker[w].task.kind = "receipt"

RequestFile(c) ==
  client[c].step # "idle" /\ client[c].kind = "receipt" => item[client[c].item].file

ReceiptsAreFiles ==
  QueuedFiles /\ (\A w \in Workers : JobFile(w)) /\ (\A c \in Clients : RequestFile(c))

\* Requests that will take an item out of "processing" when they commit.
Readers(i) == {c \in Clients : client[c].step = "read" /\ client[c].item = i}

\* A condition as a number.
Num(b) == IF b THEN 1 ELSE 0

\* What may still be claimed without a further request: an item that is not
\* claimed, and one that a decision takes out of "processing", once.
Claims(i) == Num(item[i].status # "processing")

Reopens(i) == Num(/\ drafts[i] # <<>>
                  /\ drafts[i][1].status # "decided"
                  /\ item[i].status # "review_required")

\* Every extraction, and every one that can come, is paid for by a request.
Paid(i) ==
  /\ IsFiniteSet(ExtractionsOf(i))
  /\ IsFiniteSet(Readers(i))
  /\ Cardinality(ExtractionsOf(i)) + Cardinality(Readers(i)) + Claims(i) + Reopens(i)
       <= 1 + requests[i]

Budget == \A i \in Items : item[i].file \/ Paid(i)

\* What SingleFlight needs, with IInv.
FlightInv == OneDecider /\ DecidingIsOpen /\ FilesAreStored /\ ReceiptsAreFiles /\ Budget

---------------------------------------------------------------------------
(* Rows: what the UPDATEs of an item write *)

\* Every other item keeps its row, and this one its file and the text it has.
OthersKept(i) ==
  /\ item'[i].file = item[i].file
  /\ item[i].text => item'[i].text
  /\ \A j \in Items : j # i => item'[j] = item[j]

\* Status and error.
LEMMA WriteRow ==
  ASSUME TypeOK, NEW i \in Items, NEW s, NEW e, Write(i, s, e)
  PROVE  /\ OthersKept(i)
         /\ item'[i].status = s /\ item'[i].error = e /\ item'[i].text = item[i].text
  <1>1. item[i] \in Row
    BY DEF TypeOK
  <1>2. item'[i] = [item[i] EXCEPT !.status = s, !.error = e]
    BY DEF TypeOK, Write
  <1>3. \A j \in Items : j # i => item'[j] = item[j]
    BY DEF TypeOK, Write
  <1>4. QED
    BY <1>1, <1>2, <1>3 DEF Row, OthersKept

\* The status alone.
LEMMA StatusRow ==
  ASSUME TypeOK, NEW i \in Items, NEW s, item' = [item EXCEPT ![i].status = s]
  PROVE  /\ OthersKept(i)
         /\ item'[i].status = s /\ item'[i].error = item[i].error
         /\ item'[i].text = item[i].text
  <1>1. item[i] \in Row
    BY DEF TypeOK
  <1>2. item'[i] = [item[i] EXCEPT !.status = s]
    BY DEF TypeOK
  <1>3. \A j \in Items : j # i => item'[j] = item[j]
    BY DEF TypeOK
  <1>4. QED
    BY <1>1, <1>2, <1>3 DEF Row, OthersKept

\* The text of a receipt.
LEMMA TextRow ==
  ASSUME TypeOK, NEW i \in Items,
         item' = [item EXCEPT ![i].status = "queued", ![i].error = "none", ![i].text = TRUE]
  PROVE  /\ OthersKept(i)
         /\ item'[i].status = "queued" /\ item'[i].error = "none" /\ item'[i].text
  <1>1. item[i] \in Row
    BY DEF TypeOK
  <1>2. item'[i] = [item[i] EXCEPT !.status = "queued", !.error = "none", !.text = TRUE]
    BY DEF TypeOK
  <1>3. \A j \in Items : j # i => item'[j] = item[j]
    BY DEF TypeOK
  <1> DEFINE r == [item[i] EXCEPT !.status = "queued", !.error = "none", !.text = TRUE]
  <1>4. r.status = "queued" /\ r.error = "none" /\ r.file = item[i].file
    BY <1>1 DEF Row
  <1>5. r.text = TRUE
    BY <1>1 DEF Row
  <1>6. QED
    BY <1>2, <1>3, <1>4, <1>5 DEF OthersKept

\* A retry: it writes "queued", or keeps what was committed since it was read.
LEMMA RetryRow ==
  ASSUME TypeOK, NEW c \in Clients, CommitRetry(c)
  PROVE  LET i == client[c].item IN
         /\ i \in Items
         /\ OthersKept(i)
         /\ item'[i].status \in {"queued", item[i].status}
         /\ item'[i].text = item[i].text
  <1> DEFINE q == client[c]
             i == q.item
             status == IF q.status # "queued" THEN "queued" ELSE item[i].status
             error  == IF q.error # "none" THEN "none" ELSE item[i].error
  <1>1. q \in Request /\ i \in Items
    BY OpenRequest DEF CommitRetry
  <1>2. item' = item \/ Write(i, status, error)
    BY DEF CommitRetry, Write
  <1>3. status \in {"queued", item[i].status}
    OBVIOUS
  <1>4. CASE item' = item
    BY <1>1, <1>4 DEF OthersKept
  <1> HIDE DEF status, error
  <1>5. CASE Write(i, status, error)
    BY <1>1, <1>3, <1>5, WriteRow
  <1>6. QED
    BY <1>1, <1>2, <1>4, <1>5

\* A submission stores the row of an item that was absent.
LEMMA SubmitRow ==
  ASSUME TypeOK, NEW c \in Clients, NEW i \in Items, NEW o \in Origins, Submit(c, i, o)
  PROVE  /\ item[i].status = "absent"
         /\ item'[i].status = "queued" /\ item'[i].error = "none"
         /\ item'[i].file = o.file /\ item'[i].text = ~o.file /\ o.file \in BOOLEAN
         /\ \A j \in Items : j # i => item'[j] = item[j]
  <1>1. item'[i] = [status |-> "queued", error |-> "none", text |-> ~o.file,
                    source |-> o.source, file |-> o.file]
    BY DEF Submit, TypeOK
  <1>2. \A j \in Items : j # i => item'[j] = item[j]
    BY DEF Submit, TypeOK
  <1>3. o.file \in BOOLEAN
    BY ConstantsAssumption
  <1>4. QED
    BY <1>1, <1>2, <1>3 DEF Submit

\* What a step of Next does to a row: it stores it, or it keeps the file and the text.
Stored(i) == item[i].status = "absent" /\ item'[i].status = "queued"

Kept(i) ==
  /\ item'[i].file = item[i].file
  /\ item[i].text => item'[i].text
  /\ item[i].status # "absent" => item'[i].status # "absent"
  /\ item'[i].status = "absent" => item'[i].text = item[i].text

\* A row that is written keeps its file and does not become absent.
LEMMA RowKept ==
  ASSUME NEW i \in Items, OthersKept(i), item'[i].status # "absent"
  PROVE  \A j \in Items : Kept(j)
  BY DEF OthersKept, Kept

\* Every step stores a row or keeps what is in it.
LEMMA RowStep == TypeOK /\ [Next]_vars => \A i \in Items : Stored(i) \/ Kept(i)
  <1> SUFFICES ASSUME TypeOK, [Next]_vars PROVE \A i \in Items : Stored(i) \/ Kept(i)
    OBVIOUS
  <1>0. CASE item' = item
    BY <1>0 DEF Kept
  <1>1. ASSUME NEW c \in Clients, ClientStep(c)
        PROVE  \A i \in Items : Stored(i) \/ Kept(i)
    <2>1. ASSUME NEW i \in Items, NEW o \in Origins, Submit(c, i, o)
          PROVE  \A j \in Items : Stored(j) \/ Kept(j)
      BY <2>1, SubmitRow DEF Stored, Kept
    <2>2. CASE CommitRetry(c)
      <3> DEFINE i == client[c].item
      <3>1. /\ i \in Items /\ OthersKept(i)
            /\ item'[i].status \in {"queued", item[i].status}
            /\ item'[i].text = item[i].text
        BY <2>2, RetryRow
      <3>2. QED
        BY <3>1 DEF OthersKept, Kept
    <2>3. QED
      BY <1>0, <1>1, <2>1, <2>2 DEF ClientStep, ReadForRetry, SendTask
  <1>2. ASSUME NEW w \in Workers, TakeTask(w)
        PROVE  \A i \in Items : Kept(i)
    <2>1. ASSUME NEW t \in Tasks, Claim(w, t)
          PROVE  \A i \in Items : Kept(i)
      <3>1. t.item \in Items /\ Write(t.item, "processing", "none")
        BY <2>1 DEF Claim, Tasks
      <3>2. QED
        BY <3>1, WriteRow, RowKept
    <2>2. QED
      BY <1>2, <2>1 DEF TakeTask, SkipClaim, SkipReceipt, ReadReceipt, Kept
  <1>3. ASSUME NEW w \in Workers, worker[w].step # "idle",
               \/ ProviderTimesOut(w) \/ ProviderFails(w) \/ FinalizeExisting(w)
               \/ FinalizeInvalid(w) \/ CreateDraft(w) \/ CommitCorrection(w) \/ Recognize(w)
        PROVE  \A i \in Items : Kept(i)
    <2> DEFINE i == worker[w].task.item
    <2>1. i \in Items
      BY <1>3, RunningJob
    <2>2. \/ item' = item
          \/ \E s \in {"queued", "failed"}, e \in Errors : Write(i, s, e)
          \/ \E s \in {"review_required", "processing"} : item' = [item EXCEPT ![i].status = s]
          \/ item' = [item EXCEPT ![i].status = "queued", ![i].error = "none", ![i].text = TRUE]
      BY <1>3 DEF ProviderTimesOut, ProviderFails, FinalizeExisting, FinalizeInvalid, CreateDraft,
                  CommitCorrection, Recognize, StartReceipt, ReceiptRead, ReceiptFails,
                  SendExtraction, Errors
    <2>3. item' = item \/ (OthersKept(i) /\ item'[i].status # "absent")
      <3>1. ASSUME NEW s \in {"queued", "failed"}, NEW e \in Errors, Write(i, s, e)
            PROVE  OthersKept(i) /\ item'[i].status # "absent"
        BY <2>1, <3>1, WriteRow
      <3>2. ASSUME NEW s \in {"review_required", "processing"},
                   item' = [item EXCEPT ![i].status = s]
            PROVE  OthersKept(i) /\ item'[i].status # "absent"
        BY <2>1, <3>2, StatusRow
      <3>3. ASSUME item' = [item EXCEPT ![i].status = "queued", ![i].error = "none",
                                        ![i].text = TRUE]
            PROVE  OthersKept(i) /\ item'[i].status # "absent"
        BY <2>1, <3>3, TextRow
      <3>4. QED
        BY <2>2, <3>1, <3>2, <3>3
    <2>4. QED
      BY <2>1, <2>3, RowKept DEF Kept
  <1>4. ASSUME NEW w \in Workers, CallProvider(w) \/ Finalize(w) \/ Recognize(w) \/ RetryTask(w)
        PROVE  \A i \in Items : Kept(i)
    <2>1. worker[w].step # "idle"
      BY <1>4 DEF CallProvider, ProviderAnswers, ProviderTimesOut, ProviderFails, RetryTask,
        Recognize, StartReceipt, ReceiptRead, ReceiptFails, SendExtraction, Finalize,
        FinalizeExisting, FinalizeInvalid, StartDraft, CreateDraft, CommitCorrection,
        AbortCorrection, Running
    <2>2. CASE ProviderAnswers(w) \/ StartDraft(w) \/ AbortCorrection(w) \/ RetryTask(w)
      BY <2>2 DEF ProviderAnswers, StartDraft, AbortCorrection, RetryTask, Kept
    <2>3. QED
      BY <1>3, <1>4, <2>1, <2>2 DEF CallProvider, Finalize
  <1>5. ASSUME NEW r \in Reviewers, CommitDecision(r)
        PROVE  \A i \in Items : Kept(i)
    <2> DEFINE i == reviewer[r].item
    <2>1. i \in Items
      BY <1>5, OpenDecision DEF CommitDecision
    <2>2. item' = [item EXCEPT ![i].status = "archived"]
      BY <1>5 DEF CommitDecision
    <2>3. OthersKept(i) /\ item'[i].status = "archived"
      BY <2>1, <2>2, StatusRow
    <2>4. QED
      BY <2>1, <2>3, RowKept
  <1>6. CASE Review
    BY <1>0, <1>5, <1>6 DEF Review, Confirm, RequestClarification, RollbackDecision, StartDecision
  <1>7. CASE Fault
    BY <1>0, <1>7 DEF Fault, CrashWorker, CrashRequest, Redeliver
  <1>8. CASE \E i \in Items : ExtractCallback(i)
    BY <1>0, <1>8 DEF ExtractCallback
  <1>9. CASE UNCHANGED vars
    BY <1>0, <1>9 DEF vars
  <1>10. QED
    BY <1>1, <1>2, <1>4, <1>6, <1>7, <1>8, <1>9 DEF Next

---------------------------------------------------------------------------
(* Files, and the decisions on drafts *)

\* Files stay files, and are stored.
LEMMA FilesStep ==
  ASSUME TypeOK, FilesAreStored, [Next]_vars
  PROVE  FilesAreStored' /\ \A i \in Items : item[i].file => item'[i].file
  BY RowStep DEF FilesAreStored, Stored, Kept

\* The job that a worker has after a step.
Runs(w, s, t) == worker' = [worker EXCEPT ![w] = [step |-> s, task |-> t]]

\* Going to another step keeps the task.
LEMMA GotoRuns ==
  ASSUME TypeOK, NEW w \in Workers, worker[w].step # "idle", NEW s, Goto(w, s)
  PROVE  Runs(w, s, worker[w].task)
  <1>1. worker[w] \in Job
    BY RunningJob
  <1>2. [worker[w] EXCEPT !.step = s] = [step |-> s, task |-> worker[w].task]
    BY <1>1 DEF Job
  <1>3. QED
    BY <1>2 DEF Goto, Runs

\* The other jobs are as they were.
LEMMA RunsOne ==
  ASSUME TypeOK, NEW w \in Workers, NEW s, NEW t, Runs(w, s, t) \/ Ack(w)
  PROVE  /\ Runs(w, s, t) => worker'[w].step = s /\ worker'[w].task = t
         /\ Ack(w) => worker'[w].step = "idle"
         /\ \A v \in Workers : v # w => worker'[v] = worker[v]
  BY DEF TypeOK, Runs, Ack, Idle

\* Tasks that are taken, sent once more, or both.
LEMMA QueuedFilesStep ==
  ASSUME TypeOK, QueuedFiles, \A i \in Items : item[i].file => item'[i].file,
         NEW t \in Tasks, t.kind = "receipt" => item[t.item].file,
         NEW u \in Tasks,
         \/ queue' = queue
         \/ queue' = Sent(queue, t)
         \/ queue' = [queue EXCEPT ![u] = @ - 1]
         \/ queue' = Sent([queue EXCEPT ![u] = @ - 1], t)
  PROVE  QueuedFiles'
  <1>1. \A v \in Tasks : queue[v] \in Nat /\ v.item \in Items
    BY DEF TypeOK, Tasks
  <1>2. ASSUME NEW v \in Tasks, queue'[v] > 0, v.kind = "receipt"
        PROVE  v = t \/ queue[v] > 0
    <2>1. queue \in [Tasks -> Nat]
      BY DEF TypeOK
    <2>2. CASE queue' = queue
      BY <1>2, <2>2
    <2>3. CASE queue' = Sent(queue, t)
      BY <1>2, <2>1, <2>3 DEF Sent
    <2>4. CASE queue' = [queue EXCEPT ![u] = @ - 1]
      BY <1>2, <2>1, <2>4
    <2>5. CASE queue' = Sent([queue EXCEPT ![u] = @ - 1], t)
      <3>1. v # t => queue'[v] = [queue EXCEPT ![u] = @ - 1][v]
        BY <2>1, <2>5 DEF Sent
      <3>2. QED
        BY <1>2, <2>1, <3>1
    <2>6. QED
      BY <2>2, <2>3, <2>4, <2>5
  <1>3. ASSUME NEW v \in Tasks, queue'[v] > 0, v.kind = "receipt"
        PROVE  item'[v.item].file
    <2>1. item[v.item].file
      BY <1>2, <1>3 DEF QueuedFiles
    <2>2. QED
      BY <1>1, <2>1
  <1>4. QED
    BY <1>3 DEF QueuedFiles

\* Jobs that go on, and one that changes.
LEMMA JobFilesStep ==
  ASSUME TypeOK, \A w \in Workers : JobFile(w), \A i \in Items : item[i].file => item'[i].file,
         NEW w \in Workers, NEW s, NEW t \in Tasks,
         worker' = worker \/ Ack(w) \/ Runs(w, s, t),
         t.kind = "receipt" => item[t.item].file,
         s \in {"start", "restart", "ocr", "send"} => t.kind = "receipt"
  PROVE  \A v \in Workers : JobFile(v)'
  <1> SUFFICES ASSUME NEW v \in Workers
               PROVE  JobFile(v)'
    OBVIOUS
  <1>1. t.item \in Items
    BY DEF Tasks
  <1>2. CASE worker'[v] = worker[v]
    <2>1. worker[v].step # "idle" => worker[v].task.item \in Items
      BY RunningJob
    <2>2. QED
      BY <1>2, <2>1 DEF JobFile
  <1>3. CASE worker'[v] # worker[v]
    <2>1. v = w
      BY <1>3, RunsOne
    <2>2. \/ worker'[v].step = "idle"
          \/ worker'[v].step = s /\ worker'[v].task = t
      BY <1>3, <2>1, RunsOne
    <2>3. QED
      BY <1>1, <2>2 DEF JobFile
  <1>4. QED
    BY <1>2, <1>3

\* Requests that go on.
LEMMA RequestFilesStep ==
  ASSUME TypeOK, \A c \in Clients : RequestFile(c), \A i \in Items : item[i].file => item'[i].file,
         NEW c \in Clients, client'[c] = client[c]
  PROVE  RequestFile(c)'
  <1>1. client[c].step # "idle" => client[c].item \in Items
    BY OpenRequest
  <1>2. QED
    BY <1>1 DEF RequestFile

\* Clients send receipts of files only ...
LEMMA ClientFiles ==
  ASSUME TypeOK, FilesAreStored, ReceiptsAreFiles, [Next]_vars, NEW c \in Clients, ClientStep(c)
  PROVE  ReceiptsAreFiles'
  <1>1. \A i \in Items : item[i].file => item'[i].file
    BY FilesStep
  <1>2. QueuedFiles /\ (\A w \in Workers : JobFile(w)) /\ (\A d \in Clients : RequestFile(d))
    BY DEF ReceiptsAreFiles
  <1>3. worker' = worker
    BY DEF ClientStep, Submit, ReadForRetry, CommitRetry, SendTask
  <1>4. \A w \in Workers : JobFile(w)'
    BY <1>1, <1>2, <1>3, RunningJob DEF JobFile
  <1>5. \A d \in Clients : d # c => client'[d] = client[d]
    BY DEF ClientStep, Submit, ReadForRetry, CommitRetry, SendTask, TypeOK
  <1>6. \A d \in Clients : d # c => RequestFile(d)'
    BY <1>1, <1>2, <1>5, RequestFilesStep
  <1>7. RequestFile(c)' /\ QueuedFiles'
    <2>1. ASSUME NEW i \in Items, NEW o \in Origins, Submit(c, i, o)
          PROVE  RequestFile(c)' /\ QueuedFiles'
      <3>1. /\ client'[c].item = i
            /\ client'[c].kind = IF o.file THEN "receipt" ELSE "extract"
        BY <2>1 DEF Submit, TypeOK
      <3>2. item'[i].file = o.file
        BY <2>1, SubmitRow
      <3>3. RequestFile(c)'
        BY <3>1, <3>2 DEF RequestFile
      <3>4. queue' = queue
        BY <2>1 DEF Submit
      <3>5. QueuedFiles'
        BY <1>1, <1>2, <3>4 DEF QueuedFiles, Tasks
      <3>6. QED
        BY <3>3, <3>5
    <2>2. ASSUME NEW i \in Items, NEW op, ReadForRetry(c, i, op)
          PROVE  RequestFile(c)' /\ QueuedFiles'
      <3>1. client'[c].kind = "extract"
        BY <2>2 DEF ReadForRetry, TypeOK
      <3>2. queue' = queue
        BY <2>2 DEF ReadForRetry
      <3>3. QueuedFiles'
        BY <1>1, <1>2, <3>2 DEF QueuedFiles, Tasks
      <3>4. QED
        BY <3>1, <3>3 DEF RequestFile
    <2>3. ASSUME CommitRetry(c)
          PROVE  RequestFile(c)' /\ QueuedFiles'
      <3>1. client[c] \in Request /\ client[c].item \in Items /\ client[c].step # "idle"
        BY <2>3, OpenRequest DEF CommitRetry
      <3>2. client'[c].item = client[c].item /\ client'[c].kind = client[c].kind
        BY <2>3, <3>1 DEF CommitRetry, TypeOK, Request
      <3>3. RequestFile(c)'
        BY <1>1, <1>2, <3>1, <3>2 DEF RequestFile
      <3>4. queue' = queue
        BY <2>3 DEF CommitRetry
      <3>5. QueuedFiles'
        BY <1>1, <1>2, <3>4 DEF QueuedFiles, Tasks
      <3>6. QED
        BY <3>3, <3>5
    <2>4. ASSUME SendTask(c)
          PROVE  RequestFile(c)' /\ QueuedFiles'
      <3> DEFINE t == FirstTry(client[c].item, client[c].kind)
      <3>1. client[c] \in Request /\ client[c].item \in Items /\ client[c].step # "idle"
        BY <2>4, OpenRequest DEF SendTask
      <3>2. t \in Tasks /\ t.item = client[c].item /\ t.kind = client[c].kind
        BY <3>1, FirstTryType DEF Request, FirstTry
      <3>3. t.kind = "receipt" => item[t.item].file
        BY <1>2, <3>1, <3>2 DEF RequestFile
      <3>4. queue' = Sent(queue, t)
        BY <2>4 DEF SendTask
      <3> HIDE DEF t
      <3>5. QueuedFiles'
        BY <1>1, <1>2, <3>2, <3>3, <3>4, QueuedFilesStep
      <3>6. client'[c].step = "idle"
        BY <2>4 DEF SendTask, TypeOK, Idle
      <3>7. QED
        BY <3>5, <3>6 DEF RequestFile
    <2>5. QED
      BY <2>1, <2>2, <2>3, <2>4 DEF ClientStep
  <1>8. QED
    BY <1>4, <1>6, <1>7 DEF ReceiptsAreFiles

\* ... and workers run, and send again, what they were sent.
LEMMA WorkerFiles ==
  ASSUME TypeOK, FilesAreStored, ReceiptsAreFiles, [Next]_vars, client' = client,
         NEW w \in Workers, NEW s, NEW t \in Tasks, NEW u \in Tasks, NEW v \in Tasks,
         worker' = worker \/ Ack(w) \/ Runs(w, s, t),
         t.kind = "receipt" => item[t.item].file,
         s \in {"start", "restart", "ocr", "send"} => t.kind = "receipt",
         v.kind = "receipt" => item[v.item].file,
         \/ queue' = queue
         \/ queue' = Sent(queue, v)
         \/ queue' = [queue EXCEPT ![u] = @ - 1]
         \/ queue' = Sent([queue EXCEPT ![u] = @ - 1], v)
  PROVE  ReceiptsAreFiles'
  <1>1. \A i \in Items : item[i].file => item'[i].file
    BY FilesStep
  <1>2. QueuedFiles /\ (\A x \in Workers : JobFile(x)) /\ (\A c \in Clients : RequestFile(c))
    BY DEF ReceiptsAreFiles
  <1>3. QueuedFiles'
    BY <1>1, <1>2, QueuedFilesStep
  <1>4. \A x \in Workers : JobFile(x)'
    BY <1>1, <1>2, JobFilesStep
  <1>5. \A c \in Clients : RequestFile(c)'
    BY <1>1, <1>2, RequestFilesStep
  <1>6. QED
    BY <1>3, <1>4, <1>5 DEF ReceiptsAreFiles

\* Taking a task.
LEMMA TakeTaskFiles ==
  ASSUME TypeOK, FilesAreStored, ReceiptsAreFiles, [Next]_vars, NEW w \in Workers, TakeTask(w)
  PROVE  ReceiptsAreFiles'
  <1>1. PICK t \in Tasks :
          Claim(w, t) \/ SkipClaim(w, t) \/ SkipReceipt(w, t) \/ ReadReceipt(w, t)
    BY DEF TakeTask
  <1>2. /\ queue[t] > 0
        /\ t.item \in Items
    BY <1>1 DEF Claim, SkipClaim, SkipReceipt, ReadReceipt, Take, Tasks
  <1>3. t.kind = "receipt" => item[t.item].file
    BY <1>2 DEF ReceiptsAreFiles, QueuedFiles
  <1>4. client' = client
    BY <1>1 DEF Claim, SkipClaim, SkipReceipt, ReadReceipt
  <1> DEFINE e == FirstTry(t.item, "extract")
  <1>5. e \in Tasks /\ e.kind = "extract"
    BY <1>2, FirstTryType DEF FirstTry
  <1>6. \/ queue' = [queue EXCEPT ![t] = @ - 1]
        \/ queue' = Sent([queue EXCEPT ![t] = @ - 1], e)
    BY <1>1 DEF Claim, SkipClaim, SkipReceipt, ReadReceipt, Take
  <1>7. PICK s \in {"provider", "start", "restart"} :
          /\ worker' = worker \/ Runs(w, s, t)
          /\ s \in {"start", "restart"} => t.kind = "receipt"
    BY <1>1 DEF Claim, SkipClaim, SkipReceipt, ReadReceipt, Runs
  <1> HIDE DEF e
  <1>8. QED
    BY <1>3, <1>4, <1>5, <1>6, <1>7, WorkerFiles

\* Going on with one.
LEMMA GoOnFiles ==
  ASSUME TypeOK, FilesAreStored, ReceiptsAreFiles, [Next]_vars, NEW w \in Workers,
         \/ CallProvider(w) \/ Finalize(w) \/ Recognize(w) \/ RetryTask(w)
         \/ CrashWorker(w) \/ Redeliver(w)
  PROVE  ReceiptsAreFiles'
  <1> DEFINE t == worker[w].task
  <1>1. worker[w].step # "idle"
    <2>1. worker[w] # Idle => worker[w].step # "idle"
      BY DEF TypeOK, Job, WorkerSteps
    <2>2. QED
      BY <2>1 DEF CallProvider, ProviderAnswers, ProviderTimesOut, ProviderFails, RetryTask,
        Recognize, StartReceipt, ReceiptRead, ReceiptFails, SendExtraction, Finalize,
        FinalizeExisting, FinalizeInvalid, StartDraft, CreateDraft, CommitCorrection,
        AbortCorrection, CrashWorker, Redeliver, Running
  <1>2. t \in Tasks /\ t.item \in Items
    BY <1>1, RunningJob
  <1>3. t.kind = "receipt" => item[t.item].file
    BY <1>1 DEF ReceiptsAreFiles, JobFile
  <1>4. worker[w].step \in {"start", "restart", "ocr"} => t.kind = "receipt"
    BY DEF ReceiptsAreFiles, JobFile
  <1>5. client' = client
    BY DEF CallProvider, ProviderAnswers, ProviderTimesOut, ProviderFails, RetryTask,
        Recognize, StartReceipt, ReceiptRead, ReceiptFails, SendExtraction, Finalize,
        FinalizeExisting, FinalizeInvalid, StartDraft, CreateDraft, CommitCorrection,
        AbortCorrection, CrashWorker, Redeliver
  <1>6. PICK s : /\ worker' = worker \/ Ack(w) \/ Goto(w, s)
                 /\ s \in {"start", "restart", "ocr", "send"} => worker[w].step \in {"start", "restart", "ocr"}
    <2>1. \/ worker' = worker
          \/ Ack(w)
          \/ \E x \in {"valid", "invalid", "raise", "creating", "correcting"} : Goto(w, x)
          \/ \E x \in {"ocr", "send"} : Goto(w, x) /\ worker[w].step \in {"start", "restart", "ocr"}
      BY DEF CallProvider, ProviderAnswers, ProviderTimesOut, ProviderFails, RetryTask,
        Recognize, StartReceipt, ReceiptRead, ReceiptFails, SendExtraction, Finalize,
        FinalizeExisting, FinalizeInvalid, StartDraft, CreateDraft, CommitCorrection,
        AbortCorrection, CrashWorker, Redeliver, Running
    <2>2. QED
      BY <2>1
  <1>7. worker' = worker \/ Ack(w) \/ Runs(w, s, t)
    BY <1>1, <1>6, GotoRuns
  <1>8. PICK v \in Tasks : /\ queue' = queue \/ queue' = Sent(queue, v)
                           /\ v.kind = "receipt" => v.kind = t.kind /\ v.item = t.item
    <2>1. CASE RetryTask(w)
      <3>1. queue' = queue \/ (t.try < MaxRetries /\ queue' = Sent(queue, [t EXCEPT !.try = @ + 1]))
        BY <2>1 DEF RetryTask
      <3>2. /\ [t EXCEPT !.try = @ + 1].kind = t.kind
            /\ [t EXCEPT !.try = @ + 1].item = t.item
        BY <1>2 DEF Tasks
      <3>3. QED
        BY <1>2, <3>1, <3>2, NextTryType
    <2>2. CASE SendExtraction(w)
      <3>1. /\ FirstTry(t.item, "extract") \in Tasks
            /\ FirstTry(t.item, "extract").kind = "extract"
        BY <1>2, FirstTryType DEF FirstTry
      <3>2. QED
        BY <2>2, <3>1 DEF SendExtraction
    <2>3. CASE ~RetryTask(w) /\ ~SendExtraction(w)
      <3>1. queue' = queue \/ queue' = Sent(queue, t)
        BY <2>3 DEF CallProvider, ProviderAnswers, ProviderTimesOut, ProviderFails,
          Recognize, StartReceipt, ReceiptRead, ReceiptFails, Finalize,
          FinalizeExisting, FinalizeInvalid, StartDraft, CreateDraft, CommitCorrection,
          AbortCorrection, CrashWorker, Redeliver
      <3>2. QED
        BY <1>2, <3>1
    <2>4. QED
      BY <2>1, <2>2, <2>3
  <1> HIDE DEF t
  <1>9. v.kind = "receipt" => item[v.item].file
    BY <1>3, <1>8
  <1>10. s \in {"start", "restart", "ocr", "send"} => t.kind = "receipt"
    BY <1>4, <1>6
  <1>11. QED
    BY <1>2, <1>3, <1>5, <1>7, <1>8, <1>9, <1>10, WorkerFiles

\* So text recognition is for files only.
LEMMA ReceiptsStep ==
  ASSUME TypeOK, FilesAreStored, ReceiptsAreFiles, [Next]_vars
  PROVE  ReceiptsAreFiles'
  <1>1. \A i \in Items : item[i].file => item'[i].file
    BY FilesStep
  <1>2. QueuedFiles /\ (\A w \in Workers : JobFile(w)) /\ (\A c \in Clients : RequestFile(c))
    BY DEF ReceiptsAreFiles
  <1>3. ASSUME worker' = worker, QueuedFiles', \A c \in Clients : RequestFile(c)'
        PROVE  ReceiptsAreFiles'
    BY <1>1, <1>2, <1>3, RunningJob DEF ReceiptsAreFiles, JobFile
  <1>4. ASSUME client' = client
        PROVE  \A c \in Clients : RequestFile(c)'
    BY <1>1, <1>2, <1>4, RequestFilesStep
  <1>5. ASSUME queue' = queue
        PROVE  QueuedFiles'
    BY <1>1, <1>2, <1>5 DEF QueuedFiles, Tasks
  <1>6. CASE UNCHANGED vars \/ Review
    <2>1. worker' = worker /\ client' = client /\ queue' = queue
      BY <1>6 DEF vars, Review, Confirm, RequestClarification, StartDecision, CommitDecision,
                  RollbackDecision
    <2>2. QED
      BY <1>3, <1>4, <1>5, <2>1
  <1>7. ASSUME NEW i \in Items, ExtractCallback(i)
        PROVE  ReceiptsAreFiles'
    <2> DEFINE t == FirstTry(i, "extract")
    <2>1. t \in Tasks /\ t.kind = "extract"
      BY FirstTryType DEF FirstTry
    <2>2. queue' = Sent(queue, t) /\ worker' = worker /\ client' = client
      BY <1>7 DEF ExtractCallback
    <2> HIDE DEF t
    <2>3. QueuedFiles'
      BY <1>1, <1>2, <2>1, <2>2, QueuedFilesStep
    <2>4. QED
      BY <1>3, <1>4, <2>2, <2>3
  <1>8. ASSUME NEW c \in Clients, CrashRequest(c)
        PROVE  ReceiptsAreFiles'
    <2>1. worker' = worker /\ queue' = queue
      BY <1>8 DEF CrashRequest
    <2>2. \A d \in Clients : client'[d] = client[d] \/ client'[d].step = "idle"
      BY <1>8 DEF CrashRequest, TypeOK, Idle
    <2>3. \A d \in Clients : RequestFile(d)'
      BY <1>1, <1>2, <2>2, RequestFilesStep DEF RequestFile
    <2>4. QED
      BY <1>3, <1>5, <2>1, <2>3
  <1>9. QED
    BY <1>6, <1>7, <1>8, ClientFiles, TakeTaskFiles, GoOnFiles DEF Next, Fault

\* Decisions that go on, or end, on drafts that stay.
LEMMA DecisionsGoOn ==
  ASSUME TypeOK, OneDecider, DecidingIsOpen,
         \A r \in Reviewers : reviewer'[r] = reviewer[r] \/ reviewer'[r] = Idle,
         \A r \in Reviewers : reviewer'[r].step = "deciding" =>
           drafts'[reviewer[r].item] = drafts[reviewer[r].item]
  PROVE  OneDecider' /\ DecidingIsOpen'
  <1>1. \A r \in Reviewers : reviewer'[r].step = "deciding" => reviewer'[r] = reviewer[r]
    BY DEF Idle
  <1>2. OneDecider'
    BY <1>1 DEF OneDecider
  <1>3. DecidingIsOpen'
    BY <1>1 DEF DecidingIsOpen
  <1>4. QED
    BY <1>2, <1>3

\* A review step.
LEMMA ReviewDeciders ==
  ASSUME TypeOK, LocksOK, OneDecider, DecidingIsOpen, Review
  PROVE  OneDecider' /\ DecidingIsOpen'
  <1>0. \A r \in Reviewers : reviewer[r].step = "deciding" => reviewer[r].item \in Items
    BY OpenDecision
  <1>1. ASSUME NEW i \in Items, Confirm(i) \/ RequestClarification(i)
        PROVE  OneDecider' /\ DecidingIsOpen'
    <2>1. DraftFree(i) /\ reviewer' = reviewer
      BY <1>1 DEF Confirm, RequestClarification
    <2>2. \A j \in Items : j # i => drafts'[j] = drafts[j]
      BY <1>1 DEF Confirm, RequestClarification, TypeOK
    <2>3. QED
      BY <1>0, <2>1, <2>2, DecisionsGoOn DEF DraftFree
  <1>2. ASSUME NEW r \in Reviewers, CommitDecision(r)
        PROVE  OneDecider' /\ DecidingIsOpen'
    <2> DEFINE i == reviewer[r].item
    <2>1. reviewer[r].step = "deciding" /\ i \in Items
      BY <1>0, <1>2 DEF CommitDecision
    <2>2. reviewer'[r] = Idle /\ \A q \in Reviewers : q # r => reviewer'[q] = reviewer[q]
      BY <1>2 DEF CommitDecision, TypeOK
    <2>3. \A j \in Items : j # i => drafts'[j] = drafts[j]
      BY <1>2 DEF CommitDecision, TypeOK
    <2>4. \A q \in Reviewers : q # r /\ reviewer[q].step = "deciding" => reviewer[q].item # i
      BY <2>1 DEF OneDecider
    <2>5. \A q \in Reviewers : reviewer'[q].step = "deciding" => q # r
      BY <2>2 DEF Idle
    <2>6. QED
      BY <1>0, <2>2, <2>3, <2>4, <2>5, DecisionsGoOn
  <1>3. ASSUME NEW r \in Reviewers, RollbackDecision(r)
        PROVE  OneDecider' /\ DecidingIsOpen'
    <2>1. /\ drafts' = drafts
          /\ \A q \in Reviewers : reviewer'[q] = reviewer[q] \/ reviewer'[q] = Idle
      BY <1>3 DEF RollbackDecision, TypeOK
    <2>2. QED
      BY <2>1, DecisionsGoOn
  <1>4. ASSUME NEW r \in Reviewers, NEW i \in Items, StartDecision(r, i)
        PROVE  OneDecider' /\ DecidingIsOpen'
    <2>1. /\ reviewer'[r].step = "deciding" /\ reviewer'[r].item = i
          /\ \A q \in Reviewers : q # r => reviewer'[q] = reviewer[q]
      BY <1>4 DEF StartDecision, TypeOK
    <2>2. drafts' = drafts /\ drafts[i][1].status = "ready_for_review"
      BY <1>4 DEF StartDecision
    <2>3. \A q \in Reviewers : reviewer[q].step = "deciding" => reviewer[q].item # i
      BY <1>4 DEF StartDecision, DraftFree
    <2>4. OneDecider'
      BY <2>1, <2>3 DEF OneDecider
    <2>5. DecidingIsOpen'
      BY <2>1, <2>2 DEF DecidingIsOpen
    <2>6. QED
      BY <2>4, <2>5
  <1>5. QED
    BY <1>1, <1>2, <1>3, <1>4 DEF Review

\* So one decision has a draft, and finds it as it read it when it commits.
LEMMA DecidersStep ==
  ASSUME TypeOK, LocksOK, OneDecider, DecidingIsOpen, [Next]_vars
  PROVE  OneDecider' /\ DecidingIsOpen'
  <1>0. \A r \in Reviewers : reviewer[r].step = "deciding" => reviewer[r].item \in Items
    BY OpenDecision
  <1>1. ASSUME drafts' = drafts, reviewer' = reviewer
        PROVE  OneDecider' /\ DecidingIsOpen'
    BY <1>1, DecisionsGoOn
  <1>2. ASSUME NEW w \in Workers, CreateDraft(w)
        PROVE  OneDecider' /\ DecidingIsOpen'
    <2> DEFINE i == worker[w].task.item
    <2>1. drafts[i] = <<>> /\ reviewer' = reviewer
      BY <1>2 DEF CreateDraft, Running, LocksOK, CreatingIsFirst
    <2>2. \A r \in Reviewers : reviewer[r].step = "deciding" => reviewer[r].item # i
      BY <2>1 DEF LocksOK, DecidingHasDraft
    <2>3. \A j \in Items : j # i => drafts'[j] = drafts[j]
      BY <1>2 DEF CreateDraft, TypeOK
    <2>4. QED
      BY <1>0, <2>1, <2>2, <2>3, DecisionsGoOn
  <1>3. ASSUME NEW w \in Workers, CommitCorrection(w)
        PROVE  OneDecider' /\ DecidingIsOpen'
    <2> DEFINE i == worker[w].task.item
    <2>1. DraftFree(i) /\ reviewer' = reviewer
      BY <1>3 DEF CommitCorrection
    <2>2. \A j \in Items : j # i => drafts'[j] = drafts[j]
      BY <1>3 DEF CommitCorrection, TypeOK
    <2>3. QED
      BY <1>0, <2>1, <2>2, DecisionsGoOn DEF DraftFree
  <1>4. ASSUME NEW w \in Workers,
               \/ FinalizeExisting(w) \/ FinalizeInvalid(w) \/ StartDraft(w) \/ AbortCorrection(w)
        PROVE  OneDecider' /\ DecidingIsOpen'
    BY <1>1, <1>4 DEF FinalizeExisting, FinalizeInvalid, StartDraft, AbortCorrection
  <1>5. ASSUME NEW w \in Workers, TakeTask(w) \/ CallProvider(w) \/ Recognize(w) \/ RetryTask(w)
        PROVE  OneDecider' /\ DecidingIsOpen'
    BY <1>1, <1>5 DEF TakeTask, Claim, SkipClaim, SkipReceipt, ReadReceipt, CallProvider,
      ProviderAnswers, ProviderTimesOut, ProviderFails, RetryTask, Recognize, StartReceipt,
      ReceiptRead, ReceiptFails, SendExtraction
  <1>6. CASE \/ \E c \in Clients : ClientStep(c)
             \/ \E i \in Items : ExtractCallback(i)
             \/ Fault
             \/ UNCHANGED vars
    BY <1>1, <1>6 DEF ClientStep, Submit, ReadForRetry, CommitRetry, SendTask, ExtractCallback,
      Fault, CrashWorker, CrashRequest, Redeliver, vars
  <1>7. QED
    BY <1>2, <1>3, <1>4, <1>5, <1>6, ReviewDeciders DEF Next, Finalize

---------------------------------------------------------------------------
(* The budget of an item *)

\* What an item may still be claimed for is 0, 1 or 2 extractions.
LEMMA RoomType ==
  ASSUME NEW i \in Items
  PROVE  /\ Claims(i) \in {0, 1} /\ Reopens(i) \in {0, 1}
         /\ Claims(i)' \in {0, 1} /\ Reopens(i)' \in {0, 1}
  BY DEF Claims, Reopens, Num

\* It depends on the status and on the drafts.
LEMMA RoomSame ==
  ASSUME NEW i \in Items, item'[i].status = item[i].status, drafts'[i] = drafts[i]
  PROVE  Claims(i)' = Claims(i) /\ Reopens(i)' = Reopens(i)
  BY DEF Claims, Reopens

\* Whatever a step writes to the item, it makes room for one claim at most,
\* unless it changes the drafts of an item that it does not send to review.
LEMMA RoomGrows ==
  ASSUME NEW i \in Items, drafts'[i] = drafts[i] \/ item'[i].status = "review_required"
  PROVE  Claims(i)' + Reopens(i)' <= Claims(i) + Reopens(i) + 1
  <1>1. CASE item'[i].status = "review_required"
    <2>1. Claims(i)' = 1 /\ Reopens(i)' = 0
      BY <1>1 DEF Claims, Reopens, Num
    <2>2. QED
      BY <2>1, RoomType
  <1>2. CASE drafts'[i] = drafts[i] /\ item[i].status = "processing"
    <2>1. Reopens(i)' <= Reopens(i)
      BY <1>2 DEF Reopens, Num
    <2>2. QED
      BY <2>1, RoomType
  <1>3. CASE drafts'[i] = drafts[i] /\ item[i].status # "processing"
    <2>1. Claims(i) = 1
      BY <1>3 DEF Claims, Num
    <2>2. QED
      BY <2>1, RoomType
  <1>4. QED
    BY <1>1, <1>2, <1>3

\* A job extracts the item; a request has read it.
Extracts(job, i) ==
  /\ job.step \in {"provider", "valid", "invalid", "creating", "correcting"}
  /\ job.task.item = i

Reads(q, i) == q.step = "read" /\ q.item = i

\* One element more or less in a finite set.
LEMMA OneElement ==
  ASSUME NEW S, NEW x, IsFiniteSet(S)
  PROVE  /\ IsFiniteSet(S \cup {x}) /\ IsFiniteSet(S \ {x})
         /\ Cardinality(S) \in Nat
         /\ Cardinality(S \cup {x}) \in Nat /\ Cardinality(S \ {x}) \in Nat
         /\ x \in S => Cardinality(S \cup {x}) = Cardinality(S)
         /\ x \in S => Cardinality(S \ {x}) = Cardinality(S) - 1
         /\ x \notin S => Cardinality(S \cup {x}) = Cardinality(S) + 1
         /\ x \notin S => Cardinality(S \ {x}) = Cardinality(S)
  <1>1. /\ IsFiniteSet(S \cup {x})
        /\ Cardinality(S \cup {x}) = IF x \in S THEN Cardinality(S) ELSE Cardinality(S) + 1
    BY FS_AddElement
  <1>2. /\ IsFiniteSet(S \ {x})
        /\ Cardinality(S \ {x}) = IF x \in S THEN Cardinality(S) - 1 ELSE Cardinality(S)
    BY FS_RemoveElement
  <1>3. /\ Cardinality(S) \in Nat
        /\ Cardinality(S \cup {x}) \in Nat
        /\ Cardinality(S \ {x}) \in Nat
    BY <1>1, <1>2, FS_CardinalityType
  <1>4. QED
    BY <1>1, <1>2, <1>3

\* The extractions of an item when one worker changes its job.
LEMMA ExtractionsMove ==
  ASSUME TypeOK, NEW w \in Workers, NEW job, worker' = [worker EXCEPT ![w] = job],
         NEW i \in Items, IsFiniteSet(ExtractionsOf(i))
  PROVE  /\ IsFiniteSet(ExtractionsOf(i)')
         /\ Cardinality(ExtractionsOf(i)) \in Nat /\ Cardinality(ExtractionsOf(i)') \in Nat
         /\ Cardinality(ExtractionsOf(i)') + Num(Extracts(worker[w], i))
              = Cardinality(ExtractionsOf(i)) + Num(Extracts(job, i))
  <1> DEFINE S == ExtractionsOf(i)
             T == ExtractionsOf(i)'
  <1>1. worker'[w] = job /\ \A v \in Workers : v # w => worker'[v] = worker[v]
    BY DEF TypeOK
  <1>2. /\ Extracts(job, i) => T = S \cup {w}
        /\ ~Extracts(job, i) => T = S \ {w}
        /\ Extracts(worker[w], i) <=> w \in S
    BY <1>1 DEF ExtractionsOf, Extracts
  <1>3. Extracts(worker[w], i) \in BOOLEAN /\ Extracts(job, i) \in BOOLEAN
    BY DEF Extracts
  <1>4. IsFiniteSet(S)
    OBVIOUS
  <1> HIDE DEF S, T
  <1>5. /\ IsFiniteSet(T) /\ Cardinality(S) \in Nat /\ Cardinality(T) \in Nat
        /\ Extracts(job, i) /\ w \in S => Cardinality(T) = Cardinality(S)
        /\ Extracts(job, i) /\ w \notin S => Cardinality(T) = Cardinality(S) + 1
        /\ ~Extracts(job, i) /\ w \in S => Cardinality(T) = Cardinality(S) - 1
        /\ ~Extracts(job, i) /\ w \notin S => Cardinality(T) = Cardinality(S)
    <2>1. /\ IsFiniteSet(S \cup {w}) /\ IsFiniteSet(S \ {w})
          /\ Cardinality(S) \in Nat
          /\ Cardinality(S \cup {w}) \in Nat /\ Cardinality(S \ {w}) \in Nat
          /\ w \in S => Cardinality(S \cup {w}) = Cardinality(S)
          /\ w \in S => Cardinality(S \ {w}) = Cardinality(S) - 1
          /\ w \notin S => Cardinality(S \cup {w}) = Cardinality(S) + 1
          /\ w \notin S => Cardinality(S \ {w}) = Cardinality(S)
      BY <1>4, OneElement
    <2>2. CASE Extracts(job, i)
      <3>1. T = S \cup {w}
        BY <1>2, <2>2
      <3>2. QED
        BY <2>1, <2>2, <3>1
    <2>3. CASE ~Extracts(job, i)
      <3>1. T = S \ {w}
        BY <1>2, <2>3
      <3>2. QED
        BY <2>1, <2>3, <3>1
    <2>4. QED
      BY <2>2, <2>3
  <1>6. Cardinality(T) + Num(Extracts(worker[w], i)) = Cardinality(S) + Num(Extracts(job, i))
    BY <1>2, <1>3, <1>5 DEF Num
  <1>7. QED
    BY <1>5, <1>6 DEF S, T

\* The readers of an item when one client goes on.
LEMMA ReadersMove ==
  ASSUME TypeOK, NEW c \in Clients, NEW q, client' = [client EXCEPT ![c] = q],
         NEW i \in Items, IsFiniteSet(Readers(i))
  PROVE  /\ IsFiniteSet(Readers(i)')
         /\ Cardinality(Readers(i)) \in Nat /\ Cardinality(Readers(i)') \in Nat
         /\ Cardinality(Readers(i)') + Num(Reads(client[c], i))
              = Cardinality(Readers(i)) + Num(Reads(q, i))
  <1> DEFINE S == Readers(i)
             T == Readers(i)'
  <1>1. client'[c] = q /\ \A d \in Clients : d # c => client'[d] = client[d]
    BY DEF TypeOK
  <1>2. /\ Reads(q, i) => T = S \cup {c}
        /\ ~Reads(q, i) => T = S \ {c}
        /\ Reads(client[c], i) <=> c \in S
    BY <1>1 DEF Readers, Reads
  <1>3. Reads(client[c], i) \in BOOLEAN /\ Reads(q, i) \in BOOLEAN
    BY DEF Reads
  <1>4. IsFiniteSet(S)
    OBVIOUS
  <1> HIDE DEF S, T
  <1>5. /\ IsFiniteSet(T) /\ Cardinality(S) \in Nat /\ Cardinality(T) \in Nat
        /\ Reads(q, i) /\ c \in S => Cardinality(T) = Cardinality(S)
        /\ Reads(q, i) /\ c \notin S => Cardinality(T) = Cardinality(S) + 1
        /\ ~Reads(q, i) /\ c \in S => Cardinality(T) = Cardinality(S) - 1
        /\ ~Reads(q, i) /\ c \notin S => Cardinality(T) = Cardinality(S)
    <2>1. /\ IsFiniteSet(S \cup {c}) /\ IsFiniteSet(S \ {c})
          /\ Cardinality(S) \in Nat
          /\ Cardinality(S \cup {c}) \in Nat /\ Cardinality(S \ {c}) \in Nat
          /\ c \in S => Cardinality(S \cup {c}) = Cardinality(S)
          /\ c \in S => Cardinality(S \ {c}) = Cardinality(S) - 1
          /\ c \notin S => Cardinality(S \cup {c}) = Cardinality(S) + 1
          /\ c \notin S => Cardinality(S \ {c}) = Cardinality(S)
      BY <1>4, OneElement
    <2>2. CASE Reads(q, i)
      <3>1. T = S \cup {c}
        BY <1>2, <2>2
      <3>2. QED
        BY <2>1, <2>2, <3>1
    <2>3. CASE ~Reads(q, i)
      <3>1. T = S \ {c}
        BY <1>2, <2>3
      <3>2. QED
        BY <2>1, <2>3, <3>1
    <2>4. QED
      BY <2>2, <2>3
  <1>6. Cardinality(T) + Num(Reads(client[c], i)) = Cardinality(S) + Num(Reads(q, i))
    BY <1>2, <1>3, <1>5 DEF Num
  <1>7. QED
    BY <1>5, <1>6 DEF S, T

\* A worker that goes to another job.
LEMMA WorkerPaid ==
  ASSUME TypeOK, NEW w \in Workers, NEW job, worker' = [worker EXCEPT ![w] = job],
         client' = client, requests' = requests, NEW i \in Items, Paid(i)
  PROVE  Claims(i)' + Reopens(i)' + Num(Extracts(job, i))
           <= Claims(i) + Reopens(i) + Num(Extracts(worker[w], i))
         => Paid(i)'
  <1> DEFINE s == Cardinality(ExtractionsOf(i))
             t == Cardinality(ExtractionsOf(i)')
             r == Cardinality(Readers(i))
             was == Num(Extracts(worker[w], i))
             is == Num(Extracts(job, i))
  <1>1. IsFiniteSet(ExtractionsOf(i)') /\ s \in Nat /\ t \in Nat /\ t + was = s + is
    BY ExtractionsMove DEF Paid
  <1>2. Readers(i)' = Readers(i) /\ requests'[i] = requests[i] /\ requests[i] \in Nat
    BY DEF Readers, TypeOK
  <1>3. r \in Nat
    BY FS_CardinalityType DEF Paid
  <1>4. s + r + Claims(i) + Reopens(i) <= 1 + requests[i]
    BY <1>1, <1>3, RoomType DEF Paid
  <1>5. was \in {0, 1} /\ is \in {0, 1}
    BY DEF Num
  <1> HIDE DEF s, t, r, was, is
  <1>6. ASSUME Claims(i)' + Reopens(i)' + is <= Claims(i) + Reopens(i) + was
        PROVE  Paid(i)'
    <2>1. t + r + Claims(i)' + Reopens(i)' <= 1 + requests[i]
      BY <1>1, <1>2, <1>3, <1>4, <1>5, <1>6, RoomType
    <2>2. QED
      BY <1>1, <1>2, <2>1 DEF Paid, t, r
  <1>7. QED
    BY <1>6 DEF was, is

\* A client whose request goes on.
LEMMA ClientPaid ==
  ASSUME TypeOK, NEW c \in Clients, NEW q, client' = [client EXCEPT ![c] = q],
         worker' = worker, NEW i \in Items, Paid(i), requests'[i] \in Nat
  PROVE  Claims(i)' + Reopens(i)' + Num(Reads(q, i)) + requests[i]
           <= Claims(i) + Reopens(i) + Num(Reads(client[c], i)) + requests'[i]
         => Paid(i)'
  <1> DEFINE s == Cardinality(Readers(i))
             t == Cardinality(Readers(i)')
             r == Cardinality(ExtractionsOf(i))
             was == Num(Reads(client[c], i))
             is == Num(Reads(q, i))
  <1>1. IsFiniteSet(Readers(i)') /\ s \in Nat /\ t \in Nat /\ t + was = s + is
    BY ReadersMove DEF Paid
  <1>2. ExtractionsOf(i)' = ExtractionsOf(i) /\ requests[i] \in Nat
    BY DEF ExtractionsOf, TypeOK
  <1>3. r \in Nat
    BY FS_CardinalityType DEF Paid
  <1>4. s + r + Claims(i) + Reopens(i) <= 1 + requests[i]
    BY <1>1, <1>3, RoomType DEF Paid
  <1>5. was \in {0, 1} /\ is \in {0, 1}
    BY DEF Num
  <1> HIDE DEF s, t, r, was, is
  <1>6. ASSUME Claims(i)' + Reopens(i)' + is + requests[i]
                 <= Claims(i) + Reopens(i) + was + requests'[i]
        PROVE  Paid(i)'
    <2>1. r + t + Claims(i)' + Reopens(i)' <= 1 + requests'[i]
      BY <1>1, <1>2, <1>3, <1>4, <1>5, <1>6, RoomType
    <2>2. QED
      BY <1>1, <1>2, <2>1 DEF Paid, t, r
  <1>7. QED
    BY <1>6 DEF was, is

\* A step of somebody else.
LEMMA OthersPaid ==
  ASSUME worker' = worker, client' = client, NEW i \in Items, Paid(i), TypeOK,
         requests'[i] \in Nat, requests[i] <= requests'[i],
         Claims(i)' + Reopens(i)' <= Claims(i) + Reopens(i)
  PROVE  Paid(i)'
  <1>1. ExtractionsOf(i)' = ExtractionsOf(i) /\ Readers(i)' = Readers(i)
    BY DEF ExtractionsOf, Readers
  <1> DEFINE s == Cardinality(ExtractionsOf(i))
             r == Cardinality(Readers(i))
  <1>2. s \in Nat /\ r \in Nat /\ requests[i] \in Nat
    BY FS_CardinalityType DEF Paid, TypeOK
  <1>3. s + r + Claims(i) + Reopens(i) <= 1 + requests[i]
    BY DEF Paid
  <1> HIDE DEF s, r
  <1>4. s + r + Claims(i)' + Reopens(i)' <= 1 + requests'[i]
    BY <1>2, <1>3, RoomType
  <1>5. QED
    BY <1>1, <1>4 DEF Paid, s, r

\* A job that ends, or goes on elsewhere, pays for the claim it makes possible.
LEMMA EndPaid ==
  ASSUME TypeOK, NEW w \in Workers, NEW job, worker' = [worker EXCEPT ![w] = job],
         client' = client, requests' = requests, NEW i \in Items, Paid(i),
         ~Extracts(job, i),
         \/ item'[i].status = item[i].status /\ drafts'[i] = drafts[i]
         \/ /\ Extracts(worker[w], i)
            /\ drafts'[i] = drafts[i] \/ item'[i].status = "review_required"
  PROVE  Paid(i)'
  <1>1. Num(Extracts(job, i)) = 0
    BY DEF Num
  <1>2. CASE item'[i].status = item[i].status /\ drafts'[i] = drafts[i]
    <2>1. Claims(i)' = Claims(i) /\ Reopens(i)' = Reopens(i)
      BY <1>2, RoomSame
    <2>2. Num(Extracts(worker[w], i)) \in {0, 1}
      BY DEF Num
    <2>3. Claims(i)' + Reopens(i)' + Num(Extracts(job, i))
           <= Claims(i) + Reopens(i) + Num(Extracts(worker[w], i))
      BY <1>1, <2>1, <2>2, RoomType
    <2>4. QED
      BY <2>3, WorkerPaid
  <1>3. CASE /\ Extracts(worker[w], i)
             /\ drafts'[i] = drafts[i] \/ item'[i].status = "review_required"
    <2>1. Claims(i)' + Reopens(i)' <= Claims(i) + Reopens(i) + 1
      BY <1>3, RoomGrows
    <2>2. Num(Extracts(worker[w], i)) = 1
      BY <1>3 DEF Num
    <2>3. Claims(i)' + Reopens(i)' + Num(Extracts(job, i))
           <= Claims(i) + Reopens(i) + Num(Extracts(worker[w], i))
      BY <1>1, <2>1, <2>2, RoomType
    <2>4. QED
      BY <2>3, WorkerPaid
  <1>4. QED
    BY <1>2, <1>3

\* A job that goes on.
LEMMA GoOnPaid ==
  ASSUME TypeOK, NEW w \in Workers, NEW job, worker' = [worker EXCEPT ![w] = job],
         client' = client, requests' = requests, NEW i \in Items, Paid(i),
         Extracts(job, i), Extracts(worker[w], i), item' = item, drafts' = drafts
  PROVE  Paid(i)'
  <1>1. Claims(i)' = Claims(i) /\ Reopens(i)' = Reopens(i)
    BY RoomSame
  <1>2. Num(Extracts(job, i)) = 1 /\ Num(Extracts(worker[w], i)) = 1
    BY DEF Num
  <1>3. Claims(i) \in {0, 1} /\ Reopens(i) \in {0, 1}
    BY RoomType
  <1> DEFINE was == Num(Extracts(worker[w], i))
             is  == Num(Extracts(job, i))
             a == Claims(i)
             b == Reopens(i)
             c == Claims(i)'
             d == Reopens(i)'
  <1>4. was = 1 /\ is = 1 /\ a \in {0, 1} /\ b \in {0, 1} /\ c = a /\ d = b
    BY <1>1, <1>2, <1>3
  <1> HIDE DEF was, is, a, b, c, d
  <1>5. c + d + is <= a + b + was
    BY <1>4
  <1>6. QED
    BY <1>5, WorkerPaid DEF was, is, a, b, c, d

\* What is not an extraction.
LEMMA NoExtraction ==
  ASSUME NEW i
  PROVE  /\ ~Extracts(Idle, i)
         /\ \A s, t : s \notin {"provider", "valid", "invalid", "creating", "correcting"}
                        => ~Extracts([step |-> s, task |-> t], i)
         /\ \A s, t : t.item # i => ~Extracts([step |-> s, task |-> t], i)
  BY DEF Extracts, Idle

\* Taking a task: a claim uses the room that an unclaimed item has.
LEMMA TakeTaskPaid ==
  ASSUME TypeOK, NEW w \in Workers, TakeTask(w), NEW i \in Items, Paid(i)
  PROVE  Paid(i)'
  <1>1. PICK t \in Tasks :
          Claim(w, t) \/ SkipClaim(w, t) \/ SkipReceipt(w, t) \/ ReadReceipt(w, t)
    BY DEF TakeTask
  <1>2. client' = client /\ requests' = requests /\ drafts' = drafts /\ worker[w] = Idle
    BY <1>1 DEF Claim, SkipClaim, SkipReceipt, ReadReceipt, Take
  <1>3. ~Extracts(worker[w], i)
    BY <1>2, NoExtraction
  <1>4. CASE SkipClaim(w, t) \/ SkipReceipt(w, t)
    <2>1. worker' = worker /\ item' = item
      BY <1>4 DEF SkipClaim, SkipReceipt
    <2>2. Claims(i)' = Claims(i) /\ Reopens(i)' = Reopens(i)
      BY <1>2, <2>1, RoomSame
    <2>3. requests[i] \in Nat
      BY DEF TypeOK
    <2>4. QED
      BY <1>2, <2>1, <2>2, <2>3, OthersPaid, RoomType
  <1>5. CASE ReadReceipt(w, t)
    <2>1. PICK s \in {"start", "restart"} :
            worker' = [worker EXCEPT ![w] = [step |-> s, task |-> t]] /\ item' = item
      BY <1>5 DEF ReadReceipt
    <2>2. ~Extracts([step |-> s, task |-> t], i)
      BY NoExtraction
    <2>3. QED
      BY <1>2, <2>1, <2>2, EndPaid
  <1>6. CASE Claim(w, t)
    <2> DEFINE job == [step |-> "provider", task |-> t]
    <2>1. worker' = [worker EXCEPT ![w] = job] /\ t.item \in Items
      BY <1>6 DEF Claim, Tasks
    <2>2. /\ item[t.item].status \notin {"review_required", "processing"}
          /\ Write(t.item, "processing", "none")
      BY <1>6 DEF Claim, Claimable
    <2>3. CASE t.item = i
      <3>1. item'[i].status = "processing"
        BY <2>1, <2>2, <2>3, WriteRow
      <3>2. Claims(i) = 1 /\ Claims(i)' = 0
        BY <2>2, <2>3, <3>1 DEF Claims, Num
      <3>3. Reopens(i)' = Reopens(i)
        BY <1>2, <2>2, <2>3, <3>1 DEF Reopens, Num
      <3>4. Num(Extracts(job, i)) \in {0, 1} /\ Num(Extracts(worker[w], i)) = 0
        BY <1>3 DEF Num
      <3> HIDE DEF job
      <3>5. Claims(i)' + Reopens(i)' + Num(Extracts(job, i))
             <= Claims(i) + Reopens(i) + Num(Extracts(worker[w], i))
        BY <3>2, <3>3, <3>4, RoomType
      <3>6. QED
        BY <3>5, WorkerPaid, <1>2, <2>1
    <2>4. CASE t.item # i
      <3>1. item'[i] = item[i]
        BY <2>1, <2>2, <2>4, WriteRow DEF OthersKept
      <3>2. ~Extracts(job, i)
        BY <2>4, NoExtraction
      <3> HIDE DEF job
      <3>3. QED
        BY <1>2, <2>1, <3>1, <3>2, EndPaid
    <2>5. QED
      BY <2>3, <2>4
  <1>7. QED
    BY <1>1, <1>4, <1>5, <1>6

\* The steps that end an extraction.
LEMMA LastStepPaid ==
  ASSUME TypeOK, NEW w \in Workers, NEW i \in Items, Paid(i),
         \/ ProviderTimesOut(w) \/ ProviderFails(w) \/ FinalizeExisting(w)
         \/ FinalizeInvalid(w) \/ CreateDraft(w) \/ CommitCorrection(w) \/ AbortCorrection(w)
  PROVE  Paid(i)'
  <1> DEFINE t == worker[w].task
             j == t.item
             S == {"provider", "valid", "invalid", "creating", "correcting"}
  <1>1. worker[w].step \in S
    BY DEF ProviderTimesOut, ProviderFails, FinalizeExisting, FinalizeInvalid, CreateDraft,
           CommitCorrection, AbortCorrection, Running
  <1>2. worker[w].step # "idle"
    BY <1>1
  <1>3. j \in Items
    BY <1>2, RunningJob
  <1>4. client' = client /\ requests' = requests
    BY DEF ProviderTimesOut, ProviderFails, FinalizeExisting, FinalizeInvalid, CreateDraft,
           CommitCorrection, AbortCorrection
  <1>5. Ack(w) \/ Goto(w, "raise")
    BY DEF ProviderTimesOut, ProviderFails, FinalizeExisting, FinalizeInvalid, CreateDraft,
           CommitCorrection, AbortCorrection
  <1>6. PICK job : worker' = [worker EXCEPT ![w] = job] /\ ~Extracts(job, i)
    <2>1. CASE Ack(w)
      BY <2>1, NoExtraction DEF Ack
    <2>2. CASE Goto(w, "raise")
      <3>1. worker' = [worker EXCEPT ![w] = [step |-> "raise", task |-> t]]
        BY <1>2, <2>2, GotoRuns DEF Runs
      <3>2. ~Extracts([step |-> "raise", task |-> t], i)
        BY NoExtraction
      <3>3. QED
        BY <3>1, <3>2
    <2>3. QED
      BY <1>5, <2>1, <2>2
  <1>7. \/ /\ drafts' = drafts
           /\ \/ item' = item
              \/ \E s, e : Write(j, s, e)
              \/ item' = [item EXCEPT ![j].status = "review_required"]
        \/ /\ item' = [item EXCEPT ![j].status = "review_required"]
           /\ \A k \in Items : k # j => drafts'[k] = drafts[k]
    <2>1. CASE CreateDraft(w) \/ CommitCorrection(w)
      BY <2>1 DEF CreateDraft, CommitCorrection, TypeOK
    <2>2. CASE ProviderTimesOut(w) \/ ProviderFails(w)
      BY <2>2 DEF ProviderTimesOut, ProviderFails
    <2>3. CASE FinalizeExisting(w) \/ FinalizeInvalid(w) \/ AbortCorrection(w)
      BY <2>3 DEF FinalizeExisting, FinalizeInvalid, AbortCorrection
    <2>4. QED
      BY <2>1, <2>2, <2>3
  <1>8. CASE i # j
    <2>1. item'[i] = item[i]
      <3>1. \A s, e : Write(j, s, e) => item'[i] = item[i]
        BY <1>3, <1>8, WriteRow DEF OthersKept
      <3>2. item' = [item EXCEPT ![j].status = "review_required"] => item'[i] = item[i]
        BY <1>3, <1>8, StatusRow DEF OthersKept
      <3>3. QED
        BY <1>7, <3>1, <3>2
    <2>2. drafts'[i] = drafts[i]
      BY <1>7, <1>8
    <2>3. QED
      BY <1>4, <1>6, <2>1, <2>2, EndPaid
  <1>9. CASE i = j
    <2>1. Extracts(worker[w], i)
      BY <1>1, <1>9 DEF Extracts
    <2>2. drafts'[i] = drafts[i] \/ item'[i].status = "review_required"
      BY <1>3, <1>7, <1>9, StatusRow
    <2>3. QED
      BY <1>4, <1>6, <2>1, <2>2, EndPaid
  <1>10. QED
    BY <1>8, <1>9

\* The other steps of a worker.
LEMMA OnTheWayPaid ==
  ASSUME TypeOK, NEW w \in Workers, NEW i \in Items, Paid(i),
         ProviderAnswers(w) \/ StartDraft(w) \/ RetryTask(w) \/ SendExtraction(w) \/ CrashWorker(w)
  PROVE  Paid(i)'
  <1> DEFINE t == worker[w].task
             S == {"provider", "valid", "invalid", "creating", "correcting"}
  <1>1. item' = item /\ drafts' = drafts /\ client' = client /\ requests' = requests
    BY DEF ProviderAnswers, StartDraft, RetryTask, SendExtraction, CrashWorker
  <1>2. CASE Ack(w)
    <2>1. worker' = [worker EXCEPT ![w] = Idle] /\ ~Extracts(Idle, i)
      BY <1>2, NoExtraction DEF Ack
    <2>2. QED
      BY <1>1, <2>1, EndPaid
  <1>3. CASE ~Ack(w)
    <2>1. worker[w].step \in S /\ \E s \in S : Goto(w, s)
      BY <1>3 DEF ProviderAnswers, StartDraft, RetryTask, SendExtraction, CrashWorker, Running
    <2>2. PICK s \in S : Goto(w, s)
      BY <2>1
    <2>3. worker[w].step # "idle"
      BY <2>1
    <2> DEFINE job == [step |-> s, task |-> t]
    <2>4. worker' = [worker EXCEPT ![w] = job]
      BY <2>2, <2>3, GotoRuns DEF Runs
    <2>5. Extracts(job, i) <=> t.item = i
      BY <2>2 DEF Extracts
    <2>6. Extracts(worker[w], i) <=> t.item = i
      BY <2>1 DEF Extracts
    <2> HIDE DEF job
    <2>7. CASE t.item = i
      BY <1>1, <2>4, <2>5, <2>6, <2>7, GoOnPaid
    <2>8. CASE t.item # i
      BY <1>1, <2>4, <2>5, <2>8, EndPaid
    <2>9. QED
      BY <2>7, <2>8
  <1>4. QED
    BY <1>2, <1>3

\* Text recognition is about another item, since this one is no file.
LEMMA RecognizePaid ==
  ASSUME TypeOK, ReceiptsAreFiles, NEW w \in Workers, NEW i \in Items, Paid(i), ~item[i].file,
         StartReceipt(w) \/ ReceiptRead(w) \/ ReceiptFails(w)
  PROVE  Paid(i)'
  <1> DEFINE t == worker[w].task
             j == t.item
  <1>1. worker[w].step \in {"start", "restart", "ocr"} /\ worker[w].step # "idle"
    BY DEF StartReceipt, ReceiptRead, ReceiptFails, Running
  <1>2. j \in Items
    BY <1>1, RunningJob
  <1>3. item[j].file
    BY <1>1 DEF ReceiptsAreFiles, JobFile
  <1>4. i # j
    BY <1>3
  <1>5. client' = client /\ requests' = requests /\ drafts' = drafts
    BY DEF StartReceipt, ReceiptRead, ReceiptFails
  <1>6. \/ \E s, e : Write(j, s, e)
        \/ item' = [item EXCEPT ![j].status = "processing"]
        \/ item' = [item EXCEPT ![j].status = "queued", ![j].error = "none", ![j].text = TRUE]
        \/ item' = item
    BY DEF StartReceipt, ReceiptRead, ReceiptFails
  <1>7. item'[i] = item[i]
    <2>1. ASSUME NEW s, NEW e, Write(j, s, e)
          PROVE  OthersKept(j)
      BY <1>2, <2>1, WriteRow
    <2>2. item' = [item EXCEPT ![j].status = "processing"] => OthersKept(j)
      BY <1>2, StatusRow
    <2>3. item' = [item EXCEPT ![j].status = "queued", ![j].error = "none", ![j].text = TRUE]
            => OthersKept(j)
      BY <1>2, TextRow
    <2>4. QED
      BY <1>4, <1>6, <2>1, <2>2, <2>3 DEF OthersKept
  <1>8. PICK job : worker' = [worker EXCEPT ![w] = job] /\ ~Extracts(job, i)
    <2>1. CASE Ack(w)
      BY <2>1, NoExtraction DEF Ack
    <2>2. CASE ~Ack(w)
      <3>1. PICK s \in {"ocr", "send", "raise"} : Goto(w, s)
        BY <2>2 DEF StartReceipt, ReceiptRead, ReceiptFails
      <3>2. worker' = [worker EXCEPT ![w] = [step |-> s, task |-> t]]
        BY <1>1, <3>1, GotoRuns DEF Runs
      <3>3. ~Extracts([step |-> s, task |-> t], i)
        BY <1>4, NoExtraction
      <3>4. QED
        BY <3>2, <3>3
    <2>3. QED
      BY <2>1, <2>2
  <1>9. QED
    BY <1>5, <1>7, <1>8, EndPaid

\* A retry was paid for when it read the item.
LEMMA ClientStepPaid ==
  ASSUME TypeOK, NEW c \in Clients, ClientStep(c), NEW i \in Items, Paid(i)
  PROVE  Paid(i)'
  <1>1. worker' = worker /\ drafts' = drafts
    BY DEF ClientStep, Submit, ReadForRetry, CommitRetry, SendTask
  <1>2. requests[i] \in Nat
    BY DEF TypeOK
  <1>3. ASSUME NEW q, client' = [client EXCEPT ![c] = q],
               requests' = requests, ~Reads(q, i), item'[i].status = item[i].status
        PROVE  Paid(i)'
    <2>1. Claims(i)' = Claims(i) /\ Reopens(i)' = Reopens(i)
      BY <1>1, <1>3, RoomSame
    <2>2. Num(Reads(q, i)) = 0 /\ Num(Reads(client[c], i)) \in {0, 1}
      BY <1>3 DEF Num
    <2>3. Claims(i)' + Reopens(i)' + Num(Reads(q, i)) + requests[i]
            <= Claims(i) + Reopens(i) + Num(Reads(client[c], i)) + requests'[i]
      BY <1>2, <1>3, <2>1, <2>2, RoomType
    <2>4. QED
      BY <1>1, <1>2, <1>3, <2>3, ClientPaid
  <1>4. ASSUME NEW j \in Items, NEW o \in Origins, Submit(c, j, o)
        PROVE  Paid(i)'
    <2> DEFINE q == [step |-> "committed", op |-> "submit", item |-> j,
                     kind |-> IF o.file THEN "receipt" ELSE "extract",
                     status |-> "queued", error |-> "none"]
    <2>1. client' = [client EXCEPT ![c] = q] /\ requests' = requests
      BY <1>4 DEF Submit
    <2>2. Num(Reads(q, i)) = 0 /\ Num(Reads(client[c], i)) \in {0, 1}
      BY DEF Reads, Num
    <2> HIDE DEF q
    <2>3. Claims(i)' = Claims(i) /\ Reopens(i)' = Reopens(i)
      <3>1. CASE i = j
        <4>1. item[i].status = "absent" /\ item'[i].status = "queued"
          BY <1>4, <3>1, SubmitRow
        <4>2. QED
          BY <1>1, <4>1 DEF Claims, Reopens
      <3>2. CASE i # j
        <4>1. item'[i] = item[i]
          BY <1>4, <3>2, SubmitRow
        <4>2. QED
          BY <1>1, <4>1, RoomSame
      <3>3. QED
        BY <3>1, <3>2
    <2>4. Claims(i)' + Reopens(i)' + Num(Reads(q, i)) + requests[i]
            <= Claims(i) + Reopens(i) + Num(Reads(client[c], i)) + requests'[i]
      BY <1>2, <2>1, <2>2, <2>3, RoomType
    <2>5. QED
      BY <1>1, <1>2, <2>1, <2>4, ClientPaid
  <1>5. ASSUME NEW j \in Items, NEW op, ReadForRetry(c, j, op)
        PROVE  Paid(i)'
    <2> DEFINE q == [step |-> "read", op |-> op, item |-> j, kind |-> "extract",
                     status |-> item[j].status, error |-> item[j].error]
    <2>1. /\ client' = [client EXCEPT ![c] = q]
          /\ requests' = [requests EXCEPT ![j] = @ + 1]
          /\ item' = item
          /\ client[c] = Idle
      BY <1>5 DEF ReadForRetry
    <2>2. Reads(q, i) <=> i = j
      BY DEF Reads
    <2>3. ~Reads(client[c], i)
      BY <2>1 DEF Reads, Idle
    <2> HIDE DEF q
    <2>4. requests'[i] = requests[i] + Num(Reads(q, i))
      BY <1>2, <2>1, <2>2 DEF TypeOK, Num
    <2>5. Num(Reads(q, i)) \in {0, 1} /\ Num(Reads(client[c], i)) = 0
      BY <2>3 DEF Num
    <2>6. Claims(i)' = Claims(i) /\ Reopens(i)' = Reopens(i)
      BY <1>1, <2>1, RoomSame
    <2>7. Claims(i)' + Reopens(i)' + Num(Reads(q, i)) + requests[i]
            <= Claims(i) + Reopens(i) + Num(Reads(client[c], i)) + requests'[i]
      BY <1>2, <2>4, <2>5, <2>6, RoomType
    <2>8. requests'[i] \in Nat
      BY <1>2, <2>4, <2>5
    <2>9. QED
      BY <1>1, <2>1, <2>7, <2>8, ClientPaid
  <1>6. CASE CommitRetry(c)
    <2> DEFINE q == [client[c] EXCEPT !.step = "committed"]
               j == client[c].item
    <2>1. /\ client' = [client EXCEPT ![c] = q] /\ requests' = requests
          /\ client[c].step = "read"
      BY <1>6 DEF CommitRetry
    <2>2. ~Reads(q, i)
      BY <2>1, OpenRequest DEF Reads, Request
    <2> HIDE DEF q
    <2>3. CASE i = j
      <3>1. Num(Reads(client[c], i)) = 1 /\ Num(Reads(q, i)) = 0
        BY <2>1, <2>2, <2>3 DEF Reads, Num
      <3>2. Claims(i)' + Reopens(i)' <= Claims(i) + Reopens(i) + 1
        BY <1>1, RoomGrows
      <3>3. Claims(i)' + Reopens(i)' + Num(Reads(q, i)) + requests[i]
              <= Claims(i) + Reopens(i) + Num(Reads(client[c], i)) + requests'[i]
        BY <1>2, <2>1, <3>1, <3>2, RoomType
      <3>4. QED
        BY <1>1, <1>2, <2>1, <3>3, ClientPaid
    <2>4. CASE i # j
      <3>1. item'[i] = item[i]
        BY <1>6, <2>4, RetryRow DEF OthersKept
      <3>2. QED
        BY <1>3, <2>1, <2>2, <3>1
    <2>5. QED
      BY <2>3, <2>4
  <1>7. CASE SendTask(c)
    <2>1. client' = [client EXCEPT ![c] = Idle] /\ requests' = requests /\ item' = item
      BY <1>7 DEF SendTask
    <2>2. ~Reads(Idle, i)
      BY DEF Reads, Idle
    <2>3. QED
      BY <1>3, <2>1, <2>2
  <1>8. QED
    BY <1>4, <1>5, <1>6, <1>7 DEF ClientStep

\* Review: a decision that takes an item out of "processing" closes its draft.
LEMMA ReviewPaid ==
  ASSUME TypeOK, LocksOK, DecidingIsOpen, Review, NEW i \in Items, Paid(i)
  PROVE  Paid(i)'
  <1>1. worker' = worker /\ client' = client /\ requests' = requests /\ requests[i] \in Nat
    BY DEF Review, Confirm, RequestClarification, StartDecision, CommitDecision,
           RollbackDecision, TypeOK
  <1>2. ASSUME item'[i].status = item[i].status, drafts'[i] = drafts[i]
        PROVE  Paid(i)'
    <2>1. Claims(i)' = Claims(i) /\ Reopens(i)' = Reopens(i)
      BY <1>2, RoomSame
    <2>2. QED
      BY <1>1, <2>1, OthersPaid, RoomType
  <1>3. ASSUME NEW j \in Items, Confirm(j) \/ RequestClarification(j)
        PROVE  Paid(i)'
    <2>1. item' = item /\ drafts[j] # <<>> /\ drafts[j][1].status # "decided"
      BY <1>3 DEF Confirm, RequestClarification
    <2>2. CASE i # j
      <3>1. drafts'[i] = drafts[i]
        BY <1>3, <2>2 DEF Confirm, RequestClarification, TypeOK
      <3>2. QED
        BY <1>2, <2>1, <3>1
    <2>3. CASE i = j
      <3>1. PICK s \in {"ready_for_review", "needs_clarification"} :
              Amends(j, [drafts[j][1] EXCEPT !.status = s])
        BY <1>3 DEF Confirm, RequestClarification, Amends
      <3>2. s \in DraftStatuses
        BY DEF DraftStatuses
      <3>3. /\ [drafts[j][1] EXCEPT !.status = s] \in Draft
            /\ [drafts[j][1] EXCEPT !.status = s].status = s
        BY <2>1, <3>2, FirstDraft, DraftTypes
      <3>4. drafts'[i] # <<>> /\ drafts'[i][1].status # "decided"
        BY <2>1, <2>3, <3>1, <3>3, Amended
      <3>5. Claims(i)' = Claims(i) /\ Reopens(i)' = Reopens(i)
        BY <2>1, <2>3, <3>4 DEF Claims, Reopens, Num
      <3>6. QED
        BY <1>1, <3>5, OthersPaid, RoomType
    <2>4. QED
      BY <2>2, <2>3
  <1>4. ASSUME NEW r \in Reviewers, CommitDecision(r)
        PROVE  Paid(i)'
    <2> DEFINE j == reviewer[r].item
    <2>1. /\ reviewer[r].step = "deciding" /\ j \in Items
          /\ drafts[j] # <<>> /\ drafts[j][1].status = "ready_for_review"
      BY <1>4, OpenDecision DEF CommitDecision, DecidingIsOpen, LocksOK, DecidingHasDraft
    <2>2. item' = [item EXCEPT ![j].status = "archived"]
      BY <1>4 DEF CommitDecision
    <2>3. OthersKept(j) /\ item'[j].status = "archived"
      BY <2>1, <2>2, StatusRow
    <2>4. CASE i # j
      <3>1. drafts'[i] = drafts[i]
        BY <1>4, <2>4 DEF CommitDecision, TypeOK
      <3>2. QED
        BY <1>2, <2>3, <2>4, <3>1 DEF OthersKept
    <2>5. CASE i = j
      <3>1. Amends(j, [drafts[j][1] EXCEPT !.status = "decided"])
        BY <1>4 DEF CommitDecision, Amends
      <3>2. "decided" \in DraftStatuses
        BY DEF DraftStatuses
      <3>3. /\ [drafts[j][1] EXCEPT !.status = "decided"] \in Draft
            /\ [drafts[j][1] EXCEPT !.status = "decided"].status = "decided"
        BY <2>1, <3>2, FirstDraft, DraftTypes
      <3>4. drafts'[i][1].status = "decided"
        BY <2>1, <2>5, <3>1, <3>3, Amended
      <3>5. Claims(i)' = 1 /\ Reopens(i)' = 0
        BY <2>3, <2>5, <3>4 DEF Claims, Reopens, Num
      <3>6. Claims(i) = 1 \/ Reopens(i) = 1
        BY <2>1, <2>5 DEF Claims, Reopens, Num
      <3>7. Claims(i)' + Reopens(i)' <= Claims(i) + Reopens(i)
        BY <3>5, <3>6, RoomType
      <3>8. QED
        BY <1>1, <3>7, OthersPaid
    <2>6. QED
      BY <2>4, <2>5
  <1>5. ASSUME NEW r \in Reviewers,
               RollbackDecision(r) \/ \E j \in Items : StartDecision(r, j)
        PROVE  Paid(i)'
    BY <1>2, <1>5 DEF RollbackDecision, StartDecision
  <1>6. QED
    BY <1>3, <1>4, <1>5 DEF Review

\* Every step stays within the budget.
LEMMA BudgetStep ==
  ASSUME TypeOK, LocksOK, FlightInv, [Next]_vars
  PROVE  Budget'
  <1> SUFFICES ASSUME NEW i \in Items, ~item'[i].file
               PROVE  Paid(i)'
    BY DEF Budget
  <1>0. FilesAreStored /\ ReceiptsAreFiles /\ DecidingIsOpen /\ Budget
    BY DEF FlightInv
  <1>1. ~item[i].file /\ Paid(i)
    BY <1>0, FilesStep DEF Budget
  <1>2. ASSUME worker' = worker, item' = item, drafts' = drafts,
               NEW c \in Clients, client' = [client EXCEPT ![c] = Idle],
               requests' = requests
        PROVE  Paid(i)'
    <2>1. Claims(i)' = Claims(i) /\ Reopens(i)' = Reopens(i)
      BY <1>2, RoomSame
    <2>2. Num(Reads(Idle, i)) = 0 /\ Num(Reads(client[c], i)) \in {0, 1}
      BY DEF Reads, Idle, Num
    <2>3. requests[i] \in Nat
      BY DEF TypeOK
    <2>4. Claims(i)' + Reopens(i)' + Num(Reads(Idle, i)) + requests[i]
            <= Claims(i) + Reopens(i) + Num(Reads(client[c], i)) + requests'[i]
      BY <1>2, <2>1, <2>2, <2>3, RoomType
    <2>5. QED
      BY <1>1, <1>2, <2>3, <2>4, ClientPaid
  <1>3. ASSUME worker' = worker, item' = item, drafts' = drafts, client' = client,
               requests'[i] \in Nat, requests[i] <= requests'[i]
        PROVE  Paid(i)'
    <2>1. Claims(i)' = Claims(i) /\ Reopens(i)' = Reopens(i)
      BY <1>3, RoomSame
    <2>2. QED
      BY <1>1, <1>3, <2>1, OthersPaid, RoomType
  <1>4. requests[i] \in Nat
    BY DEF TypeOK
  <1>5. ASSUME NEW w \in Workers, CallProvider(w) \/ Finalize(w) \/ Recognize(w) \/ RetryTask(w)
        PROVE  Paid(i)'
    BY <1>0, <1>1, <1>5, LastStepPaid, OnTheWayPaid, RecognizePaid
       DEF CallProvider, Finalize, Recognize
  <1>6. CASE Fault
    <2>1. ASSUME NEW w \in Workers, CrashWorker(w)
          PROVE  Paid(i)'
      BY <1>1, <2>1, OnTheWayPaid
    <2>2. ASSUME NEW w \in Workers, Redeliver(w)
          PROVE  Paid(i)'
      BY <1>3, <1>4, <2>2 DEF Redeliver
    <2>3. ASSUME NEW c \in Clients, CrashRequest(c)
          PROVE  Paid(i)'
      BY <1>2, <1>4, <2>3 DEF CrashRequest
    <2>4. QED
      BY <1>6, <2>1, <2>2, <2>3 DEF Fault
  <1>7. ASSUME NEW j \in Items, ExtractCallback(j)
        PROVE  Paid(i)'
    <2>1. requests'[i] \in Nat /\ requests[i] <= requests'[i]
      BY <1>7 DEF ExtractCallback, TypeOK
    <2>2. QED
      BY <1>3, <1>7, <2>1 DEF ExtractCallback
  <1>8. CASE UNCHANGED vars
    BY <1>3, <1>4, <1>8 DEF vars
  <1>9. QED
    BY <1>0, <1>1, <1>5, <1>6, <1>7, <1>8, ClientStepPaid, TakeTaskPaid, ReviewPaid DEF Next

\* Nothing runs at first.
LEMMA InitFlight == Init => FlightInv
  <1> SUFFICES ASSUME Init PROVE FlightInv
    OBVIOUS
  <1>1. OneDecider /\ DecidingIsOpen /\ FilesAreStored /\ ReceiptsAreFiles
    BY DEF Init, Idle, OneDecider, DecidingIsOpen, FilesAreStored, ReceiptsAreFiles, QueuedFiles,
           JobFile, RequestFile
  <1>2. ASSUME NEW i \in Items
        PROVE  Paid(i)
    <2>1. ExtractionsOf(i) = {} /\ Readers(i) = {}
      BY DEF Init, Idle, ExtractionsOf, Readers
    <2>2. Claims(i) = 1 /\ Reopens(i) = 0 /\ requests[i] = 0
      BY DEF Init, Claims, Reopens, Num
    <2>3. IsFiniteSet({}) /\ Cardinality({}) = 0
      BY FS_EmptySet
    <2>4. QED
      BY <2>1, <2>2, <2>3 DEF Paid
  <1>3. QED
    BY <1>1, <1>2 DEF FlightInv, Budget

\* Every step keeps what single flight rests on.
LEMMA FlightStep == IInv /\ FlightInv /\ [Next]_vars => FlightInv'
  <1> SUFFICES ASSUME IInv, FlightInv, [Next]_vars PROVE FlightInv'
    OBVIOUS
  <1>1. TypeOK /\ LocksOK
    BY DEF IInv
  <1>2. OneDecider' /\ DecidingIsOpen'
    BY <1>1, DecidersStep DEF FlightInv
  <1>3. FilesAreStored' /\ ReceiptsAreFiles'
    BY <1>1, FilesStep, ReceiptsStep DEF FlightInv
  <1>4. Budget'
    BY <1>1, BudgetStep
  <1>5. QED
    BY <1>2, <1>3, <1>4 DEF FlightInv

\* The provider is called for a text by no more workers at a time than users
\* asked for, whatever crashes and however often a task is delivered.
THEOREM OneFlightPerRequest == Spec => []SingleFlight
  <1>1. IInv /\ FlightInv => SingleFlight
    <2> SUFFICES ASSUME TypeOK, Budget, NEW i \in Items, ~item[i].file
                 PROVE  Cardinality(ExtractionsOf(i)) <= 1 + requests[i]
      BY DEF IInv, FlightInv, SingleFlight
    <2>1. Paid(i)
      BY DEF Budget
    <2>2. Cardinality(ExtractionsOf(i)) \in Nat /\ Cardinality(Readers(i)) \in Nat
      BY <2>1, FS_CardinalityType DEF Paid
    <2>3. requests[i] \in Nat
      BY DEF TypeOK
    <2>4. QED
      BY <2>1, <2>2, <2>3, RoomType DEF Paid
  <1>2. QED
    BY <1>1, InitFlight, FlightStep, InductiveInvariant, PTL DEF Spec

---------------------------------------------------------------------------
(* Who looks after an item, when nothing crashes and nobody reviews *)

\* A worker does one of these steps for the item, a task of one of these kinds
\* for it is in the broker, a client has an open request for it.
At(i, steps) == \E w \in Workers : worker[w].step \in steps /\ worker[w].task.item = i

Queued(i, kinds) == \E t \in Tasks : t.item = i /\ t.kind \in kinds /\ queue[t] > 0

Asked(i) == \E c \in Clients : client[c].step # "idle" /\ client[c].item = i

\* Who may have the item of a row with this status, error and text.
InProgress(i) == item[i].status = "processing" =>
  At(i, {"provider", "valid", "invalid", "creating", "correcting", "ocr"})

WaitsForExtraction(i) ==
  item[i].status = "queued" /\ item[i].error = "none" /\ item[i].text =>
    Queued(i, {"extract", "receipt"}) \/ Asked(i) \/ At(i, {"start", "restart", "ocr", "send"})

WaitsForText(i) ==
  item[i].status = "queued" /\ item[i].error = "none" /\ ~item[i].text /\ requests[i] = 0 =>
    Queued(i, {"receipt"}) \/ Asked(i) \/ At(i, {"start", "restart", "ocr"})

CaredFor(i) == InProgress(i) /\ WaitsForExtraction(i) /\ WaitsForText(i)

\* Only the request that stored a receipt sends it to text recognition.
AskedFor(c) ==
  /\ client[c].step = "read" => requests[client[c].item] > 0
  /\ client[c].step = "committed" /\ client[c].kind = "extract" =>
       item[client[c].item].text \/ requests[client[c].item] > 0

\* An item that is not submitted has no text.
AbsentIsBlank == \A i \in Items : item[i].status = "absent" => ~item[i].text

\* What Tended needs, with TypeOK.
TendedInv ==
  /\ \A i \in Items : CaredFor(i)
  /\ \A c \in Clients : AskedFor(c)
  /\ AbsentIsBlank

\* A text that is there stays there.
LEMMA TextStep ==
  ASSUME TypeOK, AbsentIsBlank, [Next]_vars
  PROVE  AbsentIsBlank' /\ \A i \in Items : item[i].text => item'[i].text
  <1>1. \A i \in Items : Stored(i) \/ Kept(i)
    BY RowStep
  <1>2. QED
    BY <1>1 DEF AbsentIsBlank, Stored, Kept

\* A worker that changes its job leaves the others where they are.
LEMMA AtKept ==
  ASSUME NEW w, NEW i, NEW steps, At(i, steps),
         \A v \in Workers : v # w => worker'[v] = worker[v],
         worker[w].step \notin steps \/ worker[w].task.item # i
  PROVE  At(i, steps)'
  BY DEF At

\* Nothing moves when no worker does.
LEMMA AtSame ==
  ASSUME worker' = worker
  PROVE  \A i, steps : At(i, steps) => At(i, steps)'
  BY DEF At

\* A task that is taken is missing only among its own.
LEMMA QueuedKept ==
  ASSUME TypeOK, NEW i, NEW kinds, Queued(i, kinds), NEW t \in Tasks, NEW u \in Tasks,
         \/ queue' = queue
         \/ queue' = Sent(queue, t)
         \/ /\ queue' = [queue EXCEPT ![u] = @ - 1]
            /\ u.item # i \/ u.kind \notin kinds
         \/ /\ queue' = Sent([queue EXCEPT ![u] = @ - 1], t)
            /\ u.item # i \/ u.kind \notin kinds
  PROVE  Queued(i, kinds)'
  <1>1. PICK v \in Tasks : v.item = i /\ v.kind \in kinds /\ queue[v] > 0
    BY DEF Queued
  <1>2. queue \in [Tasks -> Nat]
    BY DEF TypeOK
  <1>3. queue'[v] > 0
    <2>1. CASE queue' = queue
      BY <1>1, <2>1
    <2>2. CASE queue' = Sent(queue, t)
      BY <1>1, <1>2, <2>2 DEF Sent
    <2>3. CASE queue' = [queue EXCEPT ![u] = @ - 1] /\ (u.item # i \/ u.kind \notin kinds)
      BY <1>1, <1>2, <2>3
    <2>4. CASE queue' = Sent([queue EXCEPT ![u] = @ - 1], t) /\ (u.item # i \/ u.kind \notin kinds)
      <3>1. v # u
        BY <1>1, <2>4
      <3>2. queue'[v] = IF v = t THEN queue[v] + 1 ELSE queue[v]
        BY <1>2, <2>4, <3>1 DEF Sent
      <3>3. QED
        BY <1>1, <1>2, <3>2
    <2>5. QED
      BY <2>1, <2>2, <2>3, <2>4
  <1>4. QED
    BY <1>1, <1>3 DEF Queued

\* A task that is sent is in the broker.
LEMMA QueuedNow ==
  ASSUME TypeOK, NEW t \in Tasks, NEW u \in Tasks, queue[u] > 0,
         queue' = Sent(queue, t) \/ queue' = Sent([queue EXCEPT ![u] = @ - 1], t),
         NEW kinds, t.kind \in kinds
  PROVE  Queued(t.item, kinds)'
  <1>1. queue \in [Tasks -> Nat]
    BY DEF TypeOK
  <1>2. queue'[t] > 0
    <2>1. CASE queue' = Sent(queue, t)
      BY <1>1, <2>1 DEF Sent
    <2>2. CASE queue' = Sent([queue EXCEPT ![u] = @ - 1], t)
      <3>1. queue'[t] = [queue EXCEPT ![u] = @ - 1][t] + 1
        BY <1>1, <2>2 DEF Sent
      <3>2. [queue EXCEPT ![u] = @ - 1][t] \in Nat
        BY <1>1, TakeType
      <3>3. QED
        BY <3>1, <3>2
    <2>3. QED
      BY <2>1, <2>2
  <1>3. QED
    BY <1>2 DEF Queued

\* A client that goes on with its own item.
LEMMA AskedKept ==
  ASSUME NEW c, NEW i, Asked(i),
         \A d \in Clients : d # c => client'[d] = client[d],
         client[c].step = "idle" \/ client[c].item # i
  PROVE  Asked(i)'
  BY DEF Asked

\* An item that nobody writes keeps who has it.
LEMMA CareKept ==
  ASSUME NEW i \in Items, CaredFor(i), item'[i] = item[i], requests'[i] = 0 => requests[i] = 0,
         At(i, {"provider", "valid", "invalid", "creating", "correcting", "ocr"})
           => At(i, {"provider", "valid", "invalid", "creating", "correcting", "ocr"})',
         At(i, {"start", "restart", "ocr", "send"}) => At(i, {"start", "restart", "ocr", "send"})',
         At(i, {"start", "restart", "ocr"}) => At(i, {"start", "restart", "ocr"})',
         Queued(i, {"extract", "receipt"}) => Queued(i, {"extract", "receipt"})',
         Queued(i, {"receipt"}) => Queued(i, {"receipt"})',
         Asked(i) => Asked(i)'
  PROVE  CaredFor(i)'
  BY DEF CaredFor, InProgress, WaitsForExtraction, WaitsForText

\* An item that is neither waiting nor in progress needs nobody.
LEMMA CareOver ==
  ASSUME NEW i, \/ item'[i].status \in {"failed", "review_required", "archived"}
                \/ item'[i].status = "queued" /\ item'[i].error = "transient"
  PROVE  CaredFor(i)'
  BY DEF CaredFor, InProgress, WaitsForExtraction, WaitsForText

\* A request for an item that is being made has it.
LEMMA CareAsked ==
  ASSUME NEW i, Asked(i)', item'[i].status # "processing"
  PROVE  CaredFor(i)'
  BY DEF CaredFor, InProgress, WaitsForExtraction, WaitsForText

\* What the requests of clients rest on: only a file is submitted without text.
LEMMA AskedForStep ==
  ASSUME TypeOK, TendedInv, [Next]_vars
  PROVE  \A c \in Clients : AskedFor(c)'
  <1>1. \A i \in Items : item[i].text => item'[i].text
    BY TextStep DEF TendedInv
  <1>2. \A i \in Items : requests[i] \in Nat
    BY DEF TypeOK
  <1>3. \A i \in Items : requests[i] > 0 => requests'[i] > 0
    <2>1. \/ requests' = requests
          \/ \E j \in Items : requests' = [requests EXCEPT ![j] = @ + 1]
      BY DEF Next, vars, ClientStep, Submit, ReadForRetry, CommitRetry, SendTask, ExtractCallback,
        TakeTask, Claim, SkipClaim, SkipReceipt, ReadReceipt, CallProvider, ProviderAnswers,
        ProviderTimesOut, ProviderFails, RetryTask, Recognize, StartReceipt, ReceiptRead,
        ReceiptFails, SendExtraction, Finalize, FinalizeExisting, FinalizeInvalid, StartDraft,
        CreateDraft, CommitCorrection, AbortCorrection, Fault, CrashWorker, Redeliver,
        CrashRequest, Review, Confirm, RequestClarification, StartDecision, CommitDecision,
        RollbackDecision
    <2>2. ASSUME NEW i \in Items, NEW j \in Items, requests' = [requests EXCEPT ![j] = @ + 1]
          PROVE  requests'[i] = requests[i] \/ requests'[i] = requests[i] + 1
      BY <2>2 DEF TypeOK
    <2>3. QED
      BY <1>2, <2>1, <2>2
  <1>4. ASSUME NEW c \in Clients, client'[c] = client[c] \/ client'[c].step = "idle"
        PROVE  AskedFor(c)'
    <2>1. CASE client'[c].step = "idle"
      BY <2>1 DEF AskedFor
    <2>2. CASE client'[c] = client[c] /\ client[c].step # "idle"
      <3>1. client[c].item \in Items
        BY <2>2, OpenRequest
      <3>2. AskedFor(c)
        BY DEF TendedInv
      <3>3. QED
        BY <1>1, <1>3, <2>2, <3>1, <3>2 DEF AskedFor
    <2>3. QED
      BY <1>4, <2>1, <2>2
  <1>5. ASSUME NEW c \in Clients, ClientStep(c)
        PROVE  AskedFor(c)' /\ \A d \in Clients : d # c => client'[d] = client[d]
    <2>1. \A d \in Clients : d # c => client'[d] = client[d]
      BY <1>5 DEF ClientStep, Submit, ReadForRetry, CommitRetry, SendTask, TypeOK
    <2>2. ASSUME NEW i \in Items, NEW o \in Origins, Submit(c, i, o)
          PROVE  AskedFor(c)'
      <3>1. /\ client'[c].step = "committed" /\ client'[c].item = i
            /\ client'[c].kind = IF o.file THEN "receipt" ELSE "extract"
        BY <2>2 DEF Submit, TypeOK
      <3>2. item'[i].text = ~o.file /\ o.file \in BOOLEAN
        BY <2>2, SubmitRow
      <3>3. QED
        BY <3>1, <3>2 DEF AskedFor
    <2>3. ASSUME NEW i \in Items, NEW op, ReadForRetry(c, i, op)
          PROVE  AskedFor(c)'
      <3>1. client'[c].item = i /\ requests'[i] = requests[i] + 1
        BY <2>3 DEF ReadForRetry, TypeOK
      <3>2. requests'[i] > 0
        BY <1>2, <3>1
      <3>3. QED
        BY <3>1, <3>2 DEF AskedFor
    <2>4. CASE CommitRetry(c)
      <3>1. client[c] \in Request /\ client[c].item \in Items
        BY <2>4, OpenRequest DEF CommitRetry
      <3>2. client'[c].item = client[c].item
        BY <2>4, <3>1 DEF CommitRetry, TypeOK, Request
      <3>3. requests[client[c].item] > 0 /\ requests' = requests
        BY <2>4 DEF CommitRetry, TendedInv, AskedFor
      <3>4. requests'[client'[c].item] > 0
        BY <3>2, <3>3
      <3>5. QED
        BY <2>1, <3>4 DEF AskedFor
    <2>5. CASE SendTask(c)
      <3>1. client'[c].step = "idle"
        BY <2>5 DEF SendTask, TypeOK, Idle
      <3>2. QED
        BY <1>4, <2>1, <3>1
    <2>6. QED
      BY <1>5, <2>1, <2>2, <2>3, <2>4, <2>5 DEF ClientStep
  <1>6. ASSUME client' = client
        PROVE  \A c \in Clients : AskedFor(c)'
    BY <1>4, <1>6
  <1>7. ASSUME NEW c \in Clients, CrashRequest(c)
        PROVE  \A d \in Clients : AskedFor(d)'
    <2>1. \A d \in Clients : client'[d] = client[d] \/ client'[d].step = "idle"
      BY <1>7 DEF CrashRequest, TypeOK, Idle
    <2>2. QED
      BY <1>4, <2>1
  <1>8. \/ client' = client
        \/ \E c \in Clients : ClientStep(c) \/ CrashRequest(c)
    BY DEF Next, vars, ExtractCallback,
        TakeTask, Claim, SkipClaim, SkipReceipt, ReadReceipt, CallProvider, ProviderAnswers,
        ProviderTimesOut, ProviderFails, RetryTask, Recognize, StartReceipt, ReceiptRead,
        ReceiptFails, SendExtraction, Finalize, FinalizeExisting, FinalizeInvalid, StartDraft,
        CreateDraft, CommitCorrection, AbortCorrection, Fault, CrashWorker, Redeliver,
        Review, Confirm, RequestClarification, StartDecision, CommitDecision,
        RollbackDecision
  <1>9. QED
    BY <1>4, <1>5, <1>6, <1>7, <1>8

\* A client that wrote an item will send a task for it, or has sent it.
LEMMA ClientCare ==
  ASSUME TypeOK, TendedInv, NEW c \in Clients, ClientStep(c), NEW i \in Items
  PROVE  CaredFor(i)'
  <1>1. worker' = worker /\ CaredFor(i) /\ AskedFor(c) /\ requests[i] \in Nat
    BY DEF ClientStep, Submit, ReadForRetry, CommitRetry, SendTask, TendedInv, TypeOK
  <1>2. \A steps : At(i, steps) => At(i, steps)'
    BY <1>1, AtSame
  <1>3. \A d \in Clients : d # c => client'[d] = client[d]
    BY DEF ClientStep, Submit, ReadForRetry, CommitRetry, SendTask, TypeOK
  <1>4. ASSUME queue' = queue
        PROVE  \A kinds : Queued(i, kinds) => Queued(i, kinds)'
    BY <1>4 DEF Queued
  <1>5. ASSUME NEW j \in Items, NEW o \in Origins, Submit(c, j, o)
        PROVE  CaredFor(i)'
    <2>1. CASE i = j
      <3>1. client'[c].step # "idle" /\ client'[c].item = i
        BY <1>5, <2>1 DEF Submit, TypeOK
      <3>2. Asked(i)'
        BY <3>1 DEF Asked
      <3>3. item'[i].status = "queued"
        BY <1>5, <2>1, SubmitRow
      <3>4. QED
        BY <3>2, <3>3, CareAsked
    <2>2. CASE i # j
      <3>1. item'[i] = item[i]
        BY <1>5, <2>2, SubmitRow
      <3>2. client[c].step = "idle" /\ queue' = queue /\ requests' = requests
        BY <1>5 DEF Submit, Idle
      <3>3. Asked(i) => Asked(i)'
        BY <1>3, <3>2, AskedKept
      <3>4. QED
        BY <1>1, <1>2, <1>4, <3>1, <3>2, <3>3, CareKept
    <2>3. QED
      BY <2>1, <2>2
  <1>6. ASSUME NEW j \in Items, NEW op, ReadForRetry(c, j, op)
        PROVE  CaredFor(i)'
    <2>1. /\ item' = item /\ queue' = queue /\ client[c].step = "idle"
          /\ requests'[i] = 0 => requests[i] = 0
      BY <1>1, <1>6 DEF ReadForRetry, Idle, TypeOK
    <2>2. Asked(i) => Asked(i)'
      BY <1>3, <2>1, AskedKept
    <2>3. QED
      BY <1>1, <1>2, <1>4, <2>1, <2>2, CareKept
  <1>7. CASE CommitRetry(c)
    <2> DEFINE j == client[c].item
    <2>1. /\ j \in Items /\ OthersKept(j) /\ item'[j].status \in {"queued", item[j].status}
      BY <1>7, RetryRow
    <2>2. queue' = queue /\ requests' = requests
      BY <1>7 DEF CommitRetry
    <2>3. client[c] \in Request
      BY <1>7, OpenRequest DEF CommitRetry
    <2>4. client'[c].step = "committed" /\ client'[c].item = j
      BY <1>7, <2>3 DEF CommitRetry, TypeOK, Request
    <2>5. CASE i = j
      <3>1. Asked(i)'
        BY <2>4, <2>5 DEF Asked
      <3>2. CASE item'[i].status = "processing"
        <4>1. item[i].status = "processing"
          BY <2>1, <2>5, <3>2
        <4>2. QED
          BY <1>1, <1>2, <3>2, <4>1 DEF CaredFor, InProgress, WaitsForExtraction, WaitsForText
      <3>3. QED
        BY <3>1, <3>2, CareAsked
    <2>6. CASE i # j
      <3>1. Asked(i) => Asked(i)'
        BY <1>3, <2>6, AskedKept
      <3>2. item'[i] = item[i]
        BY <2>1, <2>6 DEF OthersKept
      <3>3. QED
        BY <1>1, <1>2, <1>4, <2>2, <3>1, <3>2, CareKept
    <2>7. QED
      BY <2>5, <2>6
  <1>8. CASE SendTask(c)
    <2> DEFINE j == client[c].item
               t == FirstTry(j, client[c].kind)
    <2>1. client[c] \in Request /\ j \in Items /\ client[c].kind \in {"extract", "receipt"}
      BY <1>8, OpenRequest DEF SendTask, Request
    <2>2. t \in Tasks /\ t.item = j /\ t.kind = client[c].kind
      BY <2>1, FirstTryType DEF FirstTry
    <2>3. queue' = Sent(queue, t) /\ item' = item /\ requests' = requests
      BY <1>8 DEF SendTask
    <2>4. client[c].kind = "extract" => item[j].text \/ requests[j] > 0
      BY <1>1, <1>8 DEF SendTask, AskedFor
    <2> HIDE DEF t
    <2>5. queue \in [Tasks -> Nat]
      BY DEF TypeOK
    <2>6. \A kinds : Queued(i, kinds) => Queued(i, kinds)'
      BY <2>2, <2>3, QueuedKept
    <2>7. CASE i = j
      <3>1. \A kinds : t.kind \in kinds => Queued(i, kinds)'
        <4>1. queue'[t] > 0
          BY <2>2, <2>3, <2>5 DEF Sent
        <4>2. QED
          BY <2>2, <2>7, <4>1 DEF Queued
      <3>2. InProgress(i)'
        BY <1>1, <1>2, <2>3 DEF CaredFor, InProgress
      <3>3. Queued(i, {"extract", "receipt"})'
        BY <2>1, <2>2, <3>1
      <3>4. WaitsForExtraction(i)'
        BY <3>3 DEF WaitsForExtraction
      <3>5. ASSUME ~item'[i].text, requests'[i] = 0
            PROVE  Queued(i, {"receipt"})'
        <4>1. client[c].kind = "receipt"
          BY <1>1, <2>1, <2>3, <2>4, <2>7, <3>5
        <4>2. QED
          BY <2>2, <3>1, <4>1
      <3>6. WaitsForText(i)'
        BY <3>5 DEF WaitsForText
      <3>7. QED
        BY <3>2, <3>4, <3>6 DEF CaredFor
    <2>8. CASE i # j
      <3>1. Asked(i) => Asked(i)'
        BY <1>3, <2>8, AskedKept
      <3>2. QED
        BY <1>1, <1>2, <2>3, <2>6, <3>1, CareKept
    <2>9. QED
      BY <2>7, <2>8
  <1>9. QED
    BY <1>5, <1>6, <1>7, <1>8 DEF ClientStep

\* A worker that takes a task of an item that waits has the item next.
LEMMA TakeTaskCare ==
  ASSUME TypeOK, TendedInv, NEW w \in Workers, TakeTask(w), NEW i \in Items
  PROVE  CaredFor(i)'
  <1>1. PICK t \in Tasks :
          Claim(w, t) \/ SkipClaim(w, t) \/ SkipReceipt(w, t) \/ ReadReceipt(w, t)
    BY DEF TakeTask
  <1>2. /\ client' = client /\ requests' = requests
        /\ worker[w].step = "idle"
        /\ CaredFor(i)
    BY <1>1 DEF Claim, SkipClaim, SkipReceipt, ReadReceipt, Take, TendedInv, Idle
  <1>3. \A v \in Workers : v # w => worker'[v] = worker[v]
    BY <1>1 DEF Claim, SkipClaim, SkipReceipt, ReadReceipt, TypeOK
  <1>4. t.item \in Items /\ t.kind \in {"extract", "receipt"} /\ queue[t] > 0
    BY <1>1 DEF Claim, SkipClaim, SkipReceipt, ReadReceipt, Take, Tasks
  <1>5. /\ At(i, {"provider", "valid", "invalid", "creating", "correcting", "ocr"})
             => At(i, {"provider", "valid", "invalid", "creating", "correcting", "ocr"})'
        /\ At(i, {"start", "restart", "ocr", "send"}) => At(i, {"start", "restart", "ocr", "send"})'
        /\ At(i, {"start", "restart", "ocr"}) => At(i, {"start", "restart", "ocr"})'
    BY <1>2, <1>3, AtKept
  <1>6. Asked(i) => Asked(i)'
    BY <1>2 DEF Asked
  <1> DEFINE e == FirstTry(t.item, "extract")
  <1>7. e \in Tasks /\ e.item = t.item /\ e.kind = "extract"
    BY <1>4, FirstTryType DEF FirstTry
  <1>8. \/ queue' = [queue EXCEPT ![t] = @ - 1]
        \/ queue' = Sent([queue EXCEPT ![t] = @ - 1], e)
    BY <1>1 DEF Claim, SkipClaim, SkipReceipt, ReadReceipt, Take
  <1>9. SkipReceipt(w, t) /\ item[t.item].status = "queued" =>
          queue' = Sent([queue EXCEPT ![t] = @ - 1], e)
    BY DEF SkipReceipt
  <1> HIDE DEF e
  <1>10. \A kinds : t.item # i \/ t.kind \notin kinds => (Queued(i, kinds) => Queued(i, kinds)')
    BY <1>4, <1>7, <1>8, QueuedKept
  <1>11. CASE t.item # i
    <2>1. item'[i] = item[i]
      <3>1. CASE Claim(w, t)
        <4>1. Write(t.item, "processing", "none")
          BY <3>1 DEF Claim
        <4>2. QED
          BY <1>4, <1>11, <4>1, WriteRow DEF OthersKept
      <3>2. CASE ~Claim(w, t)
        BY <1>1, <3>2 DEF SkipClaim, SkipReceipt, ReadReceipt
      <3>3. QED
        BY <3>1, <3>2
    <2>2. QED
      BY <1>2, <1>5, <1>6, <1>10, <1>11, <2>1, CareKept
  <1>12. CASE t.item = i /\ Claim(w, t)
    <2>1. item'[i].status = "processing"
      BY <1>4, <1>12, WriteRow DEF Claim
    <2>2. worker'[w].step = "provider" /\ worker'[w].task = t
      BY <1>12 DEF Claim, TypeOK
    <2>3. At(i, {"provider", "valid", "invalid", "creating", "correcting", "ocr"})'
      BY <1>12, <2>2 DEF At
    <2>4. QED
      BY <2>1, <2>3 DEF CaredFor, InProgress, WaitsForExtraction, WaitsForText
  <1>13. CASE t.item = i /\ SkipClaim(w, t)
    <2>1. item' = item /\ ~Claimable(i) /\ t.kind = "extract"
      BY <1>13 DEF SkipClaim
    <2>2. InProgress(i)'
      BY <1>2, <1>5, <2>1 DEF CaredFor, InProgress
    <2>3. WaitsForExtraction(i)'
      BY <2>1 DEF WaitsForExtraction, Claimable
    <2>4. Queued(i, {"receipt"}) => Queued(i, {"receipt"})'
      BY <1>10, <2>1
    <2>5. WaitsForText(i)'
      BY <1>2, <1>5, <1>6, <2>1, <2>4 DEF CaredFor, WaitsForText
    <2>6. QED
      BY <2>2, <2>3, <2>5 DEF CaredFor
  <1>14. CASE t.item = i /\ SkipReceipt(w, t)
    <2>1. item' = item /\ item[i].text
      BY <1>14 DEF SkipReceipt, AlreadyRead
    <2>2. InProgress(i)'
      BY <1>2, <1>5, <2>1 DEF CaredFor, InProgress
    <2>3. item[i].status = "queued" => Queued(i, {"extract", "receipt"})'
      <3>1. SUFFICES ASSUME item[i].status = "queued"
                     PROVE  Queued(e.item, {"extract", "receipt"})'
        BY <1>7, <1>14
      <3>2. queue' = Sent([queue EXCEPT ![t] = @ - 1], e)
        BY <1>9, <1>14, <3>1
      <3>3. QED
        BY <1>4, <1>7, <3>2, QueuedNow
    <2>4. WaitsForExtraction(i)'
      BY <2>1, <2>3 DEF WaitsForExtraction
    <2>5. WaitsForText(i)'
      BY <2>1 DEF WaitsForText
    <2>6. QED
      BY <2>2, <2>4, <2>5 DEF CaredFor
  <1>15. CASE t.item = i /\ ReadReceipt(w, t)
    <2>1. item' = item
      BY <1>15 DEF ReadReceipt
    <2>2. InProgress(i)'
      BY <1>2, <1>5, <2>1 DEF CaredFor, InProgress
    <2>3. worker'[w].step \in {"start", "restart"} /\ worker'[w].task = t
      BY <1>15 DEF ReadReceipt, TypeOK
    <2>4. At(i, {"start", "restart", "ocr", "send"})' /\ At(i, {"start", "restart", "ocr"})'
      BY <1>15, <2>3 DEF At
    <2>5. QED
      BY <2>2, <2>4 DEF CaredFor, WaitsForExtraction, WaitsForText
  <1>16. QED
    BY <1>1, <1>11, <1>12, <1>13, <1>14, <1>15

\* A job goes on, or ends and leaves an item that needs nobody, or sends its task.
LEMMA JobCare ==
  ASSUME TypeOK, TendedInv, Reviewers = {}, NEW w \in Workers, NEW i \in Items,
         CallProvider(w) \/ Finalize(w) \/ Recognize(w) \/ RetryTask(w)
  PROVE  CaredFor(i)'
  <1> DEFINE t == worker[w].task
             j == t.item
  <1>1. worker[w].step # "idle"
    BY DEF CallProvider, ProviderAnswers, ProviderTimesOut, ProviderFails, RetryTask,
        Recognize, StartReceipt, ReceiptRead, ReceiptFails, SendExtraction, Finalize,
        FinalizeExisting, FinalizeInvalid, StartDraft, CreateDraft, CommitCorrection,
        AbortCorrection, Running
  <1>2. t \in Tasks /\ j \in Items
    BY <1>1, RunningJob
  <1>3. client' = client /\ requests' = requests
    BY DEF CallProvider, ProviderAnswers, ProviderTimesOut, ProviderFails, RetryTask,
        Recognize, StartReceipt, ReceiptRead, ReceiptFails, SendExtraction, Finalize,
        FinalizeExisting, FinalizeInvalid, StartDraft, CreateDraft, CommitCorrection,
        AbortCorrection
  <1>4. \A v \in Workers : v # w => worker'[v] = worker[v]
    BY DEF CallProvider, ProviderAnswers, ProviderTimesOut, ProviderFails, RetryTask,
        Recognize, StartReceipt, ReceiptRead, ReceiptFails, SendExtraction, Finalize,
        FinalizeExisting, FinalizeInvalid, StartDraft, CreateDraft, CommitCorrection,
        AbortCorrection, Goto, Ack, TypeOK
  <1>5. PICK u \in Tasks : queue' = queue \/ queue' = Sent(queue, u)
    <2>1. CASE RetryTask(w)
      <3>1. queue' = queue \/ (t.try < MaxRetries /\ queue' = Sent(queue, [t EXCEPT !.try = @ + 1]))
        BY <2>1 DEF RetryTask
      <3>2. QED
        BY <1>2, <3>1, NextTryType
    <2>2. CASE SendExtraction(w)
      <3>1. FirstTry(j, "extract") \in Tasks
        BY <1>2, FirstTryType
      <3>2. QED
        BY <2>2, <3>1 DEF SendExtraction
    <2>3. CASE ~RetryTask(w) /\ ~SendExtraction(w)
      <3>1. queue' = queue
        BY <2>3 DEF CallProvider, ProviderAnswers, ProviderTimesOut, ProviderFails,
          Recognize, StartReceipt, ReceiptRead, ReceiptFails, Finalize,
          FinalizeExisting, FinalizeInvalid, StartDraft, CreateDraft, CommitCorrection,
          AbortCorrection
      <3>2. QED
        BY <1>2, <3>1
    <2>4. QED
      BY <2>1, <2>2, <2>3
  <1>6. \A kinds : Queued(i, kinds) => Queued(i, kinds)'
    BY <1>5, QueuedKept
  <1>7. Asked(i) => Asked(i)'
    BY <1>3 DEF Asked
  <1>8. CaredFor(i)
    BY DEF TendedInv
  <1>9. ASSUME NEW steps, At(i, steps), worker[w].step \notin steps \/ j # i
        PROVE  At(i, steps)'
    BY <1>4, <1>9, AtKept
  <1>10. ASSUME \/ \E s, e : Write(j, s, e)
                \/ \E s : item' = [item EXCEPT ![j].status = s]
                \/ item' = [item EXCEPT ![j].status = "queued", ![j].error = "none",
                                        ![j].text = TRUE]
                \/ item' = item
         PROVE  j # i => item'[i] = item[i]
    <2>1. ASSUME NEW s, NEW e, Write(j, s, e)
          PROVE  OthersKept(j)
      BY <1>2, <2>1, WriteRow
    <2>2. ASSUME NEW s, item' = [item EXCEPT ![j].status = s]
          PROVE  OthersKept(j)
      BY <1>2, <2>2, StatusRow
    <2>3. ASSUME item' = [item EXCEPT ![j].status = "queued", ![j].error = "none", ![j].text = TRUE]
          PROVE  OthersKept(j)
      BY <1>2, <2>3, TextRow
    <2>4. QED
      BY <1>10, <2>1, <2>2, <2>3 DEF OthersKept
  <1>11. CASE j # i
    <2>1. item'[i] = item[i]
      BY <1>10, <1>11 DEF CallProvider, ProviderAnswers, ProviderTimesOut, ProviderFails, RetryTask,
        Recognize, StartReceipt, ReceiptRead, ReceiptFails, SendExtraction, Finalize,
        FinalizeExisting, FinalizeInvalid, StartDraft, CreateDraft, CommitCorrection,
        AbortCorrection
    <2>2. QED
      BY <1>3, <1>6, <1>7, <1>8, <1>9, <1>11, <2>1, CareKept
  <1>12. ASSUME j = i, ProviderAnswers(w) \/ StartDraft(w)
         PROVE  CaredFor(i)'
    <2>1. PICK s \in {"valid", "invalid", "creating", "correcting"} : Goto(w, s)
      BY <1>12 DEF ProviderAnswers, StartDraft
    <2>2. worker'[w].step = s /\ worker'[w].task = t
      BY <1>1, <2>1, GotoRuns, RunsOne
    <2>3. At(i, {"provider", "valid", "invalid", "creating", "correcting", "ocr"})'
      BY <1>12, <2>2 DEF At
    <2>4. worker[w].step \in {"provider", "valid"} /\ item' = item
      BY <1>12 DEF ProviderAnswers, StartDraft, Running
    <2>5. At(i, {"start", "restart", "ocr", "send"}) => At(i, {"start", "restart", "ocr", "send"})'
      BY <1>9, <2>4
    <2>6. At(i, {"start", "restart", "ocr"}) => At(i, {"start", "restart", "ocr"})'
      BY <1>9, <2>4
    <2>7. QED
      BY <1>3, <1>6, <1>7, <1>8, <2>3, <2>4, <2>5, <2>6, CareKept
  <1>13. ASSUME j = i, ProviderTimesOut(w)
         PROVE  CaredFor(i)'
    <2>1. CASE Write(i, "queued", "transient")
      BY <2>1, WriteRow, CareOver
    <2>2. CASE ~Write(i, "queued", "transient")
      <3>1. item' = item /\ item[i].status # "processing" /\ worker[w].step = "provider"
        BY <1>13, <2>2 DEF ProviderTimesOut, Running
      <3>2. InProgress(i)'
        BY <3>1 DEF InProgress
      <3>3. At(i, {"start", "restart", "ocr", "send"}) => At(i, {"start", "restart", "ocr", "send"})'
        BY <1>9, <3>1
      <3>4. At(i, {"start", "restart", "ocr"}) => At(i, {"start", "restart", "ocr"})'
        BY <1>9, <3>1
      <3>5. QED
        BY <1>3, <1>6, <1>7, <1>8, <3>1, <3>2, <3>3, <3>4
           DEF CaredFor, WaitsForExtraction, WaitsForText
    <2>3. QED
      BY <2>1, <2>2
  <1>14. ASSUME j = i,
                \/ ProviderFails(w) \/ FinalizeInvalid(w) \/ FinalizeExisting(w)
                \/ CreateDraft(w) \/ CommitCorrection(w) \/ ReceiptFails(w)
         PROVE  CaredFor(i)'
    <2>1. \/ \E e \in {"transient", "permanent"} : Write(i, "failed", e)
          \/ item' = [item EXCEPT ![i].status = "review_required"]
      BY <1>14 DEF ProviderFails, FinalizeInvalid, FinalizeExisting, CreateDraft,
                   CommitCorrection, ReceiptFails
    <2>2. item'[i].status \in {"failed", "review_required"}
      BY <2>1, WriteRow, StatusRow
    <2>3. QED
      BY <2>2, CareOver
  <1>15. ~AbortCorrection(w)
    BY DEF AbortCorrection, DraftFree
  <1>16. ASSUME j = i, RetryTask(w)
         PROVE  CaredFor(i)'
    <2>1. item' = item /\ worker[w].step = "raise"
      BY <1>16 DEF RetryTask, Running
    <2>2. QED
      BY <1>3, <1>6, <1>7, <1>8, <1>9, <2>1, CareKept
  <1>17. ASSUME j = i, StartReceipt(w)
         PROVE  CaredFor(i)'
    <2>1. Goto(w, "ocr")
      BY <1>17 DEF StartReceipt
    <2>2. worker'[w].step = "ocr" /\ worker'[w].task = t
      BY <1>1, <2>1, GotoRuns, RunsOne
    <2>3. /\ At(i, {"provider", "valid", "invalid", "creating", "correcting", "ocr"})'
          /\ At(i, {"start", "restart", "ocr", "send"})' /\ At(i, {"start", "restart", "ocr"})'
      BY <1>17, <2>2 DEF At
    <2>4. QED
      BY <2>3 DEF CaredFor, InProgress, WaitsForExtraction, WaitsForText
  <1>18. ASSUME j = i, ReceiptRead(w)
         PROVE  CaredFor(i)'
    <2>1. /\ Goto(w, "send")
          /\ item' = [item EXCEPT ![i].status = "queued", ![i].error = "none", ![i].text = TRUE]
      BY <1>18 DEF ReceiptRead
    <2>2. worker'[w].step = "send" /\ worker'[w].task = t
      BY <1>1, <2>1, GotoRuns, RunsOne
    <2>3. At(i, {"start", "restart", "ocr", "send"})'
      BY <1>18, <2>2 DEF At
    <2>4. item'[i].status = "queued" /\ item'[i].text
      BY <2>1, TextRow
    <2>5. QED
      BY <2>3, <2>4 DEF CaredFor, InProgress, WaitsForExtraction, WaitsForText
  <1>19. ASSUME j = i, SendExtraction(w)
         PROVE  CaredFor(i)'
    <2> DEFINE e == FirstTry(i, "extract")
    <2>1. item' = item /\ worker[w].step = "send" /\ queue' = Sent(queue, e)
      BY <1>19 DEF SendExtraction, Running
    <2>2. e \in Tasks /\ e.item = i /\ e.kind = "extract"
      BY FirstTryType DEF FirstTry
    <2> HIDE DEF e
    <2>3. queue'[e] > 0
      BY <2>1, <2>2 DEF Sent, TypeOK
    <2>4. Queued(i, {"extract", "receipt"})'
      BY <2>2, <2>3 DEF Queued
    <2>5. /\ At(i, {"provider", "valid", "invalid", "creating", "correcting", "ocr"})
               => At(i, {"provider", "valid", "invalid", "creating", "correcting", "ocr"})'
          /\ At(i, {"start", "restart", "ocr"}) => At(i, {"start", "restart", "ocr"})'
      BY <1>9, <2>1
    <2>6. InProgress(i)'
      BY <1>8, <2>1, <2>5 DEF CaredFor, InProgress
    <2>7. WaitsForText(i)'
      BY <1>3, <1>6, <1>7, <1>8, <2>1, <2>5 DEF CaredFor, WaitsForText
    <2>8. QED
      BY <2>4, <2>6, <2>7 DEF CaredFor, WaitsForExtraction
  <1>20. QED
    BY <1>11, <1>12, <1>13, <1>14, <1>15, <1>16, <1>17, <1>18, <1>19
       DEF CallProvider, Finalize, Recognize

\* Every step leaves every item with somebody who looks after it.
LEMMA TendedStep ==
  ASSUME Reviewers = {}, MaxFaults = 0
  PROVE  TypeOK /\ TendedInv /\ [Next]_vars => TendedInv'
  <1> SUFFICES ASSUME TypeOK, TendedInv, [Next]_vars PROVE TendedInv'
    OBVIOUS
  <1>1. AbsentIsBlank' /\ \A c \in Clients : AskedFor(c)'
    BY TextStep, AskedForStep DEF TendedInv
  <1>2. ASSUME NEW i \in Items
        PROVE  CaredFor(i)'
    <2>1. CaredFor(i)
      BY DEF TendedInv
    <2>2. ASSUME item' = item, worker' = worker, client' = client, requests' = requests,
                 \A kinds : Queued(i, kinds) => Queued(i, kinds)'
          PROVE  CaredFor(i)'
      <3>1. Asked(i) => Asked(i)'
        BY <2>2 DEF Asked
      <3>2. \A steps : At(i, steps) => At(i, steps)'
        BY <2>2, AtSame
      <3>3. QED
        BY <2>1, <2>2, <3>1, <3>2, CareKept
    <2>3. CASE UNCHANGED vars \/ Review
      <3>1. /\ item' = item /\ worker' = worker /\ client' = client /\ requests' = requests
            /\ queue' = queue
        BY <2>3 DEF vars, Review, Confirm, RequestClarification
      <3>2. \A kinds : Queued(i, kinds) => Queued(i, kinds)'
        BY <3>1 DEF Queued
      <3>3. QED
        BY <2>2, <3>1, <3>2
    <2>4. ~Fault
      <3>1. ~(faults < MaxFaults)
        BY DEF TypeOK
      <3>2. QED
        BY <3>1 DEF Fault, CrashWorker, CrashRequest, Redeliver
    <2>5. ASSUME NEW j \in Items, ExtractCallback(j)
          PROVE  CaredFor(i)'
      <3> DEFINE t == FirstTry(j, "extract")
      <3>1. t \in Tasks /\ t.item = j
        BY FirstTryType DEF FirstTry
      <3>2. /\ item' = item /\ worker' = worker /\ client' = client
            /\ queue' = Sent(queue, t)
            /\ requests' = [requests EXCEPT ![j] = @ + 1]
        BY <2>5 DEF ExtractCallback
      <3> HIDE DEF t
      <3>3. \A kinds : Queued(i, kinds) => Queued(i, kinds)'
        BY <3>1, <3>2, QueuedKept
      <3>4. requests'[i] = 0 => requests[i] = 0
        BY <3>2 DEF TypeOK
      <3>5. Asked(i) => Asked(i)'
        BY <3>2 DEF Asked
      <3>6. \A steps : At(i, steps) => At(i, steps)'
        BY <3>2, AtSame
      <3>7. QED
        BY <2>1, <3>2, <3>3, <3>4, <3>5, <3>6, CareKept
    <2>6. QED
      BY <2>3, <2>4, <2>5, ClientCare, TakeTaskCare, JobCare DEF Next
  <1>3. QED
    BY <1>1, <1>2 DEF TendedInv

\* Nothing waits at first.
LEMMA InitTended == Init => TendedInv
  <1> SUFFICES ASSUME Init PROVE TendedInv
    OBVIOUS
  <1>1. \A i \in Items : item[i].status = "absent" /\ ~item[i].text
    BY DEF Init
  <1>2. \A i \in Items : CaredFor(i)
    BY <1>1 DEF CaredFor, InProgress, WaitsForExtraction, WaitsForText
  <1>3. \A c \in Clients : AskedFor(c)
    BY DEF Init, Idle, AskedFor
  <1>4. QED
    BY <1>1, <1>2, <1>3 DEF TendedInv, AbsentIsBlank

\* As long as nothing crashes and no reviewer interferes, no item that waits or
\* is in progress is forgotten: a task for it is in the broker or with a worker,
\* or a request is about to send one.
THEOREM ItemsAreTended ==
  ASSUME Reviewers = {}, MaxFaults = 0
  PROVE  Spec => []Tended
  <1>1. TypeOK /\ TendedInv => Tended
    <2> SUFFICES ASSUME TypeOK, TendedInv, NEW i \in Items,
                        \/ /\ item[i].status = "queued" /\ item[i].error = "none"
                           /\ item[i].text \/ requests[i] = 0
                        \/ item[i].status = "processing"
                 PROVE  TaskFor(i)
      BY DEF Tended
    <2>1. \/ At(i, {"provider", "valid", "invalid", "creating", "correcting", "ocr"})
          \/ At(i, {"start", "restart", "ocr", "send"}) \/ At(i, {"start", "restart", "ocr"})
          \/ Queued(i, {"extract", "receipt"}) \/ Queued(i, {"receipt"})
          \/ Asked(i)
      BY DEF TendedInv, CaredFor, InProgress, WaitsForExtraction, WaitsForText
    <2>2. \A steps : At(i, steps) /\ "idle" \notin steps => TaskFor(i)
      BY DEF At, TaskFor, Idle
    <2>3. \A kinds : Queued(i, kinds) => TaskFor(i)
      BY DEF Queued, TaskFor
    <2>4. Asked(i) => TaskFor(i)
      BY DEF Asked, TaskFor, Idle
    <2>5. QED
      BY <2>1, <2>2, <2>3, <2>4
  <1>2. TypeOK /\ TendedInv /\ [Next]_vars => TendedInv'
    BY TendedStep
  <1>3. QED
    BY <1>1, <1>2, InitTended, TypeCorrect, PTL DEF Spec
=============================================================================
