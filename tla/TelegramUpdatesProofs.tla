----------------------- MODULE TelegramUpdatesProofs -----------------------
(***************************************************************************)
(* Theorems about TelegramUpdates for any number of updates, whatever they *)
(* say, any documents, drafts and requests, and any number of failures.    *)
(***************************************************************************)
EXTENDS TelegramUpdates, DocumentIntakeProofs, TLAPS

(***************************************************************************)
(* The inductive invariant.                                                *)
(***************************************************************************)

\* TypeOK, but for effects, which UpdateOnce bounds.
ChatTypeOK ==
  /\ DocumentTypeOK
  /\ message \in Conversations /\ faults \in 0..MaxFaults
  /\ confirmed \in 0..N /\ saved \in 0..N
  /\ worker \in {Down} \cup Polling \cup Waiting
  /\ webhook \in [Handlers -> {Idle} \cup Handling]
  /\ update \in [Updates -> {"absent", "received", "processed", "validation_failed",
                             "dispatched", "attachment_failed"}]
  /\ edit \in Drafts \cup {NoDraft}
  /\ draft \in [Drafts -> {"needs_clarification", "ready_for_review", "decided"}]
  /\ texts \subseteq Contents /\ extractions \subseteq texts
  /\ corrections \subseteq Updates /\ failed \subseteq Updates
  /\ early \subseteq IF AnswersEarly THEN Updates ELSE {}

\* The worker posts within its batch, and waits for the request that has the update.
WorkerInBatch ==
  /\ worker.step = "deliver" => worker.next <= worker.last
  /\ worker.step = "wait" =>
       /\ worker.next < worker.last
       /\ webhook[worker.for].step # "idle"
       /\ webhook[worker.for].update = worker.next + 1

\* What a request that is at a step has found in the update.
FitsMessage(h) ==
  /\ webhook[h].step = "attach" => Says(h, "photo")
  /\ webhook[h].step \in {"edit", "edited"} => Says(h, "text")
  /\ webhook[h].step = "confirm" => Says(h, "confirm")
  /\ webhook[h].step = "dispatch" /\ Says(h, "text") =>
       message[webhook[h].update].content \in texts
  /\ webhook[h].step # "idle" /\ webhook[h].draft # NoDraft => ~Says(h, "photo")

\* The row of an update appears with the last commit of the request, or with the
\* first one if the update is a receipt or a new text.
FitsRow(h) ==
  /\ \/ webhook[h].step \in {"edit", "edited", "confirm"}
     \/ webhook[h].step = "commit" /\ ~Says(h, "photo")
     => update[webhook[h].update] = "absent"
  /\ webhook[h].step \in {"dispatch", "done"} => update[webhook[h].update] # "absent"

OneHolder == \A h, k \in Handlers, u \in Updates :
  HoldsUpdate(h, u) /\ HoldsUpdate(k, u) => h = k

\* An update has its effect with its row.
Counted ==
  /\ effects \in [Updates -> 0..1]
  /\ \A u \in Updates : update[u] = "absent" => effects[u] = 0

SettledTo(n) == \A v \in 1..n : Settled(v)

\* How far everybody's offset may be.
Ordered ==
  /\ SettledTo(confirmed) /\ SettledTo(saved)
  /\ worker.step = "poll" => SettledTo(worker.offset)
  /\ worker.step \in {"deliver", "wait"} => SettledTo(worker.next)
  /\ \A h \in Handlers : webhook[h].step # "idle" => SettledTo(webhook[h].update - 1)

\* A request works on a correction whose row is not written.
Correcting(h, u) ==
  /\ webhook[h].step # "idle" /\ webhook[h].update = u
  /\ \/ webhook[h].step \in {"edit", "edited"}
     \/ webhook[h].step = "commit" /\ webhook[h].status \in {"processed", "validation_failed"}

\* A correction is recorded as one, or in the hands of a request.
Corrected == \A u \in corrections \ failed :
  /\ message[u].kind = "text"
  /\ \/ update[u] \in {"processed", "validation_failed"}
     \/ update[u] = "absent" /\ \E h \in Handlers : Correcting(h, u)

Requests == \A h \in Handlers : FitsMessage(h) /\ FitsRow(h)

UInv == ChatTypeOK /\ WorkerInBatch /\ Requests /\ OneHolder /\ Counted /\ Ordered /\ Corrected

---------------------------------------------------------------------------
(* Types *)

\* What an update says.
LEMMA MessageTypes ==
  ASSUME ChatTypeOK, NEW u \in Updates
  PROVE  /\ message[u].kind \in {"text", "photo", "edit", "cancel", "confirm", "extract",
                                "other"}
         /\ message[u].kind \in {"text", "photo", "extract"} => message[u].content \in Contents
         /\ message[u].kind \in {"edit", "cancel", "confirm"} => message[u].draft \in Drafts
  <1>1. message[u] \in Messages
    BY ConstantsAssumption DEF ChatTypeOK
  <1>2. QED
    BY <1>1 DEF Messages

\* A request of the webhook that is not idle has a record of an update.
LEMMA HandlingTypes ==
  ASSUME ChatTypeOK, NEW h \in Handlers, webhook[h].step # "idle"
  PROVE  /\ webhook[h] \in Handling
         /\ webhook[h].update \in Updates
         /\ webhook[h].draft \in Drafts \cup {NoDraft}
         /\ webhook[h].status \in {"processed", "validation_failed", "dispatched",
                                   "attachment_failed"}
  <1>1. webhook[h] \in Handling
    BY DEF ChatTypeOK, Idle
  <1>2. QED
    BY <1>1 DEF Handling

\* A request goes to a step, with a draft and a status for the row.
Goes(h, step, d, status) ==
  /\ \A k \in Handlers \ {h} : webhook'[k] = webhook[k]
  /\ webhook' \in [Handlers -> {Idle} \cup Handling]
  /\ webhook'[h].step = step
  /\ webhook'[h].update = webhook[h].update
  /\ webhook'[h].draft = d
  /\ webhook'[h].status = status

\* The forms in which the actions say so.
LEMMA GoesForms ==
  ASSUME ChatTypeOK, NEW h \in Handlers, webhook[h].step # "idle",
         NEW s \in {"posted", "edit", "edited", "confirm", "attach", "commit", "dispatch", "done"},
         NEW d \in Drafts \cup {NoDraft},
         NEW t \in {"processed", "validation_failed", "dispatched", "attachment_failed"}
  PROVE  /\ webhook' = [webhook EXCEPT ![h].step = s] =>
              Goes(h, s, webhook[h].draft, webhook[h].status)
         /\ webhook' = [webhook EXCEPT ![h].step = s, ![h].draft = d] =>
              Goes(h, s, d, webhook[h].status)
         /\ webhook' = [webhook EXCEPT ![h].step = s, ![h].status = t] =>
              Goes(h, s, webhook[h].draft, t)
         /\ webhook' = [webhook EXCEPT ![h].step = s, ![h].draft = d, ![h].status = t] =>
              Goes(h, s, d, t)
  <1>1. webhook[h] \in Handling
    BY HandlingTypes
  <1>2. ASSUME NEW r \in Handling, webhook' = [webhook EXCEPT ![h] = r],
               r.update = webhook[h].update
        PROVE  Goes(h, r.step, r.draft, r.status)
    BY <1>2 DEF ChatTypeOK, Goes
  <1>3. ASSUME webhook' = [webhook EXCEPT ![h].step = s]
        PROVE  Goes(h, s, webhook[h].draft, webhook[h].status)
    <2>1. PICK r \in Handling : r = [webhook[h] EXCEPT !.step = s]
      BY <1>1 DEF Handling
    <2>2. webhook' = [webhook EXCEPT ![h] = r]
      BY <1>3, <2>1
    <2>3. r.step = s /\ r.draft = webhook[h].draft /\ r.status = webhook[h].status /\ r.update = webhook[h].update
      BY <1>1, <2>1 DEF Handling
    <2>4. QED
      BY <1>2, <2>2, <2>3
  <1>4. ASSUME webhook' = [webhook EXCEPT ![h].step = s, ![h].draft = d]
        PROVE  Goes(h, s, d, webhook[h].status)
    <2>1. PICK r \in Handling : r = [webhook[h] EXCEPT !.step = s, !.draft = d]
      BY <1>1 DEF Handling
    <2>2. webhook' = [webhook EXCEPT ![h] = r]
      BY <1>4, <2>1
    <2>3. r.step = s /\ r.draft = d /\ r.status = webhook[h].status /\ r.update = webhook[h].update
      BY <1>1, <2>1 DEF Handling
    <2>4. QED
      BY <1>2, <2>2, <2>3
  <1>5. ASSUME webhook' = [webhook EXCEPT ![h].step = s, ![h].status = t]
        PROVE  Goes(h, s, webhook[h].draft, t)
    <2>1. PICK r \in Handling : r = [webhook[h] EXCEPT !.step = s, !.status = t]
      BY <1>1 DEF Handling
    <2>2. webhook' = [webhook EXCEPT ![h] = r]
      BY <1>5, <2>1
    <2>3. r.step = s /\ r.draft = webhook[h].draft /\ r.status = t /\ r.update = webhook[h].update
      BY <1>1, <2>1 DEF Handling
    <2>4. QED
      BY <1>2, <2>2, <2>3
  <1>6. ASSUME webhook' = [webhook EXCEPT ![h].step = s, ![h].draft = d, ![h].status = t]
        PROVE  Goes(h, s, d, t)
    <2>1. PICK r \in Handling : r = [webhook[h] EXCEPT !.step = s, !.draft = d, !.status = t]
      BY <1>1 DEF Handling
    <2>2. webhook' = [webhook EXCEPT ![h] = r]
      BY <1>6, <2>1
    <2>3. r.step = s /\ r.draft = d /\ r.status = t /\ r.update = webhook[h].update
      BY <1>1, <2>1 DEF Handling
    <2>4. QED
      BY <1>2, <2>2, <2>3
  <1>7. QED
    BY <1>3, <1>4, <1>5, <1>6
---------------------------------------------------------------------------
(* Requests *)

\* What a request does with its update u, short of its end.
Handled(h, u) ==
  /\ webhook[h].step # "idle" /\ webhook[h].update = u
  /\ \A k \in Handlers \ {h} : webhook'[k] = webhook[k]
  /\ webhook'[h].step \notin {"idle", "posted"} /\ webhook'[h].update = u
  /\ \A v \in Updates \ {u} : update'[v] = update[v]
  /\ update'[u] # update[u] =>
       update'[u] # "absent" /\ (Taken(h) \/ HoldsUpdate(h, u) \/ Says(h, "photo"))
  /\ HoldsUpdate(h, u)' => Taken(h) \/ HoldsUpdate(h, u)
  /\ FitsMessage(h)' /\ FitsRow(h)'
  /\ webhook[h].step = "commit" => update'[u] # "absent"
  /\ \/ corrections' = corrections
     \/ /\ corrections' = corrections \cup {u}
        /\ Says(h, "text") /\ update'[u] = "absent" /\ webhook'[h].step = "edit"
  /\ Correcting(h, u) => Correcting(h, u)' \/ update'[u] \in {"processed", "validation_failed"}
  /\ UNCHANGED <<chat, worker, faults, failed, early>>

\* What stays behind the offsets, and what a row counts for.
Recorded(h, u) ==
  /\ texts \subseteq texts'
  /\ effects' \in [Updates -> 0..1]
  /\ \A v \in Updates \ {u} : effects'[v] = effects[v]
  /\ update'[u] = "absent" => effects'[u] = 0

\* The types of what the requests write.
Written ==
  /\ webhook' \in [Handlers -> {Idle} \cup Handling]
  /\ update' \in [Updates -> {"absent", "received", "processed", "validation_failed",
                              "dispatched", "attachment_failed"}]
  /\ edit' \in Drafts \cup {NoDraft}
  /\ draft' \in [Drafts -> {"needs_clarification", "ready_for_review", "decided"}]
  /\ texts' \subseteq Contents /\ extractions' \subseteq texts'
  /\ corrections' \subseteq Updates

\* The steps that answer an update without a row of their own.
LEMMA AnswerHandled ==
  ASSUME UInv, NEW h \in Handlers, NEW u \in Updates, webhook[h].update = u,
         Duplicate(h) \/ AnswerOther(h) \/ PressEdit(h) \/ PressCancel(h) \/ DenyConfirm(h)
           \/ RefuseReceipt(h) \/ FlushConfirm(h) \/ ClearEditState(h)
  PROVE  Handled(h, u) /\ Recorded(h, u) /\ Written
  <1>1. webhook[h].step # "idle"
    BY DEF Duplicate, AnswerOther, PressEdit, PressCancel, DenyConfirm, RefuseReceipt,
      FlushConfirm, ClearEditState, Taken
  <1>2. /\ webhook[h].draft \in Drafts \cup {NoDraft}
        /\ webhook[h].status \in {"processed", "validation_failed", "dispatched",
            "attachment_failed"}
    BY <1>1, HandlingTypes DEF UInv
  <1>3. PICK s \in {"commit", "done"}, t \in {"processed", "attachment_failed", webhook[h].status} :
          /\ Goes(h, s, webhook[h].draft, t)
          /\ s = "done" => webhook[h].step = "posted" /\ update[u] # "absent"
          /\ s = "commit" => Taken(h) \/ webhook[h].step \in {"confirm", "edited"}
          /\ webhook[h].step = "edited" => t = "processed"
    BY <1>1, <1>2, GoesForms DEF UInv, Duplicate, AnswerOther, PressEdit, PressCancel, DenyConfirm,
      RefuseReceipt, FlushConfirm, ClearEditState, Returns, Taken
  <1>4. UNCHANGED <<documentVars, chat, worker, inbox, faults, update, draft, histories>>
    BY DEF Duplicate, AnswerOther, PressEdit, PressCancel, DenyConfirm, RefuseReceipt,
      FlushConfirm, ClearEditState, WebhookOnly
  <1>5. edit' \in Drafts \cup {NoDraft}
    BY MessageTypes DEF UInv, ChatTypeOK, Duplicate, AnswerOther, PressEdit, PressCancel,
      DenyConfirm,
      RefuseReceipt, FlushConfirm, ClearEditState, Says
  <1>6. Written
    BY <1>3, <1>4, <1>5 DEF Written, Goes, UInv, ChatTypeOK, inbox, histories
  <1>7. Recorded(h, u)
    BY <1>4 DEF Recorded, UInv, Counted, inbox, histories
  <1>8. Handled(h, u)
    <2>1. FitsMessage(h) /\ FitsRow(h)
      BY DEF UInv, Requests
    <2>2. UNCHANGED <<message, update, texts, corrections, failed, early, chat>>
      BY <1>4 DEF inbox, histories, chat
    <2>3. webhook'[h].step = s /\ webhook'[h].update = u /\ webhook'[h].draft = webhook[h].draft
          /\ webhook'[h].status = t
      BY <1>3 DEF Goes
    <2>4. FitsMessage(h)'
      BY <1>1, <2>1, <2>2, <2>3 DEF FitsMessage, Says
    <2>5. FitsRow(h)'
      BY <1>3, <2>1, <2>2, <2>3 DEF FitsRow, Says, Taken
    <2>6. HoldsUpdate(h, u)' => Taken(h) \/ HoldsUpdate(h, u)
      BY <1>3, <2>2, <2>3 DEF HoldsUpdate
    <2>7. webhook[h].step = "commit" => update'[u] # "absent"
      BY <1>3, <2>2 DEF Taken
    <2>8. Correcting(h, u) => Correcting(h, u)'
      BY <1>3, <2>2, <2>3 DEF Correcting, Taken
    <2>9. QED
      BY <1>1, <1>3, <1>4, <2>2, <2>3, <2>4, <2>5, <2>6, <2>7, <2>8 DEF Handled, Goes
  <1>9. QED
    BY <1>6, <1>7, <1>8

\* The steps of a correction, and the first of a confirmation.
LEMMA CorrectionHandled ==
  ASSUME UInv, NEW h \in Handlers, NEW u \in Updates, webhook[h].update = u,
         TakeAsCorrection(h) \/ RefuseCorrection(h) \/ EditDraft(h) \/ PressConfirm(h)
  PROVE  Handled(h, u) /\ Recorded(h, u) /\ Written
  <1>1. webhook[h].step # "idle"
    BY DEF TakeAsCorrection, RefuseCorrection, EditDraft, PressConfirm, Taken
  <1>2. /\ webhook[h].draft \in Drafts \cup {NoDraft}
        /\ webhook[h].status \in {"processed", "validation_failed", "dispatched",
            "attachment_failed"}
        /\ edit \in Drafts \cup {NoDraft}
        /\ Says(h, "confirm") => message[u].draft \in Drafts
    BY <1>1, HandlingTypes, MessageTypes DEF UInv, ChatTypeOK, Says
  <1>3. UNCHANGED <<documentVars, chat, worker, inbox, faults, update, draft, effects, failed,
              early>>
    BY DEF TakeAsCorrection, RefuseCorrection, EditDraft, PressConfirm, WebhookOnly, histories
  <1>4. UNCHANGED <<message, texts, extractions>>
    BY <1>3 DEF chat, inbox
  <1>5. FitsMessage(h) /\ FitsRow(h)
    BY DEF UInv, Requests
  <1>6. Recorded(h, u)
    BY <1>3, <1>4 DEF Recorded, UInv, Counted
  <1>7. CASE TakeAsCorrection(h)
    <2>1. Goes(h, "edit", edit, webhook[h].status)
      BY <1>1, <1>2, <1>7, GoesForms DEF UInv, TakeAsCorrection
    <2>2. /\ corrections' = corrections \cup {u} /\ edit' = edit
          /\ Taken(h) /\ Says(h, "text") /\ update[u] = "absent"
      BY <1>7 DEF TakeAsCorrection, Taken
    <2>3. Written
      BY <1>3, <1>4, <2>1, <2>2 DEF Written, Goes, UInv, ChatTypeOK
    <2>4. FitsMessage(h)' /\ FitsRow(h)'
      BY <1>3, <1>4, <2>1, <2>2 DEF Goes, FitsMessage, FitsRow, Says
    <2>5. Handled(h, u)
      BY <1>1, <1>3, <2>1, <2>2, <2>4 DEF Handled, Goes, Taken, Correcting
    <2>6. QED
      BY <1>6, <2>3, <2>5
  <1>8. CASE RefuseCorrection(h)
    <2>1. Goes(h, "commit", NoDraft, "validation_failed")
      BY <1>1, <1>2, <1>8, GoesForms DEF UInv, RefuseCorrection
    <2>2. UNCHANGED <<corrections, edit>> /\ webhook[h].step = "edit" /\ update[u] = "absent"
      BY <1>5, <1>8 DEF RefuseCorrection, histories, FitsRow
    <2>3. Written
      BY <1>3, <1>4, <2>1, <2>2 DEF Written, Goes, UInv, ChatTypeOK
    <2>4. FitsMessage(h)' /\ FitsRow(h)'
      BY <1>3, <1>4, <2>1, <2>2 DEF Goes, FitsMessage, FitsRow, Says
    <2>5. Handled(h, u)
      BY <1>1, <1>3, <2>1, <2>2, <2>4 DEF Handled, Goes, HoldsUpdate, Correcting
    <2>6. QED
      BY <1>6, <2>3, <2>5
  <1>9. CASE EditDraft(h)
    <2>1. Goes(h, "edited", webhook[h].draft, webhook[h].status)
      BY <1>1, <1>2, <1>9, GoesForms DEF UInv, EditDraft
    <2>2. UNCHANGED <<corrections, edit>> /\ webhook[h].step = "edit" /\ update[u] = "absent"
      BY <1>5, <1>9 DEF EditDraft, histories, FitsRow
    <2>3. Written
      BY <1>3, <1>4, <2>1, <2>2 DEF Written, Goes, UInv, ChatTypeOK
    <2>4. FitsMessage(h)' /\ FitsRow(h)'
      BY <1>3, <1>4, <1>5, <2>1, <2>2 DEF Goes, FitsMessage, FitsRow, Says
    <2>5. Handled(h, u)
      BY <1>1, <1>3, <2>1, <2>2, <2>4 DEF Handled, Goes, HoldsUpdate, Correcting
    <2>6. QED
      BY <1>6, <2>3, <2>5
  <1>10. CASE PressConfirm(h)
    <2>1. Goes(h, "confirm", message[u].draft, webhook[h].status)
      BY <1>1, <1>2, <1>10, GoesForms DEF UInv, PressConfirm
    <2>2. /\ corrections' = corrections /\ edit' = NoDraft
          /\ Taken(h) /\ Says(h, "confirm") /\ update[u] = "absent"
      BY <1>10 DEF PressConfirm, Taken, histories
    <2>3. Written
      BY <1>3, <1>4, <2>1, <2>2 DEF Written, Goes, UInv, ChatTypeOK
    <2>4. FitsMessage(h)' /\ FitsRow(h)'
      BY <1>3, <1>4, <2>1, <2>2 DEF Goes, FitsMessage, FitsRow, Says
    <2>5. Handled(h, u)
      BY <1>1, <1>3, <2>1, <2>2, <2>4 DEF Handled, Goes, Taken, Correcting
    <2>6. QED
      BY <1>6, <2>3, <2>5
  <1>11. QED
    BY <1>7, <1>8, <1>9, <1>10

\* The commit of an answer, of a correction or of a confirmation.
LEMMA CommitHandled ==
  ASSUME UInv, NEW h \in Handlers, NEW u \in Updates, webhook[h].update = u, CommitUpdate(h)
  PROVE  Handled(h, u) /\ Recorded(h, u) /\ Written
  <1>1. webhook[h].step = "commit"
    BY DEF CommitUpdate
  <1>2. PICK d \in Drafts \cup {NoDraft},
             t \in {"processed", "validation_failed", "dispatched", "attachment_failed"} :
          d = webhook[h].draft /\ t = webhook[h].status
    BY <1>1, HandlingTypes DEF UInv
  <1>3. Goes(h, "done", d, t)
    BY <1>1, <1>2, GoesForms DEF UInv, CommitUpdate
  <1>4. /\ UNCHANGED <<chat, worker, texts, extractions, faults, edit, corrections, failed, early,
              message>>
        /\ update' = [update EXCEPT ![u] = t]
        /\ effects' = [effects EXCEPT ![u] = IF d = NoDraft THEN @ ELSE @ + 1]
        /\ draft' = draft \/ draft' = [draft EXCEPT ![d] = "ready_for_review"]
    BY <1>2 DEF CommitUpdate, WebhookOnly, inbox, chat
  <1>5. FitsMessage(h) /\ FitsRow(h)
    BY DEF UInv, Requests
  <1>6. /\ update \in [Updates -> {"absent", "received", "processed", "validation_failed",
                                   "dispatched", "attachment_failed"}]
        /\ draft \in [Drafts -> {"needs_clarification", "ready_for_review", "decided"}]
        /\ effects \in [Updates -> 0..1]
    BY DEF UInv, ChatTypeOK, Counted
  <1>7. /\ update'[u] = t /\ t # "absent"
        /\ \A v \in Updates \ {u} : update'[v] = update[v]
    BY <1>4, <1>6
  <1>8. d # NoDraft => update[u] = "absent" /\ effects[u] = 0
    BY <1>1, <1>2, <1>5 DEF FitsMessage, FitsRow, UInv, Counted
  <1>9. Recorded(h, u)
    BY <1>4, <1>6, <1>7, <1>8 DEF Recorded
  <1>10. Written
    <2>1. update' \in [Updates -> {"absent", "received", "processed", "validation_failed",
                                  "dispatched", "attachment_failed"}]
      BY <1>4, <1>6
    <2>2. draft' \in [Drafts -> {"needs_clarification", "ready_for_review", "decided"}]
      BY <1>4, <1>6
    <2>3. QED
      BY <1>3, <1>4, <2>1, <2>2 DEF Written, Goes, UInv, ChatTypeOK
  <1>11. FitsMessage(h)' /\ FitsRow(h)'
    BY <1>1, <1>2, <1>3, <1>4, <1>5, <1>7 DEF Goes, FitsMessage, FitsRow, Says
  <1>12. update'[u] # update[u] => HoldsUpdate(h, u) \/ Says(h, "photo")
    BY <1>1, <1>5 DEF FitsRow, HoldsUpdate
  <1>13. Handled(h, u)
    BY <1>1, <1>2, <1>3, <1>4, <1>7, <1>11, <1>12 DEF Handled, Goes, HoldsUpdate, Correcting
  <1>14. QED
    BY <1>9, <1>10, <1>13

\* A new transaction.
LEMMA TextHandled ==
  ASSUME UInv, NEW h \in Handlers, NEW u \in Updates, webhook[h].update = u,
         FileText(h) \/ DispatchText(h)
  PROVE  Handled(h, u) /\ Recorded(h, u) /\ Written
  <1>1. webhook[h].step # "idle"
    BY DEF FileText, DispatchText, Taken
  <1>2. PICK d \in Drafts \cup {NoDraft},
             t \in {"processed", "validation_failed", "dispatched", "attachment_failed"} :
          d = webhook[h].draft /\ t = webhook[h].status
    BY <1>1, HandlingTypes DEF UInv
  <1>3. PICK x \in Contents : x = message[u].content
    BY MessageTypes DEF UInv, FileText, DispatchText, Says
  <1>4. /\ UNCHANGED <<chat, worker, faults, edit, draft, corrections, failed, early, message>>
        /\ Says(h, "text")
    BY DEF FileText, DispatchText, histories, chat
  <1>5. FitsMessage(h) /\ FitsRow(h)
    BY DEF UInv, Requests
  <1>6. /\ update \in [Updates -> {"absent", "received", "processed", "validation_failed",
                                   "dispatched", "attachment_failed"}]
        /\ effects \in [Updates -> 0..1] /\ (update[u] = "absent" => effects[u] = 0)
        /\ texts \subseteq Contents /\ extractions \subseteq texts
    BY DEF UInv, ChatTypeOK, Counted
  <1>7. CASE FileText(h)
    <2>1. PICK s \in {"done", "dispatch"} : s = IF x \in texts THEN "done" ELSE "dispatch"
      OBVIOUS
    <2>2. webhook' = [webhook EXCEPT ![h].step = s]
      BY <1>3, <1>7, <2>1 DEF FileText
    <2>3. Goes(h, s, d, t)
      BY <1>1, <1>2, <2>2, GoesForms DEF UInv
    <2>4. /\ update' = [update EXCEPT ![u] = "dispatched"]
          /\ texts' = texts \cup {x} /\ extractions' = extractions
          /\ effects' = [effects EXCEPT ![u] = IF x \in texts THEN @ ELSE @ + 1]
          /\ Taken(h) /\ update[u] = "absent" /\ webhook[h].step = "posted"
      BY <1>3, <1>7 DEF FileText, Taken
    <2>5. /\ update'[u] = "dispatched" /\ \A v \in Updates \ {u} : update'[v] = update[v]
          /\ update' \in [Updates -> {"absent", "received", "processed", "validation_failed",
                                      "dispatched", "attachment_failed"}]
      BY <1>6, <2>4
    <2>6. Recorded(h, u)
      BY <1>6, <2>4, <2>5 DEF Recorded
    <2>7. Written
      BY <1>4, <1>6, <2>3, <2>4, <2>5 DEF Written, Goes, UInv, ChatTypeOK
    <2>8. FitsMessage(h)' /\ FitsRow(h)'
      BY <1>3, <1>4, <1>5, <2>3, <2>4, <2>5 DEF Goes, FitsMessage, FitsRow, Says
    <2>9. Handled(h, u)
      BY <1>4, <2>3, <2>4, <2>5, <2>8 DEF Handled, Goes, HoldsUpdate, Correcting
    <2>10. QED
      BY <2>6, <2>7, <2>9
  <1>8. CASE DispatchText(h)
    <2>1. Goes(h, "done", d, t)
      BY <1>1, <1>2, <1>8, GoesForms DEF UInv, DispatchText
    <2>2. /\ UNCHANGED <<update, texts, effects>> /\ extractions' = extractions \cup {x}
          /\ webhook[h].step = "dispatch"
      BY <1>3, <1>8 DEF DispatchText, histories
    <2>3. x \in texts /\ update[u] # "absent"
      BY <1>3, <1>4, <1>5, <2>2 DEF FitsMessage, FitsRow
    <2>4. Recorded(h, u)
      BY <1>6, <2>2 DEF Recorded
    <2>5. Written
      BY <1>4, <1>6, <2>1, <2>2, <2>3 DEF Written, Goes, UInv, ChatTypeOK
    <2>6. FitsMessage(h)' /\ FitsRow(h)'
      BY <1>2, <1>4, <1>5, <2>1, <2>2, <2>3 DEF Goes, FitsMessage, FitsRow, Says
    <2>7. Handled(h, u)
      BY <1>4, <2>1, <2>2, <2>3, <2>6 DEF Handled, Goes, HoldsUpdate, Correcting
    <2>8. QED
      BY <2>4, <2>5, <2>7
  <1>9. QED
    BY <1>7, <1>8

\* Another extraction of a text.
LEMMA ExtractHandled ==
  ASSUME UInv, NEW h \in Handlers, NEW u \in Updates, webhook[h].update = u, PressExtract(h)
  PROVE  Handled(h, u) /\ Recorded(h, u) /\ Written
  <1>1. webhook[h].step = "posted" /\ Taken(h) /\ Says(h, "extract") /\ update[u] = "absent"
    BY DEF PressExtract, Taken
  <1>2. PICK d \in Drafts \cup {NoDraft} : d = webhook[h].draft
    BY <1>1, HandlingTypes DEF UInv
  <1>3. Goes(h, "commit", d, "processed")
    BY <1>1, <1>2, GoesForms DEF UInv, PressExtract, Returns
  <1>4. /\ UNCHANGED <<chat, worker, faults, update, edit, draft, texts, effects, corrections,
                       failed, early, message>>
        /\ extractions' \subseteq extractions \cup texts
    BY DEF PressExtract, histories, chat
  <1>5. FitsMessage(h) /\ FitsRow(h)
    BY DEF UInv, Requests
  <1>6. Recorded(h, u)
    BY <1>4 DEF Recorded, UInv, Counted
  <1>7. Written
    BY <1>3, <1>4 DEF Written, Goes, UInv, ChatTypeOK
  <1>8. FitsMessage(h)' /\ FitsRow(h)'
    BY <1>1, <1>2, <1>3, <1>4, <1>5 DEF Goes, FitsMessage, FitsRow, Says
  <1>9. Handled(h, u)
    BY <1>1, <1>3, <1>4, <1>8 DEF Handled, Goes, HoldsUpdate, Correcting
  <1>10. QED
    BY <1>6, <1>7, <1>9

\* A receipt goes through the intake of documents.
LEMMA ReceiptHandled ==
  ASSUME UInv, NEW h \in Handlers, NEW u \in Updates, webhook[h].update = u,
         TakeReceipt(h) \/ StoreReceipt(h) \/ CommitReceipt(h) \/ DispatchReceipt(h)
           \/ GiveUpReceipt(h)
  PROVE  Handled(h, u) /\ Recorded(h, u) /\ Written
  <1>1. webhook[h].step # "idle"
    BY DEF TakeReceipt, StoreReceipt, CommitReceipt, DispatchReceipt, GiveUpReceipt, Taken
  <1>2. PICK d \in Drafts \cup {NoDraft},
             t \in {"processed", "validation_failed", "dispatched", "attachment_failed"} :
          d = webhook[h].draft /\ t = webhook[h].status
    BY <1>1, HandlingTypes DEF UInv
  <1>3. UNCHANGED <<chat, worker, faults, edit, draft, texts, extractions, corrections, failed,
              early, message>>
    BY DEF TakeReceipt, StoreReceipt, CommitReceipt, DispatchReceipt, GiveUpReceipt, WebhookOnly,
      histories, inbox, chat
  <1>4. FitsMessage(h) /\ FitsRow(h)
    BY DEF UInv, Requests
  <1>5. Says(h, "photo")
    BY <1>4 DEF TakeReceipt, StoreReceipt, CommitReceipt, DispatchReceipt, GiveUpReceipt,
      FitsMessage
  <1>6. /\ update \in [Updates -> {"absent", "received", "processed", "validation_failed",
                                   "dispatched", "attachment_failed"}]
        /\ effects \in [Updates -> 0..1] /\ (update[u] = "absent" => effects[u] = 0)
        /\ webhook \in [Handlers -> {Idle} \cup Handling]
    BY DEF UInv, ChatTypeOK, Counted
  <1>7. PICK s \in {"attach", "dispatch", "done", "commit"},
             r \in {"processed", "validation_failed", "dispatched", "attachment_failed"} :
          /\ Goes(h, s, d, r)
          /\ s = "attach" => webhook[h].step = "attach" \/ Taken(h)
          /\ s = "dispatch" => webhook[h].step = "attach" /\ update'[u] # "absent"
          /\ s = "done" => webhook[h].step = "dispatch"
          /\ s = "commit" => webhook[h].step = "attach"
    <2>1. CASE TakeReceipt(h)
      <3>1. webhook' = [webhook EXCEPT ![h].step = "attach"] /\ Taken(h)
        BY <2>1 DEF TakeReceipt
      <3>2. QED
        BY <1>1, <1>2, <3>1, GoesForms DEF UInv
    <2>2. CASE StoreReceipt(h)
      BY <1>2, <1>6, <2>2 DEF StoreReceipt, Goes
    <2>3. CASE CommitReceipt(h)
      <3>1. /\ webhook' = [webhook EXCEPT ![h].step = "dispatch"] /\ update'[u] = "dispatched"
            /\ webhook[h].step = "attach"
        BY <1>6, <2>3 DEF CommitReceipt
      <3>2. QED
        BY <1>1, <1>2, <3>1, GoesForms DEF UInv
    <2>4. CASE DispatchReceipt(h)
      BY <1>1, <1>2, <2>4, GoesForms DEF UInv, DispatchReceipt
    <2>5. CASE GiveUpReceipt(h)
      BY <1>1, <1>2, <2>5, GoesForms DEF UInv, GiveUpReceipt, Returns
    <2>6. QED
      BY <2>1, <2>2, <2>3, <2>4, <2>5
  <1>8. /\ update' \in [Updates -> {"absent", "received", "processed", "validation_failed",
                                    "dispatched", "attachment_failed"}]
        /\ \A v \in Updates \ {u} : update'[v] = update[v] /\ effects'[v] = effects[v]
        /\ update'[u] # update[u] => update'[u] # "absent"
        /\ effects' \in [Updates -> 0..1]
        /\ update'[u] = "absent" => effects'[u] = 0
    <2>1. CASE Received(h)
      <3>1. CASE UNCHANGED <<update, effects>>
        BY <1>6, <3>1
      <3>2. CASE /\ update' = [update EXCEPT ![u] = "received"]
                 /\ effects' = [effects EXCEPT ![u] = IF update[u] = "absent" THEN @ + 1 ELSE @]
        BY <1>6, <3>2
      <3>3. QED
        BY <2>1, <3>1, <3>2 DEF Received
    <2>2. CASE CommitReceipt(h)
      <3>1. update' = [update EXCEPT ![u] = "dispatched"] /\ effects' = effects
        BY <2>2 DEF CommitReceipt, histories
      <3>2. QED
        BY <1>6, <3>1
    <2>3. CASE DispatchReceipt(h) \/ GiveUpReceipt(h)
      BY <1>6, <2>3 DEF DispatchReceipt, GiveUpReceipt, histories
    <2>4. QED
      BY <2>1, <2>2, <2>3 DEF TakeReceipt, StoreReceipt
  <1>9. Recorded(h, u)
    BY <1>3, <1>8 DEF Recorded
  <1>10. Written
    BY <1>3, <1>7, <1>8 DEF Written, Goes, UInv, ChatTypeOK
  <1>11. FitsMessage(h)' /\ FitsRow(h)'
    BY <1>1, <1>2, <1>3, <1>4, <1>5, <1>7, <1>8 DEF Goes, FitsMessage, FitsRow, Says
  <1>12. HoldsUpdate(h, u)' => Taken(h) \/ HoldsUpdate(h, u)
    BY <1>7, <1>8 DEF Goes, HoldsUpdate
  <1>13. Handled(h, u)
    BY <1>1, <1>3, <1>5, <1>7, <1>8, <1>11, <1>12 DEF Handled, Goes, Correcting, Taken
  <1>14. QED
    BY <1>9, <1>10, <1>13

\* All of it.
LEMMA WebhookHandled ==
  ASSUME UInv, NEW h \in Handlers, Webhook(h), ~Leave(h), ~FailUpdate(h)
  PROVE  \E u \in Updates : Handled(h, u) /\ Recorded(h, u) /\ Written
  <1>1. webhook[h].step # "idle"
    BY DEF Webhook, Duplicate, AnswerOther, CommitUpdate, TakeAsCorrection, RefuseCorrection,
      EditDraft,
      ClearEditState, FileText, DispatchText, PressEdit, PressCancel, PressConfirm, FlushConfirm,
      DenyConfirm, PressExtract, RefuseReceipt, TakeReceipt, StoreReceipt, CommitReceipt,
      DispatchReceipt, GiveUpReceipt, Taken
  <1>2. PICK u \in Updates : webhook[h].update = u
    BY <1>1, HandlingTypes DEF UInv
  <1>3. Handled(h, u) /\ Recorded(h, u) /\ Written
    BY <1>2, AnswerHandled, CorrectionHandled, CommitHandled, TextHandled, ExtractHandled,
      ReceiptHandled DEF Webhook
  <1>4. QED
    BY <1>3
---------------------------------------------------------------------------
(* Documents *)

\* Every step is one of DocumentIntake, or leaves the documents alone.
LEMMA DocumentStep == ChatTypeOK /\ [Next]_vars => [DocumentNext]_documentVars
  <1> SUFFICES ASSUME ChatTypeOK, [Next]_vars PROVE [DocumentNext]_documentVars
    OBVIOUS
  <1>1. CASE UNCHANGED vars
    BY <1>1 DEF vars
  <1>2. CASE Start \/ Poll \/ Accepted \/ FinishBatch \/ Die \/ ExpireEditState
    BY <1>2 DEF Start, Poll, Accepted, FinishBatch, Die, ExpireEditState, WorkerOnly
  <1>3. ASSUME NEW d \in Drafts, Decide(d) PROVE UNCHANGED documentVars
    BY <1>3 DEF Decide
  <1>4. ASSUME NEW h \in Handlers, Post(h) PROVE UNCHANGED documentVars
    BY <1>4 DEF Post
  <1>5. ASSUME NEW h \in Handlers, Webhook(h) PROVE [DocumentNext]_documentVars
    <2>1. CASE TakeReceipt(h)
      <3>1. message[webhook[h].update].content \in Contents
        BY <2>1, HandlingTypes, MessageTypes DEF TakeReceipt, Taken, Says
      <3>2. QED
        BY <2>1, <3>1 DEF TakeReceipt, DocumentNext, Request
    <2>2. CASE StoreReceipt(h)
      BY <2>2 DEF StoreReceipt, DocumentNext, Request
    <2>3. CASE DispatchReceipt(h) \/ GiveUpReceipt(h)
      BY <2>3 DEF DispatchReceipt, GiveUpReceipt, DocumentNext, Request
    <2>4. CASE FailUpdate(h)
      BY <2>4 DEF FailUpdate, DocumentNext, Request
    <2>5. CASE FileText(h) \/ DispatchText(h) \/ PressExtract(h)
      BY <2>5 DEF FileText, DispatchText, PressExtract
    <2>6. CASE Duplicate(h) \/ AnswerOther(h) \/ CommitUpdate(h) \/ Leave(h) \/ TakeAsCorrection(h)
                 \/ RefuseCorrection(h) \/ EditDraft(h) \/ ClearEditState(h) \/ PressEdit(h)
                 \/ PressCancel(h) \/ PressConfirm(h) \/ FlushConfirm(h) \/ DenyConfirm(h)
                 \/ RefuseReceipt(h) \/ CommitReceipt(h)
      BY <2>6 DEF Duplicate, AnswerOther, CommitUpdate, Leave, TakeAsCorrection, RefuseCorrection,
        EditDraft, ClearEditState, PressEdit, PressCancel, PressConfirm, FlushConfirm, DenyConfirm,
        RefuseReceipt, CommitReceipt, WebhookOnly
    <2>7. QED
      BY <1>5, <2>1, <2>2, <2>3, <2>4, <2>5, <2>6 DEF Webhook
  <1>6. QED
    BY <1>1, <1>2, <1>3, <1>4, <1>5 DEF Next

---------------------------------------------------------------------------
(* Every step keeps the invariant *)

\* What is settled remains so if rows stay.
LEMMA SettledStays ==
  ASSUME \A v \in Updates : update[v] # "absent" => update'[v] # "absent",
         early \subseteq early'
  PROVE  /\ \A v \in Updates : Settled(v) => Settled(v)'
         /\ \A n \in 0..N : SettledTo(n) => SettledTo(n)'
  <1>1. \A v \in Updates : Settled(v) => Settled(v)'
    BY DEF Settled
  <1>2. \A n \in 0..N : 1..n \subseteq Updates
    BY ConstantsAssumption DEF Updates
  <1>3. QED
    BY <1>1, <1>2 DEF SettledTo

\* The request goes on, and the worker waits on.
LEMMA HandledInvariant ==
  ASSUME UInv, DocumentTypeOK', NEW h \in Handlers, NEW u \in Updates,
         Handled(h, u), Recorded(h, u), Written
  PROVE  UInv'
  <1>1. /\ UNCHANGED <<message, confirmed, saved, worker, faults, failed, early>>
        /\ webhook[h].step # "idle" /\ webhook[h].update = u
        /\ \A k \in Handlers \ {h} : webhook'[k] = webhook[k]
        /\ webhook'[h].step \notin {"idle", "posted"} /\ webhook'[h].update = u
        /\ \A v \in Updates \ {u} : update'[v] = update[v]
    BY DEF Handled, chat
  <1>2. \A k \in Handlers : webhook[k].step # "idle" => webhook[k].update \in Updates
    BY HandlingTypes DEF UInv
  <1>3. ChatTypeOK'
    BY <1>1 DEF UInv, ChatTypeOK, Written
  <1>4. WorkerInBatch'
    <2>1. worker.step = "wait" => worker.for \in Handlers
      BY DEF UInv, ChatTypeOK, Down, Polling, Waiting
    <2>2. QED
      BY <1>1, <2>1 DEF UInv, WorkerInBatch
  <1>5. /\ \A k \in Handlers \ {h} : HoldsUpdate(k, u) => ~Taken(h) /\ ~HoldsUpdate(h, u)
        /\ \A k \in Handlers \ {h} : HoldsUpdate(k, u) /\ ~Says(h,
            "photo") => update'[u] = update[u]
    BY <1>1 DEF Handled, UInv, OneHolder, Taken
  <1>6. Requests'
    <2> SUFFICES ASSUME NEW k \in Handlers PROVE FitsMessage(k)' /\ FitsRow(k)'
      BY DEF Requests
    <2>1. CASE k = h
      BY <2>1 DEF Handled
    <2>2. CASE k # h
      <3>1. webhook'[k] = webhook[k] /\ FitsMessage(k) /\ FitsRow(k)
        BY <1>1, <2>2 DEF UInv, Requests
      <3>2. FitsMessage(k)'
        BY <1>1, <3>1 DEF FitsMessage, Says, Recorded
      <3>3. FitsRow(k)'
        <4>1. CASE webhook[k].update = u /\ webhook[k].step # "idle"
          BY <1>1, <1>5, <2>2, <3>1, <4>1 DEF FitsRow, FitsMessage, Says, HoldsUpdate, Handled
        <4>2. CASE webhook[k].update # u /\ webhook[k].step # "idle"
          BY <1>1, <1>2, <3>1, <4>2 DEF FitsRow, Says
        <4>3. CASE webhook[k].step = "idle"
          BY <3>1, <4>3 DEF FitsRow
        <4>4. QED
          BY <4>1, <4>2, <4>3
      <3>4. QED
        BY <3>2, <3>3
    <2>3. QED
      BY <2>1, <2>2
  <1>7. OneHolder'
    <2> SUFFICES ASSUME NEW j \in Handlers, NEW k \in Handlers, NEW v \in Updates,
                        HoldsUpdate(j, v)', HoldsUpdate(k, v)', j # k
                 PROVE  FALSE
      BY DEF OneHolder
    <2>1. \A i \in Handlers \ {h} : HoldsUpdate(i, v)' => HoldsUpdate(i, v)
      BY <1>1 DEF HoldsUpdate, Handled
    <2>2. HoldsUpdate(h, v)' => v = u
      BY <1>1 DEF HoldsUpdate
    <2>3. CASE j = h
      BY <1>5, <2>1, <2>2, <2>3 DEF Handled
    <2>4. CASE k = h
      BY <1>5, <2>1, <2>2, <2>4 DEF Handled
    <2>5. CASE j # h /\ k # h
      BY <2>1, <2>5 DEF UInv, OneHolder
    <2>6. QED
      BY <2>3, <2>4, <2>5
  <1>8. Counted'
    BY <1>1 DEF UInv, Counted, Recorded
  <1>9. Ordered'
    <2>1. /\ \A v \in Updates : update[v] # "absent" => update'[v] # "absent"
          /\ early \subseteq early'
      BY <1>1 DEF Handled
    <2>2. \A n \in 0..N : SettledTo(n) => SettledTo(n)'
      BY <2>1, SettledStays
    <2>3. /\ \A v \in Updates : v - 1 \in 0..N
          /\ confirmed \in 0..N /\ saved \in 0..N
          /\ worker.step = "poll" => worker.offset \in 0..N
          /\ worker.step \in {"deliver", "wait"} => worker.next \in 0..N
      BY ConstantsAssumption DEF Updates, UInv, ChatTypeOK, Down, Polling, Waiting
    <2>4. QED
      BY <1>1, <1>2, <2>2, <2>3 DEF UInv, Ordered
  <1>10. Corrected'
    <2> SUFFICES ASSUME NEW v \in corrections' \ failed'
                 PROVE  /\ message'[v].kind = "text"
                        /\ \/ update'[v] \in {"processed", "validation_failed"}
                           \/ update'[v] = "absent" /\ \E k \in Handlers : Correcting(k, v)'
      BY DEF Corrected
    <2>1. CASE v = u /\ v \notin corrections
      BY <1>1, <2>1 DEF Handled, Says, Correcting
    <2>2. CASE v \in corrections
      <3>1. /\ v \in Updates /\ message'[v].kind = "text"
            /\ \/ update[v] \in {"processed", "validation_failed"}
               \/ update[v] = "absent" /\ \E k \in Handlers : Correcting(k, v)
        BY <1>1, <2>2 DEF UInv, Corrected, ChatTypeOK
      <3>2. CASE v # u
        BY <1>1, <3>1, <3>2 DEF Correcting
      <3>3. CASE v = u
        <4>1. ~Says(h, "photo")
          BY <1>1, <3>1, <3>3 DEF Says
        <4>2. CASE update[v] \in {"processed", "validation_failed"}
          <5>1. ~Taken(h) /\ ~HoldsUpdate(h, u)
            BY <1>1, <3>3, <4>2 DEF Taken, HoldsUpdate
          <5>2. QED
            BY <3>1, <3>3, <4>1, <4>2, <5>1 DEF Handled
        <4>3. ASSUME update[v] = "absent", NEW k \in Handlers, Correcting(k, v)
              PROVE  \/ update'[v] \in {"processed", "validation_failed"}
                     \/ update'[v] = "absent" /\ Correcting(k, v)'
          <5>1. HoldsUpdate(k, v)
            BY <4>3 DEF Correcting, HoldsUpdate
          <5>2. CASE k = h
            BY <1>1, <3>3, <4>1, <4>3, <5>2 DEF Handled, Correcting, FitsRow, Says
          <5>3. CASE k # h
            BY <1>1, <1>5, <3>3, <4>1, <4>3, <5>1, <5>3 DEF Correcting
          <5>4. QED
            BY <5>2, <5>3
        <4>4. QED
          BY <3>1, <4>2, <4>3
      <3>4. QED
        BY <3>2, <3>3
    <2>3. QED
      BY <2>1, <2>2 DEF Handled
  <1>11. QED
    BY <1>3, <1>4, <1>6, <1>7, <1>8, <1>9, <1>10 DEF UInv

\* The fields of the worker.
LEMMA WorkerTypes ==
  ASSUME ChatTypeOK
  PROVE  /\ worker.step \in {"down", "poll", "deliver", "wait"}
         /\ worker.step = "down" <=> worker = Down
         /\ worker.step # "down" => /\ worker.offset \in 0..N
                                    /\ worker.next \in 0..N
                                    /\ worker.last \in 0..N
         /\ worker.step \in {"poll", "deliver"} => worker \in Polling
         /\ worker.step = "wait" => worker \in Waiting /\ worker.for \in Handlers
  BY DEF ChatTypeOK, Down, Polling, Waiting

\* What a step of the worker must see to: its own record and offsets.
LEMMA WorkerInvariant ==
  ASSUME UInv, DocumentTypeOK', WorkerOnly, faults' \in 0..MaxFaults,
         confirmed' \in 0..N, saved' \in 0..N,
         worker' \in {Down} \cup Polling,
         worker'.step = "deliver" => worker'.next <= worker'.last,
         early \subseteq early', early' \subseteq IF AnswersEarly THEN Updates ELSE {},
         SettledTo(confirmed'), SettledTo(saved'),
         worker'.step = "poll" => SettledTo(worker'.offset),
         worker'.step = "deliver" =>
           \A v \in 1..worker'.next : Settled(v) \/ v \in early'
  PROVE  UInv'
  <1>1. UNCHANGED <<message, webhook, update, edit, draft, texts, extractions, effects, corrections,
                    failed>>
    BY DEF WorkerOnly, inbox
  <1>2. worker'.step \in {"down", "poll", "deliver"}
    BY DEF Down, Polling
  <1>3. ChatTypeOK'
    BY <1>1 DEF UInv, ChatTypeOK
  <1>4. WorkerInBatch'
    BY <1>2 DEF WorkerInBatch
  <1>5. Requests' /\ OneHolder' /\ Counted' /\ Corrected'
    BY <1>1 DEF UInv, Requests, FitsMessage, FitsRow, Says, OneHolder, HoldsUpdate, Counted,
      Corrected, Correcting
  <1>6. Ordered'
    <2>1. ASSUME NEW v \in Updates, Settled(v)
          PROVE  Settled(v)'
      BY <1>1, <2>1 DEF Settled
    <2>2. \A n \in 0..N : 1..n \subseteq Updates
      BY ConstantsAssumption DEF Updates
    <2>3. ASSUME NEW n \in 0..N, SettledTo(n)
          PROVE  SettledTo(n)'
      BY <2>1, <2>2, <2>3 DEF SettledTo
    <2>4. /\ worker'.step = "poll" => worker'.offset \in 0..N
          /\ worker'.step = "deliver" => worker'.next \in 0..N
      BY <1>3, WorkerTypes DEF Down, Polling
    <2>5. \A h \in Handlers : webhook[h].step # "idle" => webhook[h].update - 1 \in 0..N
      BY ConstantsAssumption, HandlingTypes DEF UInv, Updates
    <2>6. SettledTo(confirmed)' /\ SettledTo(saved)'
      BY <2>1, <2>2 DEF SettledTo
    <2>7. /\ worker'.step = "poll" => SettledTo(worker.offset)'
          /\ worker'.step \in {"deliver", "wait"} => SettledTo(worker.next)'
      BY <1>1, <1>2, <2>1, <2>2, <2>4 DEF SettledTo, Settled
    <2>8. ASSUME NEW h \in Handlers, webhook'[h].step # "idle"
          PROVE  SettledTo(webhook[h].update - 1)'
      BY <1>1, <2>3, <2>5, <2>8 DEF UInv, Ordered
    <2>9. QED
      BY <2>6, <2>7, <2>8 DEF Ordered
  <1>7. QED
    BY <1>3, <1>4, <1>5, <1>6 DEF UInv

\* The steps of the worker alone.
LEMMA WorkerStep ==
  ASSUME UInv, DocumentTypeOK', Start \/ Poll \/ Accepted \/ FinishBatch \/ Die
  PROVE  UInv'
  <1>1. /\ confirmed \in 0..N /\ saved \in 0..N /\ faults \in 0..MaxFaults
        /\ SettledTo(confirmed) /\ SettledTo(saved)
        /\ N \in Nat /\ MaxFaults \in Nat
        /\ early \subseteq IF AnswersEarly THEN Updates ELSE {}
    BY ConstantsAssumption DEF UInv, ChatTypeOK, Ordered
  <1>2. CASE Start
    <2>1. /\ worker' = [step |-> "poll", offset |-> saved, next |-> saved, last |-> saved]
          /\ UNCHANGED <<confirmed, saved, faults, early>> /\ WorkerOnly
      BY <1>2 DEF Start
    <2>2. worker' \in Polling
      BY <1>1, <2>1 DEF Polling
    <2>3. QED
      BY <1>1, <2>1, <2>2, WorkerInvariant
  <1>3. CASE Poll
    <2>1. PICK c \in 0..N : c = Max2(confirmed, worker.offset) /\ c \in {confirmed, worker.offset}
      BY <1>1, <1>3, WorkerTypes DEF UInv, Poll, Max2
    <2>2. PICK last \in (c + 1)..N :
            worker' = [worker EXCEPT !.step = "deliver", !.next = c, !.last = last]
      BY <1>3, <2>1 DEF Poll
    <2>3. /\ worker.step = "poll" /\ worker \in Polling /\ confirmed' = c
          /\ UNCHANGED <<saved, faults, early>> /\ WorkerOnly
      BY <1>3, <2>1, WorkerTypes DEF UInv, Poll
    <2>4. last \in 0..N /\ c <= last
      BY <1>1, <2>1, <2>2
    <2>5. SettledTo(c)
      BY <1>1, <2>1, <2>3 DEF UInv, Ordered
    <2>6. worker' \in Polling /\ worker'.step = "deliver" /\ worker'.next = c /\ worker'.last = last
      BY <2>2, <2>3, <2>4 DEF Polling
    <2>7. QED
      BY <1>1, <2>1, <2>3, <2>4, <2>5, <2>6, WorkerInvariant DEF SettledTo
  <1>4. CASE Accepted
    <2>1. /\ worker.step = "wait" /\ worker \in Waiting /\ worker.for \in Handlers
          /\ worker' = [step |-> "deliver", offset |-> worker.offset, next |-> worker.next + 1,
                        last |-> worker.last]
          /\ UNCHANGED <<confirmed, saved, faults>> /\ WorkerOnly
      BY <1>4, WorkerTypes DEF UInv, Accepted, Delivering
    <2>2. /\ worker.offset \in 0..N /\ worker.next \in 0..N /\ worker.last \in 0..N
          /\ worker.next < worker.last /\ webhook[worker.for].update = worker.next + 1
      BY <2>1, WorkerTypes DEF UInv, WorkerInBatch
    <2>3. worker' \in Polling /\ worker'.next <= worker'.last
      BY <1>1, <2>1, <2>2 DEF Polling
    <2>4. worker.next + 1 \in Updates
      BY <1>1, <2>2 DEF Updates
    <2>5. /\ early \subseteq early' /\ early' \subseteq IF AnswersEarly THEN Updates ELSE {}
          /\ Settled(worker.next + 1) \/ worker.next + 1 \in early'
      BY <1>1, <1>4, <2>1, <2>2, <2>4 DEF Accepted, Settled, UInv, Requests, FitsRow
    <2>6. SettledTo(worker.next)
      BY <2>1 DEF UInv, Ordered
    <2>7. \A v \in 1..(worker.next + 1) : Settled(v) \/ v \in early'
      BY <2>2, <2>5, <2>6 DEF SettledTo
    <2>8. worker'.step = "deliver" /\ worker'.next = worker.next + 1
      BY <2>1
    <2>9. QED
      BY <1>1, <2>1, <2>3, <2>5, <2>7, <2>8, WorkerInvariant
  <1>5. CASE FinishBatch
    <2>1. /\ worker.step = "deliver" /\ worker.next = worker.last /\ worker \in Polling
          /\ worker' = [worker EXCEPT !.step = "poll", !.offset = worker.last]
          /\ saved' \in {saved, worker.last}
          /\ UNCHANGED <<confirmed, faults, early>> /\ WorkerOnly
      BY <1>5, WorkerTypes DEF UInv, FinishBatch
    <2>2. SettledTo(worker.last) /\ worker.last \in 0..N
      BY <2>1, WorkerTypes DEF UInv, Ordered
    <2>3. worker' \in Polling /\ worker'.step = "poll" /\ worker'.offset = worker.last
      BY <2>1, <2>2 DEF Polling
    <2>4. QED
      BY <1>1, <2>1, <2>2, <2>3, WorkerInvariant
  <1>6. CASE Die
    <2>1. /\ worker' = Down /\ UNCHANGED <<confirmed, saved, early>> /\ WorkerOnly
          /\ faults' \in 0..MaxFaults
      BY <1>1, <1>6 DEF Die, Fault
    <2>2. QED
      BY <1>1, <2>1, WorkerInvariant DEF Down
  <1>7. QED
    BY <1>2, <1>3, <1>4, <1>5, <1>6

\* A request ends, or starts: no row and no history but failed change.
LEMMA EndsInvariant ==
  ASSUME UInv, ChatTypeOK', WorkerInBatch', NEW h \in Handlers,
         \A k \in Handlers \ {h} : webhook'[k] = webhook[k],
         webhook'[h].step \in {"idle", "posted"},
         webhook'[h].step = "posted" =>
           /\ webhook'[h].update \in Updates /\ SettledTo(webhook'[h].update - 1)
           /\ webhook'[h].draft = NoDraft,
         UNCHANGED <<message, confirmed, saved, update, texts, effects, corrections, early>>,
         failed \subseteq failed',
         webhook[h].step \in {"idle", "done"} \/ webhook[h].update \in failed',
         worker'.step = "poll" => worker' = worker,
         worker'.step \in {"deliver", "wait"} =>
           worker.step \in {"deliver", "wait"} /\ worker'.next = worker.next
  PROVE  UInv'
  <1>1. Requests'
    BY DEF UInv, Requests, FitsMessage, FitsRow, Says
  <1>2. OneHolder'
    BY DEF UInv, OneHolder, HoldsUpdate
  <1>3. Counted'
    BY DEF UInv, Counted
  <1>4. Ordered'
    <2>1. /\ \A v \in Updates : Settled(v) => Settled(v)'
          /\ \A n \in 0..N : SettledTo(n) => SettledTo(n)'
      BY SettledStays
    <2>2. /\ \A v \in Updates : v - 1 \in 0..N
          /\ confirmed \in 0..N /\ saved \in 0..N
          /\ worker.step = "poll" => worker.offset \in 0..N
          /\ worker.step \in {"deliver", "wait"} => worker.next \in 0..N
      BY ConstantsAssumption, WorkerTypes DEF Updates, UInv, ChatTypeOK
    <2>3. SettledTo(confirmed)' /\ SettledTo(saved)'
      BY <2>1, <2>2 DEF UInv, Ordered
    <2>4. /\ worker'.step = "poll" => SettledTo(worker.offset)'
          /\ worker'.step \in {"deliver", "wait"} => SettledTo(worker.next)'
      BY <2>1, <2>2 DEF UInv, Ordered
    <2>5. ASSUME NEW k \in Handlers, webhook'[k].step # "idle"
          PROVE  SettledTo(webhook[k].update - 1)'
      <3>1. CASE k = h
        BY <2>1, <2>2, <2>5, <3>1
      <3>2. CASE k # h
        BY <2>1, <2>2, <2>5, <3>2, HandlingTypes DEF UInv, Ordered
      <3>3. QED
        BY <3>1, <3>2
    <2>6. QED
      BY <2>3, <2>4, <2>5 DEF Ordered
  <1>5. Corrected'
    BY DEF UInv, Corrected, Correcting
  <1>6. QED
    BY <1>1, <1>2, <1>3, <1>4, <1>5 DEF UInv

\* The worker posts an update.
LEMMA PostStep ==
  ASSUME UInv, DocumentTypeOK', NEW h \in Handlers, Post(h)
  PROVE  UInv'
  <1>1. /\ worker \in Polling /\ worker.step = "deliver" /\ worker.next < worker.last
        /\ worker.offset \in 0..N /\ worker.next \in 0..N /\ worker.last \in 0..N /\ N \in Nat
    BY ConstantsAssumption, WorkerTypes DEF UInv, Post
  <1>2. PICK u \in Updates : u = worker.next + 1
    BY <1>1 DEF Updates
  <1>3. PICK r \in Handling : r = [step |-> "posted", update |-> u, draft |-> NoDraft,
                                  status |-> "processed"]
    BY DEF Handling
  <1>4. webhook' = [webhook EXCEPT ![h] = r] /\ webhook[h].step = "idle"
    BY <1>2, <1>3 DEF Post, Idle
  <1>5. /\ UNCHANGED <<documentVars, chat, update, edit, draft, inbox, histories, faults>>
        /\ worker' = [step |-> "wait", offset |-> worker.offset, next |-> worker.next,
                      last |-> worker.last, for |-> h]
    BY DEF Post
  <1>6. UNCHANGED <<message, confirmed, saved, texts, extractions, effects, corrections, failed,
              early>>
    BY <1>5 DEF chat, inbox, histories
  <1>7. webhook \in [Handlers -> {Idle} \cup Handling]
    BY DEF UInv, ChatTypeOK
  <1>8. worker' \in Waiting /\ worker'.step = "wait" /\ worker'.for = h /\ worker'.next = worker.next
        /\ worker'.last = worker.last
    BY <1>1, <1>5 DEF Waiting
  <1>9. /\ webhook'[h] = r /\ \A k \in Handlers \ {h} : webhook'[k] = webhook[k]
        /\ webhook' \in [Handlers -> {Idle} \cup Handling]
    BY <1>4, <1>7
  <1>10. ChatTypeOK'
    BY <1>5, <1>6, <1>8, <1>9 DEF UInv, ChatTypeOK
  <1>11. WorkerInBatch'
    BY <1>1, <1>2, <1>3, <1>8, <1>9 DEF WorkerInBatch
  <1>12. SettledTo(u - 1)
    BY <1>1, <1>2 DEF UInv, Ordered
  <1>13. QED
    BY <1>1, <1>3, <1>4, <1>5, <1>6, <1>8, <1>9, <1>10, <1>11, <1>12, EndsInvariant

\* A request leaves, or fails.
LEMMA EndStep ==
  ASSUME UInv, DocumentTypeOK', NEW h \in Handlers, Leave(h) \/ FailUpdate(h)
  PROVE  UInv'
  <1>1. webhook \in [Handlers -> {Idle} \cup Handling] /\ MaxFaults \in Nat /\ faults \in 0..MaxFaults
    BY ConstantsAssumption DEF UInv, ChatTypeOK
  <1>2. webhook' = [webhook EXCEPT ![h] = Idle]
    BY DEF Leave, FailUpdate
  <1>3. /\ webhook'[h].step = "idle" /\ \A k \in Handlers \ {h} : webhook'[k] = webhook[k]
        /\ webhook' \in [Handlers -> {Idle} \cup Handling]
    BY <1>1, <1>2 DEF Idle
  <1>4. UNCHANGED <<message, confirmed, saved, update, edit, draft, texts, extractions, effects,
                    corrections, early>>
    BY DEF Leave, FailUpdate, WebhookOnly, chat, inbox, histories
  <1>5. CASE Leave(h)
    <2>1. UNCHANGED <<worker, faults, failed>> /\ webhook[h].step = "done" /\ ~WaitsFor(h)
      BY <1>5 DEF Leave, WebhookOnly, histories
    <2>2. ChatTypeOK'
      BY <1>3, <1>4, <2>1 DEF UInv, ChatTypeOK
    <2>3. WorkerInBatch'
      <3>1. worker.step = "wait" => worker.for \in Handlers \ {h}
        BY <2>1, WorkerTypes DEF UInv, WaitsFor
      <3>2. QED
        BY <1>3, <2>1, <3>1 DEF UInv, WorkerInBatch
    <2>4. QED
      BY <1>3, <1>4, <2>1, <2>2, <2>3, WorkerTypes, EndsInvariant DEF UInv
  <1>6. CASE FailUpdate(h)
    <2>1. PICK u \in Updates : u = webhook[h].update
      BY <1>6, HandlingTypes DEF UInv, FailUpdate
    <2>2. /\ failed' = failed \cup {u} /\ faults' \in 0..MaxFaults
          /\ worker' \in IF WaitsFor(h) THEN {Down, Delivering(worker.next)} ELSE {worker}
      BY <1>1, <1>6, <2>1 DEF FailUpdate, Fault
    <2>3. /\ worker' \in {Down} \cup Polling \cup Waiting
          /\ worker'.step = "poll" => worker' = worker
          /\ worker'.step \in {"deliver", "wait"} =>
               worker.step \in {"deliver", "wait"} /\ worker'.next = worker.next
          /\ WorkerInBatch'
      <3>1. CASE WaitsFor(h) /\ worker' = Down
        BY <3>1 DEF Down, WorkerInBatch
      <3>2. CASE WaitsFor(h) /\ worker' = Delivering(worker.next)
        <4>1. /\ worker.step = "wait" /\ worker.offset \in 0..N /\ worker.next \in 0..N
              /\ worker.last \in 0..N /\ worker.next < worker.last
          BY <3>2, WorkerTypes DEF UInv, WaitsFor, WorkerInBatch
        <4>2. /\ worker' \in Polling /\ worker'.step = "deliver" /\ worker'.next = worker.next
              /\ worker'.last = worker.last
          BY <3>2, <4>1 DEF Delivering, Polling
        <4>3. worker'.next <= worker'.last
          BY <4>1, <4>2
        <4>4. QED
          BY <4>1, <4>2, <4>3 DEF WorkerInBatch
      <3>3. CASE ~WaitsFor(h) /\ worker' = worker
        <4>1. worker.step = "wait" => worker.for \in Handlers \ {h}
          BY <3>3, WorkerTypes DEF UInv, WaitsFor
        <4>2. QED
          BY <1>3, <3>3, <4>1, WorkerTypes DEF UInv, WorkerInBatch, ChatTypeOK
      <3>4. QED
        BY <2>2, <3>1, <3>2, <3>3
    <2>4. ChatTypeOK'
      BY <1>3, <1>4, <2>2, <2>3 DEF UInv, ChatTypeOK
    <2>5. QED
      BY <1>3, <1>4, <2>1, <2>2, <2>3, <2>4, EndsInvariant
  <1>7. QED
    BY <1>5, <1>6

\* The edit state expires, or a draft is decided.
LEMMA SurroundingsStep ==
  ASSUME UInv, DocumentTypeOK',
         UNCHANGED vars \/ ExpireEditState \/ \E d \in Drafts : Decide(d)
  PROVE  UInv'
  <1>1. UNCHANGED <<message, confirmed, saved, worker, webhook, update, texts, extractions, faults,
                    effects, corrections, failed, early>>
    BY DEF vars, chatVars, ExpireEditState, Decide, chat, inbox, histories
  <1>2. /\ edit' \in Drafts \cup {NoDraft}
        /\ draft' \in [Drafts -> {"needs_clarification", "ready_for_review", "decided"}]
    BY DEF UInv, ChatTypeOK, vars, chatVars, ExpireEditState, Decide
  <1>3. ChatTypeOK'
    BY <1>1, <1>2 DEF UInv, ChatTypeOK
  <1>4. WorkerInBatch' /\ Requests' /\ OneHolder' /\ Counted' /\ Corrected'
    BY <1>1 DEF UInv, WorkerInBatch, Requests, FitsMessage, FitsRow, Says, OneHolder, HoldsUpdate,
      Counted, Corrected, Correcting
  <1>5. Ordered'
    BY <1>1 DEF UInv, Ordered, SettledTo, Settled
  <1>6. QED
    BY <1>3, <1>4, <1>5 DEF UInv

\* Together.
LEMMA UpdatesStep == UInv /\ [Next]_vars => UInv'
  <1> SUFFICES ASSUME UInv, [Next]_vars PROVE UInv'
    OBVIOUS
  <1>1. DocumentTypeOK'
    BY DocumentStep, TypeStep DEF UInv, ChatTypeOK
  <1>2. ASSUME NEW h \in Handlers, Webhook(h) PROVE UInv'
    <2>1. CASE Leave(h) \/ FailUpdate(h)
      BY <1>1, <2>1, EndStep
    <2>2. CASE ~Leave(h) /\ ~FailUpdate(h)
      BY <1>1, <1>2, <2>2, WebhookHandled, HandledInvariant
    <2>3. QED
      BY <2>1, <2>2
  <1>3. QED
    BY <1>1, <1>2, WorkerStep, PostStep, SurroundingsStep DEF Next
---------------------------------------------------------------------------
(* Theorems *)

\* The initial states satisfy the invariant.
LEMMA InitUInv == Init => UInv
  <1> SUFFICES ASSUME Init PROVE UInv
    OBVIOUS
  <1>1. DocumentTypeOK
    BY InitIInv DEF Init, IInv
  <1>2. \A h \in Handlers : webhook[h].step = "idle"
    BY DEF Init, Idle
  <1>3. ChatTypeOK
    BY <1>1, ConstantsAssumption DEF Init, ChatTypeOK
  <1>4. WorkerInBatch
    BY DEF Init, Down, WorkerInBatch
  <1>5. Requests /\ OneHolder
    BY <1>2 DEF Requests, FitsMessage, FitsRow, OneHolder, HoldsUpdate
  <1>6. Counted
    BY DEF Init, Counted
  <1>7. Ordered
    BY <1>2 DEF Init, Ordered, SettledTo, Down
  <1>8. Corrected
    BY DEF Init, Corrected
  <1>9. QED
    BY <1>3, <1>4, <1>5, <1>6, <1>7, <1>8 DEF UInv

\* The inductive invariant holds in every reachable state.
THEOREM UpdatesInvariant == Spec => []UInv
  BY InitUInv, UpdatesStep, PTL DEF Spec

\* Worker, requests, rows and Redis keep their types.
THEOREM UpdatesTyped == Spec => []TypeOK
  <1>1. UInv => TypeOK
    <2> SUFFICES ASSUME UInv PROVE TypeOK
      OBVIOUS
    <2>1. effects \in [Updates -> 0..N]
      BY ConstantsAssumption DEF UInv, Counted, Updates
    <2>2. QED
      BY <2>1 DEF UInv, ChatTypeOK, TypeOK
  <1>2. QED
    BY <1>1, UpdatesInvariant, PTL

\* However often an update is delivered, by a worker that waits, times out or
\* starts again, and however its requests overlap and fail, it takes effect once.
THEOREM UpdatesTakeEffectOnce == Spec => []UpdateOnce
  <1>1. UInv => UpdateOnce
    BY DEF UInv, Counted, UpdateOnce
  <1>2. QED
    BY <1>1, UpdatesInvariant, PTL

\* What Telegram has forgotten, or a restarted worker skips, is recorded, or was
\* answered before its commit, which is outstanding or has failed.
THEOREM NothingIsForgotten == Spec => []NothingForgotten
  <1>1. UInv => NothingForgotten
    <2> SUFFICES ASSUME UInv, NEW u \in Updates, u <= Max2(confirmed, saved) PROVE Settled(u)
      BY DEF NothingForgotten
    <2>1. u <= confirmed \/ u <= saved
      BY DEF Max2
    <2>2. confirmed \in Nat /\ saved \in Nat /\ u \in Nat /\ u >= 1
      BY ConstantsAssumption DEF UInv, ChatTypeOK, Updates
    <2>3. QED
      BY <2>1, <2>2 DEF UInv, Ordered, SettledTo
  <1>2. QED
    BY <1>1, UpdatesInvariant, PTL

\* A text that was taken for a correction is not filed as a transaction, unless a
\* request has failed at it.
THEOREM CorrectionsNotRefiled == Spec => []CorrectionNotRefiled
  <1>1. UInv => CorrectionNotRefiled
    BY DEF UInv, Corrected, CorrectionNotRefiled
  <1>2. QED
    BY <1>1, UpdatesInvariant, PTL

\* No update is committed before those that the chat has sent earlier, except
\* those that were answered before their commit: they may be committed later, or
\* never.
THEOREM UpdatesInOrder == Spec => InOrder
  <1>1. ASSUME UInv, [Next]_vars, NEW u \in Updates, update[u] = "absent", update'[u] # "absent"
        PROVE  \A v \in 1..(u - 1) : Settled(v)
    <2>1. PICK h \in Handlers : Webhook(h) /\ ~Leave(h) /\ ~FailUpdate(h)
      BY <1>1 DEF Next, vars, chatVars, Start, Poll, Accepted, FinishBatch, Die, WorkerOnly, Post,
        ExpireEditState, Decide, Leave, FailUpdate
    <2>2. webhook[h].step # "idle" /\ webhook[h].update = u
      BY <1>1, <2>1, WebhookHandled DEF Handled
    <2>3. QED
      BY <1>1, <2>2 DEF UInv, Ordered, SettledTo
  <1>2. UInv /\ [Next]_vars =>
          [\A u \in Updates : TakesEffect(u) => \A v \in 1..(u - 1) : Settled(v)]_vars
    BY <1>1 DEF TakesEffect
  <1>3. QED
    BY <1>2, UpdatesInvariant, PTL DEF Spec, InOrder

\* If responses wait for the commit, all of a chat's updates are committed in the
\* order in which it has sent them, whatever fails on the way.
THEOREM StrictlyInOrder ==
  ASSUME ~AnswersEarly
  PROVE  Spec => StrictOrder
  <1>1. UInv => \A v : Settled(v) => update[v] # "absent"
    BY DEF UInv, ChatTypeOK, Settled
  <1>2. UInv => ([\A u \in Updates : TakesEffect(u) => \A v \in 1..(u - 1) : Settled(v)]_vars =>
                 [\A u \in Updates :
                    TakesEffect(u) => \A v \in 1..(u - 1) : update[v] # "absent"]_vars)
    BY <1>1
  <1>3. QED
    BY <1>2, UpdatesInvariant, UpdatesInOrder, PTL DEF InOrder, StrictOrder

\* Then everything that Telegram has forgotten is recorded.
THEOREM NothingIsLost ==
  ASSUME ~AnswersEarly
  PROVE  Spec => [](\A u \in Updates : u <= Max2(confirmed, saved) => update[u] # "absent")
  <1>1. UInv /\ NothingForgotten =>
          \A u \in Updates : u <= Max2(confirmed, saved) => update[u] # "absent"
    BY DEF UInv, ChatTypeOK, Settled, NothingForgotten
  <1>2. QED
    BY <1>1, UpdatesInvariant, NothingIsForgotten, PTL

\* The chat uses the intake of documents as its specification says, whatever
\* happens to updates, rows and requests on the way.
THEOREM ImplementsDocuments == Spec => DocumentSpec
  <1>1. Init => DocumentInit
    BY DEF Init
  <1>2. UInv /\ [Next]_vars => [DocumentNext]_documentVars
    BY DocumentStep DEF UInv
  <1>3. QED
    BY <1>1, <1>2, UpdatesInvariant, PTL DEF Spec, DocumentSpec

\* Hence no receipt that comes through the chat makes a second document of one
\* content, or is left half done by requests that have not failed.
THEOREM ReceiptsAreTended == Spec => [](OneDocumentPerContent /\ DocumentsTended)
  BY ImplementsDocuments, OneDocument, DocumentsAreTended, PTL
=============================================================================
