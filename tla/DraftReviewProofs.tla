------------------------- MODULE DraftReviewProofs -------------------------
(***************************************************************************)
(* Theorems about DraftReview for any companies, drafts, actors, patches   *)
(* and bounds that satisfy ConstantsAssumption.                            *)
(***************************************************************************)
EXTENDS DraftReview, FiniteSetTheorems, TLAPS

(***************************************************************************)
(* The inductive invariant.                                                *)
(***************************************************************************)

\* What a transaction carries is valid, unless a correction has changed the type
\* of its draft, and only an approver's approval of a postable draft gets as far
\* as an entry number.
TxOK ==
  \A a \in Actors : tx[a].step # "idle" =>
    /\ ValidFields(tx[a].fields) \/ tx[a].draft \in retyped
    /\ tx[a].op = "approve" => a \in Approvers
    /\ tx[a].step = "edited" <=> tx[a].op = "edit"
    /\ tx[a].step \in {"numbered", "inserted"} =>
         tx[a].op = "approve" /\ Postable(tx[a].fields) /\ tx[a].number # 0

DraftsValid == \A d \in Drafts : ValidFields(draft[d].fields) \/ d \in retyped

\* A draft is not decided while a correction of it is open, for the correction
\* holds the item; and only an item that was asked for again is extracted.
CorrectionOpen == \A w \in Workers : worker[w].step = "correcting" =>
  draft[worker[w].draft].status \notin {"posted", "rejected"}

RetriesCounted == \A w \in Workers : worker[w].step # "idle" => retried[worker[w].draft] > 0

WorkersOK == CorrectionOpen /\ RetriesCounted

\* A row has one writer, and a draft whose edit is about to commit is still
\* open: whoever would decide it waits for the editor's lock.
OneWriter ==
  \A a, b \in Actors, d \in Drafts : HoldsRow(a, d) /\ HoldsRow(b, d) => a = b

EditedIsOpen ==
  \A a \in Actors : tx[a].step = "edited" => draft[tx[a].draft].status \in OpenStatuses

\* A number was next when it was counted; once inserted it still is next, and
\* nobody else in the company has inserted.
CountedIsBounded ==
  \A a \in Actors : tx[a].step \in {"numbered", "inserted"} =>
    tx[a].number <= Len(journal[CompanyOf[tx[a].draft]]) + 1

InsertedIsNext ==
  \A a \in Actors : tx[a].step = "inserted" =>
    tx[a].number = Len(journal[CompanyOf[tx[a].draft]]) + 1

OneInserter ==
  \A a, b \in Actors :
    /\ tx[a].step = "inserted" /\ tx[b].step = "inserted"
    /\ CompanyOf[tx[a].draft] = CompanyOf[tx[b].draft]
    => a = b

NumbersOK == CountedIsBounded /\ InsertedIsNext /\ OneInserter

IInv ==
  /\ TypeOK
  /\ TxOK
  /\ DraftsValid
  /\ WorkersOK
  /\ OneWriter /\ EditedIsOpen
  /\ NumbersOK
  /\ EntryNumbersGapless
  /\ PostedIsJournaled
  /\ MismatchNeedsCorrection

---------------------------------------------------------------------------
(* Type correctness *)

\* The drafts extraction leaves, and the empty journal, have the declared types.
LEMMA InitTypeOK == Init => TypeOK
  <1> SUFFICES ASSUME Init PROVE TypeOK
    OBVIOUS
  <1>1. draft \in [Drafts -> Row]
    BY ConstantsAssumption DEF Init, Row, DraftStatuses, OpenStatuses, DupStatuses
  <1>2. journal \in [Companies -> Seq(Entry)]
    BY DEF Init
  <1>3. QED
    BY <1>1, <1>2 DEF Init, TypeOK, ItemStatuses

\* What an open transaction is, once its actor is known not to be idle.
LEMMA OpenTx ==
  ASSUME TypeOK, NEW a \in Actors, tx[a].step # "idle"
  PROVE  /\ tx[a] \in Transaction
         /\ tx[a].draft \in Drafts
         /\ CompanyOf[tx[a].draft] \in Companies
  BY ConstantsAssumption DEF TypeOK, NoTx, Transaction

\* Ending a request keeps the types of tx and sent.
LEMMA FinishType ==
  ASSUME TypeOK, NEW a \in Actors, Finish(a)
  PROVE  /\ tx' \in [Actors -> Transaction \cup {NoTx}]
         /\ sent' \in [Actors -> Nat]
         /\ worker' \in [Workers -> Extraction \cup Correction \cup {Idle}]
         /\ retried' \in [Drafts -> Nat]
         /\ retyped' \subseteq Drafts
  BY DEF TypeOK, Finish, pipeline

\* Opening a request on a draft with well typed values keeps every type.
LEMMA StartType ==
  ASSUME TypeOK, NEW a \in Actors, NEW d \in Drafts, NEW f \in Fields,
         NEW u \in DupStatuses,
         NEW op \in {"approve", "reject", "clarify", "confirm", "edit"},
         NEW s \in Steps,
         Start(a, op, s, d, f, u)
  PROVE  TypeOK'
  <1>1. [op |-> op, step |-> s, draft |-> d, fields |-> f, dup |-> u, number |-> 0]
          \in Transaction
    BY DEF Transaction
  <1>2. tx' \in [Actors -> Transaction \cup {NoTx}]
    BY <1>1 DEF Start, TypeOK
  <1>3. sent' \in [Actors -> Nat]
    BY DEF Start, Admit, TypeOK
  <1>4. QED
    BY <1>2, <1>3 DEF Start, pipeline, TypeOK

\* So does moving an open request to its next step.
LEMMA AdvanceType ==
  ASSUME TypeOK, NEW a \in Actors, NEW s \in Steps, tx[a].step # "idle", Advance(a, s)
  PROVE  TypeOK'
  <1>1. tx[a] \in Transaction
    BY OpenTx
  <1>2. [tx[a] EXCEPT !.step = s] \in Transaction
    BY <1>1 DEF Transaction
  <1>3. tx' \in [Actors -> Transaction \cup {NoTx}]
    BY <1>2 DEF Advance, TypeOK
  <1>4. QED
    BY <1>3 DEF Advance, pipeline, TypeOK

\* A transaction that has counted a number is a transaction.
LEMMA NumberedType ==
  ASSUME NEW t \in Transaction, NEW n \in Nat
  PROVE  [t EXCEPT !.step = "numbered", !.number = n] \in Transaction
  BY DEF Transaction, Steps

\* A partial update merged into a draft's fields yields a draft's fields.
LEMMA MergedType ==
  ASSUME NEW f \in Fields, NEW p \in Patch
  PROVE  Merged(f, p) \in Fields
  BY DEF Merged, Supplied, Fields, Patch, Keep

\* What an approval of a postable draft writes is a journal entry's body.
LEMMA BodyType ==
  ASSUME TypeOK, NEW a \in Users, NEW d \in Drafts, NEW f \in Fields, Postable(f)
  PROVE  BodyOf(a, d, f) \in Body
  BY DEF BodyOf, Body, Fields, Postable, DebitAccount, CreditAccount, NoAccount

\* The update of a row by an approval, and by an edit, yields a row.
LEMMA PostedRow ==
  ASSUME NEW r \in Row, NEW a \in Users
  PROVE  [r EXCEPT !.status = "posted", !.approved_by = a] \in Row
  BY DEF Row, DraftStatuses

\* A decision replaces the status.
LEMMA DecidedRow ==
  ASSUME NEW r \in Row, NEW s \in DraftStatuses
  PROVE  [r EXCEPT !.status = s] \in Row
  BY DEF Row

\* An edit replaces the fields and the duplicate flag.
LEMMA EditedRow ==
  ASSUME NEW r \in Row, NEW f \in Fields, NEW u \in DupStatuses
  PROVE  [r EXCEPT !.fields = f, !.dup = u] \in Row
  BY DEF Row

\* What a worker runs, once it is known not to be idle.
LEMMA OpenJob ==
  ASSUME TypeOK, NEW w \in Workers, worker[w].step # "idle"
  PROVE  /\ worker[w].draft \in Drafts
         /\ worker[w].step = "correcting" => worker[w] \in Correction
  BY DEF TypeOK, Idle, Extraction, Correction

\* A worker touches neither the journal nor a request, and only its commit
\* touches a draft.
LEMMA WorkerKeeps ==
  ASSUME NEW w \in Workers, WorkerStep(w)
  PROVE  /\ UNCHANGED <<journal, tx, sent>>
         /\ CommitCorrection(w) \/ UNCHANGED <<draft, retyped>>
  BY DEF WorkerStep, ExtractAgain, FinalizeExisting, ExtractionFails, SetItem,
         StartCorrection, CommitCorrection, AbortCorrection, LoseWorker, Drop

\* A correction writes the fields and the duplicate flag of a row that nobody
\* holds.
LEMMA CorrectedRow ==
  ASSUME TypeOK, NEW w \in Workers, CommitCorrection(w)
  PROVE  LET d == worker[w].draft IN
           /\ d \in Drafts
           /\ worker[w].fields \in Patch
           /\ draft'[d] = [draft[d] EXCEPT !.fields = Merged(draft[d].fields, worker[w].fields),
                                           !.dup = Supplied(worker[w].dup, draft[d].dup)]
           /\ draft'[d] \in Row
           /\ draft' \in [Drafts -> Row]
           /\ \A x \in Drafts \ {d} : draft'[x] = draft[x]
           /\ \A a \in Actors : ~HoldsRow(a, d)
  <1> DEFINE d == worker[w].draft
             f == Merged(draft[d].fields, worker[w].fields)
             u == Supplied(worker[w].dup, draft[d].dup)
  <1>1. worker[w].step = "correcting"
    BY DEF CommitCorrection
  <1>2. d \in Drafts /\ worker[w] \in Correction
    BY <1>1, OpenJob
  <1>3. worker[w].fields \in Patch /\ worker[w].dup \in DupStatuses \cup {Keep}
    BY <1>2 DEF Correction
  <1>4. draft[d] \in Row /\ draft[d].fields \in Fields /\ draft[d].dup \in DupStatuses
    BY <1>2 DEF TypeOK, Row
  <1>5. f \in Fields
    BY <1>3, <1>4, MergedType
  <1>6. u \in DupStatuses
    BY <1>3, <1>4 DEF Supplied
  <1>7. [draft[d] EXCEPT !.fields = f, !.dup = u] \in Row
    BY <1>4, <1>5, <1>6, EditedRow
  <1>8. draft' = [draft EXCEPT ![d] = [draft[d] EXCEPT !.fields = f, !.dup = u]]
    BY <1>2, <1>4 DEF CommitCorrection, TypeOK
  <1>9. \A a \in Actors : ~HoldsRow(a, d)
    BY ConstantsAssumption DEF CommitCorrection, RowFree
  <1>10. QED
    BY <1>2, <1>3, <1>7, <1>8, <1>9 DEF TypeOK

\* What an extraction prepares for a draft is a correction of it.
LEMMA CorrectionType ==
  ASSUME TypeOK, NEW d \in Drafts, NEW found \in Findings, NEW dup \in FindDuplicate(d, found)
  PROVE  [step |-> "correcting", draft |-> d, fields |-> CorrectionOf(draft[d].fields, found),
          dup |-> Changed(dup, draft[d].dup)] \in Correction
  <1>1. found.type \in TransactionTypes /\ found.key \in Keys
    BY ConstantsAssumption
  <1>2. CorrectionOf(draft[d].fields, found) \in Patch
    BY <1>1 DEF CorrectionOf, Changed, Patch
  <1>3. Changed(dup, draft[d].dup) \in DupStatuses \cup {Keep}
    BY DEF FindDuplicate, Changed, DupStatuses
  <1>4. QED
    BY <1>2, <1>3 DEF Correction, CorrectionOf

\* The steps of a worker keep the types.
LEMMA WorkerType ==
  ASSUME TypeOK, NEW w \in Workers, WorkerStep(w)
  PROVE  TypeOK'
  <1>1. journal' = journal /\ tx' = tx /\ sent' = sent
    BY WorkerKeeps
  <1>2. ASSUME NEW d \in Drafts, ExtractAgain(w, d)
        PROVE  TypeOK'
    BY <1>1, <1>2 DEF ExtractAgain, TypeOK, ItemStatuses, Extraction
  <1>3. ASSUME NEW s \in ItemStatuses, SetItem(w, s)
        PROVE  TypeOK'
    BY <1>1, <1>3 DEF SetItem, TypeOK
  <1>4. CASE StartCorrection(w)
    <2>1. worker[w].draft \in Drafts
      BY <1>4, OpenJob DEF StartCorrection
    <2>2. PICK found \in Findings : \E dup \in FindDuplicate(worker[w].draft, found) :
            worker' = [worker EXCEPT ![w] =
                         [step |-> "correcting", draft |-> worker[w].draft,
                          fields |-> CorrectionOf(draft[worker[w].draft].fields, found),
                          dup |-> Changed(dup, draft[worker[w].draft].dup)]]
      BY <1>4, Zenon DEF StartCorrection
    <2>3. PICK job \in Correction : worker' = [worker EXCEPT ![w] = job]
      BY <2>1, <2>2, CorrectionType, Zenon
    <2>4. worker' \in [Workers -> Extraction \cup Correction \cup {Idle}]
      BY <2>2, <2>3 DEF TypeOK
    <2>5. QED
      BY <1>1, <1>4, <2>4 DEF StartCorrection, TypeOK
  <1>5. CASE CommitCorrection(w)
    <2>1. worker[w].draft \in Drafts /\ draft' \in [Drafts -> Row]
      BY <1>5, CorrectedRow
    <2>2. QED
      BY <1>1, <1>5, <2>1 DEF CommitCorrection, TypeOK, ItemStatuses
  <1>6. CASE Drop(w)
    BY <1>1, <1>6 DEF Drop, TypeOK
  <1>7. QED
    BY <1>2, <1>3, <1>4, <1>5, <1>6
       DEF WorkerStep, FinalizeExisting, ExtractionFails, AbortCorrection, LoseWorker, ItemStatuses

\* No request is open at first, and extraction chooses no accounts.
LEMMA InitTxOK == Init => TxOK /\ DraftsValid
  <1> SUFFICES ASSUME Init PROVE TxOK /\ DraftsValid
    OBVIOUS
  <1>1. TxOK
    BY DEF Init, TxOK, NoTx
  <1>2. DraftsValid
    BY ConstantsAssumption DEF Init, DraftsValid, ValidFields
  <1>3. QED
    BY <1>1, <1>2

\* The row an edit commits and the entry an approval commits are well typed.
LEMMA TypeOKStep == TypeOK /\ TxOK /\ [Next]_vars => TypeOK'
  <1> SUFFICES ASSUME TypeOK, TxOK, [Next]_vars PROVE TypeOK'
    OBVIOUS
  <1>1. ASSUME NEW a \in Actors, NEW d \in Drafts,
               NEW op \in {"approve", "reject", "clarify", "confirm"}, ReadDraft(a, op, d)
        PROVE  TypeOK'
    <2>1. draft[d].fields \in Fields /\ draft[d].dup \in DupStatuses
      BY DEF TypeOK, Row
    <2>2. "read" \in Steps
      BY DEF Steps
    <2>3. QED
      BY <1>1, <2>1, <2>2, StartType DEF ReadDraft
  <1>2. ASSUME NEW a \in Actors, NEW d \in Drafts, NEW p \in Patches, EditDraft(a, d, p)
        PROVE  TypeOK'
    <2>1. draft[d].fields \in Fields /\ draft[d].dup \in DupStatuses
      BY DEF TypeOK, Row
    <2>2. Merged(draft[d].fields, p) \in Fields
      BY <2>1, MergedType, ConstantsAssumption
    <2>3. (IF DuplicateRelevant(draft[d].fields, Merged(draft[d].fields, p))
             THEN Reevaluated(d, Merged(draft[d].fields, p)) ELSE draft[d].dup) \in DupStatuses
      BY <2>1 DEF Reevaluated, DupStatuses
    <2>4. "edited" \in Steps
      BY DEF Steps
    <2>5. QED
      BY <1>2, <2>2, <2>3, <2>4, StartType DEF EditDraft
  <1>3. ASSUME NEW a \in Actors, FlushStatus(a)
        PROVE  TypeOK'
    BY <1>3, AdvanceType DEF FlushStatus, Steps
  <1>4. ASSUME NEW a \in Actors, CommitDecision(a)
        PROVE  TypeOK'
    <2>1. tx[a].draft \in Drafts
      BY <1>4, OpenTx DEF CommitDecision
    <2>2. Decided(tx[a].op) \in DraftStatuses
      BY <1>4 DEF Decided, DraftStatuses, OpenStatuses
    <2>3. draft' \in [Drafts -> Row]
      <3>1. [draft[tx[a].draft] EXCEPT !.status = Decided(tx[a].op)] \in Row
        BY <2>1, <2>2, DecidedRow, Zenon DEF TypeOK
      <3>2. draft' = [draft EXCEPT ![tx[a].draft] =
                        [draft[tx[a].draft] EXCEPT !.status = Decided(tx[a].op)]]
        BY <1>4, <2>1 DEF CommitDecision, TypeOK
      <3>3. QED
        BY <2>1, <3>1, <3>2 DEF TypeOK
    <2>4. inbox' \in [Drafts -> ItemStatuses]
      BY <1>4, <2>1 DEF CommitDecision, TypeOK, ItemStatuses
    <2>5. QED
      BY <1>4, <2>3, <2>4, FinishType DEF CommitDecision, TypeOK
  <1>5. ASSUME NEW a \in Actors, NumberEntry(a)
        PROVE  TypeOK'
    <2>1. tx[a] \in Transaction /\ CompanyOf[tx[a].draft] \in Companies
      BY <1>5, OpenTx DEF NumberEntry
    <2>2. NextEntryNumber(CompanyOf[tx[a].draft]) \in Nat
      BY <2>1 DEF TypeOK, NextEntryNumber
    <2>3. [tx[a] EXCEPT !.step = "numbered",
                        !.number = NextEntryNumber(CompanyOf[tx[a].draft])] \in Transaction
      BY <2>1, <2>2, NumberedType, Zenon
    <2>4. tx' \in [Actors -> Transaction \cup {NoTx}]
      BY <1>5, <2>3 DEF NumberEntry, TypeOK
    <2>5. QED
      BY <1>5, <2>4 DEF NumberEntry, pipeline, TypeOK
  <1>6. ASSUME NEW a \in Actors, InsertEntry(a)
        PROVE  TypeOK'
    BY <1>6, AdvanceType DEF InsertEntry, Steps
  <1>7. ASSUME NEW a \in Actors, PostAndCommit(a)
        PROVE  TypeOK'
    <2> DEFINE d == tx[a].draft
               c == CompanyOf[d]
               e == [number |-> tx[a].number, body |-> BodyOf(a, d, tx[a].fields)]
    <2>1. d \in Drafts /\ c \in Companies /\ tx[a] \in Transaction
      BY <1>7, OpenTx DEF PostAndCommit
    <2>2. a \in Users /\ Postable(tx[a].fields) /\ tx[a].number # 0
      BY <1>7, ConstantsAssumption DEF PostAndCommit, TxOK
    <2>3. e \in Entry
      BY <2>1, <2>2, BodyType DEF Entry, Transaction
    <2>4. journal' \in [Companies -> Seq(Entry)]
      <3>1. Append(journal[c], e) \in Seq(Entry)
        BY <2>1, <2>3 DEF TypeOK
      <3>2. journal' = [journal EXCEPT ![c] = Append(journal[c], e)]
        BY <1>7 DEF PostAndCommit
      <3>3. QED
        BY <3>1, <3>2 DEF TypeOK
    <2>5. draft' \in [Drafts -> Row]
      <3>1. [draft[d] EXCEPT !.status = "posted", !.approved_by = a] \in Row
        BY <2>1, <2>2, PostedRow, Zenon DEF TypeOK
      <3>2. draft' = [draft EXCEPT ![d] = [draft[d] EXCEPT !.status = "posted",
                                                           !.approved_by = a]]
        BY <1>7, <2>1 DEF PostAndCommit, TypeOK
      <3>3. QED
        BY <2>1, <3>1, <3>2 DEF TypeOK
    <2>6. inbox' \in [Drafts -> ItemStatuses]
      BY <1>7, <2>1 DEF PostAndCommit, TypeOK, ItemStatuses
    <2>7. QED
      BY <1>7, <2>4, <2>5, <2>6, FinishType DEF PostAndCommit, TypeOK
  <1>8. ASSUME NEW a \in Actors, RefusePosting(a)
        PROVE  TypeOK'
    BY <1>8, FinishType DEF RefusePosting, TypeOK
  <1>9. ASSUME NEW a \in Actors, CommitEdit(a)
        PROVE  TypeOK'
    <2>1. tx[a] \in Transaction /\ tx[a].draft \in Drafts
      BY <1>9, OpenTx DEF CommitEdit
    <2>2. draft' \in [Drafts -> Row]
      <3>1. [draft[tx[a].draft] EXCEPT !.fields = tx[a].fields, !.dup = tx[a].dup] \in Row
        <4>1. tx[a].fields \in Fields /\ tx[a].dup \in DupStatuses
          BY <2>1 DEF Transaction
        <4>2. draft[tx[a].draft] \in Row
          BY <2>1 DEF TypeOK
        <4>3. QED
          BY <4>1, <4>2, EditedRow, Zenon
      <3>2. draft' = [draft EXCEPT ![tx[a].draft] =
                        [draft[tx[a].draft] EXCEPT !.fields = tx[a].fields,
                                                   !.dup = tx[a].dup]]
        BY <1>9, <2>1 DEF CommitEdit, TypeOK
      <3>3. QED
        BY <2>1, <3>1, <3>2 DEF TypeOK
    <2>3. QED
      BY <1>9, <2>2, FinishType DEF CommitEdit, TypeOK
  <1>10. ASSUME NEW a \in Actors, Rollback(a)
         PROVE  TypeOK'
    BY <1>10, FinishType DEF Rollback, TypeOK
  <1>11. CASE UNCHANGED vars
    BY <1>11 DEF vars, pipeline, TypeOK
  <1>12. QED
    BY <1>1, <1>2, <1>3, <1>4, <1>5, <1>6, <1>7, <1>8, <1>9, <1>10, <1>11, WorkerType
       DEF Next, RequestStep

---------------------------------------------------------------------------
(* What transactions carry *)

\* Three steps of a request commit something; the others leave the tables alone.
LEMMA Committers ==
  ASSUME [Next]_vars
  PROVE  \/ \E a \in Actors : CommitDecision(a) \/ PostAndCommit(a) \/ CommitEdit(a)
         \/ \E w \in Workers : WorkerStep(w)
         \/ UNCHANGED <<draft, inbox, journal, pipeline>>
  <1>1. ASSUME NEW a \in Actors, NEW op, NEW d, ReadDraft(a, op, d)
        PROVE  UNCHANGED <<draft, inbox, journal, pipeline>>
    BY <1>1 DEF ReadDraft, Start
  <1>2. ASSUME NEW a \in Actors, NEW d, NEW p, EditDraft(a, d, p)
        PROVE  UNCHANGED <<draft, inbox, journal, pipeline>>
    BY <1>2 DEF EditDraft, Start
  <1>3. ASSUME NEW a \in Actors, FlushStatus(a) \/ NumberEntry(a) \/ InsertEntry(a)
        PROVE  UNCHANGED <<draft, inbox, journal, pipeline>>
    BY <1>3 DEF FlushStatus, NumberEntry, InsertEntry, Advance
  <1>4. ASSUME NEW a \in Actors, RefusePosting(a) \/ Rollback(a)
        PROVE  UNCHANGED <<draft, inbox, journal, pipeline>>
    BY <1>4 DEF RefusePosting, Rollback, Finish
  <1>5. CASE UNCHANGED vars
    BY <1>5 DEF vars
  <1>6. QED
    BY <1>1, <1>2, <1>3, <1>4, <1>5, Zenon DEF Next, RequestStep

\* A step that ends a transaction leaves the others as they are.
LEMMA FinishTxOK ==
  ASSUME TypeOK, TxOK, NEW a \in Actors, Finish(a)
  PROVE  TxOK'
  BY DEF TypeOK, TxOK, Finish, pipeline, NoTx

\* A step that opens one with valid contents keeps them all valid.
LEMMA StartTxOK ==
  ASSUME TypeOK, TxOK, NEW a \in Actors, NEW d, NEW f, NEW u,
         NEW op, NEW s \in {"read", "edited"}, Start(a, op, s, d, f, u),
         ValidFields(f) \/ d \in retyped, op = "approve" => a \in Approvers, s = "edited" <=> op = "edit"
  PROVE  TxOK'
  <1>1. tx'[a] = [op |-> op, step |-> s, draft |-> d, fields |-> f, dup |-> u, number |-> 0]
    BY DEF Start, TypeOK
  <1>2. \A b \in Actors \ {a} : tx'[b] = tx[b]
    BY DEF Start, TypeOK
  <1>3. retyped' = retyped
    BY DEF Start, pipeline
  <1>4. QED
    BY <1>1, <1>2, <1>3 DEF TxOK

\* A correction of a draft with a category either keeps its type or is recorded.
LEMMA RetypedGrows ==
  ASSUME TypeOK, NEW w \in Workers, CommitCorrection(w)
  PROVE  LET d == worker[w].draft IN
           /\ retyped \subseteq retyped'
           /\ ValidFields(draft[d].fields) =>
                ValidFields(Merged(draft[d].fields, worker[w].fields)) \/ d \in retyped'
  <1> DEFINE d == worker[w].draft
             p == worker[w].fields
             f == draft[d].fields
  <1>1. p.category = Keep
    BY OpenJob DEF CommitCorrection, Correction
  <1>2. Merged(f, p).category = f.category
    BY <1>1 DEF Merged, Supplied
  <1>3. \/ d \in retyped'
        \/ f.category = NoAccount
        \/ Merged(f, p).type = f.type
    BY DEF CommitCorrection
  <1>4. retyped \subseteq retyped'
    BY DEF CommitCorrection
  <1>5. QED
    BY <1>2, <1>3, <1>4 DEF ValidFields

\* Whatever a transaction holds is valid, unless a correction changed the type
\* of its draft: it was read from a valid row or merged and validated, and
\* approvals pass the role check and the account checks before they are numbered.
LEMMA TxOKStep == TypeOK /\ TxOK /\ DraftsValid /\ [Next]_vars => TxOK'
  <1> SUFFICES ASSUME TypeOK, TxOK, DraftsValid, [Next]_vars PROVE TxOK'
    OBVIOUS
  <1>1. ASSUME NEW a \in Actors, NEW d \in Drafts,
               NEW op \in {"approve", "reject", "clarify", "confirm"}, ReadDraft(a, op, d)
        PROVE  TxOK'
    <2>1. ValidFields(draft[d].fields) \/ d \in retyped
      BY DEF DraftsValid
    <2>2. op = "approve" => a \in Approvers
      BY <1>1 DEF ReadDraft, MayRequest
    <2>3. QED
      BY <1>1, <2>1, <2>2, StartTxOK DEF ReadDraft
  <1>2. ASSUME NEW a \in Actors, NEW d \in Drafts, NEW p \in Patches, EditDraft(a, d, p)
        PROVE  TxOK'
    BY <1>2, StartTxOK DEF EditDraft, ValidChange
  <1>3. ASSUME NEW a \in Actors, FlushStatus(a)
        PROVE  TxOK'
    BY <1>3 DEF FlushStatus, Advance, pipeline, TypeOK, TxOK
  <1>4. ASSUME NEW a \in Actors, NumberEntry(a)
        PROVE  TxOK'
    <2>1. tx[a] \in Transaction /\ CompanyOf[tx[a].draft] \in Companies
      BY <1>4, OpenTx DEF NumberEntry
    <2>2. NextEntryNumber(CompanyOf[tx[a].draft]) # 0
      BY <2>1 DEF NextEntryNumber, TypeOK
    <2>3. /\ tx'[a] = [tx[a] EXCEPT !.step = "numbered",
                                    !.number = NextEntryNumber(CompanyOf[tx[a].draft])]
          /\ \A b \in Actors \ {a} : tx'[b] = tx[b]
      BY <1>4 DEF NumberEntry, TypeOK
    <2>4. /\ tx'[a].step = "numbered" /\ tx'[a].op = tx[a].op /\ tx'[a].draft = tx[a].draft
          /\ tx'[a].fields = tx[a].fields /\ tx'[a].number # 0
      BY <2>1, <2>2, <2>3 DEF Transaction
    <2>5. tx[a].step = "flushed" /\ tx[a].op = "approve" /\ Postable(tx[a].fields)
      BY <1>4 DEF NumberEntry
    <2>6. (ValidFields(tx[a].fields) \/ tx[a].draft \in retyped) /\ a \in Approvers
      BY <2>5 DEF TxOK
    <2> SUFFICES ASSUME NEW b \in Actors, tx'[b].step # "idle"
                 PROVE  /\ ValidFields(tx'[b].fields) \/ tx'[b].draft \in retyped'
                        /\ tx'[b].op = "approve" => b \in Approvers
                        /\ tx'[b].step = "edited" <=> tx'[b].op = "edit"
                        /\ tx'[b].step \in {"numbered", "inserted"} =>
                             tx'[b].op = "approve" /\ Postable(tx'[b].fields) /\ tx'[b].number # 0
      BY DEF TxOK
    <2>7. retyped' = retyped
      BY <1>4 DEF NumberEntry, pipeline
    <2>8. CASE b = a
      BY <2>4, <2>5, <2>6, <2>7, <2>8
    <2>9. CASE b # a
      BY <2>3, <2>7, <2>9 DEF TxOK
    <2>10. QED
      BY <2>8, <2>9
  <1>5. ASSUME NEW a \in Actors, InsertEntry(a)
        PROVE  TxOK'
    BY <1>5 DEF InsertEntry, Advance, pipeline, TypeOK, TxOK
  <1>6. ASSUME NEW a \in Actors,
               CommitDecision(a) \/ PostAndCommit(a) \/ RefusePosting(a)
                 \/ CommitEdit(a) \/ Rollback(a)
        PROVE  TxOK'
    BY <1>6, FinishTxOK
       DEF CommitDecision, PostAndCommit, RefusePosting, CommitEdit, Rollback
  <1>7. ASSUME NEW w \in Workers, WorkerStep(w)
        PROVE  TxOK'
    <2>1. tx' = tx /\ retyped \subseteq retyped'
      BY <1>7, WorkerKeeps, RetypedGrows
    <2>2. QED
      BY <2>1 DEF TxOK
  <1>8. CASE UNCHANGED vars
    BY <1>8 DEF vars, pipeline, TxOK
  <1>9. QED
    BY <1>1, <1>2, <1>3, <1>4, <1>5, <1>6, <1>7, <1>8 DEF Next, RequestStep

\* Committed rows stay valid, or are recorded: an edit writes what it validated,
\* and a correction that changes the type leaves its mark.
LEMMA DraftsValidStep == TypeOK /\ TxOK /\ DraftsValid /\ [Next]_vars => DraftsValid'
  <1> SUFFICES ASSUME TypeOK, TxOK, DraftsValid, [Next]_vars PROVE DraftsValid'
    OBVIOUS
  <1>1. ASSUME NEW a \in Actors, CommitDecision(a)
        PROVE  DraftsValid'
    BY <1>1 DEF CommitDecision, Finish, pipeline, TypeOK, Row, DraftsValid
  <1>2. ASSUME NEW a \in Actors, PostAndCommit(a)
        PROVE  DraftsValid'
    BY <1>2 DEF PostAndCommit, Finish, pipeline, TypeOK, Row, DraftsValid
  <1>3. ASSUME NEW a \in Actors, CommitEdit(a)
        PROVE  DraftsValid'
    <2>1. tx[a].draft \in Drafts
      BY <1>3, OpenTx DEF CommitEdit
    <2>2. ValidFields(tx[a].fields) \/ tx[a].draft \in retyped
      BY <1>3 DEF CommitEdit, TxOK
    <2>3. \A d \in Drafts : draft'[d].fields = IF d = tx[a].draft THEN tx[a].fields
                                                                 ELSE draft[d].fields
      BY <1>3, <2>1 DEF CommitEdit, TypeOK, Row
    <2>4. retyped' = retyped
      BY <1>3 DEF CommitEdit, Finish, pipeline
    <2>5. QED
      BY <2>2, <2>3, <2>4 DEF DraftsValid
  <1>4. ASSUME NEW w \in Workers, WorkerStep(w)
        PROVE  DraftsValid'
    <2>1. CASE CommitCorrection(w)
      <3>1. PICK d : d = worker[w].draft
        OBVIOUS
      <3>2. /\ d \in Drafts
            /\ draft'[d] = [draft[d] EXCEPT !.fields = Merged(draft[d].fields, worker[w].fields),
                                            !.dup = Supplied(worker[w].dup, draft[d].dup)]
            /\ \A x \in Drafts \ {d} : draft'[x] = draft[x]
        BY <2>1, <3>1, CorrectedRow
      <3>3. draft'[d].fields = Merged(draft[d].fields, worker[w].fields)
        BY <3>2 DEF TypeOK, Row
      <3>4. /\ retyped \subseteq retyped'
            /\ ValidFields(draft[d].fields) =>
                 ValidFields(Merged(draft[d].fields, worker[w].fields)) \/ d \in retyped'
        BY <2>1, <3>1, RetypedGrows
      <3>5. QED
        BY <3>2, <3>3, <3>4 DEF DraftsValid
    <2>2. CASE UNCHANGED <<draft, retyped>>
      BY <2>2 DEF DraftsValid
    <2>3. QED
      BY <1>4, <2>1, <2>2, WorkerKeeps
  <1>5. CASE UNCHANGED <<draft, inbox, journal, pipeline>>
    BY <1>5 DEF DraftsValid, pipeline
  <1>6. QED
    BY <1>1, <1>2, <1>3, <1>4, <1>5, Committers, Zenon

---------------------------------------------------------------------------
(* Corrections *)

\* A correction keeps the status of its draft and who approved it.
LEMMA CorrectionKeepsStatus ==
  ASSUME TypeOK, NEW w \in Workers, WorkerStep(w), NEW d \in Drafts
  PROVE  draft'[d].status = draft[d].status /\ draft'[d].approved_by = draft[d].approved_by
  <1>1. CASE CommitCorrection(w)
    <2>1. PICK e : e = worker[w].draft
      OBVIOUS
    <2>2. /\ e \in Drafts
          /\ draft'[e] = [draft[e] EXCEPT !.fields = Merged(draft[e].fields, worker[w].fields),
                                          !.dup = Supplied(worker[w].dup, draft[e].dup)]
          /\ \A x \in Drafts \ {e} : draft'[x] = draft[x]
      BY <1>1, <2>1, CorrectedRow
    <2>3. draft[e] \in Row
      BY <2>2 DEF TypeOK
    <2>4. QED
      BY <2>2, <2>3 DEF Row
  <1>2. QED
    BY <1>1, WorkerKeeps

\* Whoever decides a draft for good needs its item.
LEMMA DecidersNeedItem ==
  ASSUME TypeOK, [Next]_vars, NEW d \in Drafts,
         draft'[d].status \in {"posted", "rejected"},
         draft[d].status \notin {"posted", "rejected"}
  PROVE  ItemFree(d)
  <1>1. ASSUME NEW a \in Actors, CommitDecision(a)
        PROVE  ItemFree(d)
    <2>1. tx[a].draft = d /\ tx[a].op = "reject"
      BY <1>1 DEF CommitDecision, Decided, TypeOK, Row
    <2>2. QED
      BY <1>1, <2>1 DEF CommitDecision
  <1>2. ASSUME NEW a \in Actors, PostAndCommit(a)
        PROVE  ItemFree(d)
    <2>1. tx[a].draft = d
      BY <1>2 DEF PostAndCommit, TypeOK
    <2>2. QED
      BY <1>2, <2>1 DEF PostAndCommit
  <1>3. ASSUME NEW a \in Actors, CommitEdit(a)
        PROVE  draft'[d].status = draft[d].status
    BY <1>3 DEF CommitEdit, TypeOK, Row
  <1>4. CASE UNCHANGED <<draft, inbox, journal, pipeline>>
    BY <1>4
  <1>5. ASSUME NEW w \in Workers, WorkerStep(w)
        PROVE  draft'[d].status = draft[d].status
    BY <1>5, CorrectionKeepsStatus
  <1>6. QED
    BY <1>1, <1>2, <1>3, <1>4, <1>5, Committers

\* A request does not touch what the workers run.
LEMMA RequestKeeps ==
  ASSUME NEW a \in Actors, RequestStep(a)
  PROVE  UNCHANGED pipeline
  BY DEF RequestStep, ReadDraft, EditDraft, Start, FlushStatus, Advance, CommitDecision,
         NumberEntry, InsertEntry, PostAndCommit, RefusePosting, CommitEdit, Rollback, Finish

\* A correction begins with a draft that waits for clarification, and until it
\* ends the item is not free.
LEMMA WorkersOKStep == TypeOK /\ WorkersOK /\ [Next]_vars => WorkersOK'
  <1> SUFFICES ASSUME TypeOK, WorkersOK, [Next]_vars PROVE WorkersOK'
    OBVIOUS
  <1>1. CASE UNCHANGED worker /\ UNCHANGED retried
    <2>1. ASSUME NEW w \in Workers, worker'[w].step = "correcting"
          PROVE  draft'[worker'[w].draft].status \notin {"posted", "rejected"}
      <3>1. worker[w].draft \in Drafts /\ ~ItemFree(worker[w].draft)
        BY <1>1, <2>1, OpenJob DEF ItemFree, HoldsItem
      <3>2. draft[worker[w].draft].status \notin {"posted", "rejected"}
        BY <1>1, <2>1 DEF WorkersOK, CorrectionOpen
      <3>3. QED
        BY <1>1, <3>1, <3>2, DecidersNeedItem
    <2>2. RetriesCounted'
      BY <1>1 DEF WorkersOK, RetriesCounted
    <2>3. QED
      BY <2>1, <2>2 DEF WorkersOK, CorrectionOpen
  <1>2. ASSUME NEW w \in Workers, WorkerStep(w)
        PROVE  WorkersOK'
    <2>1. \A d \in Drafts : draft'[d].status = draft[d].status
      BY <1>2, CorrectionKeepsStatus
    <2>2. ASSUME NEW d \in Drafts, ExtractAgain(w, d)
          PROVE  WorkersOK'
      <3>1. /\ worker'[w] = [step |-> "extracting", draft |-> d]
            /\ \A v \in Workers \ {w} : worker'[v] = worker[v]
        BY <2>2 DEF ExtractAgain, TypeOK
      <3>2. /\ retried'[d] = retried[d] + 1
            /\ \A e \in Drafts \ {d} : retried'[e] = retried[e]
            /\ \A e \in Drafts : retried[e] \in Nat
        BY <2>2 DEF ExtractAgain, TypeOK
      <3>3. CorrectionOpen'
        BY <2>1, <3>1, OpenJob DEF WorkersOK, CorrectionOpen
      <3>4. \A e \in Drafts : retried[e] > 0 => retried'[e] > 0
        BY <3>2
      <3>5. retried'[d] > 0
        BY <3>2
      <3>6. RetriesCounted'
        BY <3>1, <3>4, <3>5, OpenJob DEF WorkersOK, RetriesCounted
      <3>7. QED
        BY <3>3, <3>6 DEF WorkersOK
    <2>3. CASE StartCorrection(w)
      <3>1. /\ worker'[w].step = "correcting" /\ worker'[w].draft = worker[w].draft
            /\ \A v \in Workers \ {w} : worker'[v] = worker[v]
            /\ retried' = retried
        BY <2>3 DEF StartCorrection, TypeOK
      <3>2. draft[worker[w].draft].status = "needs_clarification" /\ worker[w].step # "idle"
        BY <2>3 DEF StartCorrection, IsCorrection
      <3>3. CorrectionOpen'
        BY <2>1, <3>1, <3>2, OpenJob DEF WorkersOK, CorrectionOpen
      <3>4. RetriesCounted'
        BY <3>1, <3>2 DEF WorkersOK, RetriesCounted
      <3>5. QED
        BY <3>3, <3>4 DEF WorkersOK
    <2>4. CASE worker' = [worker EXCEPT ![w] = Idle] /\ retried' = retried
      <3>1. worker'[w].step = "idle" /\ \A v \in Workers \ {w} : worker'[v] = worker[v]
        BY <2>4 DEF TypeOK, Idle
      <3>2. CorrectionOpen'
        BY <2>1, <3>1, OpenJob DEF WorkersOK, CorrectionOpen
      <3>3. RetriesCounted'
        BY <2>4, <3>1 DEF WorkersOK, RetriesCounted
      <3>4. QED
        BY <3>2, <3>3 DEF WorkersOK
    <2>5. QED
      BY <1>2, <2>2, <2>3, <2>4
         DEF WorkerStep, FinalizeExisting, ExtractionFails, SetItem, CommitCorrection,
             AbortCorrection, LoseWorker, Drop
  <1>3. QED
    BY <1>1, <1>2, RequestKeeps DEF Next, vars, pipeline

---------------------------------------------------------------------------
(* Row locks *)

\* A lock is taken only when it is free, and kept to the end.
LEMMA OneWriterStep == TypeOK /\ OneWriter /\ [Next]_vars => OneWriter'
  <1> SUFFICES ASSUME TypeOK, OneWriter, [Next]_vars PROVE OneWriter'
    OBVIOUS
  <1>1. ASSUME NEW a \in Actors,
               \A b \in Actors \ {a} : tx'[b] = tx[b],
               tx'[a].step \in {"idle", "read"}
        PROVE  OneWriter'
    BY <1>1 DEF OneWriter, HoldsRow
  <1>2. ASSUME NEW a \in Actors,
               \A b \in Actors \ {a} : tx'[b] = tx[b],
               RowFree(a, tx'[a].draft)
        PROVE  OneWriter'
    BY <1>2 DEF OneWriter, HoldsRow, RowFree
  <1>3. ASSUME NEW a \in Actors,
               \A b \in Actors \ {a} : tx'[b] = tx[b],
               tx[a].step \notin {"idle", "read"}, tx'[a].draft = tx[a].draft
        PROVE  OneWriter'
    BY <1>3 DEF OneWriter, HoldsRow
  <1>4. ASSUME NEW a \in Actors, NEW d \in Drafts,
               NEW op \in {"approve", "reject", "clarify", "confirm"}, ReadDraft(a, op, d)
        PROVE  OneWriter'
    <2>1. tx'[a].step = "read" /\ \A b \in Actors \ {a} : tx'[b] = tx[b]
      BY <1>4 DEF ReadDraft, Start, TypeOK
    <2>2. QED
      BY <1>1, <2>1
  <1>5. ASSUME NEW a \in Actors, NEW d \in Drafts, NEW p \in Patches, EditDraft(a, d, p)
        PROVE  OneWriter'
    <2>1. tx'[a].draft = d /\ \A b \in Actors \ {a} : tx'[b] = tx[b]
      BY <1>5 DEF EditDraft, Start, TypeOK
    <2>2. RowFree(a, d)
      BY <1>5 DEF EditDraft
    <2>3. QED
      BY <1>2, <2>1, <2>2
  <1>6. ASSUME NEW a \in Actors, FlushStatus(a)
        PROVE  OneWriter'
    <2>1. tx[a] \in Transaction
      BY <1>6, OpenTx DEF FlushStatus
    <2>2. tx'[a].draft = tx[a].draft /\ \A b \in Actors \ {a} : tx'[b] = tx[b]
      BY <1>6, <2>1 DEF FlushStatus, Advance, TypeOK, Transaction
    <2>3. QED
      BY <1>2, <1>6, <2>2 DEF FlushStatus
  <1>7. ASSUME NEW a \in Actors, NumberEntry(a) \/ InsertEntry(a)
        PROVE  OneWriter'
    <2>1. tx[a] \in Transaction /\ tx[a].step \in {"flushed", "numbered"}
      BY <1>7, OpenTx DEF NumberEntry, InsertEntry
    <2>2. tx'[a].draft = tx[a].draft /\ \A b \in Actors \ {a} : tx'[b] = tx[b]
      BY <1>7, <2>1 DEF NumberEntry, InsertEntry, Advance, TypeOK, Transaction
    <2>3. QED
      BY <1>3, <2>1, <2>2
  <1>8. ASSUME NEW a \in Actors, Finish(a)
        PROVE  OneWriter'
    <2>1. tx'[a].step = "idle" /\ \A b \in Actors \ {a} : tx'[b] = tx[b]
      BY <1>8 DEF Finish, TypeOK, NoTx
    <2>2. QED
      BY <1>1, <2>1
  <1>9. CASE UNCHANGED tx
    BY <1>9 DEF OneWriter, HoldsRow
  <1>10. UNCHANGED vars => UNCHANGED tx
    BY DEF vars
  <1>11. QED
    BY <1>4, <1>5, <1>6, <1>7, <1>8, <1>9, <1>10, WorkerKeeps, Zenon
       DEF Next, RequestStep, CommitDecision, PostAndCommit, RefusePosting, CommitEdit, Rollback

\* Under the editor's lock nobody else decides the draft.
LEMMA EditedIsOpenStep ==
  TypeOK /\ TxOK /\ OneWriter /\ EditedIsOpen /\ [Next]_vars => EditedIsOpen'
  <1> SUFFICES ASSUME TypeOK, TxOK, OneWriter, EditedIsOpen, [Next]_vars
               PROVE  EditedIsOpen'
    OBVIOUS
  <1>1. ASSUME NEW a \in Actors, NEW d \in Drafts, NEW p \in Patches, EditDraft(a, d, p)
        PROVE  EditedIsOpen'
    <2>1. tx'[a].draft = d /\ \A b \in Actors \ {a} : tx'[b] = tx[b]
      BY <1>1 DEF EditDraft, Start, TypeOK
    <2>2. draft' = draft /\ draft[d].status \in OpenStatuses
      BY <1>1 DEF EditDraft, Start, Editable
    <2>3. QED
      BY <2>1, <2>2 DEF EditedIsOpen
  <1>2. ASSUME NEW a \in Actors, tx'[a].step # "edited",
               \A b \in Actors \ {a} : tx'[b] = tx[b],
               \A d \in Drafts : draft'[d].status # draft[d].status => HoldsRow(a, d)
        PROVE  EditedIsOpen'
    <2> SUFFICES ASSUME NEW b \in Actors, tx'[b].step = "edited"
                 PROVE  draft'[tx'[b].draft].status \in OpenStatuses
      BY DEF EditedIsOpen
    <2>1. b # a /\ tx'[b] = tx[b] /\ tx[b].step = "edited"
      BY <1>2
    <2>2. tx[b].draft \in Drafts /\ HoldsRow(b, tx[b].draft)
      BY <2>1, OpenTx DEF HoldsRow
    <2>3. ~HoldsRow(a, tx[b].draft)
      BY <2>1, <2>2 DEF OneWriter
    <2>4. QED
      BY <1>2, <2>1, <2>2, <2>3 DEF EditedIsOpen
  <1>3. ASSUME NEW a \in Actors, NEW d \in Drafts,
               NEW op \in {"approve", "reject", "clarify", "confirm"}, ReadDraft(a, op, d)
        PROVE  EditedIsOpen'
    BY <1>2, <1>3 DEF ReadDraft, Start, TypeOK
  <1>4. ASSUME NEW a \in Actors, FlushStatus(a) \/ NumberEntry(a) \/ InsertEntry(a)
        PROVE  EditedIsOpen'
    <2>1. tx[a] \in Transaction
      BY <1>4, OpenTx DEF FlushStatus, NumberEntry, InsertEntry
    <2>2. tx'[a].step # "edited" /\ \A b \in Actors \ {a} : tx'[b] = tx[b]
      BY <1>4, <2>1 DEF FlushStatus, NumberEntry, InsertEntry, Advance, TypeOK, Transaction
    <2>3. draft' = draft
      BY <1>4 DEF FlushStatus, NumberEntry, InsertEntry, Advance
    <2>4. QED
      BY <1>2, <2>2, <2>3
  <1>5. ASSUME NEW a \in Actors, Finish(a),
               \A d \in Drafts : draft'[d].status # draft[d].status => HoldsRow(a, d)
        PROVE  EditedIsOpen'
    BY <1>2, <1>5 DEF Finish, TypeOK, NoTx
  <1>6. ASSUME NEW a \in Actors, CommitDecision(a) \/ PostAndCommit(a)
        PROVE  EditedIsOpen'
    <2>1. \A d \in Drafts : draft'[d].status # draft[d].status => d = tx[a].draft
      BY <1>6 DEF CommitDecision, PostAndCommit, TypeOK
    <2>2. tx[a].step \notin {"idle", "read"}
      BY <1>6 DEF CommitDecision, PostAndCommit
    <2>3. QED
      BY <1>5, <1>6, <2>1, <2>2 DEF HoldsRow, CommitDecision, PostAndCommit
  <1>7. ASSUME NEW a \in Actors, CommitEdit(a)
        PROVE  EditedIsOpen'
    <2>1. \A d \in Drafts : draft'[d].status = draft[d].status
      BY <1>7 DEF CommitEdit, TypeOK, Row
    <2>2. QED
      BY <1>5, <1>7, <2>1 DEF CommitEdit
  <1>8. ASSUME NEW a \in Actors, RefusePosting(a) \/ Rollback(a)
        PROVE  EditedIsOpen'
    BY <1>5, <1>8 DEF RefusePosting, Rollback
  <1>9. ASSUME NEW w \in Workers, WorkerStep(w)
        PROVE  EditedIsOpen'
    <2>1. tx' = tx /\ \A d \in Drafts : draft'[d].status = draft[d].status
      BY <1>9, WorkerKeeps, CorrectionKeepsStatus
    <2>2. QED
      BY <2>1, OpenTx DEF EditedIsOpen
  <1>10. CASE UNCHANGED vars
    BY <1>10 DEF vars, EditedIsOpen
  <1>11. QED
    BY <1>1, <1>3, <1>4, <1>6, <1>7, <1>8, <1>9, <1>10 DEF Next, RequestStep

---------------------------------------------------------------------------
(* Entry numbers *)

\* An INSERT that passes the unique index carries the next number: it was
\* counted as at most the next one, and all smaller numbers are taken.
LEMMA InsertIsNext ==
  ASSUME TypeOK, TxOK, CountedIsBounded, EntryNumbersGapless,
         NEW a \in Actors, InsertEntry(a)
  PROVE  tx[a].number = Len(journal[CompanyOf[tx[a].draft]]) + 1
  <1> DEFINE c == CompanyOf[tx[a].draft]
             n == tx[a].number
  <1>1. tx[a] \in Transaction /\ c \in Companies /\ n # 0
    BY OpenTx DEF InsertEntry, TxOK
  <1>2. n \in Nat /\ Len(journal[c]) \in Nat
    BY <1>1 DEF TypeOK, Transaction
  <1>3. n <= Len(journal[c]) + 1
    BY DEF InsertEntry, CountedIsBounded
  <1>4. n \notin 1..Len(journal[c])
    BY <1>1 DEF InsertEntry, NumberTaken, EntryNumbersGapless
  <1>5. QED
    BY <1>1, <1>2, <1>3, <1>4

\* Steps that leave the journal alone and numbers no transaction.
LEMMA QuietNumbers ==
  ASSUME TypeOK, NumbersOK, EntryNumbersGapless, NEW a \in Actors,
         UNCHANGED journal, tx'[a].step \notin {"numbered", "inserted"},
         \A b \in Actors \ {a} : tx'[b] = tx[b]
  PROVE  NumbersOK' /\ EntryNumbersGapless'
  BY DEF NumbersOK, CountedIsBounded, InsertedIsNext, OneInserter, EntryNumbersGapless

\* The count and the unique index together leave no gap and no repetition.
LEMMA NumbersStep ==
  /\ TypeOK /\ TxOK /\ NumbersOK /\ EntryNumbersGapless /\ [Next]_vars
  => NumbersOK' /\ EntryNumbersGapless'
  <1> SUFFICES ASSUME TypeOK, TxOK, NumbersOK, EntryNumbersGapless, [Next]_vars
               PROVE  NumbersOK' /\ EntryNumbersGapless'
    OBVIOUS
  <1>1. ASSUME NEW a \in Actors, NEW d \in Drafts,
               NEW op \in {"approve", "reject", "clarify", "confirm"}, ReadDraft(a, op, d)
        PROVE  NumbersOK' /\ EntryNumbersGapless'
    BY <1>1, QuietNumbers DEF ReadDraft, Start, TypeOK
  <1>2. ASSUME NEW a \in Actors, NEW d \in Drafts, NEW p \in Patches, EditDraft(a, d, p)
        PROVE  NumbersOK' /\ EntryNumbersGapless'
    BY <1>2, QuietNumbers DEF EditDraft, Start, TypeOK
  <1>3. ASSUME NEW a \in Actors, FlushStatus(a)
        PROVE  NumbersOK' /\ EntryNumbersGapless'
    <2>1. tx[a] \in Transaction
      BY <1>3, OpenTx DEF FlushStatus
    <2>2. /\ tx'[a].step = "flushed"
          /\ \A b \in Actors \ {a} : tx'[b] = tx[b]
          /\ UNCHANGED journal
      BY <1>3, <2>1 DEF FlushStatus, Advance, TypeOK, Transaction
    <2>3. QED
      BY <2>2, QuietNumbers
  <1>4. ASSUME NEW a \in Actors, NumberEntry(a)
        PROVE  NumbersOK' /\ EntryNumbersGapless'
    <2>1. tx[a] \in Transaction /\ CompanyOf[tx[a].draft] \in Companies
      BY <1>4, OpenTx DEF NumberEntry
    <2>2. /\ tx'[a].step = "numbered" /\ tx'[a].draft = tx[a].draft
          /\ tx'[a].number = Len(journal[CompanyOf[tx[a].draft]]) + 1
          /\ \A b \in Actors \ {a} : tx'[b] = tx[b]
          /\ UNCHANGED journal
      BY <1>4, <2>1 DEF NumberEntry, NextEntryNumber, TypeOK, Transaction
    <2>3. tx'[a].number <= Len(journal[CompanyOf[tx[a].draft]]) + 1
      BY <2>1, <2>2 DEF TypeOK
    <2>4. CountedIsBounded'
      BY <2>2, <2>3 DEF NumbersOK, CountedIsBounded
    <2>5. InsertedIsNext' /\ OneInserter'
      BY <2>2 DEF NumbersOK, InsertedIsNext, OneInserter
    <2>6. EntryNumbersGapless'
      BY <2>2 DEF EntryNumbersGapless
    <2>7. QED
      BY <2>4, <2>5, <2>6 DEF NumbersOK
  <1>5. ASSUME NEW a \in Actors, InsertEntry(a)
        PROVE  NumbersOK' /\ EntryNumbersGapless'
    <2>1. tx[a] \in Transaction
      BY <1>5, OpenTx DEF InsertEntry
    <2>2. /\ tx'[a].step = "inserted" /\ tx'[a].draft = tx[a].draft
          /\ tx'[a].number = tx[a].number
          /\ \A b \in Actors \ {a} : tx'[b] = tx[b]
          /\ UNCHANGED journal
      BY <1>5, <2>1 DEF InsertEntry, Advance, TypeOK, Transaction
    <2>3. tx[a].number = Len(journal[CompanyOf[tx[a].draft]]) + 1
      BY <1>5, InsertIsNext DEF NumbersOK
    <2>4. tx[a].step = "numbered"
      BY <1>5 DEF InsertEntry
    <2>5. CountedIsBounded'
      BY <2>2, <2>4 DEF NumbersOK, CountedIsBounded
    <2>6. EntryNumbersGapless'
      BY <2>2 DEF EntryNumbersGapless
    <2>7. InsertedIsNext'
      <3> SUFFICES ASSUME NEW b \in Actors, tx'[b].step = "inserted"
                   PROVE  tx'[b].number = Len(journal'[CompanyOf[tx'[b].draft]]) + 1
        BY DEF InsertedIsNext
      <3>1. CASE b = a
        BY <2>2, <2>3, <3>1
      <3>2. CASE b # a
        BY <2>2, <3>2 DEF NumbersOK, InsertedIsNext
      <3>3. QED
        BY <3>1, <3>2
    <2>8. \A b \in Actors \ {a} : tx[b].step = "inserted"
            => CompanyOf[tx[b].draft] # CompanyOf[tx[a].draft]
      BY <1>5, <2>3 DEF InsertEntry, NumberInFlight, NumbersOK, InsertedIsNext
    <2>9. OneInserter'
      BY <2>2, <2>8 DEF NumbersOK, OneInserter
    <2>10. QED
      BY <2>5, <2>6, <2>7, <2>9 DEF NumbersOK
  <1>6. ASSUME NEW a \in Actors, PostAndCommit(a)
        PROVE  NumbersOK' /\ EntryNumbersGapless'
    <2> DEFINE c == CompanyOf[tx[a].draft]
               e == [number |-> tx[a].number,
                     body   |-> BodyOf(a, tx[a].draft, tx[a].fields)]
    <2>1. c \in Companies /\ journal[c] \in Seq(Entry) /\ Len(journal[c]) \in Nat
      BY <1>6, OpenTx DEF PostAndCommit, TypeOK
    <2>2. tx[a].number = Len(journal[c]) + 1
      BY <1>6 DEF PostAndCommit, NumbersOK, InsertedIsNext
    <2>3. /\ journal'[c] = Append(journal[c], e)
          /\ \A x \in Companies \ {c} : journal'[x] = journal[x]
      BY <1>6, <2>1 DEF PostAndCommit, TypeOK
    <2>4. /\ Len(journal'[c]) = Len(journal[c]) + 1
          /\ \A i \in 1..Len(journal'[c]) :
               journal'[c][i] = IF i = Len(journal[c]) + 1 THEN e ELSE journal[c][i]
      BY <2>1, <2>3
    <2>5. EntryNumbersGapless'
      <3> SUFFICES ASSUME NEW x \in Companies, NEW i \in 1..Len(journal'[x])
                   PROVE  journal'[x][i].number = i
        BY DEF EntryNumbersGapless
      <3>1. CASE x # c
        BY <2>3, <3>1 DEF EntryNumbersGapless
      <3>2. CASE x = c /\ i = Len(journal[c]) + 1
        BY <2>2, <2>4, <3>2
      <3>3. CASE x = c /\ i # Len(journal[c]) + 1
        <4>1. i \in 1..Len(journal[c]) /\ journal'[x][i] = journal[c][i]
          BY <2>1, <2>4, <3>3
        <4>2. QED
          BY <2>1, <4>1 DEF EntryNumbersGapless
      <3>4. QED
        BY <3>1, <3>2, <3>3
    <2>6. tx'[a].step = "idle" /\ \A b \in Actors \ {a} : tx'[b] = tx[b]
      BY <1>6 DEF PostAndCommit, Finish, TypeOK, NoTx
    <2>7. \A b \in Actors \ {a} : tx[b].step = "inserted" => CompanyOf[tx[b].draft] # c
      BY <1>6 DEF PostAndCommit, NumbersOK, OneInserter
    <2>8. ASSUME NEW b \in Actors, tx'[b].step \in {"numbered", "inserted"}
          PROVE  /\ b # a /\ tx'[b] = tx[b]
                 /\ CompanyOf[tx[b].draft] \in Companies
                 /\ tx[b].number \in Nat
                 /\ Len(journal[CompanyOf[tx[b].draft]]) \in Nat
      <3>1. b # a /\ tx'[b] = tx[b] /\ tx[b].step # "idle"
        BY <2>6, <2>8
      <3>2. QED
        BY <3>1, OpenTx DEF Transaction, TypeOK
    <2>9. CountedIsBounded'
      <3> SUFFICES ASSUME NEW b \in Actors, tx'[b].step \in {"numbered", "inserted"}
                   PROVE  tx'[b].number <= Len(journal'[CompanyOf[tx'[b].draft]]) + 1
        BY DEF CountedIsBounded
      <3>1. tx[b].number <= Len(journal[CompanyOf[tx[b].draft]]) + 1
        BY <2>8 DEF NumbersOK, CountedIsBounded
      <3>2. \/ Len(journal'[CompanyOf[tx[b].draft]]) = Len(journal[CompanyOf[tx[b].draft]])
            \/ Len(journal'[CompanyOf[tx[b].draft]]) = Len(journal[CompanyOf[tx[b].draft]]) + 1
        BY <2>3, <2>4, <2>8, Zenon
      <3>3. \A n, l, m \in Nat : n <= l + 1 /\ (m = l \/ m = l + 1) => n <= m + 1
        OBVIOUS
      <3>4. Len(journal'[CompanyOf[tx[b].draft]]) \in Nat
        BY <2>8, <3>2
      <3>5. tx[b].number <= Len(journal'[CompanyOf[tx[b].draft]]) + 1
        BY <2>8, <3>1, <3>2, <3>3, <3>4, Zenon
      <3>6. QED
        BY <2>8, <3>5, Zenon
    <2>10. InsertedIsNext' /\ OneInserter'
      <3>1. ASSUME NEW b \in Actors, tx'[b].step = "inserted"
            PROVE  tx'[b].number = Len(journal'[CompanyOf[tx'[b].draft]]) + 1
        <4>1. journal'[CompanyOf[tx[b].draft]] = journal[CompanyOf[tx[b].draft]]
          BY <2>3, <2>7, <2>8, <3>1
        <4>2. QED
          BY <2>8, <3>1, <4>1, Zenon DEF NumbersOK, InsertedIsNext
      <3>2. OneInserter'
        BY <2>8 DEF NumbersOK, OneInserter
      <3>3. QED
        BY <3>1, <3>2 DEF InsertedIsNext
    <2>11. QED
      BY <2>5, <2>9, <2>10 DEF NumbersOK
  <1>7. ASSUME NEW a \in Actors,
               CommitDecision(a) \/ RefusePosting(a) \/ CommitEdit(a) \/ Rollback(a)
        PROVE  NumbersOK' /\ EntryNumbersGapless'
    <2>1. /\ tx'[a].step = "idle"
          /\ \A b \in Actors \ {a} : tx'[b] = tx[b]
          /\ UNCHANGED journal
      BY <1>7 DEF CommitDecision, RefusePosting, CommitEdit, Rollback, Finish, TypeOK, NoTx
    <2>2. QED
      BY <2>1, QuietNumbers
  <1>8. CASE UNCHANGED <<tx, journal>>
    BY <1>8 DEF NumbersOK, CountedIsBounded, InsertedIsNext, OneInserter, EntryNumbersGapless
  <1>9. UNCHANGED vars => UNCHANGED <<tx, journal>>
    BY DEF vars
  <1>10. QED
    BY <1>1, <1>2, <1>3, <1>4, <1>5, <1>6, <1>7, <1>8, <1>9, WorkerKeeps DEF Next, RequestStep

---------------------------------------------------------------------------
(* What the journal says *)

\* The journal is what it was, or an approval appended its entry to it.
LEMMA JournalStep ==
  ASSUME TypeOK, NumbersOK, [Next]_vars, journal' # journal
  PROVE  \E a \in Actors :
           /\ PostAndCommit(a)
           /\ tx[a] \in Transaction
           /\ CompanyOf[tx[a].draft] \in Companies
           /\ journal' = [journal EXCEPT ![CompanyOf[tx[a].draft]] =
                            Append(@, [number |-> Len(@) + 1,
                                       body   |-> BodyOf(a, tx[a].draft, tx[a].fields)])]
  <1>1. PICK a \in Actors : PostAndCommit(a)
    BY Committers, WorkerKeeps, Zenon DEF CommitDecision, CommitEdit
  <1>2. tx[a] \in Transaction /\ CompanyOf[tx[a].draft] \in Companies
    BY <1>1, OpenTx DEF PostAndCommit
  <1>3. tx[a].number = Len(journal[CompanyOf[tx[a].draft]]) + 1
    BY <1>1 DEF PostAndCommit, NumbersOK, InsertedIsNext
  <1>4. QED
    BY <1>1, <1>2, <1>3, Zenon DEF PostAndCommit

\* The entry of an approval debits and credits what its type calls for.
LEMMA ConsistentBody ==
  ASSUME NEW a, NEW d, NEW f \in Fields, ValidFields(f), Postable(f)
  PROVE  SidesFit(BodyOf(a, d, f))
  <1>1. f.category = ExpectedCategory(f.type) /\ f.payment = "bank"
    BY DEF ValidFields, Postable, Fields, NoAccount
  <1>2. QED
    BY <1>1 DEF SidesFit, BodyOf, DebitAccount, CreditAccount, ExpectedCategory

\* A draft or an entry that does not fit its type is one of a retyped draft.
LEMMA BooksStep ==
  TypeOK /\ TxOK /\ DraftsValid /\ NumbersOK /\ MismatchNeedsCorrection /\ [Next]_vars
    => MismatchNeedsCorrection'
  <1> SUFFICES ASSUME TypeOK, TxOK, DraftsValid, NumbersOK, MismatchNeedsCorrection, [Next]_vars
               PROVE  MismatchNeedsCorrection'
    OBVIOUS
  <1>1. \A d \in Drafts : ValidFields(draft'[d].fields) \/ d \in retyped'
    BY DraftsValidStep DEF DraftsValid
  <1>2. retyped \subseteq retyped'
    <2>1. ASSUME NEW a \in Actors, RequestStep(a)
          PROVE  retyped' = retyped
      BY <2>1, RequestKeeps DEF pipeline
    <2>2. ASSUME NEW w \in Workers, WorkerStep(w)
          PROVE  retyped \subseteq retyped'
      BY <2>2, WorkerKeeps, RetypedGrows
    <2>3. QED
      BY <2>1, <2>2 DEF Next, vars, pipeline
  <1>3. CASE journal' = journal
    BY <1>1, <1>2, <1>3 DEF MismatchNeedsCorrection
  <1>4. CASE journal' # journal
    <2>1. PICK a \in Actors :
            /\ PostAndCommit(a)
            /\ tx[a] \in Transaction
            /\ CompanyOf[tx[a].draft] \in Companies
            /\ journal' = [journal EXCEPT ![CompanyOf[tx[a].draft]] =
                             Append(@, [number |-> Len(@) + 1,
                                        body   |-> BodyOf(a, tx[a].draft, tx[a].fields)])]
      BY <1>4, JournalStep, Zenon
    <2> DEFINE b == BodyOf(a, tx[a].draft, tx[a].fields)
    <2>2. /\ tx[a].fields \in Fields /\ Postable(tx[a].fields)
          /\ ValidFields(tx[a].fields) \/ tx[a].draft \in retyped
      BY <2>1 DEF PostAndCommit, TxOK, Transaction
    <2>3. SidesFit(b) \/ b.draft \in retyped
      BY <2>2, ConsistentBody DEF BodyOf
    <2>4. \A x \in Companies : \A i \in 1..Len(journal'[x]) :
            \/ i \in 1..Len(journal[x]) /\ journal'[x][i].body = journal[x][i].body
            \/ journal'[x][i].body = b
      BY <2>1 DEF TypeOK
    <2>5. ASSUME NEW x \in Companies, NEW i \in 1..Len(journal'[x])
          PROVE  SidesFit(journal'[x][i].body) \/ journal'[x][i].body.draft \in retyped'
      <3>1. CASE i \in 1..Len(journal[x]) /\ journal'[x][i].body = journal[x][i].body
        BY <1>2, <3>1 DEF MismatchNeedsCorrection
      <3>2. CASE journal'[x][i].body = b
        <4> HIDE DEF b
        <4>1. QED
          BY <1>2, <2>3, <3>2
      <3>3. QED
        BY <2>4, <3>1, <3>2, Zenon
    <2>6. QED
      BY <1>1, <2>5, Zenon DEF MismatchNeedsCorrection
  <1>5. QED
    BY <1>3, <1>4

\* A step that commits nothing.
LEMMA NothingCommitted ==
  ASSUME PostedIsJournaled, UNCHANGED <<draft, inbox, journal, pipeline>>
  PROVE  PostedIsJournaled'
  BY DEF PostedIsJournaled, pipeline

\* A worker touches the items of drafts whose extraction was asked for again.
LEMMA WorkerItems ==
  ASSUME TypeOK, RetriesCounted, NEW w \in Workers, WorkerStep(w), NEW d \in Drafts
  PROVE  /\ inbox'[d] = inbox[d] \/ retried'[d] > 0
         /\ retried[d] > 0 => retried'[d] > 0
  <1>1. retried[d] \in Nat
    BY DEF TypeOK
  <1>2. ASSUME NEW e \in Drafts, ExtractAgain(w, e)
        PROVE  /\ inbox'[d] = inbox[d] \/ retried'[d] > 0
               /\ retried[d] > 0 => retried'[d] > 0
    <2>1. CASE d = e
      <3>1. retried'[d] = retried[d] + 1
        BY <1>2, <2>1 DEF ExtractAgain, TypeOK
      <3>2. QED
        BY <1>1, <3>1
    <2>2. CASE d # e
      BY <1>2, <2>2 DEF ExtractAgain, TypeOK
    <2>3. QED
      BY <2>1, <2>2
  <1>3. ASSUME retried' = retried, inbox' = inbox
        PROVE  /\ inbox'[d] = inbox[d] \/ retried'[d] > 0
               /\ retried[d] > 0 => retried'[d] > 0
    BY <1>3
  <1>4. ASSUME retried' = retried, worker[w].step # "idle", NEW s,
               inbox' = [inbox EXCEPT ![worker[w].draft] = s]
        PROVE  /\ inbox'[d] = inbox[d] \/ retried'[d] > 0
               /\ retried[d] > 0 => retried'[d] > 0
    BY <1>4 DEF RetriesCounted, TypeOK
  <1>5. QED
    BY <1>2, <1>3, <1>4
       DEF WorkerStep, FinalizeExisting, ExtractionFails, SetItem, StartCorrection,
           CommitCorrection, AbortCorrection, LoseWorker, Drop

\* The draft, its entry and its inbox item change together.
LEMMA PostedStep ==
  TypeOK /\ TxOK /\ WorkersOK /\ PostedIsJournaled /\ [Next]_vars => PostedIsJournaled'
  <1> SUFFICES ASSUME TypeOK, TxOK, WorkersOK, PostedIsJournaled, [Next]_vars
               PROVE  PostedIsJournaled'
    OBVIOUS
  <1>1. ASSUME NEW a \in Actors, CommitDecision(a)
        PROVE  PostedIsJournaled'
    <2>1. tx[a].draft \in Drafts
      BY <1>1, OpenTx DEF CommitDecision
    <2>2. /\ draft'[tx[a].draft].status # "posted"
          /\ draft'[tx[a].draft].status = "rejected" => inbox'[tx[a].draft] = "archived"
      BY <1>1, <2>1 DEF CommitDecision, Decided, TypeOK, Row
    <2>3. \A d \in Drafts \ {tx[a].draft} : draft'[d] = draft[d] /\ inbox'[d] = inbox[d]
      BY <1>1, <2>1 DEF CommitDecision, TypeOK
    <2>4. journal' = journal /\ retried' = retried
      BY <1>1 DEF CommitDecision, Finish, pipeline
    <2>5. QED
      BY <2>2, <2>3, <2>4 DEF PostedIsJournaled
  <1>2. ASSUME NEW a \in Actors, PostAndCommit(a)
        PROVE  PostedIsJournaled'
    <2> DEFINE d == tx[a].draft
               c == CompanyOf[d]
               e == [number |-> tx[a].number, body |-> BodyOf(a, d, tx[a].fields)]
    <2>1. d \in Drafts /\ c \in Companies /\ Len(journal[c]) \in Nat
      BY <1>2, OpenTx DEF PostAndCommit, TypeOK
    <2>2. /\ journal'[c] = Append(journal[c], e)
          /\ \A x \in Companies \ {c} : journal'[x] = journal[x]
      BY <1>2, <2>1 DEF PostAndCommit, TypeOK
    <2>3. /\ Len(journal'[c]) = Len(journal[c]) + 1
          /\ journal'[c][Len(journal[c]) + 1] = e
          /\ \A i \in 1..Len(journal[c]) : journal'[c][i] = journal[c][i]
      BY <2>1, <2>2 DEF TypeOK
    <2>4. /\ inbox'[d] = "archived" /\ draft'[d].approved_by = a
          /\ \A x \in Drafts \ {d} : draft'[x] = draft[x] /\ inbox'[x] = inbox[x]
          /\ retried' = retried
      BY <1>2, <2>1 DEF PostAndCommit, Finish, pipeline, TypeOK, Row
    <2>5. e.body.draft = d /\ e.body.posted_by = a
      BY DEF BodyOf
    <2>6. \E i \in 1..Len(journal'[c]) : /\ journal'[c][i].body.draft = d
                                         /\ journal'[c][i].body.posted_by = draft'[d].approved_by
      <3>1. Len(journal[c]) + 1 \in 1..Len(journal'[c])
        BY <2>1, <2>3
      <3>2. journal'[c][Len(journal[c]) + 1].body = e.body
        BY <2>3
      <3> HIDE DEF e
      <3>3. QED
        BY <2>4, <2>5, <3>1, <3>2, Zenon
    <2>7. ASSUME NEW x \in Companies, NEW i \in 1..Len(journal[x])
          PROVE  i \in 1..Len(journal'[x]) /\ journal'[x][i] = journal[x][i]
      <3>1. CASE x = c
        BY <2>1, <2>3, <3>1
      <3>2. CASE x # c
        BY <2>2, <3>2
      <3>3. QED
        BY <3>1, <3>2
    <2>8. ASSUME NEW x \in Drafts \ {d}, draft'[x].status = "posted"
          PROVE  \E i \in 1..Len(journal'[CompanyOf[x]]) :
                   /\ journal'[CompanyOf[x]][i].body.draft = x
                   /\ journal'[CompanyOf[x]][i].body.posted_by = draft'[x].approved_by
      <3>1. CompanyOf[x] \in Companies
        BY ConstantsAssumption
      <3>2. QED
        <4>1. draft[x].status = "posted" /\ draft'[x].approved_by = draft[x].approved_by
          BY <2>4, <2>8
        <4>2. PICK i \in 1..Len(journal[CompanyOf[x]]) :
                /\ journal[CompanyOf[x]][i].body.draft = x
                /\ journal[CompanyOf[x]][i].body.posted_by = draft[x].approved_by
          BY <4>1, Zenon DEF PostedIsJournaled
        <4>3. i \in 1..Len(journal'[CompanyOf[x]])
              /\ journal'[CompanyOf[x]][i] = journal[CompanyOf[x]][i]
          BY <2>7, <3>1, Zenon
        <4>4. QED
          BY <4>1, <4>2, <4>3, Zenon
    <2>9. \A x \in Drafts : draft'[x].status \in {"posted", "rejected"} =>
            inbox'[x] = "archived" \/ retried'[x] > 0
      BY <2>4 DEF PostedIsJournaled
    <2>10. \A x \in Drafts : draft'[x].status = "posted" =>
             \E i \in 1..Len(journal'[CompanyOf[x]]) :
               /\ journal'[CompanyOf[x]][i].body.draft = x
               /\ journal'[CompanyOf[x]][i].body.posted_by = draft'[x].approved_by
      BY <2>6, <2>8, Zenon
    <2>11. QED
      BY <2>9, <2>10 DEF PostedIsJournaled
  <1>3. ASSUME NEW a \in Actors, CommitEdit(a)
        PROVE  PostedIsJournaled'
    <2>1. \A d \in Drafts : /\ draft'[d].status = draft[d].status
                            /\ draft'[d].approved_by = draft[d].approved_by
      BY <1>3 DEF CommitEdit, TypeOK, Row
    <2>2. inbox' = inbox /\ journal' = journal /\ retried' = retried
      BY <1>3 DEF CommitEdit, Finish, pipeline
    <2>3. QED
      BY <2>1, <2>2 DEF PostedIsJournaled
  <1>4. ASSUME NEW w \in Workers, WorkerStep(w)
        PROVE  PostedIsJournaled'
    <2>1. journal' = journal /\ \A d \in Drafts :
            /\ draft'[d].status = draft[d].status
            /\ draft'[d].approved_by = draft[d].approved_by
      BY <1>4, WorkerKeeps, CorrectionKeepsStatus
    <2>2. \A d \in Drafts : /\ inbox'[d] = inbox[d] \/ retried'[d] > 0
                            /\ retried[d] > 0 => retried'[d] > 0
      BY <1>4, WorkerItems DEF WorkersOK
    <2>3. QED
      BY <2>1, <2>2 DEF PostedIsJournaled
  <1>5. CASE UNCHANGED <<draft, inbox, journal, pipeline>>
    BY <1>5, NothingCommitted
  <1>6. QED
    BY <1>1, <1>2, <1>3, <1>4, <1>5, Committers, Zenon

---------------------------------------------------------------------------
(* The theorems *)

\* In the initial states nothing is posted, numbered or locked.
LEMMA InitIInv == Init => IInv
  <1> SUFFICES ASSUME Init PROVE IInv
    OBVIOUS
  <1>1. \A a \in Actors : tx[a] = NoTx
    BY DEF Init
  <1>2. OneWriter /\ EditedIsOpen /\ NumbersOK
    BY <1>1 DEF NoTx, OneWriter, HoldsRow, EditedIsOpen, NumbersOK, CountedIsBounded,
                InsertedIsNext, OneInserter
  <1>3. \A c \in Companies : 1..Len(journal[c]) = {}
    BY DEF Init
  <1>4. \A d \in Drafts : draft[d].status \in {"ready_for_review", "needs_clarification"}
    BY DEF Init
  <1>5. EntryNumbersGapless /\ PostedIsJournaled /\ MismatchNeedsCorrection
    BY <1>3, <1>4, InitTxOK
       DEF EntryNumbersGapless, PostedIsJournaled, MismatchNeedsCorrection, DraftsValid
  <1>6. WorkersOK
    BY DEF Init, WorkersOK, CorrectionOpen, RetriesCounted, Idle
  <1>7. QED
    BY <1>2, <1>5, <1>6, InitTypeOK, InitTxOK DEF IInv

\* The strengthened invariant is inductive.
LEMMA IInvStep == IInv /\ [Next]_vars => IInv'
  BY TypeOKStep, TxOKStep, DraftsValidStep, WorkersOKStep, OneWriterStep, EditedIsOpenStep, NumbersStep,
     PostedStep, BooksStep
     DEF IInv

\* Every reachable state satisfies the strengthened invariant.
THEOREM InductiveInvariant == Spec => []IInv
  BY InitIInv, IInvStep, PTL DEF Spec

\* Whatever is read, merged, numbered and committed has the type its table
\* and its request schema declare.
THEOREM TypeCorrect == Spec => []TypeOK
  BY InductiveInvariant, PTL DEF IInv

\* For any number of companies, drafts, approvers and overlapping approvals,
\* count(*) + 1 and the unique index number a company's entries 1, 2, 3, ...
THEOREM NumbersAreGapless == Spec => []EntryNumbersGapless
  BY InductiveInvariant, PTL DEF IInv

\* A draft whose row says posted has its journal entry, signed by its
\* approver, in every interleaving, and its inbox item is archived unless it was
\* extracted again.
THEOREM PostedHasEntry == Spec => []PostedIsJournaled
  BY InductiveInvariant, PTL DEF IInv

\* No sequence of partial edits breaks the agreement of category and type: a draft
\* that lacks it, and an entry posted from one, had its type changed by a
\* correction after its category was chosen.
THEOREM MismatchesAreCorrections == Spec => []MismatchNeedsCorrection
  BY InductiveInvariant, PTL DEF IInv

\* No edit or correction lands on a draft that is posted: the editor holds the row
\* from the status check to the commit, the correction the item.
THEOREM FieldsFrozen == Spec => PostedFieldsFrozen
  <1>1. IInv /\ [Next]_vars =>
          [\A d \in Drafts : draft[d].status = "posted" => draft'[d].fields = draft[d].fields]_vars
    <2> SUFFICES ASSUME IInv, [Next]_vars, NEW d \in Drafts, draft[d].status = "posted"
                 PROVE  draft'[d].fields = draft[d].fields
      OBVIOUS
    <2>1. TypeOK
      BY DEF IInv
    <2>2. ASSUME NEW a \in Actors, CommitEdit(a)
          PROVE  draft'[d].fields = draft[d].fields
      <3>1. draft[tx[a].draft].status \in OpenStatuses
        BY <2>2 DEF IInv, EditedIsOpen, CommitEdit
      <3>2. d # tx[a].draft
        BY <3>1 DEF OpenStatuses
      <3>3. QED
        BY <2>1, <2>2, <3>2 DEF CommitEdit, TypeOK
    <2>3. ASSUME NEW a \in Actors, CommitDecision(a) \/ PostAndCommit(a)
          PROVE  draft'[d].fields = draft[d].fields
      <3>1. CASE CommitDecision(a)
        BY <2>1, <3>1 DEF CommitDecision, TypeOK, Row
      <3>2. CASE PostAndCommit(a)
        BY <2>1, <3>2 DEF PostAndCommit, TypeOK, Row
      <3>3. QED
        BY <2>3, <3>1, <3>2
    <2>4. ASSUME NEW w \in Workers, WorkerStep(w)
          PROVE  draft'[d].fields = draft[d].fields
      <3>1. CASE CommitCorrection(w)
        <4>1. draft[worker[w].draft].status # "posted"
          BY <3>1 DEF IInv, WorkersOK, CorrectionOpen, CommitCorrection
        <4>2. d # worker[w].draft
          BY <4>1
        <4>3. QED
          BY <2>1, <3>1, <4>2, CorrectedRow
      <3>2. QED
        BY <2>4, <3>1, WorkerKeeps
    <2>5. CASE UNCHANGED <<draft, inbox, journal, pipeline>>
      BY <2>5
    <2>6. QED
      BY <2>2, <2>3, <2>4, <2>5, Committers, Zenon
  <1>2. QED
    BY <1>1, InductiveInvariant, PTL DEF Spec, PostedFieldsFrozen

\* An approval appends one entry of the abstract ledger, and no other step
\* touches it.
LEMMA LedgerStep == IInv /\ [Next]_vars => [Books!LedgerNext]_journal
  <1> SUFFICES ASSUME IInv, [Next]_vars, journal' # journal PROVE Books!LedgerNext
    OBVIOUS
  <1>1. PICK a \in Actors :
          /\ PostAndCommit(a)
          /\ tx[a] \in Transaction
          /\ CompanyOf[tx[a].draft] \in Companies
          /\ journal' = [journal EXCEPT ![CompanyOf[tx[a].draft]] =
                           Append(@, [number |-> Len(@) + 1,
                                      body   |-> BodyOf(a, tx[a].draft, tx[a].fields)])]
    BY JournalStep, Zenon DEF IInv
  <1>2. /\ a \in Approvers
        /\ tx[a].draft \in Drafts
        /\ tx[a].fields \in {g \in Fields : Postable(g)}
    <2>1. tx[a].draft \in Drafts /\ tx[a].fields \in Fields
      BY <1>1 DEF Transaction
    <2>2. Postable(tx[a].fields) /\ a \in Approvers
      BY <1>1, Zenon DEF PostAndCommit, IInv, TxOK
    <2>3. QED
      BY <2>1, <2>2
  <1>3. BodyOf(a, tx[a].draft, tx[a].fields) \in WellFormedBodies
    BY <1>2 DEF WellFormedBodies
  <1>4. QED
    BY <1>1, <1>3, Zenon DEF Books!LedgerNext, Books!Post

\* The journal implements the append-only ledger of module Ledger: what is
\* posted stays posted, in the order and with the numbers it was posted.
THEOREM RefinesLedger == Spec => JournalIsLedger
  <1>1. Init => Books!LedgerInit
    BY DEF Init, Books!LedgerInit
  <1>2. QED
    BY <1>1, LedgerStep, InductiveInvariant, PTL DEF Spec, JournalIsLedger, Books!LedgerSpec
---------------------------------------------------------------------------
(* Who changes a row, and what becomes of the other requests               *)

\* What a duplicate flag may become.
KeepsFlag(a, b) ==
  /\ a = "exact_duplicate" => b = "exact_duplicate"
  /\ a = "likely_duplicate" => b # "unique"

\* One request opens, moves on with what it has read, or ends.
TxMove(a) ==
  /\ \A b \in Actors \ {a} : tx'[b] = tx[b]
  /\ \/ tx'[a].step = "idle"
     \/ /\ tx[a].step # "idle" /\ tx'[a].step # "edited"
        /\ \A x \in {"op", "draft", "fields", "dup"} : tx'[a][x] = tx[a][x]
        /\ UNCHANGED <<draft, journal>>
     \/ \E op \in {"approve", "reject", "clarify", "confirm"}, d \in Drafts :
          /\ draft[d].status = RequiredStatus(op)
          /\ tx'[a].step = "read" /\ tx'[a].op = op
          /\ tx'[a].draft = d /\ tx'[a].fields = draft[d].fields
          /\ UNCHANGED <<draft, journal>>
     \/ \E d \in Drafts :
          /\ tx'[a].step = "edited" /\ tx'[a].op = "edit" /\ tx'[a].draft = d
          /\ KeepsFlag(draft[d].dup, tx'[a].dup)
          /\ UNCHANGED <<draft, journal>>

\* Every step is one of these, or one of a worker's, or does nothing.
LEMMA TxMoves ==
  ASSUME TypeOK, [Next]_vars
  PROVE  \/ UNCHANGED vars
         \/ \E a \in Actors : TxMove(a)
         \/ \E w \in Workers : WorkerStep(w)
  <1>1. ASSUME NEW a \in Actors, NEW d \in Drafts,
               NEW op \in {"approve", "reject", "clarify", "confirm"}, ReadDraft(a, op, d)
        PROVE  TxMove(a)
    <2>1. /\ tx'[a] = [op |-> op, step |-> "read", draft |-> d, fields |-> draft[d].fields,
                       dup |-> draft[d].dup, number |-> 0]
          /\ \A b \in Actors \ {a} : tx'[b] = tx[b]
          /\ draft[d].status = RequiredStatus(op) /\ UNCHANGED <<draft, journal>>
      BY <1>1 DEF ReadDraft, Start, TypeOK
    <2>2. QED
      BY <2>1 DEF TxMove
  <1>2. ASSUME NEW a \in Actors, NEW d \in Drafts, NEW p \in Patches, EditDraft(a, d, p)
        PROVE  TxMove(a)
    <2>1. PICK u : u = IF DuplicateRelevant(draft[d].fields, Merged(draft[d].fields, p))
                       THEN Reevaluated(d, Merged(draft[d].fields, p)) ELSE draft[d].dup
      OBVIOUS
    <2>2. PICK f : f = Merged(draft[d].fields, p)
      OBVIOUS
    <2>3. Start(a, "edit", "edited", d, f, u)
      BY <1>2, <2>1, <2>2, Zenon DEF EditDraft
    <2>4. /\ tx'[a] = [op |-> "edit", step |-> "edited", draft |-> d, fields |-> f, dup |-> u, number |-> 0]
          /\ \A b \in Actors \ {a} : tx'[b] = tx[b]
          /\ UNCHANGED <<draft, journal>>
      BY <2>3 DEF Start, TypeOK
    <2>5. tx'[a].step = "edited" /\ tx'[a].op = "edit" /\ tx'[a].draft = d /\ tx'[a].dup = u
      BY <2>4
    <2>6. KeepsFlag(draft[d].dup, u)
      BY <2>1 DEF KeepsFlag, Reevaluated
    <2>7. QED
      BY <2>4, <2>5, <2>6, Zenon DEF TxMove
  <1>3. ASSUME NEW a \in Actors, FlushStatus(a) \/ NumberEntry(a) \/ InsertEntry(a)
        PROVE  TxMove(a)
    <2>1. tx[a] \in Transaction /\ tx[a].step # "idle"
      BY <1>3, OpenTx DEF FlushStatus, NumberEntry, InsertEntry
    <2>2. /\ \A b \in Actors \ {a} : tx'[b] = tx[b]
          /\ tx'[a].step # "edited" /\ tx'[a].op = tx[a].op /\ tx'[a].draft = tx[a].draft
          /\ tx'[a].fields = tx[a].fields /\ tx'[a].dup = tx[a].dup
          /\ UNCHANGED <<draft, journal>>
      BY <1>3, <2>1 DEF FlushStatus, NumberEntry, InsertEntry, Advance, TypeOK, Transaction
    <2>3. QED
      BY <2>1, <2>2 DEF TxMove
  <1>4. ASSUME NEW a \in Actors, Finish(a)
        PROVE  TxMove(a)
    BY <1>4 DEF Finish, TypeOK, NoTx, TxMove
  <1>5. QED
    BY <1>1, <1>2, <1>3, <1>4, Zenon
       DEF Next, RequestStep, CommitDecision, PostAndCommit, RefusePosting, CommitEdit, Rollback

\* A request that commits a row holds it: a decision changes the status, an edit
\* the fields and the duplicate flag.
RequestWrites(a, d) ==
  /\ HoldsRow(a, d) /\ tx'[a].step = "idle"
  /\ \A b \in Actors \ {a} : tx'[b] = tx[b]
  /\ \/ /\ tx[a].op # "edit"
        /\ draft'[d].fields = draft[d].fields /\ draft'[d].dup = draft[d].dup
     \/ /\ tx[a].step = "edited" /\ draft'[d].dup = tx[a].dup
        /\ draft'[d].status = draft[d].status
        /\ draft'[d].approved_by = draft[d].approved_by

\* A correction commits while no request holds the row, and keeps the status.
WorkerWrites(w, d) ==
  /\ HoldsItem(w, d) /\ worker'[w] = Idle /\ tx' = tx
  /\ \A a \in Actors : ~HoldsRow(a, d)
  /\ draft'[d].status = draft[d].status

\* Nothing else changes a row.
LEMMA RowWriter ==
  ASSUME TypeOK, TxOK, [Next]_vars, NEW d \in Drafts, draft'[d] # draft[d]
  PROVE  (\E a \in Actors : RequestWrites(a, d)) \/ (\E w \in Workers : WorkerWrites(w, d))
  <1>1. ASSUME NEW w \in Workers, WorkerStep(w)
        PROVE  WorkerWrites(w, d)
    <2>1. CommitCorrection(w) /\ tx' = tx
      BY <1>1, WorkerKeeps
    <2>2. worker[w].draft = d /\ \A a \in Actors : ~HoldsRow(a, d)
      BY <2>1, CorrectedRow
    <2>3. worker'[w] = Idle /\ HoldsItem(w, d)
      BY <2>1, <2>2 DEF CommitCorrection, HoldsItem, TypeOK
    <2>4. draft'[d].status = draft[d].status
      BY <1>1, CorrectionKeepsStatus
    <2>5. QED
      BY <2>1, <2>2, <2>3, <2>4 DEF WorkerWrites
  <1>2. ASSUME NEW a \in Actors, CommitDecision(a) \/ PostAndCommit(a) \/ CommitEdit(a)
        PROVE  RequestWrites(a, d)
    <2>1. tx'[a].step = "idle" /\ \A b \in Actors \ {a} : tx'[b] = tx[b]
      BY <1>2 DEF CommitDecision, PostAndCommit, CommitEdit, Finish, TypeOK, NoTx
    <2>2. tx[a].draft = d /\ tx[a].step \notin {"idle", "read"}
      BY <1>2 DEF CommitDecision, PostAndCommit, CommitEdit, TypeOK
    <2>3. CASE CommitDecision(a)
      <3>1. draft'[d].fields = draft[d].fields /\ draft'[d].dup = draft[d].dup
        BY <2>2, <2>3 DEF CommitDecision, TypeOK, Row
      <3>2. tx[a].op # "edit"
        BY <2>3 DEF CommitDecision
      <3>3. QED
        BY <2>1, <2>2, <3>1, <3>2 DEF RequestWrites, HoldsRow
    <2>4. CASE PostAndCommit(a)
      <3>1. tx[a].op = "approve"
        BY <2>4 DEF PostAndCommit, TxOK
      <3>2. draft'[d].fields = draft[d].fields /\ draft'[d].dup = draft[d].dup
        BY <2>2, <2>4 DEF PostAndCommit, TypeOK, Row
      <3>3. QED
        BY <2>1, <2>2, <3>1, <3>2 DEF RequestWrites, HoldsRow
    <2>5. CASE CommitEdit(a)
      <3>1. /\ tx[a].step = "edited" /\ draft'[d].status = draft[d].status
            /\ draft'[d].approved_by = draft[d].approved_by /\ draft'[d].dup = tx[a].dup
        BY <2>2, <2>5 DEF CommitEdit, TypeOK, Row
      <3>2. QED
        BY <2>1, <2>2, <3>1 DEF RequestWrites, HoldsRow
    <2>6. QED
      BY <1>2, <2>3, <2>4, <2>5
  <1>3. QED
    BY <1>1, <1>2, Committers, Zenon

---------------------------------------------------------------------------
(* Duplicate flags *)

\* The flag that an edit will commit was computed from the one that is there,
\* for the editor has the row locked since.
FlagCarried == \A a \in Actors :
  tx[a].step = "edited" => KeepsFlag(draft[tx[a].draft].dup, tx[a].dup)

\* Whoever opens an edit reads the flag under the lock, and nobody else writes it.
LEMMA FlagCarriedStep == IInv /\ FlagCarried /\ [Next]_vars => FlagCarried'
  <1> SUFFICES ASSUME IInv, FlagCarried, [Next]_vars,
                      NEW a \in Actors, tx'[a].step = "edited"
               PROVE  KeepsFlag(draft'[tx'[a].draft].dup, tx'[a].dup)
    BY DEF FlagCarried
  <1>1. TypeOK /\ TxOK /\ OneWriter
    BY DEF IInv
  <1>2. CASE UNCHANGED vars
    BY <1>2 DEF vars, FlagCarried
  <1>3. ASSUME NEW b \in Actors, TxMove(b), b # a
        PROVE  KeepsFlag(draft'[tx'[a].draft].dup, tx'[a].dup)
    <2>1. tx'[a] = tx[a] /\ tx[a].step = "edited"
      BY <1>3 DEF TxMove
    <2>2. tx[a].draft \in Drafts /\ HoldsRow(a, tx[a].draft)
      BY <1>1, <2>1, OpenTx DEF HoldsRow
    <2>3. draft'[tx[a].draft].dup = draft[tx[a].draft].dup
      BY <1>1, <2>1, <2>2, RowWriter DEF OneWriter, RequestWrites, WorkerWrites
    <2>4. QED
      BY <2>1, <2>3 DEF FlagCarried
  <1>4. CASE TxMove(a)
    BY <1>4 DEF TxMove, KeepsFlag
  <1>5. ASSUME NEW w \in Workers, WorkerStep(w)
        PROVE  KeepsFlag(draft'[tx'[a].draft].dup, tx'[a].dup)
    <2>1. tx' = tx
      BY <1>5, WorkerKeeps
    <2>2. tx[a].draft \in Drafts /\ HoldsRow(a, tx[a].draft)
      BY <1>1, <2>1, OpenTx DEF HoldsRow
    <2>3. draft'[tx[a].draft] = draft[tx[a].draft]
      BY <1>1, <2>1, <2>2, RowWriter DEF RequestWrites, WorkerWrites, HoldsRow
    <2>4. QED
      BY <2>1, <2>3 DEF FlagCarried
  <1>6. QED
    BY <1>1, <1>2, <1>3, <1>4, <1>5, TxMoves

\* However many edits, decisions and corrections overlap, only a correction, which
\* looks for duplicates anew, clears an exact duplicate or makes a likely one
\* unique: no edit does, by itself or by writing a flag it read before.
THEOREM DuplicateFlagsKept == Spec => DuplicateFlagKept
  <1>1. Init => FlagCarried
    BY DEF Init, FlagCarried, NoTx
  <1>2. IInv /\ FlagCarried /\ [Next]_vars =>
          [\A d \in Drafts : ~Corrects(d) =>
             /\ draft[d].dup = "exact_duplicate" => draft'[d].dup = "exact_duplicate"
             /\ draft[d].dup = "likely_duplicate" => draft'[d].dup # "unique"]_vars
    <2> SUFFICES ASSUME IInv, FlagCarried, [Next]_vars, NEW d \in Drafts, ~Corrects(d)
                 PROVE  KeepsFlag(draft[d].dup, draft'[d].dup)
      BY DEF KeepsFlag
    <2>1. TypeOK /\ TxOK
      BY DEF IInv
    <2>2. CASE draft'[d] = draft[d]
      BY <2>2 DEF KeepsFlag
    <2>3. CASE draft'[d] # draft[d]
      <3>1. PICK a \in Actors : RequestWrites(a, d)
        BY <2>1, <2>3, RowWriter DEF WorkerWrites, Corrects
      <3>2. QED
        BY <3>1 DEF RequestWrites, KeepsFlag, FlagCarried, HoldsRow
    <2>4. QED
      BY <2>2, <2>3
  <1>3. QED
    BY <1>1, <1>2, FlagCarriedStep, InductiveInvariant, PTL DEF Spec, DuplicateFlagKept
---------------------------------------------------------------------------
(* One decision at a time                                                  *)
(*                                                                         *)
(* Overlapping decisions on a draft can post it twice (run                 *)
(* review_double_posting).  That they overlap is the only reason: whatever *)
(* else runs at the same time, on this draft or on others, a draft with    *)
(* one decision at a time is posted once, and for good.                    *)

Deciding(a, d) == tx[a].step # "idle" /\ tx[a].op # "edit" /\ tx[a].draft = d

OneDecision == \A a, b \in Actors, d \in Drafts :
  Deciding(a, d) /\ Deciding(b, d) => a = b

\* Neither is there an edit or a correction while a decision is open.
OneRequest == \A a \in Actors, d \in Drafts : Deciding(a, d) =>
  /\ \A b \in Actors : tx[b].step # "idle" /\ tx[b].draft = d => a = b
  /\ ItemFree(d)

\* The status that a decision has tested still is the draft's.
StillRequired == \A a \in Actors, d \in Drafts :
  Deciding(a, d) => draft[d].status = RequiredStatus(tx[a].op)

\* Nothing takes a draft with an entry out of the posted status.
EntriesArePosted == \A c \in Companies : \A i \in 1..Len(journal[c]) :
  draft[journal[c][i].body.draft].status = "posted"

PostedOnce == StillRequired /\ EntriesArePosted /\ AtMostOneEntryPerDraft

\* A decision that ends has the draft for itself, so it finds what it has tested.
LEMMA StillRequiredStep ==
  IInv /\ OneDecision /\ StillRequired /\ [Next]_vars => StillRequired'
  <1> SUFFICES ASSUME IInv, OneDecision, StillRequired, [Next]_vars,
                      NEW a \in Actors, NEW d \in Drafts, Deciding(a, d)'
               PROVE  draft'[d].status = RequiredStatus(tx'[a].op)
    BY DEF StillRequired
  <1>1. TypeOK /\ TxOK
    BY DEF IInv
  <1>2. ASSUME NEW b \in Actors, RequestWrites(b, d)
        PROVE  draft'[d].status = RequiredStatus(tx'[a].op)
    <2>1. /\ HoldsRow(b, d) /\ tx'[b].step = "idle"
          /\ \A e \in Actors \ {b} : tx'[e] = tx[e]
          /\ tx[b].op # "edit" \/ draft'[d].status = draft[d].status
      BY <1>2 DEF RequestWrites
    <2>2. tx'[a] = tx[a] /\ a # b
      BY <2>1 DEF Deciding
    <2>3. Deciding(a, d)
      BY <2>2 DEF Deciding
    <2>4. draft'[d].status = draft[d].status
      BY <2>1, <2>2, <2>3 DEF OneDecision, Deciding, HoldsRow
    <2>5. QED
      BY <2>2, <2>3, <2>4 DEF StillRequired
  <1>3. CASE tx' = tx /\ draft'[d].status = draft[d].status
    BY <1>3 DEF StillRequired, Deciding
  <1>4. CASE draft'[d] = draft[d]
    <2>1. CASE UNCHANGED tx
      BY <1>3, <1>4, <2>1
    <2>2. ASSUME NEW b \in Actors, TxMove(b)
          PROVE  draft'[d].status = RequiredStatus(tx'[a].op)
      <3>1. CASE a # b
        BY <1>4, <2>2, <3>1 DEF TxMove, StillRequired, Deciding
      <3>2. CASE a = b
        BY <1>4, <2>2, <3>2 DEF TxMove, StillRequired, Deciding
      <3>3. QED
        BY <3>1, <3>2
    <2>3. QED
      BY <1>1, <2>1, <2>2, TxMoves, WorkerKeeps DEF vars
  <1>5. QED
    BY <1>1, <1>2, <1>3, <1>4, RowWriter DEF WorkerWrites

\* A draft that no decision finds ready is not decided.
LEMMA DecidedStays ==
  ASSUME IInv, StillRequired, [Next]_vars, NEW d \in Drafts,
         draft[d].status \in {"posted", "rejected"}
  PROVE  draft'[d] = draft[d]
  <1> SUFFICES ASSUME draft'[d] # draft[d] PROVE FALSE
    OBVIOUS
  <1>1. TypeOK /\ TxOK /\ EditedIsOpen /\ CorrectionOpen
    BY DEF IInv, WorkersOK
  <1>2. PICK a \in Actors : HoldsRow(a, d) /\ (tx[a].op # "edit" \/ tx[a].step = "edited")
    <2>1. \A w \in Workers : ~HoldsItem(w, d)
      BY <1>1 DEF CorrectionOpen, HoldsItem
    <2>2. QED
      BY <1>1, <2>1, RowWriter DEF RequestWrites, WorkerWrites
  <1>3. CASE tx[a].op # "edit"
    BY <1>2, <1>3 DEF StillRequired, Deciding, HoldsRow, RequiredStatus
  <1>4. CASE tx[a].step = "edited"
    BY <1>1, <1>2, <1>4 DEF EditedIsOpen, HoldsRow, OpenStatuses
  <1>5. QED
    BY <1>2, <1>3, <1>4

\* An entry's draft is one of the drafts.
LEMMA EntryTypes ==
  ASSUME TypeOK, NEW c \in Companies, NEW i \in 1..Len(journal[c])
  PROVE  journal[c][i].body.draft \in Drafts
  <1>1. journal[c] \in Seq(Entry)
    BY DEF TypeOK
  <1>2. journal[c][i] \in Entry
    BY <1>1
  <1>3. QED
    BY <1>2 DEF Entry, Body

\* An approval finds its draft ready for review, hence without an entry.
LEMMA PostedOnceStep ==
  IInv /\ OneDecision /\ PostedOnce /\ [Next]_vars => PostedOnce'
  <1> SUFFICES ASSUME IInv, OneDecision, PostedOnce, [Next]_vars PROVE PostedOnce'
    OBVIOUS
  <1>1. TypeOK /\ TxOK /\ NumbersOK /\ StillRequired
    BY DEF IInv, PostedOnce
  <1>2. StillRequired'
    BY StillRequiredStep DEF PostedOnce
  <1>3. \A d \in Drafts : draft[d].status = "posted" => draft'[d].status = "posted"
    BY <1>1, DecidedStays
  <1>4. CASE journal' = journal
    <2>1. EntriesArePosted'
      BY <1>1, <1>3, <1>4, EntryTypes DEF PostedOnce, EntriesArePosted
    <2>2. QED
      BY <1>2, <1>4, <2>1 DEF PostedOnce, AtMostOneEntryPerDraft
  <1>5. CASE journal' # journal
    <2>1. PICK a \in Actors :
            /\ PostAndCommit(a)
            /\ tx[a] \in Transaction
            /\ CompanyOf[tx[a].draft] \in Companies
            /\ journal' = [journal EXCEPT ![CompanyOf[tx[a].draft]] =
                             Append(@, [number |-> Len(@) + 1,
                                        body   |-> BodyOf(a, tx[a].draft, tx[a].fields)])]
      BY <1>1, <1>5, JournalStep, Zenon
    <2>2. PICK d \in Drafts : d = tx[a].draft
      BY <2>1 DEF Transaction
    <2>3. tx[a].step = "inserted" /\ tx[a].op = "approve"
      BY <1>1, <2>1 DEF PostAndCommit, TxOK
    <2>4. draft[d].status = "ready_for_review"
      BY <1>1, <2>2, <2>3 DEF StillRequired, Deciding, RequiredStatus
    <2>5. draft'[d].status = "posted"
      BY <1>1, <2>1, <2>2 DEF PostAndCommit, TypeOK, Row
    <2>6. \A c \in Companies : \A i \in 1..Len(journal'[c]) :
            \/ i \in 1..Len(journal[c]) /\ journal'[c][i].body.draft = journal[c][i].body.draft
            \/ c = CompanyOf[d] /\ i = Len(journal[c]) + 1 /\ journal'[c][i].body.draft = d
      BY <1>1, <2>1, <2>2 DEF TypeOK, BodyOf
    <2>7. \A c \in Companies : \A i \in 1..Len(journal[c]) : journal[c][i].body.draft # d
      BY <2>4 DEF PostedOnce, EntriesArePosted
    <2>8. EntriesArePosted'
      BY <1>1, <1>3, <2>5, <2>6, EntryTypes DEF PostedOnce, EntriesArePosted
    <2>9. AtMostOneEntryPerDraft'
      BY <2>6, <2>7 DEF PostedOnce, AtMostOneEntryPerDraft
    <2>10. QED
      BY <1>2, <2>8, <2>9 DEF PostedOnce
  <1>6. QED
    BY <1>4, <1>5

\* At first no request is open and nothing is posted.
LEMMA InitPostedOnce == Init => PostedOnce
  <1> SUFFICES ASSUME Init PROVE PostedOnce
    OBVIOUS
  <1>1. \A a \in Actors : tx[a].step = "idle"
    BY DEF Init, NoTx
  <1>2. \A c \in Companies : 1..Len(journal[c]) = {}
    BY DEF Init
  <1>3. QED
    BY <1>1, <1>2 DEF PostedOnce, StillRequired, Deciding, EntriesArePosted, AtMostOneEntryPerDraft

\* Decisions that do not overlap find the status that they have tested.
LEMMA PostedOnceInvariant == Spec /\ []OneDecision => []PostedOnce
  BY InitPostedOnce, PostedOnceStep, InductiveInvariant, PTL DEF Spec

\* A draft whose decisions do not overlap is posted once, whatever edits run at the
\* same time and whatever goes on at other drafts.
THEOREM OnePostingPerDraft == Spec /\ []OneDecision => []AtMostOneEntryPerDraft
  BY PostedOnceInvariant, PTL DEF PostedOnce

\* And its decision is final.
THEOREM DecisionsAreFinal == Spec /\ []OneDecision => DecisionIsFinal
  <1>1. IInv /\ PostedOnce /\ [Next]_vars =>
          [\A d \in Drafts : draft[d].status \in {"posted", "rejected"} => draft'[d] = draft[d]]_vars
    BY DecidedStays DEF PostedOnce
  <1>2. QED
    BY <1>1, PostedOnceInvariant, InductiveInvariant, PTL DEF Spec, DecisionIsFinal

---------------------------------------------------------------------------
(* No edit during a decision *)

\* What an approval has read still is what the draft says.
StillRead == \A a \in Actors, d \in Drafts :
  Deciding(a, d) => tx[a].fields = draft[d].fields

PostedAsRead == StillRead /\ EntryMatchesDraft

\* Only an edit changes the fields.
LEMMA StillReadStep == IInv /\ OneRequest /\ StillRead /\ [Next]_vars => StillRead'
  <1> SUFFICES ASSUME IInv, OneRequest, StillRead, [Next]_vars,
                      NEW a \in Actors, NEW d \in Drafts, Deciding(a, d)'
               PROVE  tx'[a].fields = draft'[d].fields
    BY DEF StillRead
  <1>1. TypeOK /\ TxOK
    BY DEF IInv
  <1>2. ASSUME NEW b \in Actors, RequestWrites(b, d)
        PROVE  tx'[a].fields = draft'[d].fields
    <2>1. /\ HoldsRow(b, d) /\ tx'[b].step = "idle"
          /\ \A e \in Actors \ {b} : tx'[e] = tx[e]
      BY <1>2 DEF RequestWrites
    <2>2. tx'[a] = tx[a] /\ a # b
      BY <2>1 DEF Deciding
    <2>3. Deciding(a, d)
      BY <2>2 DEF Deciding
    <2>4. QED
      BY <2>1, <2>2, <2>3 DEF OneRequest, HoldsRow
  <1>3. ASSUME NEW w \in Workers, WorkerWrites(w, d)
        PROVE  FALSE
    BY <1>3 DEF WorkerWrites, OneRequest, Deciding, ItemFree
  <1>4. CASE draft'[d] = draft[d]
    <2>1. CASE UNCHANGED tx
      BY <1>4, <2>1 DEF StillRead, Deciding
    <2>2. ASSUME NEW b \in Actors, TxMove(b)
          PROVE  tx'[a].fields = draft'[d].fields
      <3>1. CASE a # b
        BY <1>4, <2>2, <3>1 DEF TxMove, StillRead, Deciding
      <3>2. CASE a = b
        BY <1>4, <2>2, <3>2 DEF TxMove, StillRead, Deciding
      <3>3. QED
        BY <3>1, <3>2
    <2>3. QED
      BY <1>1, <2>1, <2>2, TxMoves, WorkerKeeps DEF vars
  <1>5. QED
    BY <1>1, <1>2, <1>3, <1>4, RowWriter

\* A draft that becomes posted is posted by an approval of it.
LEMMA PostsHere ==
  ASSUME TypeOK, [Next]_vars, NEW d \in Drafts,
         draft'[d].status = "posted", draft[d].status # "posted"
  PROVE  \E a \in Actors : PostAndCommit(a) /\ tx[a].draft = d
  <1>1. ASSUME NEW a \in Actors, CommitDecision(a) \/ CommitEdit(a)
        PROVE  FALSE
    <2>1. CASE CommitDecision(a)
      BY <2>1 DEF CommitDecision, Decided, TypeOK, Row
    <2>2. CASE CommitEdit(a)
      BY <2>2 DEF CommitEdit, TypeOK, Row
    <2>3. QED
      BY <1>1, <2>1, <2>2
  <1>2. ASSUME NEW w \in Workers, WorkerStep(w)
        PROVE  FALSE
    BY <1>2, CorrectionKeepsStatus
  <1>3. PICK a \in Actors : PostAndCommit(a)
    BY <1>1, <1>2, Committers, Zenon
  <1>4. QED
    BY <1>3 DEF PostAndCommit, TypeOK

\* The row and the entry are written from one and the same fields.
LEMMA PostedAsReadStep ==
  IInv /\ OneRequest /\ StillRequired /\ PostedAsRead /\ [Next]_vars => PostedAsRead'
  <1> SUFFICES ASSUME IInv, OneRequest, StillRequired, PostedAsRead, [Next]_vars
               PROVE  PostedAsRead'
    OBVIOUS
  <1>1. TypeOK /\ TxOK /\ NumbersOK
    BY DEF IInv
  <1>2. StillRead'
    BY StillReadStep DEF PostedAsRead
  <1>3. ASSUME NEW d \in Drafts, draft'[d].status = "posted"
        PROVE  \E i \in 1..Len(journal'[CompanyOf[d]]) :
                 journal'[CompanyOf[d]][i].body = BodyOf(draft'[d].approved_by, d, draft'[d].fields)
    <2>0. CompanyOf[d] \in Companies
      BY ConstantsAssumption
    <2>1. CASE draft[d].status = "posted"
      <3>1. draft'[d] = draft[d]
        BY <2>1, DecidedStays
      <3>2. PICK i \in 1..Len(journal[CompanyOf[d]]) :
              journal[CompanyOf[d]][i].body = BodyOf(draft[d].approved_by, d, draft[d].fields)
        BY <2>1 DEF PostedAsRead, EntryMatchesDraft
      <3>3. i \in 1..Len(journal'[CompanyOf[d]]) /\ journal'[CompanyOf[d]][i] = journal[CompanyOf[d]][i]
        <4>1. CASE journal' = journal
          BY <4>1
        <4>2. CASE journal' # journal
          <5>1. PICK c, e : c \in Companies /\ journal' = [journal EXCEPT ![c] = Append(@, e)]
            BY <1>1, <4>2, JournalStep
          <5>2. QED
            BY <1>1, <2>0, <5>1 DEF TypeOK
        <4>3. QED
          BY <4>1, <4>2
      <3>4. QED
        BY <3>1, <3>2, <3>3, Zenon
    <2>2. CASE draft[d].status # "posted"
      <3>1. PICK a \in Actors : PostAndCommit(a) /\ tx[a].draft = d
        BY <1>1, <1>3, <2>2, PostsHere
      <3>2. Deciding(a, d)
        BY <1>1, <3>1 DEF Deciding, PostAndCommit, TxOK
      <3>3. tx[a].fields = draft[d].fields
        BY <3>2 DEF PostedAsRead, StillRead
      <3>4. draft'[d].fields = draft[d].fields /\ draft'[d].approved_by = a
        BY <1>1, <3>1 DEF PostAndCommit, TypeOK, Row
      <3>5. journal'[CompanyOf[d]] =
              Append(journal[CompanyOf[d]],
                     [number |-> tx[a].number, body |-> BodyOf(a, d, tx[a].fields)])
        BY <1>1, <2>0, <3>1 DEF PostAndCommit, TypeOK
      <3>6. PICK b : b = BodyOf(a, d, tx[a].fields)
        OBVIOUS
      <3>7. /\ Len(journal[CompanyOf[d]]) + 1 \in 1..Len(journal'[CompanyOf[d]])
            /\ journal'[CompanyOf[d]][Len(journal[CompanyOf[d]]) + 1].body = b
        BY <1>1, <2>0, <3>5, <3>6 DEF TypeOK
      <3>8. QED
        BY <3>3, <3>4, <3>6, <3>7, Zenon
    <2>3. QED
      BY <2>1, <2>2
  <1>4. QED
    BY <1>2, <1>3 DEF PostedAsRead, EntryMatchesDraft

\* As long as nothing else is open at a draft while a decision is, no correction
\* either, the entry of a
\* posted draft says what the draft says.
THEOREM EntriesMatchDrafts == Spec /\ []OneRequest => []EntryMatchesDraft
  <1>1. Init => PostedAsRead
    <2> SUFFICES ASSUME Init PROVE PostedAsRead
      OBVIOUS
    <2>1. \A a \in Actors : tx[a].step = "idle"
      BY DEF Init, NoTx
    <2>2. \A d \in Drafts : draft[d].status # "posted"
      BY DEF Init
    <2>3. QED
      BY <2>1, <2>2 DEF PostedAsRead, StillRead, Deciding, EntryMatchesDraft
  <1>2. OneRequest => OneDecision
    BY DEF OneRequest, OneDecision, Deciding
  <1>3. IInv /\ OneRequest /\ PostedOnce /\ PostedAsRead /\ [Next]_vars => PostedAsRead'
    BY PostedAsReadStep DEF PostedOnce
  <1>4. QED
    BY <1>1, <1>2, <1>3, PostedOnceInvariant, InductiveInvariant, PTL DEF Spec, PostedAsRead
---------------------------------------------------------------------------
(* One request at a time *)

\* A server that handles one request at a time has no two of them open.
LEMMA OneAtATime ==
  ASSUME MaxInFlight = 1
  PROVE  Spec => [](\A a, b \in Busy : a = b)
  <1> DEFINE Alone == \A a, b \in Busy : a = b
  <1>1. Init => Alone
    BY DEF Init, Busy
  <1>2. Alone /\ TypeOK /\ [Next]_vars => Alone'
    <2> SUFFICES ASSUME Alone, TypeOK, [Next]_vars PROVE Alone'
      OBVIOUS
    <2>1. ASSUME NEW a \in Actors, NEW op, NEW s, NEW d, NEW f, NEW u, Start(a, op, s, d, f, u)
          PROVE  Alone'
      <3>1. Busy = {}
        <4>1. Cardinality(Busy) < 1
          BY <2>1 DEF Start, Admit
        <4>2. ASSUME NEW b \in Busy PROVE FALSE
          <5>1. Busy = {b}
            BY <4>2
          <5>2. Cardinality({b}) = 1
            BY FS_Singleton
          <5>3. QED
            BY <4>1, <5>1, <5>2
        <4>3. QED
          BY <4>2
      <3>2. \A b \in Actors \ {a} : tx'[b] = tx[b]
        BY <2>1 DEF Start, TypeOK
      <3>3. QED
        BY <3>1, <3>2 DEF Busy
    <2>2. ASSUME Busy' \subseteq Busy
          PROVE  Alone'
      BY <2>2
    <2>3. ASSUME NEW a \in Actors, FlushStatus(a) \/ NumberEntry(a) \/ InsertEntry(a)
          PROVE  Busy' \subseteq Busy
      <3>1. tx[a] # NoTx /\ \A b \in Actors \ {a} : tx'[b] = tx[b]
        BY <2>3 DEF FlushStatus, NumberEntry, InsertEntry, Advance, NoTx, TypeOK
      <3>2. QED
        BY <3>1 DEF Busy
    <2>4. ASSUME NEW a \in Actors, Finish(a)
          PROVE  Busy' \subseteq Busy
      BY <2>4 DEF Finish, TypeOK, Busy
    <2>5. CASE UNCHANGED tx
      BY <2>2, <2>5 DEF Busy
    <2>6. UNCHANGED vars => UNCHANGED tx
      BY DEF vars
    <2> HIDE DEF Alone
    <2>7. QED
      BY <2>1, <2>2, <2>3, <2>4, <2>5, <2>6, WorkerKeeps, Zenon
         DEF Next, RequestStep, ReadDraft, EditDraft, CommitDecision, PostAndCommit, RefusePosting, CommitEdit, Rollback
  <1>3. QED
    BY <1>1, <1>2, TypeCorrect, PTL DEF Spec

\* One request at a time: whatever the workers correct meanwhile, a draft is
\* posted once and its decision is final.
THEOREM OneAtATimeIsSafe ==
  ASSUME MaxInFlight = 1
  PROVE  Spec => []AtMostOneEntryPerDraft /\ DecisionIsFinal
  <1>1. TypeOK /\ (\A a, b \in Busy : a = b) => OneDecision
    BY DEF OneDecision, Deciding, Busy, NoTx
  <1>2. QED
    BY <1>1, OneAtATime, TypeCorrect, OnePostingPerDraft, DecisionsAreFinal, PTL

\* Without corrections, its entry then says what it says.
THEOREM OneAtATimeMatches ==
  ASSUME MaxInFlight = 1, Workers = {}
  PROVE  Spec => []EntryMatchesDraft
  <1>1. TypeOK /\ (\A a, b \in Busy : a = b) => OneRequest
    BY DEF OneRequest, Deciding, Busy, NoTx, ItemFree
  <1>2. QED
    BY <1>1, OneAtATime, TypeCorrect, EntriesMatchDrafts, PTL
=============================================================================
