------------------------ MODULE DocumentIntakeProofs ------------------------
(***************************************************************************)
(* Theorems about DocumentIntake for any documents, contents and requests. *)
(***************************************************************************)
EXTENDS DocumentIntake, TLAPS

(***************************************************************************)
(* The inductive invariant.                                                *)
(***************************************************************************)

\* A request is at work on a document that was inserted and committed.
Working(p) == intake[p].step \notin {"idle", "inserting"}

AtInserted == \A p \in Handlers :
  Working(p) => document[intake[p].document].status # "absent"

\* A row that is not committed is one request's, and so is its content.
InsertsAlone(p) ==
  /\ document[intake[p].document].status = "absent"
  /\ With(intake[p].content) = {}
  /\ \A q \in Handlers \ {p} : intake[q].step = "inserting" =>
       /\ intake[q].document # intake[p].document
       /\ intake[q].content # intake[p].content

InsertersAlone == \A p \in Handlers : intake[p].step = "inserting" => InsertsAlone(p)

\* What a request has uploaded is there when it commits, unless another one is
\* about to delete the document, or has failed at it.
Kept(d) == d \in broken \/ d \notin Live \/ d \in files \/ At_(d, {"erased"})

WrittenIsKept == \A p \in Handlers :
  intake[p].step \in {"written", "rewritten"} => Kept(intake[p].document)

Tending == AtInserted /\ DocumentsTended /\ WrittenIsKept

IInv == DocumentTypeOK /\ OneDocumentPerContent /\ InsertersAlone /\ Tending

---------------------------------------------------------------------------
(* Type correctness *)

\* A request at work on a document has a record of one.
LEMMA IntakeTypes ==
  ASSUME DocumentTypeOK, NEW p \in Handlers, intake[p].step # "idle"
  PROVE  /\ intake[p] \in Intake \cup Insertion
         /\ intake[p].document \in Documents
         /\ intake[p].step # "inserting" => intake[p] \in Intake
         /\ intake[p].step = "inserting" => intake[p] \in Insertion
  BY DEF DocumentTypeOK, NoIntake, Intake, Insertion

\* Every step keeps the types of the variables.
LEMMA TypeStep == DocumentTypeOK /\ [DocumentNext]_documentVars => DocumentTypeOK'
  <1> SUFFICES ASSUME DocumentTypeOK, [DocumentNext]_documentVars PROVE DocumentTypeOK'
    OBVIOUS
  <1>1. CASE UNCHANGED documentVars
    BY <1>1 DEF DocumentTypeOK, documentVars
  <1>2. ASSUME NEW p \in Handlers, NEW x \in Contents, NEW d \in Documents,
               FindDocument(p, x, d) \/ InsertDocument(p, x, d) \/ BeginReupload(p, x, d)
        PROVE  DocumentTypeOK'
    BY <1>2 DEF DocumentTypeOK, FindDocument, InsertDocument, BeginReupload, At, Intake, Insertion
  <1>3. ASSUME NEW p \in Handlers, Store(p)
        PROVE  DocumentTypeOK'
    <2>1. intake[p].document \in Documents
      BY <1>3, IntakeTypes
        DEF Store, CommitInsert, WriteFile, CommitStored, CommitFailed, RefuseReupload
    <2>2. CASE CommitInsert(p)
      <3>1. intake[p].content \in Contents
        BY <2>2, IntakeTypes DEF CommitInsert, Insertion
      <3>2. QED
        BY <2>1, <2>2, <3>1 DEF DocumentTypeOK, CommitInsert, At, Document, Intake
    <2>3. CASE WriteFile(p) \/ CommitStored(p) \/ CommitFailed(p) \/ RefuseReupload(p)
      BY <2>1, <2>3 DEF DocumentTypeOK, WriteFile, CommitStored, CommitFailed,
        RefuseReupload, At, Document, Intake
    <2>4. QED
      BY <1>3, <2>2, <2>3 DEF Store
  <1>4. ASSUME NEW p \in Handlers, Dispatch(p) \/ Abandon(p) \/ CommitDelete(p)
        PROVE  DocumentTypeOK'
    <2>1. intake[p] \in Intake \cup Insertion
      BY <1>4 DEF DocumentTypeOK, Dispatch, Abandon, CommitDelete, NoIntake
    <2>2. intake[p].document \in Documents
      BY <2>1 DEF Intake, Insertion
    <2>3. QED
      BY <1>4, <2>2 DEF DocumentTypeOK, Dispatch, Abandon, CommitDelete, Document
  <1>5. ASSUME NEW p \in Handlers, NEW d \in Documents, EraseFile(p, d)
        PROVE  DocumentTypeOK'
    BY <1>5 DEF DocumentTypeOK, EraseFile, At, Intake
  <1>6. QED
    BY <1>1, <1>2, <1>3, <1>4, <1>5 DEF DocumentNext, Request

---------------------------------------------------------------------------
(* One document for a content *)

\* The other commits bring no document to life and give none another content.
LEMMA RowsOnlyMove ==
  ASSUME DocumentTypeOK, NEW p \in Handlers, CommitStored(p) \/ CommitFailed(p) \/ CommitDelete(p)
  PROVE  /\ Live' \subseteq Live
         /\ \A d \in Live' : document'[d].content = document[d].content
         /\ \A e \in Documents \ {intake[p].document} : document'[e] = document[e]
  <1> DEFINE d == intake[p].document
  <1>1. d \in Documents
    BY IntakeTypes DEF CommitStored, CommitFailed, CommitDelete
  <1>2. PICK s : document' = [document EXCEPT ![d].status = s]
    BY DEF CommitStored, CommitFailed, CommitDelete
  <1>3. d \in Live \/ s = "deleted"
    BY <1>1, <1>2 DEF CommitStored, CommitFailed, CommitDelete, DocumentTypeOK, Document
  <1>4. /\ \A e \in Documents : document'[e].content = document[e].content
        /\ \A e \in Documents \ {d} : document'[e] = document[e]
        /\ document'[d].status = s
    BY <1>1, <1>2 DEF DocumentTypeOK, Document
  <1>5. QED
    BY <1>1, <1>3, <1>4 DEF Live

\* Only the end of an insertion brings a document to life, and none has its
\* content then.
LEMMA OneDocumentStep ==
  DocumentTypeOK /\ OneDocumentPerContent /\ InsertersAlone /\ [DocumentNext]_documentVars =>
    OneDocumentPerContent'
  <1> SUFFICES ASSUME DocumentTypeOK, OneDocumentPerContent, InsertersAlone,
                      [DocumentNext]_documentVars
               PROVE  OneDocumentPerContent'
    OBVIOUS
  <1>1. ASSUME Live' \subseteq Live,
               \A d \in Live' : document'[d].content = document[d].content
        PROVE  OneDocumentPerContent'
    BY <1>1 DEF OneDocumentPerContent
  <1>2. CASE UNCHANGED document
    BY <1>1, <1>2 DEF Live
  <1>3. ASSUME NEW p \in Handlers, CommitInsert(p)
        PROVE  OneDocumentPerContent'
    <2> DEFINE d == intake[p].document
    <2>1. d \in Documents /\ With(intake[p].content) = {}
      BY <1>3, IntakeTypes DEF CommitInsert, InsertersAlone, InsertsAlone
    <2>2. /\ document'[d].content = intake[p].content
          /\ \A e \in Documents \ {d} : document'[e] = document[e]
      BY <1>3, <2>1 DEF CommitInsert, DocumentTypeOK
    <2>3. Live' \subseteq Live \cup {d}
      BY <2>2 DEF Live
    <2>4. \A e \in Live : document[e].content # intake[p].content
      BY <2>1 DEF With
    <2>5. QED
      BY <2>2, <2>3, <2>4 DEF OneDocumentPerContent, Live
  <1>4. ASSUME NEW p \in Handlers, CommitStored(p) \/ CommitFailed(p) \/ CommitDelete(p)
        PROVE  OneDocumentPerContent'
    BY <1>1, <1>4, RowsOnlyMove
  <1>5. QED
    BY <1>2, <1>3, <1>4 DEF DocumentNext, Request, Store, FindDocument, InsertDocument,
      BeginReupload, WriteFile, RefuseReupload, Dispatch, Abandon, EraseFile, documentVars

\* The lock on the content keeps a second insertion of it away, and nothing else
\* makes a document with it.
LEMMA InsertersStep ==
  DocumentTypeOK /\ InsertersAlone /\ AtInserted /\ [DocumentNext]_documentVars =>
    InsertersAlone'
  <1> SUFFICES ASSUME DocumentTypeOK, InsertersAlone, AtInserted, [DocumentNext]_documentVars,
                      NEW r \in Handlers, intake'[r].step = "inserting"
               PROVE  InsertsAlone(r)'
    BY DEF InsertersAlone
  <1>1. CASE UNCHANGED documentVars
    BY <1>1 DEF documentVars, InsertersAlone, InsertsAlone, With, Live
  <1>2. ASSUME NEW p \in Handlers, p # r, intake'[r] = intake[r],
               \A q \in Handlers \ {p} : intake'[q] = intake[q],
               intake'[p].step # "inserting",
               document'[intake[r].document] = document[intake[r].document],
               \A d \in Live' : \/ d \in Live /\ document'[d].content = document[d].content
                               \/ document'[d].content # intake[r].content
        PROVE  InsertsAlone(r)'
    <2>1. InsertsAlone(r)
      BY <1>2 DEF InsertersAlone
    <2>2. With(intake[r].content)' = {}
      BY <1>2, <2>1 DEF InsertsAlone, With
    <2>3. QED
      BY <1>2, <2>1, <2>2 DEF InsertsAlone
  <1>3. ASSUME NEW p \in Handlers, Request(p) PROVE InsertsAlone(r)'
    <2>1. /\ \A q \in Handlers \ {p} : intake'[q] = intake[q]
          /\ p # r => intake'[r] = intake[r]
      BY <1>3 DEF Request, Store, FindDocument, InsertDocument, BeginReupload, EraseFile,
        CommitInsert, WriteFile, CommitStored, CommitFailed, RefuseReupload, Dispatch, Abandon,
        CommitDelete, At, DocumentTypeOK
    <2>2. ASSUME NEW x \in Contents, NEW d \in Documents, InsertDocument(p, x, d)
          PROVE  InsertsAlone(r)'
      <3>1. intake'[p] = [step |-> "inserting", document |-> d, content |-> x]
        BY <2>2 DEF InsertDocument, DocumentTypeOK
      <3>2. /\ document' = document /\ document[d].status = "absent" /\ With(x) = {}
            /\ intake[p].step = "idle"
            /\ \A q \in Handlers \ {p} : intake[q].step = "inserting" =>
                 intake[q].document # d /\ intake[q].content # x
        BY <2>2 DEF InsertDocument, LockableContent, HoldsContent, NoIntake
      <3>3. CASE p = r
        BY <2>1, <3>1, <3>2, <3>3 DEF InsertsAlone, With, Live
      <3>4. CASE p # r
        BY <2>1, <3>1, <3>2, <3>4 DEF InsertersAlone, InsertsAlone, With, Live
      <3>5. QED
        BY <3>3, <3>4
    <2>3. CASE UNCHANGED document /\ intake'[p].step # "inserting"
      BY <1>2, <2>1, <2>3 DEF Live
    <2>4. ASSUME intake[p].step # "idle", intake'[p].step # "inserting", p # r
          PROVE  /\ intake[p].document # intake[r].document
                 /\ intake[r].step = "inserting" /\ intake[p].document \in Documents
      BY <2>1, <2>4, IntakeTypes DEF AtInserted, Working, InsertersAlone, InsertsAlone
    <2>5. CASE CommitInsert(p)
      <3>1. /\ intake'[p].step = "upload" /\ intake[p].step = "inserting" /\ p # r
        BY <2>5 DEF CommitInsert, At, DocumentTypeOK
      <3>2. intake[p].content # intake[r].content
        BY <2>1, <3>1 DEF InsertersAlone, InsertsAlone
      <3>3. /\ document'[intake[p].document].content = intake[p].content
            /\ \A e \in Documents \ {intake[p].document} : document'[e] = document[e]
        BY <2>4, <2>5, <3>1 DEF CommitInsert, DocumentTypeOK
      <3>4. intake[r].document \in Documents
        BY <2>4, <3>1, IntakeTypes
      <3>5. QED
        BY <1>2, <2>1, <2>4, <3>1, <3>2, <3>3, <3>4 DEF Live
    <2>6. CASE CommitStored(p) \/ CommitFailed(p) \/ CommitDelete(p)
      <3>1. intake[p].step # "idle" /\ intake'[p].step # "inserting" /\ p # r
        BY <2>6 DEF CommitStored, CommitFailed, CommitDelete, At, DocumentTypeOK, NoIntake
      <3>2. /\ Live' \subseteq Live
            /\ \A d \in Live' : document'[d].content = document[d].content
            /\ \A e \in Documents \ {intake[p].document} : document'[e] = document[e]
        BY <2>6, RowsOnlyMove
      <3>3. intake[r].document \in Documents
        BY <2>4, <3>1, IntakeTypes
      <3>4. QED
        BY <1>2, <2>1, <2>4, <3>1, <3>2, <3>3
    <2>7. CASE \E d \in Documents, x \in Contents : FindDocument(p, x, d) \/ BeginReupload(p, x, d)
      <3>1. UNCHANGED document /\ intake'[p].step # "inserting"
        BY <2>7 DEF FindDocument, BeginReupload, At, DocumentTypeOK
      <3>2. QED
        BY <2>3, <3>1
    <2>8. CASE WriteFile(p) \/ RefuseReupload(p) \/ Dispatch(p) \/ Abandon(p)
      <3>1. UNCHANGED document /\ intake'[p].step # "inserting"
        BY <2>8 DEF WriteFile, RefuseReupload, Dispatch, Abandon, At, DocumentTypeOK, NoIntake
      <3>2. QED
        BY <2>3, <3>1
    <2>9. CASE \E d \in Documents : EraseFile(p, d)
      <3>1. UNCHANGED document /\ intake'[p].step # "inserting"
        BY <2>9 DEF EraseFile, At, DocumentTypeOK
      <3>2. QED
        BY <2>3, <3>1
    <2>10. QED
      BY <1>3, <2>2, <2>5, <2>6, <2>7, <2>8, <2>9 DEF Request, Store
  <1>4. QED
    BY <1>1, <1>3 DEF DocumentNext

---------------------------------------------------------------------------
(* Nothing is left half done *)

\* A request that is at another document takes none out of anybody's hands.
LEMMA AtStaysElsewhere ==
  ASSUME NEW p \in Handlers, \A q \in Handlers \ {p} : intake'[q] = intake[q],
         NEW d, intake[p].document # d, NEW S
  PROVE  At_(d, S) => At_(d, S)'
  BY DEF At_

\* Neither does one that is at a step that is not asked for.
LEMMA AtStaysBut ==
  ASSUME NEW p \in Handlers, \A q \in Handlers \ {p} : intake'[q] = intake[q],
         NEW d, NEW S, intake[p].step \notin S
  PROVE  At_(d, S) => At_(d, S)'
  BY DEF At_

\* What of a document is in somebody's hands stays there.
Stays(d) ==
  /\ At_(d, {"upload", "written"}) => At_(d, {"upload", "written"})'
  /\ At_(d, {"erased"}) => At_(d, {"erased"})'
  /\ At_(d, {"stored"}) => At_(d, {"stored"})'

\* A document of which a step leaves everything as it was.
LEMMA UntouchedTended ==
  ASSUME NEW d \in Documents, document'[d] = document[d], Stays(d),
         d \in files => d \in files', d \in receipts => d \in receipts',
         PendingTended(d), StoredIsThere(d), StoredIsSent(d)
  PROVE  (PendingTended(d) /\ StoredIsThere(d) /\ StoredIsSent(d))'
  BY DEF Stays, PendingTended, StoredIsThere, StoredIsSent

\* The same for what was uploaded.
LEMMA UntouchedKept ==
  ASSUME NEW d \in Documents, document'[d] = document[d], Stays(d),
         d \in files => d \in files', broken \subseteq broken', Kept(d)
  PROVE  Kept(d)'
  BY DEF Stays, Kept, Live

\* A request that begins, or gives up an insertion, and changes no document.
LEMMA QuietTending ==
  ASSUME DocumentTypeOK, Tending, NEW p \in Handlers, ~Working(p),
         \A q \in Handlers \ {p} : intake'[q] = intake[q],
         UNCHANGED <<document, files, receipts, broken>>,
         intake'[p].step \in {"idle", "inserting", "known", "reupload"},
         Working(p)' => document[intake'[p].document].status # "absent"
  PROVE  Tending'
  <1>1. \A d \in Documents : Stays(d)
    BY AtStaysBut DEF Stays, Working
  <1>2. AtInserted'
    BY DEF Tending, AtInserted, Working
  <1>3. DocumentsTended'
    BY <1>1, UntouchedTended DEF Tending, DocumentsTended
  <1>4. WrittenIsKept'
    BY <1>1, UntouchedKept, IntakeTypes DEF Tending, WrittenIsKept
  <1>5. QED
    BY <1>2, <1>3, <1>4 DEF Tending

\* Requests that begin.
LEMMA BeginTending ==
  ASSUME DocumentTypeOK, Tending, NEW p \in Handlers,
         \/ \E x \in Contents, d \in Documents :
              FindDocument(p, x, d) \/ InsertDocument(p, x, d) \/ BeginReupload(p, x, d)
         \/ \E d \in Documents : EraseFile(p, d)
  PROVE  Tending'
  <1>1. intake[p].step = "idle" /\ ~Working(p)
    BY DEF FindDocument, InsertDocument, BeginReupload, EraseFile, NoIntake, Working
  <1>2. ASSUME NEW x \in Contents, NEW d \in Documents,
               FindDocument(p, x, d) \/ BeginReupload(p, x, d)
        PROVE  Tending'
    <2>1. PICK s \in {"known", "reupload"} : At(p, s, d) /\ document[d].status # "absent"
      BY <1>2 DEF FindDocument, BeginReupload, Live, With
    <2>2. /\ intake'[p].step = s /\ intake'[p].document = d
          /\ \A q \in Handlers \ {p} : intake'[q] = intake[q]
      BY <2>1 DEF At, DocumentTypeOK
    <2>3. UNCHANGED <<document, files, receipts, broken>>
      BY <1>2 DEF FindDocument, BeginReupload
    <2>4. QED
      BY <1>1, <2>1, <2>2, <2>3, QuietTending DEF Working
  <1>3. ASSUME NEW x \in Contents, NEW d \in Documents, InsertDocument(p, x, d)
        PROVE  Tending'
    <2>1. /\ intake'[p].step = "inserting"
          /\ \A q \in Handlers \ {p} : intake'[q] = intake[q]
          /\ UNCHANGED <<document, files, receipts, broken>>
      BY <1>3 DEF InsertDocument, DocumentTypeOK
    <2>2. QED
      BY <1>1, <2>1, QuietTending DEF Working
  <1>4. ASSUME NEW f \in Documents, EraseFile(p, f) PROVE Tending'
    <2>1. /\ document' = document /\ files' = files \ {f}
          /\ document[f].status # "absent"
          /\ intake'[p].step = "erased" /\ intake'[p].document = f
          /\ \A q \in Handlers \ {p} : intake'[q] = intake[q]
          /\ UNCHANGED <<broken, receipts>>
      BY <1>4 DEF EraseFile, DocumentTypeOK, At, Live
    <2>2. \A d \in Documents : Stays(d)
      BY <1>1, <2>1, AtStaysBut DEF Stays
    <2>3. AtInserted'
      BY <2>1 DEF Tending, AtInserted, Working
    <2>4. At_(f, {"erased"})'
      BY <2>1 DEF At_
    <2>5. f \in broken \/ (PendingTended(f)' /\ StoredIsThere(f)' /\ StoredIsSent(f)')
      BY <2>1, <2>2, <2>4
        DEF Tending, DocumentsTended, PendingTended, StoredIsThere, StoredIsSent, Stays
    <2>6. DocumentsTended'
      BY <2>1, <2>2, <2>5, UntouchedTended DEF Tending, DocumentsTended
    <2>7. Kept(f)'
      BY <2>4 DEF Kept
    <2>8. WrittenIsKept'
      BY <2>1, <2>2, <2>7, UntouchedKept, IntakeTypes DEF Tending, WrittenIsKept
    <2>9. QED
      BY <2>3, <2>6, <2>8 DEF Tending
  <1>5. QED
    BY <1>2, <1>3, <1>4

\* A step of a request concerns the document it is at; if that one is still
\* tended, so are all.
LEMMA WorkTending ==
  ASSUME DocumentTypeOK, Tending, NEW p \in Handlers, intake[p].step # "idle",
         NEW d \in Documents, intake[p].document = d, intake'[p].step # "inserting",
         \A q \in Handlers \ {p} : intake'[q] = intake[q],
         intake'[p].step # "idle" => intake'[p].document = d,
         \A e \in Documents \ {d} :
           /\ document'[e] = document[e]
           /\ e \in files => e \in files'
           /\ e \in receipts => e \in receipts',
         document'[d].status # "absent",
         broken \subseteq broken',
         d \in broken' \/ (PendingTended(d)' /\ StoredIsThere(d)' /\ StoredIsSent(d)'),
         Kept(d) \/ intake'[p].step \in {"written", "rewritten"} => Kept(d)'
  PROVE  Tending'
  <1>1. \A e \in Documents \ {d} : Stays(e)
    BY AtStaysElsewhere DEF Stays
  <1>2. \A q \in Handlers : intake[q].step # "idle" => intake[q].document \in Documents
    BY IntakeTypes
  <1>3. AtInserted'
    BY <1>2 DEF Tending, AtInserted, Working
  <1>4. DocumentsTended'
    BY <1>1, UntouchedTended DEF Tending, DocumentsTended
  <1>5. WrittenIsKept'
    <2> SUFFICES ASSUME NEW q \in Handlers, intake'[q].step \in {"written", "rewritten"},
                        NEW e \in Documents, e = intake'[q].document
                 PROVE  Kept(e)'
      BY <1>2 DEF WrittenIsKept
    <2>1. CASE e = d
      BY <2>1 DEF Tending, WrittenIsKept
    <2>2. CASE e # d
      <3>1. intake'[q] = intake[q] /\ Kept(e)
        BY <2>2 DEF Tending, WrittenIsKept
      <3>2. QED
        BY <1>1, <2>2, <3>1, UntouchedKept
    <2>3. QED
      BY <2>1, <2>2
  <1>6. QED
    BY <1>3, <1>4, <1>5 DEF Tending

\* What a request at work on document d leaves alone.
LEMMA AtWork ==
  ASSUME DocumentTypeOK, Tending, NEW p \in Handlers, Working(p)
  PROVE  intake[p].document \in Documents /\ document[intake[p].document].status # "absent"
  BY IntakeTypes DEF Tending, AtInserted, Working

\* The end of an insertion hands the document to the upload.
LEMMA InsertTending ==
  ASSUME DocumentTypeOK, Tending, InsertersAlone, NEW p \in Handlers, CommitInsert(p)
  PROVE  Tending'
  <1>1. PICK d \in Documents : intake[p].document = d /\ document[d].status = "absent"
    BY IntakeTypes DEF CommitInsert, InsertersAlone, InsertsAlone
  <1>2. /\ document'[d].status = "pending"
        /\ \A e \in Documents \ {d} : document'[e] = document[e]
        /\ intake'[p].step = "upload" /\ intake'[p].document = d
        /\ \A q \in Handlers \ {p} : intake'[q] = intake[q]
        /\ UNCHANGED <<files, receipts, broken>>
    BY <1>1 DEF CommitInsert, DocumentTypeOK, At
  <1>3. PendingTended(d)' /\ StoredIsThere(d)' /\ StoredIsSent(d)'
    BY <1>2 DEF PendingTended, StoredIsThere, StoredIsSent, At_
  <1>4. \A q \in Handlers : Working(q) => intake[q].document \in Documents \ {d}
    BY <1>1, IntakeTypes DEF Tending, AtInserted, Working
  <1>5. \A e \in Documents \ {d} : Stays(e)
    BY <1>1, <1>2, AtStaysElsewhere DEF Stays
  <1>6. AtInserted'
    BY <1>2, <1>4 DEF Tending, AtInserted, Working
  <1>7. DocumentsTended'
    BY <1>2, <1>3, <1>5, UntouchedTended DEF Tending, DocumentsTended
  <1>8. WrittenIsKept'
    BY <1>2, <1>4, <1>5, UntouchedKept DEF Tending, WrittenIsKept, Working
  <1>9. QED
    BY <1>6, <1>7, <1>8 DEF Tending

\* The upload.
LEMMA StoreTending ==
  ASSUME DocumentTypeOK, Tending, NEW p \in Handlers,
         WriteFile(p) \/ CommitStored(p) \/ CommitFailed(p) \/ RefuseReupload(p)
  PROVE  Tending'
  <1>1. intake[p].step # "idle" /\ Working(p) /\ intake'[p].step # "inserting"
    BY DEF DocumentTypeOK, At, Working, WriteFile, CommitStored, CommitFailed, RefuseReupload
  <1>2. PICK d \in Documents : intake[p].document = d /\ document[d].status # "absent"
    BY <1>1, AtWork
  <1>3. /\ \A q \in Handlers \ {p} : intake'[q] = intake[q]
        /\ intake'[p].step # "idle" => intake'[p].document = d
        /\ UNCHANGED <<receipts, broken>>
        /\ \A e \in Documents \ {d} : document'[e] = document[e]
        /\ files \subseteq files'
    BY <1>2 DEF WriteFile, CommitStored, CommitFailed, RefuseReupload, At, DocumentTypeOK
  <1>4. /\ At_(d, {"erased"}) => At_(d, {"erased"})'
        /\ At_(d, {"stored"}) => At_(d, {"stored"})'
    BY <1>3, AtStaysBut DEF WriteFile, CommitStored, CommitFailed, RefuseReupload
  <1>5. d \in broken \/ (PendingTended(d) /\ StoredIsThere(d) /\ StoredIsSent(d))
    BY DEF Tending, DocumentsTended
  <1>6. CASE WriteFile(p)
    <2>1. document' = document /\ d \in files' /\ intake'[p].step \in {"written", "rewritten"}
      BY <1>2, <1>6 DEF WriteFile, At, DocumentTypeOK
    <2>2. PendingTended(d) => PendingTended(d)'
      BY <1>2, <1>3, <1>6, <2>1, AtStaysBut DEF PendingTended, WriteFile, At, DocumentTypeOK, At_
    <2>3. StoredIsThere(d)' /\ Kept(d)' /\ (StoredIsSent(d) => StoredIsSent(d)')
      BY <1>3, <1>4, <2>1 DEF StoredIsThere, Kept, StoredIsSent
    <2>4. QED
      BY <1>1, <1>2, <1>3, <1>5, <2>1, <2>2, <2>3, WorkTending
  <1>7. CASE CommitStored(p)
    <2>1. /\ document'[d].status = "stored" /\ d \in Live
          /\ files' = files /\ intake[p].step \in {"written", "rewritten"}
          /\ intake'[p].step = "stored" /\ intake'[p].document = d
      BY <1>2, <1>7 DEF CommitStored, At, DocumentTypeOK
    <2>2. Kept(d)
      BY <1>2, <2>1 DEF Tending, WrittenIsKept
    <2>3. d \in broken \/ StoredIsThere(d)'
      BY <1>4, <2>1, <2>2 DEF Kept, StoredIsThere
    <2>4. PendingTended(d)' /\ StoredIsSent(d)'
      BY <2>1 DEF PendingTended, StoredIsSent, At_
    <2>5. Kept(d)'
      BY <1>3, <1>4, <2>1, <2>2 DEF Kept
    <2>6. QED
      BY <1>1, <1>2, <1>3, <2>1, <2>3, <2>4, <2>5, WorkTending
  <1>8. CASE CommitFailed(p)
    <2>1. /\ document'[d].status = "failed" /\ d \in Live
          /\ files' = files /\ intake'[p].step = "refused"
      BY <1>2, <1>8 DEF CommitFailed, At, DocumentTypeOK
    <2>2. PendingTended(d)' /\ StoredIsThere(d)' /\ StoredIsSent(d)'
      BY <2>1 DEF PendingTended, StoredIsThere, StoredIsSent
    <2>3. Kept(d) => Kept(d)'
      BY <1>3, <1>4, <2>1 DEF Kept
    <2>4. QED
      BY <1>1, <1>2, <1>3, <2>1, <2>2, <2>3, WorkTending
  <1>9. CASE RefuseReupload(p)
    <2>1. document' = document /\ files' = files /\ intake'[p].step = "refused"
      BY <1>2, <1>9 DEF RefuseReupload, At, DocumentTypeOK
    <2>2. Stays(d)
      BY <1>3, <1>4, <1>9, AtStaysBut DEF Stays, RefuseReupload
    <2>3. Kept(d) => Kept(d)'
      BY <1>3, <2>1, <2>2, UntouchedKept
    <2>4. d \in broken' \/ (PendingTended(d)' /\ StoredIsThere(d)' /\ StoredIsSent(d)')
      BY <1>3, <1>5, <2>1, <2>2, UntouchedTended
    <2>5. QED
      BY <1>1, <1>2, <1>3, <2>1, <2>3, <2>4, WorkTending
  <1>10. QED
    BY <1>6, <1>7, <1>8, <1>9

\* The ends of requests that work on a document.
LEMMA EndTending ==
  ASSUME DocumentTypeOK, Tending, NEW p \in Handlers, Working(p),
         Dispatch(p) \/ Abandon(p) \/ CommitDelete(p)
  PROVE  Tending'
  <1>1. intake[p].step # "idle"
    BY DEF Working
  <1>2. PICK d \in Documents : intake[p].document = d /\ document[d].status # "absent"
    BY AtWork
  <1>3. /\ \A q \in Handlers \ {p} : intake'[q] = intake[q]
        /\ intake'[p].step = "idle"
        /\ files' = files /\ receipts \subseteq receipts' /\ broken \subseteq broken'
        /\ \A e \in Documents \ {d} : document'[e] = document[e]
    BY <1>2 DEF Dispatch, Abandon, CommitDelete, DocumentTypeOK, NoIntake
  <1>4. d \in broken \/ (PendingTended(d) /\ StoredIsThere(d) /\ StoredIsSent(d))
    BY DEF Tending, DocumentsTended
  <1>5. CASE Dispatch(p)
    <2>1. /\ document' = document /\ intake[p].step \in {"known", "refused", "stored"}
          /\ intake[p].step = "stored" => d \in receipts'
      BY <1>2, <1>5 DEF Dispatch
    <2>2. /\ At_(d, {"upload", "written"}) => At_(d, {"upload", "written"})'
          /\ At_(d, {"erased"}) => At_(d, {"erased"})'
          /\ At_(d, {"stored"}) => At_(d, {"stored"})' \/ d \in receipts'
      BY <1>3, <2>1 DEF At_
    <2>3. /\ PendingTended(d) => PendingTended(d)'
          /\ StoredIsThere(d) => StoredIsThere(d)'
          /\ StoredIsSent(d) => StoredIsSent(d)'
      BY <1>3, <2>1, <2>2 DEF PendingTended, StoredIsThere, StoredIsSent
    <2>4. Kept(d) => Kept(d)'
      BY <1>3, <2>1, <2>2 DEF Kept, Live
    <2>5. QED
      BY <1>1, <1>2, <1>3, <1>4, <2>1, <2>3, <2>4, WorkTending
  <1>6. CASE Abandon(p)
    <2>1. document' = document /\ d \in broken'
      BY <1>2, <1>6 DEF Abandon
    <2>2. Kept(d)'
      BY <2>1 DEF Kept
    <2>3. QED
      BY <1>1, <1>2, <1>3, <2>1, <2>2, WorkTending
  <1>7. CASE CommitDelete(p)
    <2>1. document'[d].status = "deleted"
      BY <1>2, <1>7 DEF CommitDelete, DocumentTypeOK, Document
    <2>2. PendingTended(d)' /\ StoredIsThere(d)' /\ StoredIsSent(d)' /\ Kept(d)'
      BY <2>1 DEF PendingTended, StoredIsThere, StoredIsSent, Kept, Live
    <2>3. QED
      BY <1>1, <1>2, <1>3, <2>1, <2>2, WorkTending
  <1>8. QED
    BY <1>5, <1>6, <1>7

\* An insertion that is given up leaves nothing.
LEMMA GiveUpTending ==
  ASSUME DocumentTypeOK, InsertersAlone, Tending, NEW p \in Handlers, ~Working(p), Abandon(p)
  PROVE  Tending'
  <1>1. intake[p].step = "inserting"
    BY DEF Abandon, Working, DocumentTypeOK, NoIntake, Intake, Insertion
  <1>2. document[intake[p].document].status = "absent"
    BY <1>1 DEF InsertersAlone, InsertsAlone
  <1>3. /\ UNCHANGED <<document, files, receipts, broken>>
        /\ intake'[p].step = "idle"
        /\ \A q \in Handlers \ {p} : intake'[q] = intake[q]
    BY <1>2 DEF Abandon, DocumentTypeOK, NoIntake
  <1>4. QED
    BY <1>3, QuietTending DEF Working

\* Every step leaves the documents tended.
LEMMA TendingStep ==
  DocumentTypeOK /\ InsertersAlone /\ Tending /\ [DocumentNext]_documentVars => Tending'
  <1> SUFFICES ASSUME DocumentTypeOK, InsertersAlone, Tending, [DocumentNext]_documentVars
               PROVE  Tending'
    OBVIOUS
  <1>1. CASE UNCHANGED documentVars
    BY <1>1 DEF documentVars, Tending, AtInserted, Working, DocumentsTended, WrittenIsKept, Kept,
      Live, PendingTended, StoredIsThere, StoredIsSent, At_
  <1>2. ASSUME NEW p \in Handlers, Request(p) PROVE Tending'
    <2>1. CASE Store(p)
      BY <2>1, InsertTending, StoreTending DEF Store
    <2>2. CASE Dispatch(p) \/ Abandon(p) \/ CommitDelete(p)
      <3>1. Dispatch(p) \/ CommitDelete(p) => Working(p)
        BY DEF Dispatch, CommitDelete, Working
      <3>2. QED
        BY <2>2, <3>1, EndTending, GiveUpTending
    <2>3. QED
      BY <1>2, <2>1, <2>2, BeginTending DEF Request
  <1>3. QED
    BY <1>1, <1>2 DEF DocumentNext

---------------------------------------------------------------------------
(* Theorems *)

\* The initial states satisfy the invariant.
LEMMA InitIInv == DocumentInit => IInv
  BY DEF DocumentInit, IInv, DocumentTypeOK, OneDocumentPerContent, InsertersAlone, Tending,
    AtInserted, Working, DocumentsTended, WrittenIsKept, PendingTended, StoredIsThere, StoredIsSent,
    Document, Live, NoIntake

\* The inductive invariant holds in every reachable state.
THEOREM InductiveInvariant == DocumentSpec => []IInv
  <1>1. IInv /\ [DocumentNext]_documentVars => IInv'
    BY TypeStep, OneDocumentStep, InsertersStep, TendingStep DEF IInv, Tending
  <1>2. QED
    BY <1>1, InitIInv, PTL DEF DocumentSpec

\* Rows, files and requests keep their types.
THEOREM TypeCorrect == DocumentSpec => []DocumentTypeOK
  <1>1. IInv => DocumentTypeOK
    BY DEF IInv
  <1>2. QED
    BY <1>1, InductiveInvariant, PTL

\* However many requests upload and delete: one document for one content.
THEOREM OneDocument == DocumentSpec => []OneDocumentPerContent
  <1>1. IInv => OneDocumentPerContent
    BY DEF IInv
  <1>2. QED
    BY <1>1, InductiveInvariant, PTL

\* What is half done is in somebody's hands, or was left by a request that failed.
THEOREM DocumentsAreTended == DocumentSpec => []DocumentsTended
  <1>1. IInv => DocumentsTended
    BY DEF IInv, Tending
  <1>2. QED
    BY <1>1, InductiveInvariant, PTL
=============================================================================
