--------------------------- MODULE DocumentIntake ---------------------------
(***************************************************************************)
(* Receipts of one company: the rows of documents, the files in storage,   *)
(* and the requests that upload and delete them.                           *)
(*                                                                         *)
(* store_document_intake takes an advisory lock on the hash of the content *)
(* and holds it until its first commit, across the search for a document   *)
(* with the content.  For a new content that commit precedes the upload to *)
(* storage; for a content whose upload failed before it follows it.        *)
(* delete_document removes the file first and the row at its commit, under *)
(* no lock at all.                                                         *)
(*                                                                         *)
(* Each row of documents has an inbox item whose status is written in the  *)
(* same transactions: received, queued and failed stand for the pending,   *)
(* stored and failed of the document.  What becomes of it once it is       *)
(* queued is InboxExtraction.                                              *)
(***************************************************************************)
EXTENDS Naturals, FiniteSets

CONSTANTS
  Documents,  \* bound: ids of the rows of documents, and keys in storage
  Contents,   \* what may be uploaded or written, up to equal hashes
  Handlers    \* requests that the API serves at the same time

VARIABLES
  document,  \* rows of documents
  files,     \* keys in storage
  intake,    \* what each request does with a document
  receipts,  \* documents for which process_receipt was sent
  broken     \* history: documents at which a request has failed or died

documentVars == <<document, files, intake, receipts, broken>>

---------------------------------------------------------------------------
(* Types *)

Document == [status : {"absent", "pending", "stored", "failed", "deleted"},
             content : Contents]

NoIntake == [step |-> "idle"]

Intake == [step : {"known", "upload", "written", "reupload", "rewritten",
                   "stored", "refused", "erased"},
           document : Documents]

\* A row that is inserted and not committed.
Insertion == [step : {"inserting"}, document : Documents, content : Contents]

DocumentTypeOK ==
  /\ document \in [Documents -> Document]
  /\ files \subseteq Documents
  /\ intake \in [Handlers -> {NoIntake} \cup Intake \cup Insertion]
  /\ receipts \subseteq Documents
  /\ broken \subseteq Documents

---------------------------------------------------------------------------
(* Rows and locks *)

Live    == {d \in Documents : document[d].status \notin {"absent", "deleted"}}
With(x) == {d \in Live : document[d].content = x}

HoldsContent(q, x) ==
  \/ intake[q].step = "inserting" /\ intake[q].content = x
  \/ /\ intake[q].step \in {"reupload", "rewritten"}
     /\ document[intake[q].document].content = x

\* Mutant: there is no advisory lock.
NoAdvisoryLock(p, x) == x \in Contents

LockableContent(p, x) == \A q \in Handlers \ {p} : ~HoldsContent(q, x)

At(p, step, d) == intake' = [intake EXCEPT ![p] = [step |-> step, document |-> d]]

---------------------------------------------------------------------------
(* store_document_intake *)

\* The content is known, and stored or being uploaded as far as its row says.
FindDocument(p, x, d) ==
  /\ intake[p] = NoIntake
  /\ LockableContent(p, x)
  /\ d \in With(x) /\ document[d].status # "failed"
  /\ At(p, "known", d)
  /\ UNCHANGED <<document, files, receipts, broken>>

\* No document has the content: item and document are inserted, with new ids.
InsertDocument(p, x, d) ==
  /\ intake[p] = NoIntake
  /\ LockableContent(p, x)
  /\ With(x) = {}
  /\ document[d].status = "absent"
  /\ \A q \in Handlers : intake[q].step = "inserting" => intake[q].document # d
  /\ intake' = [intake EXCEPT ![p] = [step |-> "inserting", document |-> d, content |-> x]]
  /\ UNCHANGED <<document, files, receipts, broken>>

\* They are committed before the file is uploaded; the advisory lock ends.
CommitInsert(p) ==
  LET d == intake[p].document IN
  /\ intake[p].step = "inserting"
  /\ document' = [document EXCEPT ![d] = [status |-> "pending", content |-> intake[p].content]]
  /\ At(p, "upload", d)
  /\ UNCHANGED <<files, receipts, broken>>

\* A failed upload is repeated with the advisory lock held.
BeginReupload(p, x, d) ==
  /\ intake[p] = NoIntake
  /\ LockableContent(p, x)
  /\ d \in With(x) /\ document[d].status = "failed"
  /\ At(p, "reupload", d)
  /\ UNCHANGED <<document, files, receipts, broken>>

WriteFile(p) ==
  LET d == intake[p].document IN
  /\ intake[p].step \in {"upload", "reupload"}
  /\ files' = files \cup {d}
  /\ At(p, IF intake[p].step = "upload" THEN "written" ELSE "rewritten", d)
  /\ UNCHANGED <<document, receipts, broken>>

\* Mutant: the status is committed although nothing was uploaded.
CommitUnwritten(p) ==
  LET d == intake[p].document IN
  /\ intake[p].step \in {"upload", "written", "rewritten"}
  /\ d \in Live
  /\ document' = [document EXCEPT ![d].status = "stored"]
  /\ At(p, "stored", d)
  /\ UNCHANGED <<files, receipts, broken>>

\* An UPDATE of a row that was deleted meanwhile raises instead: see Abandon.
CommitStored(p) ==
  LET d == intake[p].document IN
  /\ intake[p].step \in {"written", "rewritten"}
  /\ d \in Live
  /\ document' = [document EXCEPT ![d].status = "stored"]
  /\ At(p, "stored", d)
  /\ UNCHANGED <<files, receipts, broken>>

\* Storage raises: a new document is marked, DocumentStorageError follows.
CommitFailed(p) ==
  LET d == intake[p].document IN
  /\ intake[p].step = "upload"
  /\ d \in Live
  /\ document' = [document EXCEPT ![d].status = "failed"]
  /\ At(p, "refused", d)
  /\ UNCHANGED <<files, receipts, broken>>

RefuseReupload(p) ==
  /\ intake[p].step = "reupload"
  /\ At(p, "refused", intake[p].document)
  /\ UNCHANGED <<document, files, receipts, broken>>

\* The caller's last step: process_receipt is sent if the intake asks for it.
Dispatch(p) ==
  /\ intake[p].step \in {"known", "refused", "stored"}
  /\ receipts' = IF intake[p].step = "stored" THEN receipts \cup {intake[p].document}
                                              ELSE receipts
  /\ intake' = [intake EXCEPT ![p] = NoIntake]
  /\ UNCHANGED <<document, files, broken>>

Store(p) ==
  \/ CommitInsert(p) \/ WriteFile(p) \/ CommitStored(p) \/ CommitFailed(p) \/ RefuseReupload(p)

\* The request ends with an exception, or its process does.  Of a row that is
\* not committed nothing is left.
Abandon(p) ==
  /\ intake[p] # NoIntake
  /\ broken' = broken \cup {d \in {intake[p].document} : document[d].status # "absent"}
  /\ intake' = [intake EXCEPT ![p] = NoIntake]
  /\ UNCHANGED <<document, files, receipts>>

---------------------------------------------------------------------------
(* delete_document *)

EraseFile(p, d) ==
  /\ intake[p] = NoIntake
  /\ d \in Live
  /\ files' = files \ {d}
  /\ At(p, "erased", d)
  /\ UNCHANGED <<document, receipts, broken>>

CommitDelete(p) ==
  /\ intake[p].step = "erased"
  /\ document' = [document EXCEPT ![intake[p].document].status = "deleted"]
  /\ intake' = [intake EXCEPT ![p] = NoIntake]
  /\ UNCHANGED <<files, receipts, broken>>

---------------------------------------------------------------------------
(* The specification of the component alone, with web requests only *)

DocumentInit ==
  /\ document \in [Documents -> [status : {"absent"}, content : Contents]]
  /\ files = {} /\ receipts = {} /\ broken = {}
  /\ intake = [p \in Handlers |-> NoIntake]

Request(p) ==
  \/ \E x \in Contents, d \in Documents :
       FindDocument(p, x, d) \/ InsertDocument(p, x, d) \/ BeginReupload(p, x, d)
  \/ Store(p) \/ Dispatch(p) \/ Abandon(p) \/ CommitDelete(p)
  \/ \E d \in Documents : EraseFile(p, d)

DocumentNext == \E p \in Handlers : Request(p)

DocumentSpec == DocumentInit /\ [][DocumentNext]_documentVars

---------------------------------------------------------------------------
(* Properties *)

\* documents has no unique constraint: the advisory lock alone keeps the
\* company from having two documents with one content.
OneDocumentPerContent == \A d, e \in Live :
  document[d].content = document[e].content => d = e

At_(d, steps) == \E p \in Handlers : intake[p].step \in steps /\ intake[p].document = d

PendingTended(d) == document[d].status = "pending" => At_(d, {"upload", "written"})
StoredIsThere(d) == document[d].status = "stored" => d \in files \/ At_(d, {"erased"})
StoredIsSent(d)  == document[d].status = "stored" => d \in receipts \/ At_(d, {"stored"})

\* Nobody comes back to a document: one that is pending, stored without a file,
\* or stored and never sent to text recognition is in the hands of a request,
\* or a request has failed or died at it.  Uploads and deletions of one document
\* may interleave as they like.
DocumentsTended == \A d \in Documents \ broken :
  PendingTended(d) /\ StoredIsThere(d) /\ StoredIsSent(d)
=============================================================================
