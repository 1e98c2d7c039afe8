------------------------------- MODULE Documents -------------------------------
(***************************************************************************)
(* KYC documents: bytes in MinIO, a row in the database, an audit trail.   *)
(*                                                                         *)
(* Upload, download and Document.soft_delete each touch two or three of    *)
(* these stores one after the other and without a transaction, so that     *)
(* every step between them can be interleaved with another request's, can  *)
(* fail, and can be the last one before the service stops.                 *)
(***************************************************************************)
EXTENDS Naturals, FiniteSets

CONSTANTS
  Docs,                \* documents, one upload of each; also their object names
  Users,               \* users
  Downloads,           \* download requests
  Removals,            \* calls of Document.soft_delete
  Nil                  \* no value

ASSUME DocumentsAssumption ==
  /\ Nil \notin Docs \cup Users
  /\ IsFiniteSet(Downloads)

VARIABLES
  object,              \* the objects in the bucket
  row,                 \* table documents: "none", "live", "deleted"
  owner,               \* documents.user
  audit,               \* table audit_logs: how many rows of an action a document has
  upload,              \* where each upload stands
  download,            \* where each download stands
  removal              \* where each soft_delete stands

vars == <<object, row, owner, audit, upload, download, removal>>

Actions    == {"UPLOADED", "DOWNLOADED", "DELETED"}
UploadPc   == {"idle", "put", "create", "audit", "done", "lost"}
DownloadPc == {"idle", "find", "get", "audit", "done", "lost"}
RemovalPc  == {"idle", "remove", "audit", "mark", "done", "lost"}
Codes      == {0, 200, 201, 400, 404, 500, 502}

Init ==
  /\ object = {}
  /\ row = [d \in Docs |-> "none"]
  /\ owner = [d \in Docs |-> Nil]
  /\ audit = [d \in Docs |-> [a \in Actions |-> 0]]
  /\ upload = [d \in Docs |-> [pc |-> "idle", code |-> 0]]
  /\ download = [r \in Downloads |-> [pc |-> "idle", user |-> Nil, doc |-> Nil, code |-> 0]]
  /\ removal = [m \in Removals |-> [pc |-> "idle", doc |-> Nil]]

\* AuditLog.log: one more row of audit_logs.
Log(d, a) == audit' = [audit EXCEPT ![d][a] = @ + 1]

-------------------------------------------------------------------------------
(* POST /api/documents/upload/ *)

UploadGoto(d, pc) == upload' = [upload EXCEPT ![d].pc = pc]
UploadEnds(d, c)  == upload' = [upload EXCEPT ![d] = [pc |-> "done", code |-> c]]

\* DocumentUploadSerializer refuses the file: no file, its type, its size.
UploadRefused(d) ==
  /\ upload[d].pc = "idle"
  /\ UploadEnds(d, 400)
  /\ UNCHANGED <<object, row, owner, audit, download, removal>>

\* A file of user u that the serializer accepts, and an object name for it.
UploadValid(d, u) ==
  /\ upload[d].pc = "idle"
  /\ owner' = [owner EXCEPT ![d] = u]
  /\ UploadGoto(d, "put")
  /\ UNCHANGED <<object, row, audit, download, removal>>

\* put_object stores the bytes.
Put(d) ==
  /\ upload[d].pc = "put"
  /\ object' = object \cup {d}
  /\ UploadGoto(d, "create")
  /\ UNCHANGED <<row, owner, audit, download, removal>>

\* Mutant: the view ignores what upload_file returned.
PutFailsUnnoticed(d) ==
  /\ upload[d].pc = "put"
  /\ object' \in {object, object \cup {d}}
  /\ UploadGoto(d, "create")
  /\ UNCHANGED <<row, owner, audit, download, removal>>

\* upload_file returns False: no client, no bucket, or put_object raised, perhaps
\* after the bytes arrived (the answer of MinIO was lost).
PutFails(d) ==
  /\ upload[d].pc = "put"
  /\ object' \in {object, object \cup {d}}
  /\ UploadEnds(d, 502)
  /\ UNCHANGED <<row, owner, audit, download, removal>>

\* Document.objects.create.
CreateRow(d) ==
  /\ upload[d].pc = "create"
  /\ row' = [row EXCEPT ![d] = "live"]
  /\ UploadGoto(d, "audit")
  /\ UNCHANGED <<object, owner, audit, download, removal>>

\* AuditLog.log(DOCUMENT_UPLOADED), and the answer.
AuditUpload(d) ==
  /\ upload[d].pc = "audit"
  /\ Log(d, "UPLOADED")
  /\ UploadEnds(d, 201)
  /\ UNCHANGED <<object, row, owner, download, removal>>

\* The database fails under either insert: 500, what is written stays.
UploadError(d) ==
  /\ upload[d].pc \in {"create", "audit"}
  /\ UploadEnds(d, 500)
  /\ UNCHANGED <<object, row, owner, audit, download, removal>>

-------------------------------------------------------------------------------
(* GET /api/documents/<id>/download/ *)

DownloadGoto(r, pc) == download' = [download EXCEPT ![r].pc = pc]
DownloadEnds(r, c)  ==
  download' = [download EXCEPT ![r] = [@ EXCEPT !.pc = "done", !.code = c]]

Request(r, u, d) ==
  /\ download[r].pc = "idle"
  /\ download' = [download EXCEPT ![r] = [pc |-> "find", user |-> u, doc |-> d, code |-> 0]]
  /\ UNCHANGED <<object, row, owner, audit, upload, removal>>

\* Mutant: the lookup does not filter on is_deleted.
FindDeleted(r) ==
  /\ download[r].pc = "find"
  /\ row[download[r].doc] # "none" /\ owner[download[r].doc] = download[r].user
  /\ DownloadGoto(r, "get")
  /\ UNCHANGED <<object, row, owner, audit, upload, removal>>

\* Mutant: the lookup does not filter on the user.
FindForeign(r) ==
  /\ download[r].pc = "find"
  /\ row[download[r].doc] = "live"
  /\ DownloadGoto(r, "get")
  /\ UNCHANGED <<object, row, owner, audit, upload, removal>>

\* Document.objects.get(pk, user, is_deleted=False).
Find(r) ==
  /\ download[r].pc = "find"
  /\ row[download[r].doc] = "live" /\ owner[download[r].doc] = download[r].user
  /\ DownloadGoto(r, "get")
  /\ UNCHANGED <<object, row, owner, audit, upload, removal>>

FindNothing(r) ==
  /\ download[r].pc = "find"
  /\ ~(row[download[r].doc] = "live" /\ owner[download[r].doc] = download[r].user)
  /\ DownloadEnds(r, 404)
  /\ UNCHANGED <<object, row, owner, audit, upload, removal>>

\* get_object reads all bytes.
Get(r) ==
  /\ download[r].pc = "get"
  /\ download[r].doc \in object
  /\ DownloadGoto(r, "audit")
  /\ UNCHANGED <<object, row, owner, audit, upload, removal>>

\* download_file returns None: no such object, or MinIO does not answer.
GetFails(r) ==
  /\ download[r].pc = "get"
  /\ DownloadEnds(r, 502)
  /\ UNCHANGED <<object, row, owner, audit, upload, removal>>

\* AuditLog.log(DOCUMENT_DOWNLOADED), and the bytes go out.
AuditDownload(r) ==
  /\ download[r].pc = "audit"
  /\ Log(download[r].doc, "DOWNLOADED")
  /\ DownloadEnds(r, 200)
  /\ UNCHANGED <<object, row, owner, upload, removal>>

\* The database fails under the lookup or the audit row: 500, no bytes go out.
DownloadError(r) ==
  /\ download[r].pc \in {"find", "audit"}
  /\ DownloadEnds(r, 500)
  /\ UNCHANGED <<object, row, owner, audit, upload, removal>>

-------------------------------------------------------------------------------
(* Document.soft_delete, which code outside the endpoints calls on a document *)

RemovalGoto(m, pc) == removal' = [removal EXCEPT ![m].pc = pc]

Remove(m, d) ==
  /\ removal[m].pc = "idle"
  /\ row[d] # "none"
  /\ removal' = [removal EXCEPT ![m] = [pc |-> "remove", doc |-> d]]
  /\ UNCHANGED <<object, row, owner, audit, upload, download>>

\* delete_file, True or False: soft_delete does not look at the answer.  A failure
\* may leave the object or may have removed it.
RemoveObject(m) ==
  /\ removal[m].pc = "remove"
  /\ object' \in {object, object \ {removal[m].doc}}
  /\ RemovalGoto(m, "audit")
  /\ UNCHANGED <<row, owner, audit, upload, download>>

\* AuditLog.log(DOCUMENT_DELETED).
AuditRemoval(m) ==
  /\ removal[m].pc = "audit"
  /\ Log(removal[m].doc, "DELETED")
  /\ RemovalGoto(m, "mark")
  /\ UNCHANGED <<object, row, owner, upload, download>>

\* Mutant: the row is marked whether or not the audit row was written.
MarkEarly(m) ==
  /\ removal[m].pc \in {"audit", "mark"}
  /\ row' = [row EXCEPT ![removal[m].doc] = "deleted"]
  /\ RemovalGoto(m, "done")
  /\ UNCHANGED <<object, owner, audit, upload, download>>

\* Mutant: the row is deleted for good instead of being marked.
MarkForGood(m) ==
  /\ removal[m].pc = "mark"
  /\ row' = [row EXCEPT ![removal[m].doc] = "none"]
  /\ RemovalGoto(m, "done")
  /\ UNCHANGED <<object, owner, audit, upload, download>>

\* BaseModel.soft_delete.
Mark(m) ==
  /\ removal[m].pc = "mark"
  /\ row' = [row EXCEPT ![removal[m].doc] = "deleted"]
  /\ RemovalGoto(m, "done")
  /\ UNCHANGED <<object, owner, audit, upload, download>>

\* The database fails under the audit row or the update: the exception leaves
\* soft_delete with the steps before it done.
RemovalError(m) ==
  /\ removal[m].pc \in {"audit", "mark"}
  /\ RemovalGoto(m, "lost")
  /\ UNCHANGED <<object, row, owner, audit, upload, download>>

-------------------------------------------------------------------------------
\* The service stops and starts again; the stores keep what they have.
Lost(pc) == IF pc \in {"idle", "done"} THEN pc ELSE "lost"
Crash ==
  /\ upload' = [d \in Docs |-> [upload[d] EXCEPT !.pc = Lost(@)]]
  /\ download' = [r \in Downloads |-> [download[r] EXCEPT !.pc = Lost(@)]]
  /\ removal' = [m \in Removals |-> [removal[m] EXCEPT !.pc = Lost(@)]]
  /\ UNCHANGED <<object, row, owner, audit>>

UploadStep(d) ==
  \/ Put(d) \/ PutFails(d) \/ CreateRow(d) \/ AuditUpload(d) \/ UploadError(d)

DownloadStep(r) ==
  \/ Find(r) \/ FindNothing(r) \/ Get(r) \/ GetFails(r) \/ AuditDownload(r)
  \/ DownloadError(r)

RemovalStep(m) ==
  RemoveObject(m) \/ AuditRemoval(m) \/ Mark(m) \/ RemovalError(m)

Next ==
  \/ \E d \in Docs : \/ UploadRefused(d) \/ UploadStep(d)
                     \/ \E u \in Users : UploadValid(d, u)
  \/ \E r \in Downloads : \/ DownloadStep(r)
                          \/ \E u \in Users, d \in Docs : Request(r, u, d)
  \/ \E m \in Removals : \/ RemovalStep(m)
                         \/ \E d \in Docs : Remove(m, d)
  \/ Crash

Spec == Init /\ [][Next]_vars

-------------------------------------------------------------------------------
(* Properties *)

\* Download r has found its document and is, or may be, answered with the bytes.
Served(r) == download[r].pc \in {"get", "audit"} \/ download[r].code = 200

\* The types; a row has an owner, and it is the owner who is served.
TypeOK ==
  /\ object \subseteq Docs
  /\ row \in [Docs -> {"none", "live", "deleted"}]
  /\ owner \in [Docs -> Users \cup {Nil}]
  /\ audit \in [Docs -> [Actions -> Nat]]
  /\ upload \in [Docs -> [pc : UploadPc, code : Codes]]
  /\ download \in [Downloads ->
       [pc : DownloadPc, user : Users \cup {Nil}, doc : Docs \cup {Nil}, code : Codes]]
  /\ removal \in [Removals -> [pc : RemovalPc, doc : Docs \cup {Nil}]]
  /\ \A d \in Docs : row[d] # "none" => owner[d] \in Users
  /\ \A r \in Downloads : Served(r) =>
       row[download[r].doc] # "none" /\ owner[download[r].doc] = download[r].user

\* Some soft_delete of document d has got to the point of removing the object.
RemovalBegun(d) ==
  \E m \in Removals : removal[m].doc = d /\ removal[m].pc # "remove"

\* A row that nobody has begun to delete has its bytes in the bucket: the upload
\* stores them first, and stops at a failure.
RowHasObject ==
  \A d \in Docs : row[d] # "none" /\ ~RemovalBegun(d) => d \in object

\* Bytes without a row are what an upload under way or an upload the client was
\* told about as failed (502, 500, no answer) leaves; never one answered 201.
OrphanHasFailedUpload ==
  \A d \in object :
    row[d] = "none" => \/ upload[d].pc \in {"create", "lost"}
                       \/ upload[d].code \in {500, 502}

\* What a client was told, or a delete brought about, is on the audit trail:
\* every 201, every 200 of a download (each its own row), every deleted row.
AnswersAreAudited ==
  \A d \in Docs :
    /\ upload[d].code = 201 => audit[d]["UPLOADED"] = 1
    /\ audit[d]["DOWNLOADED"] >=
         Cardinality({r \in Downloads : download[r].doc = d /\ download[r].code = 200})
    /\ row[d] = "deleted" => audit[d]["DELETED"] > 0

\* A deleted document on which no request that found it live, or that created it, is
\* still at work.
DoneWith(d) ==
  /\ row[d] = "deleted"
  /\ upload[d].pc # "audit"
  /\ \A r \in Downloads : download[r].doc = d => download[r].pc \notin {"get", "audit"}

\* From then on nothing brings it back, over any number of requests, errors and
\* crashes: it stays done with, its bytes do not return, no download gets them, and
\* its audit trail takes nothing but further calls of soft_delete.
DeletedIsDoneWith ==
  [][\A d \in Docs : DoneWith(d) =>
       /\ DoneWith(d)'
       /\ d \in object' => d \in object
       /\ \A a \in Actions \ {"DELETED"} : audit'[d][a] = audit[d][a]
       /\ \A r \in Downloads :
            download'[r].doc = d /\ download'[r].code = 200 => download[r].code = 200]_vars
===============================================================================
