---------------------------- MODULE DocumentsProofs ----------------------------
(***************************************************************************)
(* The bucket, the documents table and the audit trail, for any number of  *)
(* documents, users, downloads and removals.                               *)
(***************************************************************************)
EXTENDS Documents, FiniteSetTheorems, TLAPS

USE DocumentsAssumption

UploadRecord   == [pc : UploadPc, code : Codes]
DownloadRecord == [pc : DownloadPc, user : Users \cup {Nil}, doc : Docs \cup {Nil}, code : Codes]
RemovalRecord  == [pc : RemovalPc, doc : Docs \cup {Nil}]
Trail          == [Actions -> Nat]

Types ==
  /\ object \subseteq Docs
  /\ row \in [Docs -> {"none", "live", "deleted"}]
  /\ owner \in [Docs -> Users \cup {Nil}]
  /\ audit \in [Docs -> Trail]
  /\ upload \in [Docs -> UploadRecord]
  /\ download \in [Downloads -> DownloadRecord]
  /\ removal \in [Removals -> RemovalRecord]

\* How far an upload has come tells what is in the stores.
UploadOK(d) ==
  /\ upload[d].pc \in {"idle", "put", "create"} => row[d] = "none"
  /\ upload[d].pc = "create" => d \in object
  /\ upload[d].pc \in {"put", "create", "audit"} => owner[d] \in Users
  /\ upload[d].pc # "done" => upload[d].code = 0
  /\ upload[d].pc \in {"idle", "put", "create", "audit"} => audit[d]["UPLOADED"] = 0
  /\ upload[d].code = 201 => audit[d]["UPLOADED"] = 1

\* What is in the stores fits together.
StoresOK(d) ==
  /\ row[d] # "none" => owner[d] \in Users
  /\ row[d] = "deleted" => audit[d]["DELETED"] > 0
  /\ d \in object /\ row[d] = "none" => \/ upload[d].pc \in {"create", "lost"}
                                       \/ upload[d].code \in {500, 502}
  /\ row[d] # "none" /\ ~RemovalBegun(d) => d \in object

\* A removal has a document with a row, and logs before it marks.
RemovalOK(m) ==
  /\ removal[m].pc = "idle" => removal[m].doc = Nil
  /\ removal[m].pc # "idle" => removal[m].doc \in Docs /\ row[removal[m].doc] # "none"
  /\ removal[m].pc = "mark" => audit[removal[m].doc]["DELETED"] > 0

DownloadOK(r) ==
  /\ download[r].pc # "idle" => download[r].doc \in Docs
  /\ download[r].pc # "done" => download[r].code = 0
  /\ Served(r) => row[download[r].doc] # "none" /\ owner[download[r].doc] = download[r].user

Inv ==
  /\ Types
  /\ \A d \in Docs : UploadOK(d) /\ StoresOK(d)
  /\ \A m \in Removals : RemovalOK(m)
  /\ \A r \in Downloads : DownloadOK(r)

LEMMA InitInv == Init => Inv
  BY DEF Init, Inv, Types, UploadRecord, DownloadRecord, RemovalRecord, Trail, Actions,
         UploadPc, DownloadPc, RemovalPc, Codes, UploadOK, StoresOK, RemovalOK, DownloadOK, Served

LEMMA LogLogs ==
  ASSUME Types, NEW d \in Docs, NEW a \in Actions, Log(d, a)
  PROVE  /\ audit' \in [Docs -> Trail]
         /\ audit'[d][a] = audit[d][a] + 1
         /\ \A b \in Actions : b # a => audit'[d][b] = audit[d][b]
         /\ \A e \in Docs : e # d => audit'[e] = audit[e]
<1>1. audit[d] \in Trail /\ audit \in [Docs -> Trail]
  BY DEF Types
<1> DEFINE n == [audit[d] EXCEPT ![a] = audit[d][a] + 1]
<1>2. n \in Trail /\ n[a] = audit[d][a] + 1 /\ \A b \in Actions : b # a => n[b] = audit[d][b]
  BY <1>1 DEF Trail
<1>3. audit' = [audit EXCEPT ![d] = n]
  BY <1>1 DEF Log, Trail
<1> HIDE DEF n
<1>4. QED
  BY <1>1, <1>2, <1>3

-------------------------------------------------------------------------------
(* Uploads *)

\* An upload's step leaves the other documents alone, and of its own what the
\* removals rely on.
Same(e) ==
  /\ upload'[e] = upload[e] /\ row'[e] = row[e]
  /\ owner'[e] = owner[e] /\ audit'[e] = audit[e]
  /\ (e \in object') <=> (e \in object)

OnlyUpload(d) ==
  /\ UNCHANGED <<download, removal>>
  /\ Types'
  /\ \A e \in Docs : e # d => Same(e)
  /\ row[d] # "none" => row'[d] # "none" /\ owner'[d] = owner[d]
  /\ audit'[d]["DELETED"] = audit[d]["DELETED"]

LEMMA UploadFrame ==
  ASSUME Inv, NEW d \in Docs, OnlyUpload(d), UploadOK(d)', StoresOK(d)'
  PROVE  Inv'
<1>1. ASSUME NEW e \in Docs, e # d PROVE UploadOK(e)' /\ StoresOK(e)'
  <2>1. UploadOK(e) /\ StoresOK(e)
    BY DEF Inv
  <2>2. RemovalBegun(e)' <=> RemovalBegun(e)
    BY DEF OnlyUpload, RemovalBegun
  <2>3. Same(e)
    BY <1>1 DEF OnlyUpload
  <2>4. UploadOK(e)'
    BY <2>1, <2>3 DEF UploadOK, Same
  <2>5. StoresOK(e)'
    BY <2>1, <2>2, <2>3 DEF StoresOK, Same
  <2>6. QED
    BY <2>4, <2>5
<1>2. ASSUME NEW m \in Removals PROVE RemovalOK(m)'
  <2>1. RemovalOK(m) /\ removal'[m] = removal[m]
    BY DEF Inv, OnlyUpload
  <2>2. CASE removal[m].doc \in Docs
    <3>1. /\ row[removal[m].doc] # "none" => row'[removal[m].doc] # "none"
          /\ audit'[removal[m].doc]["DELETED"] = audit[removal[m].doc]["DELETED"]
      <4>1. CASE removal[m].doc = d
        BY <4>1 DEF OnlyUpload
      <4>2. CASE removal[m].doc # d
        BY <2>2, <4>2 DEF OnlyUpload, Same
      <4>3. QED
        BY <4>1, <4>2
    <3>2. QED
      BY <2>1, <3>1 DEF RemovalOK
  <2>3. CASE removal[m].doc \notin Docs
    BY <2>1, <2>3 DEF RemovalOK
  <2>4. QED
    BY <2>2, <2>3
<1>3. ASSUME NEW r \in Downloads PROVE DownloadOK(r)'
  <2>1. DownloadOK(r) /\ download'[r] = download[r]
    BY DEF Inv, OnlyUpload
  <2>2. CASE Served(r)
    <3>1. download[r].doc \in Docs
      BY <2>1, <2>2 DEF DownloadOK, Served
    <3>2. row'[download[r].doc] # "none" /\ owner'[download[r].doc] = owner[download[r].doc]
      BY <2>1, <2>2, <3>1 DEF DownloadOK, OnlyUpload, Same
    <3>3. QED
      BY <2>1, <3>2 DEF DownloadOK, Served
  <2>3. CASE ~Served(r)
    BY <2>1, <2>3 DEF DownloadOK, Served
  <2>4. QED
    BY <2>2, <2>3
<1>4. QED
  BY <1>1, <1>2, <1>3 DEF Inv, OnlyUpload

Uploads(d, n) == upload' = [upload EXCEPT ![d] = n]

LEMMA UploadRecords ==
  ASSUME Types, NEW d \in Docs
  PROVE  /\ \A pc \in UploadPc : UploadGoto(d, pc) =>
              /\ upload' \in [Docs -> UploadRecord]
              /\ upload'[d].pc = pc /\ upload'[d].code = upload[d].code
              /\ \A e \in Docs : e # d => upload'[e] = upload[e]
         /\ \A c \in Codes : UploadEnds(d, c) =>
              /\ upload' \in [Docs -> UploadRecord]
              /\ upload'[d].pc = "done" /\ upload'[d].code = c
              /\ \A e \in Docs : e # d => upload'[e] = upload[e]
<1>0. upload \in [Docs -> UploadRecord] /\ upload[d] \in UploadRecord
  BY DEF Types
<1>1. ASSUME NEW pc \in UploadPc, UploadGoto(d, pc)
      PROVE  /\ upload' \in [Docs -> UploadRecord]
             /\ upload'[d].pc = pc /\ upload'[d].code = upload[d].code
             /\ \A e \in Docs : e # d => upload'[e] = upload[e]
  <2> DEFINE n == [upload[d] EXCEPT !.pc = pc]
  <2>1. n \in UploadRecord /\ n.pc = pc /\ n.code = upload[d].code
    BY <1>0 DEF UploadRecord
  <2>2. Uploads(d, n)
    BY <1>0, <1>1 DEF UploadGoto, Uploads
  <2> HIDE DEF n
  <2>3. QED
    BY <1>0, <2>1, <2>2 DEF Uploads
<1>2. ASSUME NEW c \in Codes, UploadEnds(d, c)
      PROVE  /\ upload' \in [Docs -> UploadRecord]
             /\ upload'[d].pc = "done" /\ upload'[d].code = c
             /\ \A e \in Docs : e # d => upload'[e] = upload[e]
  BY <1>0, <1>2 DEF UploadEnds, UploadRecord, UploadPc
<1>3. QED
  BY <1>1, <1>2

LEMMA UploadInv ==
  ASSUME Inv, NEW d \in Docs,
         UploadRefused(d) \/ UploadStep(d) \/ \E u \in Users : UploadValid(d, u)
  PROVE  Inv'
<1>0. /\ Types /\ UploadOK(d) /\ StoresOK(d)
      /\ \A m \in Removals : RemovalOK(m)
  BY DEF Inv
<1> USE DEF OnlyUpload, Same, Types, UploadOK, StoresOK, RemovalBegun, UploadPc, Codes
<1>1. CASE UploadRefused(d)
  BY <1>0, <1>1, UploadRecords, UploadFrame DEF UploadRefused
<1>2. ASSUME NEW u \in Users, UploadValid(d, u) PROVE Inv'
  BY <1>0, <1>2, UploadRecords, UploadFrame DEF UploadValid
<1>3. CASE Put(d)
  BY <1>0, <1>3, UploadRecords, UploadFrame DEF Put
<1>4. CASE PutFails(d)
  BY <1>0, <1>4, UploadRecords, UploadFrame DEF PutFails
<1>5. CASE CreateRow(d)
  BY <1>0, <1>5, UploadRecords, UploadFrame DEF CreateRow
<1>6. CASE AuditUpload(d)
  BY <1>0, <1>6, UploadRecords, LogLogs, UploadFrame DEF AuditUpload, Actions
<1>7. CASE UploadError(d)
  BY <1>0, <1>7, UploadRecords, UploadFrame DEF UploadError
<1>8. QED
  BY <1>1, <1>2, <1>3, <1>4, <1>5, <1>6, <1>7 DEF UploadStep

-------------------------------------------------------------------------------
(* Downloads *)

LEMMA DownloadFrame ==
  ASSUME Inv, NEW r \in Downloads, NEW n \in DownloadRecord,
         n.pc # "idle" => n.doc \in Docs, n.pc # "done" => n.code = 0,
         n.pc \in {"get", "audit"} \/ n.code = 200 =>
           row[n.doc] # "none" /\ owner[n.doc] = n.user,
         download' = [download EXCEPT ![r] = n],
         UNCHANGED <<object, row, owner, upload, removal>>,
         audit' \in [Docs -> Trail],
         \A e \in Docs : /\ audit'[e]["UPLOADED"] = audit[e]["UPLOADED"]
                         /\ audit'[e]["DELETED"] = audit[e]["DELETED"]
  PROVE  Inv'
<1>1. Types' /\ \A q \in Downloads : DownloadOK(q)'
  BY DEF Inv, Types, DownloadOK, Served
<1>2. ASSUME NEW e \in Docs PROVE UploadOK(e)' /\ StoresOK(e)'
  <2>1. UploadOK(e) /\ StoresOK(e)
    BY DEF Inv
  <2>2. RemovalBegun(e)' <=> RemovalBegun(e)
    BY DEF RemovalBegun
  <2>3. UploadOK(e)'
    BY <2>1 DEF UploadOK
  <2>4. StoresOK(e)'
    BY <2>1, <2>2 DEF StoresOK
  <2>5. QED
    BY <2>3, <2>4
<1>3. ASSUME NEW m \in Removals PROVE RemovalOK(m)'
  <2>1. RemovalOK(m)
    BY DEF Inv
  <2>2. QED
    BY <2>1 DEF RemovalOK
<1>4. QED
  BY <1>1, <1>2, <1>3 DEF Inv

\* The record a download's step leaves.
LEMMA DownloadRecords ==
  ASSUME Inv, NEW r \in Downloads
  PROVE  /\ download[r] \in DownloadRecord /\ DownloadOK(r)
         /\ \A pc \in DownloadPc : [download[r] EXCEPT !.pc = pc] \in DownloadRecord
         /\ \A c \in Codes : [download[r] EXCEPT !.pc = "done", !.code = c] \in DownloadRecord
<1>1. download[r] \in DownloadRecord
  BY DEF Inv, Types
<1>2. ASSUME NEW c \in Codes PROVE [download[r] EXCEPT !.pc = "done", !.code = c] \in DownloadRecord
  BY <1>1 DEF DownloadRecord, DownloadPc
<1>3. ASSUME NEW pc \in DownloadPc PROVE [download[r] EXCEPT !.pc = pc] \in DownloadRecord
  BY <1>1 DEF DownloadRecord
<1>4. QED
  BY <1>1, <1>2, <1>3 DEF Inv

LEMMA DownloadGoes ==
  ASSUME Inv, NEW r \in Downloads, NEW pc \in DownloadPc \ {"idle", "done"},
         download[r].pc \notin {"idle", "done"},
         row[download[r].doc] # "none" /\ owner[download[r].doc] = download[r].user,
         DownloadGoto(r, pc), UNCHANGED <<object, row, owner, audit, upload, removal>>
  PROVE  Inv'
<1> DEFINE n == [download[r] EXCEPT !.pc = pc]
<1>1. /\ n \in DownloadRecord /\ n.doc \in Docs /\ n.code = 0
      /\ n.doc = download[r].doc /\ n.user = download[r].user
  BY DownloadRecords DEF DownloadRecord, DownloadOK
<1>2. download' = [download EXCEPT ![r] = n]
  BY DEF DownloadGoto, Inv, Types
<1>3. audit' \in [Docs -> Trail]
  BY DEF Inv, Types
<1> HIDE DEF n
<1>4. QED
  BY <1>1, <1>2, <1>3, DownloadFrame

LEMMA DownloadFinishes ==
  ASSUME Inv, NEW r \in Downloads, NEW c \in Codes, download[r].pc \notin {"idle", "done"},
         c = 200 => Served(r),
         DownloadEnds(r, c), UNCHANGED <<object, row, owner, upload, removal>>,
         audit' \in [Docs -> Trail],
         \A e \in Docs : /\ audit'[e]["UPLOADED"] = audit[e]["UPLOADED"]
                         /\ audit'[e]["DELETED"] = audit[e]["DELETED"]
  PROVE  Inv'
<1> DEFINE n == [download[r] EXCEPT !.pc = "done", !.code = c]
<1>1. /\ n \in DownloadRecord /\ n.doc \in Docs /\ n.pc = "done" /\ n.code = c
      /\ n.doc = download[r].doc /\ n.user = download[r].user
  BY DownloadRecords DEF DownloadRecord, DownloadOK
<1>0. c = 200 => row[n.doc] # "none" /\ owner[n.doc] = n.user
  BY <1>1, DownloadRecords DEF DownloadOK
<1>2. download' = [download EXCEPT ![r] = n]
  BY DEF DownloadEnds, Inv, Types
<1> HIDE DEF n
<1>3. QED
  BY <1>0, <1>1, <1>2, DownloadFrame

LEMMA DownloadInv ==
  ASSUME Inv, NEW r \in Downloads,
         DownloadStep(r) \/ \E u \in Users, d \in Docs : Request(r, u, d)
  PROVE  Inv'
<1>0. audit \in [Docs -> Trail]
  BY DEF Inv, Types
<1>1. ASSUME NEW u \in Users, NEW d \in Docs, Request(r, u, d) PROVE Inv'
  <2> DEFINE n == [pc |-> "find", user |-> u, doc |-> d, code |-> 0]
  <2>1. /\ n \in DownloadRecord /\ n.doc \in Docs /\ n.code = 0
        /\ ~(n.pc \in {"get", "audit"} \/ n.code = 200)
    BY DEF DownloadRecord, DownloadPc, Codes
  <2>2. download' = [download EXCEPT ![r] = n] /\ UNCHANGED <<object, row, owner, audit, upload, removal>>
    BY <1>1 DEF Request
  <2>3. \A e \in Docs : /\ audit'[e]["UPLOADED"] = audit[e]["UPLOADED"]
                        /\ audit'[e]["DELETED"] = audit[e]["DELETED"]
    BY <2>2
  <2>4. audit' \in [Docs -> Trail]
    BY <1>0, <2>2
  <2> HIDE DEF n
  <2>5. QED
    BY <2>1, <2>2, <2>3, <2>4, DownloadFrame
<1>2. CASE Find(r)
  BY <1>2, DownloadGoes DEF Find, DownloadPc
<1>3. CASE Get(r)
  <2>1. row[download[r].doc] # "none" /\ owner[download[r].doc] = download[r].user
    BY <1>3, DownloadRecords DEF Get, DownloadOK, Served
  <2>2. QED
    BY <1>3, <2>1, DownloadGoes DEF Get, DownloadPc
<1>4. CASE FindNothing(r)
  BY <1>0, <1>4, DownloadFinishes DEF FindNothing, Codes
<1>5. CASE GetFails(r)
  BY <1>0, <1>5, DownloadFinishes DEF GetFails, Codes
<1>6. CASE DownloadError(r)
  BY <1>0, <1>6, DownloadFinishes DEF DownloadError, Codes
<1>7. CASE AuditDownload(r)
  <2>1. download[r].doc \in Docs /\ download[r].pc = "audit"
    BY <1>7, DownloadRecords DEF AuditDownload, DownloadOK
  <2>2. /\ audit' \in [Docs -> Trail]
        /\ \A e \in Docs : /\ audit'[e]["UPLOADED"] = audit[e]["UPLOADED"]
                            /\ audit'[e]["DELETED"] = audit[e]["DELETED"]
    <3>1. Log(download[r].doc, "DOWNLOADED") /\ Types
      BY <1>7 DEF AuditDownload, Inv
    <3>2. QED
      BY <2>1, <3>1, LogLogs DEF Actions
  <2>3. QED
    BY <1>7, <2>1, <2>2, DownloadFinishes DEF AuditDownload, Codes, Served
<1>8. QED
  BY <1>1, <1>2, <1>3, <1>4, <1>5, <1>6, <1>7 DEF DownloadStep

-------------------------------------------------------------------------------
(* Removals *)

\* A step of removal m, which is or becomes one of document d, leaves the other
\* documents and removals alone; d keeps its row, and its trail grows.
OnlyRemoval(m, d) ==
  /\ UNCHANGED <<owner, upload, download>>
  /\ Types'
  /\ \A e \in Docs : e # d => Same(e)
  /\ row[d] # "none" /\ row'[d] # "none"
  /\ audit'[d]["UPLOADED"] = audit[d]["UPLOADED"]
  /\ audit[d]["DELETED"] > 0 => audit'[d]["DELETED"] > 0
  /\ \A q \in Removals : q # m => removal'[q] = removal[q]
  /\ removal[m].doc \in {d, Nil} /\ removal'[m].doc = d /\ removal'[m].pc # "idle"
  /\ removal'[m].pc = "mark" => audit'[d]["DELETED"] > 0
  /\ row'[d] = "deleted" => audit'[d]["DELETED"] > 0
  /\ removal'[m].pc = "remove" => object' = object /\ removal[m].doc = Nil

LEMMA RemovalFrame ==
  ASSUME Inv, NEW m \in Removals, NEW d \in Docs, OnlyRemoval(m, d)
  PROVE  Inv'
<1>0. UploadOK(d) /\ StoresOK(d)
  BY DEF Inv
<1>1. ASSUME NEW e \in Docs, e # d PROVE UploadOK(e)' /\ StoresOK(e)'
  <2>1. UploadOK(e) /\ StoresOK(e) /\ Same(e)
    BY <1>1 DEF Inv, OnlyRemoval
  <2>2. RemovalBegun(e) => RemovalBegun(e)'
    BY <1>1 DEF OnlyRemoval, RemovalBegun
  <2>3. UploadOK(e)'
    BY <2>1 DEF UploadOK, Same
  <2>4. StoresOK(e)'
    BY <2>1, <2>2 DEF StoresOK, Same
  <2>5. QED
    BY <2>3, <2>4
<1>2. UploadOK(d)'
  BY <1>0 DEF OnlyRemoval, UploadOK
<1>3. StoresOK(d)'
  <2>1. ~RemovalBegun(d)' => d \in object'
    <3>1. SUFFICES ASSUME ~RemovalBegun(d)' PROVE d \in object'
      OBVIOUS
    <3>2. removal'[m].pc = "remove"
      BY <3>1 DEF OnlyRemoval, RemovalBegun
    <3>3. ~RemovalBegun(d)
      BY <3>1, <3>2 DEF OnlyRemoval, RemovalBegun
    <3>4. QED
      BY <1>0, <3>2, <3>3 DEF OnlyRemoval, StoresOK
  <2>2. QED
    BY <1>0, <2>1 DEF OnlyRemoval, StoresOK
<1>4. RemovalOK(m)'
  BY DEF OnlyRemoval, RemovalOK
<1>5. ASSUME NEW q \in Removals, q # m PROVE RemovalOK(q)'
  <2>1. RemovalOK(q) /\ removal'[q] = removal[q]
    BY <1>5 DEF Inv, OnlyRemoval
  <2>2. CASE removal[q].doc = d
    BY <2>1, <2>2 DEF OnlyRemoval, RemovalOK
  <2>3. CASE removal[q].doc # d
    <3>1. removal[q].doc \in Docs => Same(removal[q].doc)
      BY <2>3 DEF OnlyRemoval
    <3>2. QED
      BY <2>1, <3>1 DEF RemovalOK, Same
  <2>4. QED
    BY <2>2, <2>3
<1>6. ASSUME NEW r \in Downloads PROVE DownloadOK(r)'
  <2>1. DownloadOK(r) /\ download'[r] = download[r] /\ owner' = owner
    BY DEF Inv, OnlyRemoval
  <2>2. download[r].doc \in Docs /\ row[download[r].doc] # "none" => row'[download[r].doc] # "none"
    BY DEF OnlyRemoval, Same
  <2>3. QED
    BY <2>1, <2>2 DEF DownloadOK, Served
<1>7. QED
  BY <1>1, <1>2, <1>3, <1>4, <1>5, <1>6 DEF Inv, OnlyRemoval

LEMMA RemovalRecords ==
  ASSUME Inv, NEW m \in Removals, NEW pc \in RemovalPc, RemovalGoto(m, pc)
  PROVE  /\ removal' \in [Removals -> RemovalRecord]
         /\ removal'[m].pc = pc /\ removal'[m].doc = removal[m].doc
         /\ \A q \in Removals : q # m => removal'[q] = removal[q]
<1>0. removal \in [Removals -> RemovalRecord] /\ removal[m] \in RemovalRecord
  BY DEF Inv, Types
<1> DEFINE n == [removal[m] EXCEPT !.pc = pc]
<1>1. n \in RemovalRecord /\ n.pc = pc /\ n.doc = removal[m].doc
  BY <1>0 DEF RemovalRecord
<1>2. removal' = [removal EXCEPT ![m] = n]
  BY <1>0 DEF RemovalGoto
<1> HIDE DEF n
<1>3. QED
  BY <1>0, <1>1, <1>2

LEMMA RemovalInv ==
  ASSUME Inv, NEW m \in Removals, RemovalStep(m) \/ \E d \in Docs : Remove(m, d)
  PROVE  Inv'
<1>0. Types /\ RemovalOK(m)
  BY DEF Inv
<1>1. ASSUME NEW d \in Docs, Remove(m, d) PROVE Inv'
  <2>1. /\ removal' \in [Removals -> RemovalRecord]
        /\ removal'[m].pc = "remove" /\ removal'[m].doc = d
        /\ \A q \in Removals : q # m => removal'[q] = removal[q]
    BY <1>0, <1>1 DEF Remove, RemovalRecord, RemovalPc, Types
  <2>2. StoresOK(d) /\ removal[m].doc = Nil
    BY <1>0, <1>1 DEF Inv, Remove, RemovalOK
  <2>3. OnlyRemoval(m, d)
    BY <1>0, <1>1, <2>1, <2>2 DEF Remove, OnlyRemoval, StoresOK, Same, Types
  <2>4. QED
    BY <2>3, RemovalFrame
<1> DEFINE d == removal[m].doc
<1>2. ASSUME removal[m].pc # "idle" PROVE d \in Docs /\ row[d] # "none" /\ StoresOK(d)
  BY <1>0, <1>2 DEF Inv, RemovalOK
<1> HIDE DEF d
<1>3. CASE RemoveObject(m)
  <2>1. /\ d \in Docs /\ row[d] # "none" /\ StoresOK(d)
        /\ d = removal[m].doc
    BY <1>2, <1>3 DEF RemoveObject, d
  <2>2. /\ removal' \in [Removals -> RemovalRecord]
        /\ removal'[m].pc = "audit" /\ removal'[m].doc = d
        /\ \A q \in Removals : q # m => removal'[q] = removal[q]
    BY <1>3, <2>1, RemovalRecords DEF RemoveObject, RemovalPc
  <2>3. Types' /\ \A e \in Docs : e # d => Same(e)
    BY <1>0, <1>3, <2>1, <2>2 DEF RemoveObject, Types, Same
  <2>4. OnlyRemoval(m, d)
    BY <1>0, <1>3, <2>1, <2>2, <2>3 DEF RemoveObject, OnlyRemoval, StoresOK
  <2>5. QED
    BY <2>1, <2>4, RemovalFrame
<1>4. CASE AuditRemoval(m)
  <2>1. /\ d \in Docs /\ row[d] # "none" /\ StoresOK(d)
        /\ d = removal[m].doc
    BY <1>2, <1>4 DEF AuditRemoval, d
  <2>2. /\ removal' \in [Removals -> RemovalRecord]
        /\ removal'[m].pc = "mark" /\ removal'[m].doc = d
        /\ \A q \in Removals : q # m => removal'[q] = removal[q]
    BY <1>4, <2>1, RemovalRecords DEF AuditRemoval, RemovalPc
  <2>3. /\ audit' \in [Docs -> Trail]
        /\ audit'[d]["DELETED"] = audit[d]["DELETED"] + 1
        /\ audit'[d]["UPLOADED"] = audit[d]["UPLOADED"]
        /\ \A e \in Docs : e # d => audit'[e] = audit[e]
    BY <1>0, <1>4, <2>1, LogLogs DEF AuditRemoval, Actions
  <2>4. audit'[d]["DELETED"] > 0
    BY <1>0, <2>1, <2>3 DEF Trail, Actions, Types
  <2>5. Types' /\ \A e \in Docs : e # d => Same(e)
    BY <1>0, <1>4, <2>1, <2>2, <2>3, <2>4 DEF AuditRemoval, Types, Same
  <2>6. OnlyRemoval(m, d)
    BY <1>0, <1>4, <2>1, <2>2, <2>3, <2>4, <2>5 DEF AuditRemoval, OnlyRemoval, StoresOK
  <2>7. QED
    BY <2>1, <2>6, RemovalFrame
<1>5. CASE Mark(m)
  <2>1. /\ d \in Docs /\ row[d] # "none" /\ StoresOK(d)
        /\ d = removal[m].doc
    BY <1>2, <1>5 DEF Mark, d
  <2>2. /\ removal' \in [Removals -> RemovalRecord]
        /\ removal'[m].pc = "done" /\ removal'[m].doc = d
        /\ \A q \in Removals : q # m => removal'[q] = removal[q]
    BY <1>5, <2>1, RemovalRecords DEF Mark, RemovalPc
  <2>3. audit[d]["DELETED"] > 0
    BY <1>0, <1>5, <2>1 DEF Mark, RemovalOK
  <2>4. Types' /\ \A e \in Docs : e # d => Same(e)
    BY <1>0, <1>5, <2>1, <2>2, <2>3 DEF Mark, Types, Same
  <2>5. OnlyRemoval(m, d)
    BY <1>0, <1>5, <2>1, <2>2, <2>3, <2>4 DEF Mark, OnlyRemoval, StoresOK
  <2>6. QED
    BY <2>1, <2>5, RemovalFrame
<1>6. CASE RemovalError(m)
  <2>1. /\ d \in Docs /\ row[d] # "none" /\ StoresOK(d)
        /\ d = removal[m].doc
    BY <1>2, <1>6 DEF RemovalError, d
  <2>2. /\ removal' \in [Removals -> RemovalRecord]
        /\ removal'[m].pc = "lost" /\ removal'[m].doc = d
        /\ \A q \in Removals : q # m => removal'[q] = removal[q]
    BY <1>6, <2>1, RemovalRecords DEF RemovalError, RemovalPc
  <2>3. Types' /\ \A e \in Docs : e # d => Same(e)
    BY <1>0, <1>6, <2>1, <2>2 DEF RemovalError, Types, Same
  <2>4. OnlyRemoval(m, d)
    BY <1>0, <1>6, <2>1, <2>2, <2>3 DEF RemovalError, OnlyRemoval, StoresOK
  <2>5. QED
    BY <2>1, <2>4, RemovalFrame
<1>7. QED
  BY <1>1, <1>3, <1>4, <1>5, <1>6 DEF RemovalStep

-------------------------------------------------------------------------------
(* Crash, and the invariant *)

LEMMA CrashInv ==
  ASSUME Inv, Crash
  PROVE  Inv'
<1>0. /\ upload \in [Docs -> UploadRecord] /\ download \in [Downloads -> DownloadRecord]
      /\ removal \in [Removals -> RemovalRecord]
      /\ UNCHANGED <<object, row, owner, audit>>
  BY DEF Inv, Types, Crash
<1>1. ASSUME NEW d \in Docs
      PROVE  /\ upload'[d] = [upload[d] EXCEPT !.pc = Lost(upload[d].pc)]
             /\ upload'[d] \in UploadRecord
             /\ upload'[d].code = upload[d].code
             /\ upload'[d].pc = IF upload[d].pc \in {"idle", "done"} THEN upload[d].pc ELSE "lost"
  BY <1>0 DEF Crash, UploadRecord, UploadPc, Lost
<1>2. ASSUME NEW r \in Downloads
      PROVE  /\ download'[r] = [download[r] EXCEPT !.pc = Lost(download[r].pc)]
             /\ download'[r] \in DownloadRecord
             /\ download'[r].code = download[r].code /\ download'[r].doc = download[r].doc
             /\ download'[r].pc = IF download[r].pc \in {"idle", "done"} THEN download[r].pc ELSE "lost"
  BY <1>0 DEF Crash, DownloadRecord, DownloadPc, Lost
<1>3. ASSUME NEW m \in Removals
      PROVE  /\ removal'[m] = [removal[m] EXCEPT !.pc = Lost(removal[m].pc)]
             /\ removal'[m] \in RemovalRecord
             /\ removal'[m].doc = removal[m].doc
             /\ removal'[m].pc = IF removal[m].pc \in {"idle", "done"} THEN removal[m].pc ELSE "lost"
  BY <1>0 DEF Crash, RemovalRecord, RemovalPc, Lost
<1>4. Types'
  <2>1. upload' \in [Docs -> UploadRecord]
    BY <1>1 DEF Crash
  <2>2. download' \in [Downloads -> DownloadRecord]
    BY <1>2 DEF Crash
  <2>3. removal' \in [Removals -> RemovalRecord]
    BY <1>3 DEF Crash
  <2>4. QED
    BY <1>0, <2>1, <2>2, <2>3 DEF Inv, Types
<1>5. ASSUME NEW d \in Docs PROVE UploadOK(d)' /\ StoresOK(d)'
  <2>1. UploadOK(d) /\ StoresOK(d)
    BY DEF Inv
  <2>2. RemovalBegun(d) => RemovalBegun(d)'
    <3>1. SUFFICES ASSUME NEW m \in Removals, removal[m].doc = d, removal[m].pc # "remove"
                   PROVE  removal'[m].doc = d /\ removal'[m].pc # "remove"
      BY DEF RemovalBegun
    <3>2. QED
      BY <1>3, <3>1
  <2>3. UploadOK(d)'
    BY <1>0, <1>1, <2>1 DEF UploadOK
  <2>4. StoresOK(d)'
    <3>1. d \in object /\ row[d] = "none" =>
            upload'[d].pc \in {"create", "lost"} \/ upload'[d].code \in {500, 502}
      <4>1. /\ upload'[d].code = upload[d].code
            /\ upload[d].pc \in {"create", "lost"} => upload'[d].pc = "lost"
        BY <1>1
      <4>2. d \in object /\ row[d] = "none" =>
              upload[d].pc \in {"create", "lost"} \/ upload[d].code \in {500, 502}
        BY <2>1, Zenon DEF StoresOK
      <4>3. QED
        BY <4>1, <4>2
    <3>2. QED
      BY <1>0, <2>1, <2>2, <3>1 DEF StoresOK
  <2>5. QED
    BY <2>3, <2>4
<1>6. ASSUME NEW m \in Removals PROVE RemovalOK(m)'
  BY <1>0, <1>3 DEF Inv, RemovalOK
<1>7. ASSUME NEW r \in Downloads PROVE DownloadOK(r)'
  <2>1. DownloadOK(r)
    BY DEF Inv
  <2>2. download'[r].user = download[r].user
    BY <1>0, <1>2 DEF DownloadRecord
  <2>3. QED
    BY <1>0, <1>2, <2>1, <2>2 DEF DownloadOK, Served
<1>8. QED
  BY <1>4, <1>5, <1>6, <1>7 DEF Inv

LEMMA StutterInv ==
  ASSUME Inv, UNCHANGED vars
  PROVE  Inv'
  BY DEF vars, Inv, Types, UploadOK, StoresOK, RemovalOK, DownloadOK, RemovalBegun, Served

LEMMA NextInv == Inv /\ [Next]_vars => Inv'
  BY UploadInv, DownloadInv, RemovalInv, CrashInv, StutterInv DEF Next

LEMMA Invariant == Spec => []Inv
  BY InitInv, NextInv, PTL DEF Spec

\* Type correctness of the stores and their requests.
THEOREM TypeCorrect == Spec => []TypeOK
<1>1. Inv => TypeOK
  BY DEF Inv, Types, StoresOK, DownloadOK, TypeOK, UploadRecord, DownloadRecord, RemovalRecord,
         Trail
<1>2. QED
  BY <1>1, Invariant, PTL

\* Bytes are stored before the row and removed under a removal only.
THEOREM RowsHaveObjects == Spec => []RowHasObject
<1>1. Inv => RowHasObject
  BY DEF Inv, StoresOK, RowHasObject
<1>2. QED
  BY <1>1, Invariant, PTL

\* Bytes without a row belong to an upload nobody was told had succeeded.
THEOREM OrphansHaveFailedUploads == Spec => []OrphanHasFailedUpload
<1>1. Inv => OrphanHasFailedUpload
  BY DEF Inv, Types, StoresOK, OrphanHasFailedUpload
<1>2. QED
  BY <1>1, Invariant, PTL

-------------------------------------------------------------------------------
(* The audit trail *)

ServedOf(d) == {r \in Downloads : download[r].doc = d /\ download[r].code = 200}

\* Each download that was answered 200 has its own row.
DownloadsLogged == \A d \in Docs : Cardinality(ServedOf(d)) <= audit[d]["DOWNLOADED"]

LEMMA ServedFinite == \A d : IsFiniteSet(ServedOf(d)) /\ Cardinality(ServedOf(d)) \in Nat
<1> SUFFICES ASSUME NEW d PROVE IsFiniteSet(ServedOf(d)) /\ Cardinality(ServedOf(d)) \in Nat
  OBVIOUS
<1>1. ServedOf(d) \subseteq Downloads /\ IsFiniteSet(Downloads)
  BY DEF ServedOf
<1>2. QED
  BY <1>1, FS_Subset, FS_CardinalityType

\* A step that serves nobody and logs no download.
ServesNone ==
  /\ \A r \in Downloads : download'[r].code = 200 =>
       download[r].code = 200 /\ download'[r].doc = download[r].doc
  /\ \A d \in Docs : audit'[d]["DOWNLOADED"] = audit[d]["DOWNLOADED"]

LEMMA DownloadChanges ==
  ASSUME Inv, NEW r \in Downloads, NEW n \in DownloadRecord,
         n.code = 200 => download[r].code = 200 /\ n.doc = download[r].doc,
         download' = [download EXCEPT ![r] = n], UNCHANGED audit
  PROVE  ServesNone
  BY DEF Inv, Types, ServesNone

LEMMA OthersServeNone ==
  ASSUME Inv, [Next]_vars, ~\E r \in Downloads : AuditDownload(r)
  PROVE  ServesNone
<1>0. Types /\ download \in [Downloads -> DownloadRecord]
  BY DEF Inv, Types
<1>1. ASSUME NEW r \in Downloads, NEW pc \in DownloadPc, DownloadGoto(r, pc), UNCHANGED audit
      PROVE  ServesNone
  <2> DEFINE n == [download[r] EXCEPT !.pc = pc]
  <2>1. n \in DownloadRecord /\ n.code = download[r].code /\ n.doc = download[r].doc
    BY <1>0 DEF DownloadRecord
  <2>2. download' = [download EXCEPT ![r] = n]
    BY <1>0, <1>1 DEF DownloadGoto
  <2> HIDE DEF n
  <2>3. QED
    BY <1>1, <2>1, <2>2, DownloadChanges
<1>2. ASSUME NEW r \in Downloads, NEW c \in Codes \ {200}, DownloadEnds(r, c), UNCHANGED audit
      PROVE  ServesNone
  <2> DEFINE n == [download[r] EXCEPT !.pc = "done", !.code = c]
  <2>1. n \in DownloadRecord
    BY DownloadRecords
  <2>2. n.code = c
    BY <1>0 DEF DownloadRecord
  <2>3. download' = [download EXCEPT ![r] = n]
    BY <1>0, <1>2 DEF DownloadEnds
  <2> HIDE DEF n
  <2>4. QED
    BY <1>2, <2>1, <2>2, <2>3, DownloadChanges
<1>3. ASSUME NEW r \in Downloads, NEW u \in Users, NEW d \in Docs, Request(r, u, d) PROVE ServesNone
  BY <1>0, <1>3 DEF Request, ServesNone
<1>4. ASSUME NEW r \in Downloads, DownloadStep(r) PROVE ServesNone
  <2>1. CASE Find(r)
    BY <1>1, <2>1 DEF Find, DownloadPc
  <2>2. CASE Get(r)
    BY <1>1, <2>2 DEF Get, DownloadPc
  <2>3. CASE FindNothing(r)
    BY <1>2, <2>3 DEF FindNothing, Codes
  <2>4. CASE GetFails(r)
    BY <1>2, <2>4 DEF GetFails, Codes
  <2>5. CASE DownloadError(r)
    BY <1>2, <2>5 DEF DownloadError, Codes
  <2>6. QED
    BY <1>4, <2>1, <2>2, <2>3, <2>4, <2>5 DEF DownloadStep
<1>5. CASE UNCHANGED <<download, audit>>
  BY <1>5 DEF ServesNone
<1>6. ASSUME NEW d \in Docs, UploadRefused(d) \/ UploadStep(d) \/ \E u \in Users : UploadValid(d, u)
      PROVE  ServesNone
  <2>1. CASE AuditUpload(d)
    <3>1. \A e \in Docs : audit'[e]["DOWNLOADED"] = audit[e]["DOWNLOADED"]
      BY <1>0, <2>1, LogLogs DEF AuditUpload, Actions
    <3>2. QED
      BY <2>1, <3>1 DEF AuditUpload, ServesNone
  <2>2. QED
    BY <1>5, <1>6, <2>1
    DEF UploadStep, UploadRefused, UploadValid, Put, PutFails, CreateRow, UploadError
<1>7. ASSUME NEW m \in Removals, RemovalStep(m) \/ \E d \in Docs : Remove(m, d)
      PROVE  ServesNone
  <2>1. CASE AuditRemoval(m)
    <3>1. removal[m].doc \in Docs
      BY <2>1 DEF AuditRemoval, Inv, RemovalOK
    <3>2. \A e \in Docs : audit'[e]["DOWNLOADED"] = audit[e]["DOWNLOADED"]
      BY <1>0, <2>1, <3>1, LogLogs DEF AuditRemoval, Actions
    <3>3. QED
      BY <2>1, <3>2 DEF AuditRemoval, ServesNone
  <2>2. QED
    BY <1>5, <1>7, <2>1 DEF RemovalStep, Remove, RemoveObject, Mark, RemovalError
<1>8. CASE Crash
  <2>1. ASSUME NEW r \in Downloads
        PROVE  download'[r].code = download[r].code /\ download'[r].doc = download[r].doc
    <3>1. download'[r] = [download[r] EXCEPT !.pc = Lost(download[r].pc)]
      BY <1>8 DEF Crash
    <3>2. QED
      BY <1>0, <3>1 DEF DownloadRecord
  <2>2. QED
    BY <1>8, <2>1 DEF Crash, ServesNone
<1>9. QED
  BY <1>3, <1>4, <1>5, <1>6, <1>7, <1>8 DEF Next, vars

LEMMA NextDownloadsLogged == Inv /\ DownloadsLogged /\ [Next]_vars => DownloadsLogged'
<1> SUFFICES ASSUME Inv, DownloadsLogged, [Next]_vars, NEW d \in Docs
             PROVE  Cardinality(ServedOf(d))' <= audit'[d]["DOWNLOADED"]
  BY DEF DownloadsLogged
<1>0. /\ Types /\ download \in [Downloads -> DownloadRecord]
      /\ audit[d]["DOWNLOADED"] \in Nat
      /\ Cardinality(ServedOf(d)) <= audit[d]["DOWNLOADED"]
      /\ IsFiniteSet(ServedOf(d)) /\ Cardinality(ServedOf(d)) \in Nat
  BY ServedFinite DEF Inv, Types, Trail, Actions, DownloadsLogged
<1>1. CASE ServesNone
  <2>1. ServedOf(d)' \subseteq ServedOf(d)
    BY <1>1 DEF ServedOf, ServesNone
  <2>2. Cardinality(ServedOf(d)') <= Cardinality(ServedOf(d)) /\ Cardinality(ServedOf(d)') \in Nat
    BY <1>0, <2>1, FS_Subset, FS_CardinalityType
  <2>3. QED
    BY <1>0, <1>1, <2>2 DEF ServesNone
<1>2. ASSUME NEW r \in Downloads, AuditDownload(r)
      PROVE  Cardinality(ServedOf(d))' <= audit'[d]["DOWNLOADED"]
  <2>1. /\ download[r].doc \in Docs /\ download[r].code = 0 /\ download[r] \in DownloadRecord
    BY <1>2 DEF AuditDownload, Inv, Types, DownloadOK
  <2>2. /\ download'[r].doc = download[r].doc /\ download'[r].code = 200
        /\ \A q \in Downloads : q # r => download'[q] = download[q]
    <3> DEFINE n == [download[r] EXCEPT !.pc = "done", !.code = 200]
    <3>1. n.doc = download[r].doc /\ n.code = 200
      BY <2>1 DEF DownloadRecord
    <3>2. download' = [download EXCEPT ![r] = n]
      BY <1>0, <1>2 DEF AuditDownload, DownloadEnds
    <3> HIDE DEF n
    <3>3. QED
      BY <1>0, <3>1, <3>2
  <2>3. CASE d = download[r].doc
    <3>1. ServedOf(d)' = ServedOf(d) \cup {r} /\ r \notin ServedOf(d)
      BY <2>1, <2>2, <2>3 DEF ServedOf
    <3>2. Cardinality(ServedOf(d)') = Cardinality(ServedOf(d)) + 1
      BY <1>0, <3>1, FS_AddElement
    <3>3. audit'[d]["DOWNLOADED"] = audit[d]["DOWNLOADED"] + 1
      BY <1>0, <1>2, <2>3, LogLogs DEF AuditDownload, Actions
    <3>4. QED
      BY <1>0, <3>2, <3>3
  <2>4. CASE d # download[r].doc
    <3>1. ServedOf(d)' = ServedOf(d)
      BY <2>2, <2>4 DEF ServedOf
    <3>2. audit'[d] = audit[d]
      BY <1>0, <1>2, <2>1, <2>4, LogLogs DEF AuditDownload, Actions
    <3>3. QED
      BY <1>0, <3>1, <3>2
  <2>5. QED
    BY <2>3, <2>4
<1>3. QED
  BY <1>1, <1>2, OthersServeNone

\* Every answer of success, and every deletion, is on the audit trail.
THEOREM AnswersGetAudited == Spec => []AnswersAreAudited
<1>1. Init => DownloadsLogged
  <2> SUFFICES ASSUME Init, NEW d \in Docs
               PROVE  Cardinality(ServedOf(d)) <= audit[d]["DOWNLOADED"]
    BY DEF DownloadsLogged
  <2>1. ServedOf(d) = {}
    BY DEF Init, ServedOf
  <2>2. QED
    BY <2>1, FS_EmptySet DEF Init, Actions
<1>2. Inv /\ DownloadsLogged => AnswersAreAudited
  <2> SUFFICES ASSUME Inv, DownloadsLogged, NEW d \in Docs
               PROVE  /\ upload[d].code = 201 => audit[d]["UPLOADED"] = 1
                      /\ audit[d]["DOWNLOADED"] >= Cardinality(ServedOf(d))
                      /\ row[d] = "deleted" => audit[d]["DELETED"] > 0
    BY DEF AnswersAreAudited, ServedOf
  <2>1. UploadOK(d) /\ StoresOK(d)
    BY DEF Inv
  <2>2. Cardinality(ServedOf(d)) \in Nat /\ audit[d]["DOWNLOADED"] \in Nat
    BY ServedFinite DEF Inv, Types, Trail, Actions
  <2>3. QED
    BY <2>1, <2>2 DEF UploadOK, StoresOK, DownloadsLogged
<1>3. QED
  BY <1>1, <1>2, NextDownloadsLogged, Invariant, PTL DEF Spec

-------------------------------------------------------------------------------
(* Deleted documents *)

\* What a step leaves of a deleted document whose requests are over.
RowStays(d) ==
  /\ row'[d] = "deleted" /\ upload'[d].pc # "audit"
  /\ d \in object' => d \in object
  /\ \A a \in Actions \ {"DELETED"} : audit'[d][a] = audit[d][a]

DownloadsStay(d) ==
  \A r \in Downloads : download'[r].doc = d =>
    /\ download'[r].pc \notin {"get", "audit"}
    /\ download'[r].code = 200 => download[r].code = 200

LEMMA DoneWithUpload ==
  ASSUME Inv, NEW d \in Docs, DoneWith(d), NEW e \in Docs,
         UploadRefused(e) \/ UploadStep(e) \/ \E u \in Users : UploadValid(e, u)
  PROVE  RowStays(d) /\ UNCHANGED download
<1>0. Types /\ UploadOK(d)
  BY DEF Inv
<1>1. e # d
  BY <1>0 DEF DoneWith, UploadOK, UploadStep, UploadRefused, UploadValid, Put, PutFails,
     CreateRow, AuditUpload, UploadError
<1>2. upload'[d] = upload[d] /\ UNCHANGED download
  BY <1>0, <1>1 DEF Types, UploadStep, UploadRefused, UploadValid, Put, PutFails,
     CreateRow, AuditUpload, UploadError, UploadGoto, UploadEnds
<1>3. row'[d] = row[d] /\ (d \in object' => d \in object)
  BY <1>0, <1>1 DEF Types, UploadStep, UploadRefused, UploadValid, Put, PutFails,
     CreateRow, AuditUpload, UploadError
<1>4. audit'[d] = audit[d]
  <2>1. CASE AuditUpload(e)
    BY <1>0, <1>1, <2>1, LogLogs DEF AuditUpload, Actions
  <2>2. CASE UNCHANGED audit
    BY <2>2
  <2>3. QED
    BY <2>1, <2>2 DEF UploadStep, UploadRefused, UploadValid, Put, PutFails,
       CreateRow, UploadError
<1>5. QED
  BY <1>2, <1>3, <1>4 DEF DoneWith, RowStays

LEMMA DoneWithDownload ==
  ASSUME Inv, NEW d \in Docs, DoneWith(d), NEW r \in Downloads,
         DownloadStep(r) \/ \E u \in Users, e \in Docs : Request(r, u, e)
  PROVE  RowStays(d) /\ DownloadsStay(d)
<1>0. /\ Types /\ DownloadOK(r)
      /\ download \in [Downloads -> DownloadRecord]
      /\ download[r] \in DownloadRecord
  BY DEF Inv, Types
<1>1. download[r].doc = d => download[r].pc \notin {"get", "audit"}
  BY DEF DoneWith
<1>2. \A q \in Downloads : q # r => download'[q] = download[q]
  BY <1>0 DEF DownloadStep, Find, FindNothing, Get, GetFails, AuditDownload, DownloadError,
     Request, DownloadGoto, DownloadEnds
<1>3. /\ download'[r].doc = d => download'[r].pc \notin {"get", "audit"}
      /\ download'[r].doc = d => download'[r].code # 200
  <2>1. CASE \E u \in Users, e \in Docs : Request(r, u, e)
    BY <1>0, <2>1 DEF Request
  <2>2. CASE Find(r) \/ Get(r)
    <3>1. download[r].doc # d
      BY <1>1, <2>2 DEF Find, Get, DoneWith
    <3>2. download'[r].doc = download[r].doc
      BY <1>0, <2>2 DEF Find, Get, DownloadGoto, DownloadRecord
    <3>3. QED
      BY <3>1, <3>2
  <2>3. ASSUME NEW c \in Codes, DownloadEnds(r, c), c = 200 => download[r].doc # d
        PROVE  /\ download'[r].doc = d => download'[r].pc \notin {"get", "audit"}
               /\ download'[r].doc = d => download'[r].code # 200
    <3>1. download'[r] = [download[r] EXCEPT !.pc = "done", !.code = c]
      BY <1>0, <2>3 DEF DownloadEnds
    <3>2. /\ download'[r].pc = "done" /\ download'[r].code = c
          /\ download'[r].doc = download[r].doc
      BY <1>0, <3>1 DEF DownloadRecord
    <3>3. QED
      BY <2>3, <3>2
  <2>4. CASE AuditDownload(r)
    BY <1>1, <2>3, <2>4 DEF AuditDownload, Codes
  <2>5. CASE FindNothing(r) \/ GetFails(r) \/ DownloadError(r)
    BY <2>3, <2>5 DEF FindNothing, GetFails, DownloadError, Codes
  <2>6. QED
    BY <2>1, <2>2, <2>4, <2>5 DEF DownloadStep
<1>4. audit'[d] = audit[d]
  <2>1. CASE AuditDownload(r)
    <3>1. download[r].doc # d /\ download[r].doc \in Docs
      BY <1>0, <1>1, <2>1 DEF AuditDownload, DownloadOK
    <3>2. QED
      BY <1>0, <2>1, <3>1, LogLogs DEF AuditDownload, Actions
  <2>2. CASE UNCHANGED audit
    BY <2>2
  <2>3. QED
    BY <2>1, <2>2 DEF DownloadStep, Find, FindNothing, Get, GetFails, DownloadError, Request
<1>5. RowStays(d)
  BY <1>4 DEF DoneWith, RowStays, DownloadStep, Find, FindNothing, Get, GetFails,
     AuditDownload, DownloadError, Request
<1>6. DownloadsStay(d)
  BY <1>2, <1>3 DEF DoneWith, DownloadsStay
<1>7. QED
  BY <1>5, <1>6

LEMMA DoneWithRemoval ==
  ASSUME Inv, NEW d \in Docs, DoneWith(d), NEW m \in Removals,
         RemovalStep(m) \/ \E e \in Docs : Remove(m, e)
  PROVE  RowStays(d) /\ UNCHANGED download
<1>0. Types /\ RemovalOK(m)
  BY DEF Inv
<1>1. \A a \in Actions \ {"DELETED"} : audit'[d][a] = audit[d][a]
  <2>1. CASE AuditRemoval(m)
    <3>1. removal[m].doc \in Docs
      BY <1>0, <2>1 DEF AuditRemoval, RemovalOK
    <3>2. CASE removal[m].doc = d
      BY <1>0, <2>1, <3>2, LogLogs DEF AuditRemoval, Actions
    <3>3. CASE removal[m].doc # d
      BY <1>0, <2>1, <3>1, <3>3, LogLogs DEF AuditRemoval, Actions
    <3>4. QED
      BY <3>2, <3>3
  <2>2. CASE UNCHANGED audit
    BY <2>2
  <2>3. QED
    BY <2>1, <2>2 DEF RemovalStep, Remove, RemoveObject, Mark, RemovalError
<1>2. row'[d] = "deleted"
  BY <1>0 DEF DoneWith, Types, RemovalStep, Remove, RemoveObject, AuditRemoval, Mark,
     RemovalError
<1>3. (d \in object' => d \in object) /\ UNCHANGED <<upload, download>>
  BY DEF RemovalStep, Remove, RemoveObject, AuditRemoval, Mark, RemovalError
<1>4. QED
  BY <1>1, <1>2, <1>3 DEF DoneWith, RowStays

LEMMA DoneWithCrash ==
  ASSUME Inv, NEW d \in Docs, DoneWith(d), Crash
  PROVE  RowStays(d) /\ DownloadsStay(d)
<1>0. /\ upload[d] \in UploadRecord
      /\ download \in [Downloads -> DownloadRecord]
  BY DEF Inv, Types
<1>1. upload'[d].pc # "audit"
  BY <1>0 DEF Crash, UploadRecord, Lost
<1>2. ASSUME NEW r \in Downloads
      PROVE  /\ download'[r].pc \notin {"get", "audit"}
             /\ download'[r].code = download[r].code
  BY <1>0 DEF Crash, DownloadRecord, Lost
<1>3. QED
  BY <1>1, <1>2 DEF Crash, DoneWith, RowStays, DownloadsStay

\* A deleted document whose requests are over stays so: none of its uploads and
\* downloads comes back, and neither do its bytes.
THEOREM DeletedAreDoneWith == Spec => DeletedIsDoneWith
<1>1. ASSUME Inv, [Next]_vars, NEW d \in Docs, DoneWith(d)
      PROVE  RowStays(d) /\ DownloadsStay(d)
  <2>1. UNCHANGED download => DownloadsStay(d)
    BY <1>1 DEF DoneWith, DownloadsStay
  <2>2. CASE UNCHANGED vars
    BY <1>1, <2>1, <2>2 DEF vars, DoneWith, RowStays
  <2>3. QED
    BY <1>1, <2>1, <2>2, DoneWithUpload, DoneWithDownload, DoneWithRemoval, DoneWithCrash
    DEF Next
<1>2. Inv /\ [Next]_vars =>
        [\A d \in Docs : DoneWith(d) =>
           /\ DoneWith(d)'
           /\ d \in object' => d \in object
           /\ \A a \in Actions \ {"DELETED"} : audit'[d][a] = audit[d][a]
           /\ \A r \in Downloads :
                download'[r].doc = d /\ download'[r].code = 200 => download[r].code = 200]_vars
  BY <1>1 DEF DoneWith, RowStays, DownloadsStay
<1>3. QED
  BY <1>2, Invariant, PTL DEF Spec, DeletedIsDoneWith
===============================================================================
