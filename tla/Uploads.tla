------------------------------- MODULE Uploads ------------------------------
(***************************************************************************)
(* The upload component: POST and GET /uploads, the table `uploads` and    *)
(* the files of LocalStorage.                                              *)
(*                                                                         *)
(* The file is written first and the row is inserted afterwards; nothing   *)
(* spans the two.  As in Payments, every statement and every call to the   *)
(* file system is a step.  The body of the request has been read before    *)
(* the handler opens its file, so only the database sees the client leave. *)
(***************************************************************************)
EXTENDS Orders

CONSTANTS
    Job,       \* the POST /uploads requests of a behaviour
    File,      \* the parts `file` that may come with them
    MaxSize,   \* UPLOAD_MAX_SIZE
    MayFail    \* whether statements and calls to the file system may fail

\* Of a file only its length and what its head is sniffed as matter.
ASSUME UploadAssumption == /\ \A f \in File : f.size \in Nat
                           /\ MaxSize \in Nat
                           /\ MayFail \in BOOLEAN

VARIABLES
    uploads,   \* the table; a row's key is the request that made it
    disk,      \* the files, by the request that drew their name: the
               \* positions of the part that were written
    jobs       \* the requests begun so far, finished ones included

uploadVars == <<uploads, disk, jobs>>

\* allowedMIMEs
Mime == {"pdf", "png", "jpeg"}

UploadRow == [order : OrderId, size : 1 .. MaxSize, mime : Mime]

UploadReply == {"none", "Created", "OrderNotFound", "EmptyFile",
                "FileTooLarge", "UnsupportedContentType", "InternalError",
                "NoReply"}

\* pos is the read position in the part.
JobRecord == [pc    : {"open", "copy", "remove", "insert", "done"},
              user  : User,
              order : OrderId,
              file  : File,
              pos   : Nat,
              reply : UploadReply]

UploadsTypeOK == /\ DOMAIN jobs \subseteq Job
                 /\ \A j \in DOMAIN jobs : jobs[j] \in JobRecord
                 /\ DOMAIN uploads \subseteq DOMAIN jobs
                 /\ \A j \in DOMAIN uploads : uploads[j] \in UploadRow
                 /\ DOMAIN disk \subseteq DOMAIN jobs

UploadsInit == /\ uploads = EmptyTable
               /\ disk = EmptyTable
               /\ jobs = EmptyTable

\* Whether the answer to a statement arrives.
InsertAnswers == IF MayFail THEN BOOLEAN ELSE {TRUE}

At(j, pc) == j \in DOMAIN jobs /\ jobs[j].pc = pc

Goto(j, pc) == jobs' = [jobs EXCEPT ![j].pc = pc]

EndJob(j, r) == jobs' = [jobs EXCEPT ![j].pc = "done", ![j].reply = r]

-----------------------------------------------------------------------------
(* Service.Create up to the storage. *)

\* Mutant: the limit on the size is forgotten.
VerdictOnUnlimited(u, o, f) ==
    IF ~Owns(u, o) THEN "OrderNotFound"
    ELSE IF f.size = 0 THEN "EmptyFile"
    ELSE IF f.mime \notin Mime THEN "UnsupportedContentType"
    ELSE "none"

\* The checks in the order in which they are made.
VerdictOn(u, o, f) ==
    IF ~Owns(u, o) THEN "OrderNotFound"
    ELSE IF f.size = 0 THEN "EmptyFile"
    ELSE IF f.size > MaxSize THEN "FileTooLarge"
    ELSE IF f.mime \notin Mime THEN "UnsupportedContentType"
    ELSE "none"

\* Mutant: no Seek after the sniffing, which has read a short file entirely.
StartOfUnsought(f) == f.size

\* Where the copy starts: the head was read to sniff its type, and Seek went
\* back to the start.
StartOf(f) == 0

\* orders.Get and everything the service does before it calls the storage.
BeginUpload(j, u, o, f) ==
    LET verdict == VerdictOn(u, o, f)
    IN  /\ j \notin DOMAIN jobs
        /\ jobs' = InsertRow(jobs, j,
                      [pc    |-> IF verdict = "none" THEN "open" ELSE "done",
                       user  |-> u,
                       order |-> o,
                       file  |-> f,
                       pos   |-> StartOf(f),
                       reply |-> verdict])
        /\ UNCHANGED <<orderVars, uploads, disk>>

-----------------------------------------------------------------------------
(* LocalStorage.Save. *)

\* MkdirAll and os.Create.
CreateFile(j) == /\ At(j, "open")
                 /\ disk' = InsertRow(disk, j, {})
                 /\ Goto(j, "copy")
                 /\ UNCHANGED <<orderVars, uploads>>

\* io.Copy moves a buffer of any length.
CopyChunk(j) ==
    /\ At(j, "copy")
    /\ \E end \in (jobs[j].pos + 1) .. jobs[j].file.size :
          /\ disk' = [disk EXCEPT ![j] = @ \cup (jobs[j].pos + 1) .. end]
          /\ jobs' = [jobs EXCEPT ![j].pos = end]
    /\ UNCHANGED <<orderVars, uploads>>

\* Mutant: the end of the part is taken for an error.
CloseFileAtEOF(j) == /\ At(j, "copy") /\ jobs[j].pos = jobs[j].file.size
                     /\ Goto(j, "remove")
                     /\ UNCHANGED <<orderVars, uploads, disk>>

\* The part is at its end, and Close.
CloseFile(j) == /\ At(j, "copy") /\ jobs[j].pos = jobs[j].file.size
                /\ Goto(j, "insert")
                /\ UNCHANGED <<orderVars, uploads, disk>>

\* os.Remove after a failure of either.
RemoveFile(j) == /\ At(j, "remove")
                 /\ disk' = DeleteRows(disk, {j})
                 /\ EndJob(j, "InternalError")
                 /\ UNCHANGED <<orderVars, uploads>>

-----------------------------------------------------------------------------
(* Repository.Create and GetByID. *)

NewUpload(j) == [order |-> jobs[j].order,
                 size  |-> jobs[j].file.size,
                 mime  |-> jobs[j].file.mime]

\* Mutant: an INSERT without an answer is cleaned up after.
InsertUploadOrRemove(j, answered) ==
    /\ At(j, "insert")
    /\ \/ /\ jobs[j].order \notin DOMAIN orders
          /\ answered
          /\ EndJob(j, "InternalError")
          /\ UNCHANGED uploads
       \/ /\ jobs[j].order \in DOMAIN orders
          /\ uploads' = InsertRow(uploads, j, NewUpload(j))
          /\ IF answered THEN EndJob(j, "Created") ELSE Goto(j, "remove")
    /\ UNCHANGED <<orderVars, disk>>

\* The INSERT.  When the order has gone, the foreign key refuses the row; the
\* file stays, as it does when the answer is lost.
InsertUpload(j, answered) ==
    /\ At(j, "insert")
    /\ \/ /\ jobs[j].order \notin DOMAIN orders
          /\ answered
          /\ EndJob(j, "InternalError")
          /\ UNCHANGED uploads
       \/ /\ jobs[j].order \in DOMAIN orders
          /\ uploads' = InsertRow(uploads, j, NewUpload(j))
          /\ EndJob(j, IF answered THEN "Created" ELSE "InternalError")
    /\ UNCHANGED <<orderVars, disk>>

\* Mutant: the JOIN forgets whose order it is.
ShownToAll(u) == {j \in DOMAIN uploads : uploads[j].order \in DOMAIN orders}

\* What GET /uploads/:id finds for a user: the JOIN with orders.
ShownTo(u) == {j \in DOMAIN uploads : Owns(u, uploads[j].order)}

-----------------------------------------------------------------------------
(* Failures, and what other components do to this one. *)

\* The pending call fails and was not applied.  A failed copy or Close is
\* followed by os.Remove, whose own failure is ignored; after the INSERT
\* nothing is removed.
UploadFails(j) ==
    /\ MayFail
    /\ j \in DOMAIN jobs /\ jobs[j].pc # "done"
    /\ IF jobs[j].pc = "copy" THEN Goto(j, "remove")
                              ELSE EndJob(j, "InternalError")
    /\ UNCHANGED <<orderVars, uploads, disk>>

\* ON DELETE CASCADE of uploads.order_id; the files stay.
CascadeUploads(o) ==
    uploads' = DeleteRows(uploads,
                   {j \in DOMAIN uploads : uploads[j].order = o})

\* The process ends: requests in flight end without a reply, and what they
\* wrote so far stays.
UploadsRestart ==
    /\ jobs' = [j \in DOMAIN jobs |->
                   IF jobs[j].pc = "done" THEN jobs[j]
                   ELSE [jobs[j] EXCEPT !.pc = "done", !.reply = "NoReply"]]
    /\ UNCHANGED <<uploads, disk>>
=============================================================================
