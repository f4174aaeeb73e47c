----------------------------- MODULE OrderUpload ----------------------------
(***************************************************************************)
(* Uploads to orders that come and go.  The status of an order and PUT,    *)
(* which the upload component never looks at, are left to OrderPayment.    *)
(***************************************************************************)
EXTENDS Uploads

CONSTANTS
    MaxCrashes   \* bound: how often the process ends in a behaviour

ASSUME CrashAssumption == MaxCrashes \in Nat

VARIABLES
    crashes      \* how often it did

vars == <<orders, drawn, uploads, disk, jobs, crashes>>

TypeOK == OrdersTypeOK /\ UploadsTypeOK /\ crashes \in Nat

Init == OrdersInit /\ UploadsInit /\ crashes = 0

-----------------------------------------------------------------------------
PostOrder(u, o, b) == /\ CreateOrder(u, o, b)
                      /\ UNCHANGED <<uploadVars, crashes>>

RemoveOrder(u, o) == /\ DeleteOrder(u, o)
                     /\ CascadeUploads(o)
                     /\ UNCHANGED <<disk, jobs, crashes>>

PostUpload(j, u, o, f) == /\ BeginUpload(j, u, o, f)
                          /\ UNCHANGED crashes

UploadStep(j) == /\ \/ CreateFile(j)
                    \/ CopyChunk(j)
                    \/ CloseFile(j)
                    \/ RemoveFile(j)
                    \/ \E answered \in InsertAnswers : InsertUpload(j, answered)
                 /\ UNCHANGED crashes

Fail(j) == /\ UploadFails(j)
           /\ UNCHANGED crashes

Crash == /\ crashes < MaxCrashes
         /\ crashes' = crashes + 1
         /\ UploadsRestart
         /\ UNCHANGED orderVars

Idle == \A j \in DOMAIN jobs : jobs[j].pc = "done"

\* No request is in flight and the server waits.
Wait == Idle /\ UNCHANGED vars

Next ==
    \/ \E u \in User, o \in OrderId :
          \/ \E b \in Body : PostOrder(u, o, b)
          \/ RemoveOrder(u, o)
          \/ \E j \in Job, f \in File : PostUpload(j, u, o, f)
    \/ \E j \in Job : UploadStep(j)
    \/ \E j \in Job : Fail(j)
    \/ Crash
    \/ Wait

Spec == Init /\ [][Next]_vars

\* Every request's goroutine is scheduled and every call it makes ends.
FairSpec == Spec /\ \A j \in Job : WF_vars(UploadStep(j))

-----------------------------------------------------------------------------
(* Properties. *)

\* A row of `uploads` describes a file that is there and complete, and that
\* passed the checks, whatever fails and wherever the process stopped while
\* the file was being written.
RowHasCompleteFile ==
    \A j \in DOMAIN uploads :
        /\ j \in DOMAIN disk
        /\ disk[j] = 1 .. uploads[j].size
        /\ uploads[j].size = jobs[j].file.size
        /\ uploads[j].mime = jobs[j].file.mime
        /\ uploads[j].size \in 1 .. MaxSize

\* An upload is shown to the user who sent it and to nobody else, and only
\* while its order exists; its order may be deleted while it is being stored.
ShownToSender ==
    \A u \in User :
        ShownTo(u) = {j \in DOMAIN uploads : jobs[j].user = u}

\* 201 is said only of a file that is complete and whose row exists, or went
\* with its order; a request refused with 4xx leaves neither.
TruthfulUploadReplies ==
    \A j \in DOMAIN jobs :
        /\ jobs[j].reply = "Created" =>
              /\ j \in DOMAIN disk /\ disk[j] = 1 .. jobs[j].file.size
              /\ j \in DOMAIN uploads \/ jobs[j].order \notin DOMAIN orders
        /\ jobs[j].reply \in {"OrderNotFound", "EmptyFile", "FileTooLarge",
                              "UnsupportedContentType"} =>
              j \notin DOMAIN disk \cup DOMAIN uploads

\* When nothing fails, a request that passed the checks is answered, and with
\* 201 if its order is still there: however the copy is cut into chunks.
AcceptedUploadIsStored ==
    \A j \in Job :
        (j \in DOMAIN jobs /\ jobs[j].pc # "done") ~>
            (/\ At(j, "done")
             /\ jobs[j].reply = "Created" \/ jobs[j].order \notin DOMAIN orders)
=============================================================================
