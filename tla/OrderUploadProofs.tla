-------------------------- MODULE OrderUploadProofs -------------------------
(***************************************************************************)
(* Theorems about OrderUpload, for every set of users, orders, requests    *)
(* and files, with failures or without, and any number of crashes.         *)
(***************************************************************************)
EXTENDS OrderUploadShelf, TLAPS

-----------------------------------------------------------------------------
(* The inductive invariant. *)

\* A request past the checks has passed them, for an order that was placed.
Checked(j) == /\ jobs[j].file.size \in 1 .. MaxSize
              /\ jobs[j].file.mime \in Mime
              /\ jobs[j].order \in drawn

\* What a request in flight has done so far: the file as far as it was
\* copied, and no row.
JobProgress ==
    \A j \in DOMAIN jobs :
        jobs[j].pc # "done" =>
            /\ Checked(j)
            /\ j \notin DOMAIN uploads
            /\ jobs[j].reply = "none"
            /\ jobs[j].pc = "open" => j \notin DOMAIN disk /\ jobs[j].pos = 0
            /\ jobs[j].pc = "copy" => /\ j \in DOMAIN disk
                                      /\ disk[j] = 1 .. jobs[j].pos
                                      /\ jobs[j].pos <= jobs[j].file.size
            /\ jobs[j].pc = "insert" => /\ j \in DOMAIN disk
                                        /\ disk[j] = 1 .. jobs[j].file.size

\* Whose order a request, and a row, is for.
JobOwnsOrder ==
    /\ \A j \in DOMAIN jobs :
          jobs[j].pc # "done" /\ jobs[j].order \in DOMAIN orders =>
              orders[jobs[j].order].user = jobs[j].user
    /\ \A j \in DOMAIN uploads :
          /\ uploads[j].order = jobs[j].order
          /\ Owns(jobs[j].user, uploads[j].order)

\* Every file was sent for an order that was placed.
FileOfPlacedOrder == \A j \in DOMAIN disk : jobs[j].order \in drawn

UploadInv == /\ TypeOK
             /\ JobProgress
             /\ JobOwnsOrder
             /\ FileOfPlacedOrder
             /\ RowHasCompleteFile
             /\ TruthfulUploadReplies

-----------------------------------------------------------------------------
(* What the steps of a request do to its record. *)

\* A request that goes on keeps everything but its program counter.
LEMMA GotoFacts ==
    ASSUME NEW j \in DOMAIN jobs, NEW pc \in {"copy", "remove", "insert"},
           Goto(j, pc), UploadsTypeOK
    PROVE  /\ DOMAIN jobs' = DOMAIN jobs
           /\ \A x \in DOMAIN jobs :
                 /\ x # j => jobs'[x] = jobs[x]
                 /\ jobs'[x].user = jobs[x].user
                 /\ jobs'[x].order = jobs[x].order
                 /\ jobs'[x].file = jobs[x].file
                 /\ jobs'[x].pos = jobs[x].pos
                 /\ jobs'[x].reply = jobs[x].reply
                 /\ jobs'[x] \in JobRecord
           /\ jobs'[j].pc = pc
  BY DEF Goto, UploadsTypeOK, JobRecord

\* One that ends keeps everything but its program counter and reply.
LEMMA EndJobFacts ==
    ASSUME NEW j \in DOMAIN jobs, NEW r \in UploadReply, EndJob(j, r),
           UploadsTypeOK
    PROVE  /\ DOMAIN jobs' = DOMAIN jobs
           /\ \A x \in DOMAIN jobs :
                 /\ x # j => jobs'[x] = jobs[x]
                 /\ jobs'[x].user = jobs[x].user
                 /\ jobs'[x].order = jobs[x].order
                 /\ jobs'[x].file = jobs[x].file
                 /\ jobs'[x].pos = jobs[x].pos
                 /\ jobs'[x] \in JobRecord
           /\ jobs'[j].pc = "done" /\ jobs'[j].reply = r
  BY DEF EndJob, UploadsTypeOK, JobRecord

-----------------------------------------------------------------------------
(* One lemma per action. *)

LEMMA InitUploadInv == Init => UploadInv
  BY DEF Init, OrdersInit, UploadsInit, EmptyTable, UploadInv, TypeOK,
         OrdersTypeOK, UploadsTypeOK, JobProgress, JobOwnsOrder,
         FileOfPlacedOrder, RowHasCompleteFile, TruthfulUploadReplies

\* A new order has a fresh id: nothing in flight or stored is about it.
LEMMA PostOrderKeeps ==
    ASSUME UploadInv, NEW u \in User, NEW o \in OrderId, NEW b \in Body,
           PostOrder(u, o, b)
    PROVE  UploadInv'
  <1> USE DEF UploadInv, TypeOK
  <1>1. /\ o \notin drawn /\ drawn' = drawn \cup {o}
        /\ DOMAIN orders' = DOMAIN orders \cup {o}
        /\ \A x \in DOMAIN orders : orders'[x] = orders[x]
        /\ OrdersTypeOK'
    BY DEF PostOrder, CreateOrder, InsertRow, OrdersTypeOK, OrderRow,
           Storable, OrderStatus
  <1>2. UNCHANGED <<uploads, disk, jobs, crashes>>
    BY DEF PostOrder, uploadVars
  <1>3. UploadsTypeOK' /\ crashes' \in Nat
    BY <1>2 DEF UploadsTypeOK
  <1>4. JobProgress' /\ FileOfPlacedOrder'
    BY <1>1, <1>2 DEF JobProgress, FileOfPlacedOrder, Checked
  <1>5. JobOwnsOrder'
    BY <1>1, <1>2 DEF JobOwnsOrder, JobProgress, Checked, Owns
  <1>6. RowHasCompleteFile'
    BY <1>2 DEF RowHasCompleteFile
  <1>7. TruthfulUploadReplies'
    BY <1>1, <1>2 DEF TruthfulUploadReplies, FileOfPlacedOrder
  <1> QED
    BY <1>1, <1>3, <1>4, <1>5, <1>6, <1>7

\* A deleted order takes its rows along and leaves the files.
LEMMA RemoveOrderKeeps ==
    ASSUME UploadInv, NEW u \in User, NEW o \in OrderId, RemoveOrder(u, o)
    PROVE  UploadInv'
  <1> USE DEF UploadInv, TypeOK
  <1>1. /\ drawn' = drawn
        /\ DOMAIN orders' = DOMAIN orders \ {o}
        /\ \A x \in DOMAIN orders' : orders'[x] = orders[x]
        /\ OrdersTypeOK'
    BY DEF RemoveOrder, DeleteOrder, DeleteRows, Restrict, OrdersTypeOK
  <1>2. /\ DOMAIN uploads' = {j \in DOMAIN uploads : uploads[j].order # o}
        /\ \A j \in DOMAIN uploads' : uploads'[j] = uploads[j]
    BY DEF RemoveOrder, CascadeUploads, DeleteRows, Restrict
  <1>3. UNCHANGED <<disk, jobs, crashes>>
    BY DEF RemoveOrder
  <1>4. UploadsTypeOK' /\ crashes' \in Nat
    BY <1>2, <1>3 DEF UploadsTypeOK
  <1>5. JobProgress' /\ FileOfPlacedOrder'
    BY <1>1, <1>2, <1>3 DEF JobProgress, FileOfPlacedOrder, Checked
  <1>6. JobOwnsOrder'
    BY <1>1, <1>2, <1>3 DEF JobOwnsOrder, Owns
  <1>7. RowHasCompleteFile'
    BY <1>2, <1>3 DEF RowHasCompleteFile
  <1>8. TruthfulUploadReplies'
    BY <1>1, <1>2, <1>3 DEF TruthfulUploadReplies, JobOwnsOrder
  <1> QED
    BY <1>1, <1>4, <1>5, <1>6, <1>7, <1>8

\* A request starts with neither file nor row, checked or refused.
LEMMA PostUploadKeeps ==
    ASSUME UploadInv, NEW j \in Job, NEW u \in User, NEW o \in OrderId,
           NEW f \in File, PostUpload(j, u, o, f)
    PROVE  UploadInv'
  <1> USE DEF UploadInv, TypeOK
  <1> DEFINE v == VerdictOn(u, o, f)
  <1>1. /\ j \notin DOMAIN jobs
        /\ DOMAIN jobs' = DOMAIN jobs \cup {j}
        /\ \A x \in DOMAIN jobs : jobs'[x] = jobs[x]
        /\ jobs'[j] = [pc |-> IF v = "none" THEN "open" ELSE "done", user |-> u,
                       order |-> o, file |-> f, pos |-> 0, reply |-> v]
    BY DEF PostUpload, BeginUpload, InsertRow, StartOf
  <1>2. UNCHANGED <<orders, drawn, uploads, disk, crashes>>
    BY DEF PostUpload, BeginUpload, orderVars
  <1>3. v \in UploadReply \ {"Created", "InternalError", "NoReply"}
    BY DEF VerdictOn, UploadReply
  <1>4. v = "none" => Owns(u, o) /\ f.size \in 1 .. MaxSize /\ f.mime \in Mime
    BY UploadAssumption DEF VerdictOn
  <1>5. jobs'[j] \in JobRecord
    BY <1>1, <1>3 DEF JobRecord
  <1>6. OrdersTypeOK' /\ UploadsTypeOK' /\ crashes' \in Nat
    BY <1>1, <1>2, <1>5 DEF UploadsTypeOK, OrdersTypeOK
  <1>7. j \notin DOMAIN disk /\ j \notin DOMAIN uploads
    BY <1>1 DEF UploadsTypeOK
  <1>8. JobProgress'
    BY <1>1, <1>2, <1>4, <1>7 DEF JobProgress, Checked, Owns, OrdersTypeOK
  <1>9. JobOwnsOrder'
    BY <1>1, <1>2, <1>4, <1>7 DEF JobOwnsOrder, Owns, UploadsTypeOK
  <1>10. FileOfPlacedOrder' /\ RowHasCompleteFile'
    BY <1>1, <1>2, <1>7 DEF FileOfPlacedOrder, RowHasCompleteFile, UploadsTypeOK
  <1>11. TruthfulUploadReplies'
    BY <1>1, <1>2, <1>3, <1>7
    DEF TruthfulUploadReplies, UploadsTypeOK
  <1> QED
    BY <1>6, <1>8, <1>9, <1>10, <1>11

\* A step that leaves the table alone, and the files and records of all
\* requests but one in flight, need only keep that request's promises.
LEMMA LocalStepKeeps ==
    ASSUME UploadInv, NEW j \in DOMAIN jobs, jobs[j].pc # "done",
           UNCHANGED <<orders, drawn, uploads, crashes>>,
           DOMAIN jobs' = DOMAIN jobs,
           \A x \in DOMAIN jobs : x # j => jobs'[x] = jobs[x],
           jobs'[j] \in JobRecord,
           jobs'[j].user = jobs[j].user, jobs'[j].order = jobs[j].order,
           jobs'[j].file = jobs[j].file,
           DOMAIN disk' \cup {j} = DOMAIN disk \cup {j},
           \A x \in DOMAIN disk : x # j => disk'[x] = disk[x],
           IF jobs'[j].pc = "done" THEN jobs'[j].reply = "InternalError"
           ELSE /\ jobs'[j].reply = "none"
                /\ jobs'[j].pc # "open"
                /\ jobs'[j].pc = "copy" =>
                      /\ j \in DOMAIN disk' /\ disk'[j] = 1 .. jobs'[j].pos
                      /\ jobs'[j].pos <= jobs[j].file.size
                /\ jobs'[j].pc = "insert" =>
                      j \in DOMAIN disk' /\ disk'[j] = 1 .. jobs[j].file.size
    PROVE  UploadInv'
  <1> USE DEF UploadInv, TypeOK
  <1>1. j \notin DOMAIN uploads /\ Checked(j)
    BY DEF JobProgress
  <1>2. OrdersTypeOK' /\ UploadsTypeOK' /\ crashes' \in Nat
    BY DEF OrdersTypeOK, UploadsTypeOK
  <1>3. JobProgress'
    <2>1. ASSUME NEW x \in DOMAIN jobs, x # j
          PROVE  /\ x \in DOMAIN disk' <=> x \in DOMAIN disk
                 /\ x \in DOMAIN disk => disk'[x] = disk[x]
                 /\ jobs'[x] = jobs[x]
      BY <2>1
    <2> QED
      BY <1>1, <2>1 DEF JobProgress, Checked
  <1>4. JobOwnsOrder' /\ RowHasCompleteFile'
    BY <1>1 DEF JobOwnsOrder, RowHasCompleteFile, Owns, UploadsTypeOK
  <1>5. FileOfPlacedOrder'
    BY <1>1 DEF FileOfPlacedOrder, Checked, UploadsTypeOK
  <1>6. TruthfulUploadReplies'
    BY <1>1 DEF TruthfulUploadReplies
  <1> QED
    BY <1>2, <1>3, <1>4, <1>5, <1>6

\* The steps of LocalStorage.Save.
LEMMA StorageKeeps ==
    ASSUME UploadInv, NEW j \in Job, UNCHANGED crashes,
           CreateFile(j) \/ CopyChunk(j) \/ CloseFile(j) \/ RemoveFile(j)
    PROVE  UploadInv'
  <1> USE DEF At
  <1>1. UploadsTypeOK /\ JobProgress
    BY DEF UploadInv, TypeOK
  <1>2. CASE CreateFile(j)
    <2>1. /\ DOMAIN disk' = DOMAIN disk \cup {j}
          /\ \A x \in DOMAIN disk : x # j => disk'[x] = disk[x]
          /\ disk'[j] = {}
      BY <1>2 DEF CreateFile, InsertRow
    <2>2. /\ j \in DOMAIN jobs /\ jobs[j].pc = "open" /\ Goto(j, "copy")
          /\ UNCHANGED <<orders, drawn, uploads>>
      BY <1>2 DEF CreateFile, orderVars
    <2>3. jobs[j].pos = 0 /\ jobs[j].reply = "none" /\ 0 <= jobs[j].file.size
      BY <1>1, <2>2, UploadAssumption DEF JobProgress, Checked
    <2>4. disk'[j] = 1 .. 0
      BY <2>1
    <2> QED
      BY <1>1, <2>1, <2>2, <2>3, <2>4, GotoFacts, LocalStepKeeps
  <1>3. CASE CopyChunk(j)
    <2>1. PICK end \in (jobs[j].pos + 1) .. jobs[j].file.size :
             /\ disk' = [disk EXCEPT ![j] = @ \cup (jobs[j].pos + 1) .. end]
             /\ jobs' = [jobs EXCEPT ![j].pos = end]
      BY <1>3 DEF CopyChunk
    <2>2. /\ j \in DOMAIN jobs /\ jobs[j].pc = "copy"
          /\ UNCHANGED <<orders, drawn, uploads>>
      BY <1>3 DEF CopyChunk, orderVars
    <2>3. /\ j \in DOMAIN disk /\ disk[j] = 1 .. jobs[j].pos
          /\ jobs[j].file.size \in Nat /\ jobs[j].reply = "none"
          /\ jobs[j].pos \in Nat /\ jobs[j] \in JobRecord
      BY <1>1, <2>2, UploadAssumption
      DEF JobProgress, Checked, UploadsTypeOK, JobRecord
    <2>4. end \in Nat /\ end <= jobs[j].file.size /\ jobs[j].pos < end
      BY <2>1, <2>3
    <2>5. (1 .. jobs[j].pos) \cup ((jobs[j].pos + 1) .. end) = 1 .. end
      BY <2>3, <2>4
    <2>6. /\ DOMAIN disk' = DOMAIN disk
          /\ \A x \in DOMAIN disk : x # j => disk'[x] = disk[x]
          /\ disk'[j] = 1 .. end
      BY <2>1, <2>3, <2>5
    <2>7. /\ DOMAIN jobs' = DOMAIN jobs
          /\ \A x \in DOMAIN jobs : x # j => jobs'[x] = jobs[x]
          /\ jobs'[j] \in JobRecord /\ jobs'[j].pos = end
          /\ jobs'[j].pc = "copy" /\ jobs'[j].reply = "none"
          /\ jobs'[j].user = jobs[j].user /\ jobs'[j].order = jobs[j].order
          /\ jobs'[j].file = jobs[j].file
      BY <2>1, <2>2, <2>3, <2>4 DEF JobRecord
    <2> QED
      BY <2>2, <2>3, <2>4, <2>6, <2>7, LocalStepKeeps
  <1>4. CASE CloseFile(j)
    <2>1. /\ j \in DOMAIN jobs /\ jobs[j].pc = "copy" /\ Goto(j, "insert")
          /\ jobs[j].pos = jobs[j].file.size
          /\ UNCHANGED <<orders, drawn, uploads, disk>>
      BY <1>4 DEF CloseFile, orderVars
    <2>2. /\ j \in DOMAIN disk /\ disk[j] = 1 .. jobs[j].file.size
          /\ jobs[j].reply = "none"
      BY <1>1, <2>1 DEF JobProgress
    <2> QED
      BY <1>1, <2>1, <2>2, GotoFacts, LocalStepKeeps
  <1>5. CASE RemoveFile(j)
    <2>1. /\ j \in DOMAIN jobs /\ jobs[j].pc = "remove"
          /\ EndJob(j, "InternalError")
          /\ UNCHANGED <<orders, drawn, uploads>>
      BY <1>5 DEF RemoveFile, orderVars
    <2>2. /\ DOMAIN disk' = DOMAIN disk \ {j}
          /\ \A x \in DOMAIN disk : x # j => disk'[x] = disk[x]
      BY <1>5 DEF RemoveFile, DeleteRows, Restrict
    <2>3. "InternalError" \in UploadReply
      BY DEF UploadReply
    <2> QED
      BY <1>1, <2>1, <2>2, <2>3, EndJobFacts, LocalStepKeeps
  <1> QED
    BY <1>2, <1>3, <1>4, <1>5

LEMMA FailKeeps ==
    ASSUME UploadInv, NEW j \in Job, Fail(j)
    PROVE  UploadInv'
  <1>1. UploadsTypeOK /\ JobProgress
    BY DEF UploadInv, TypeOK
  <1>2. /\ j \in DOMAIN jobs /\ jobs[j].pc # "done" /\ jobs[j].reply = "none"
        /\ UNCHANGED <<orders, drawn, uploads, disk, crashes>>
    BY <1>1 DEF Fail, UploadFails, orderVars, JobProgress
  <1>3. CASE Goto(j, "remove")
    BY <1>1, <1>2, <1>3, GotoFacts, LocalStepKeeps
  <1>4. CASE EndJob(j, "InternalError")
    <2>1. "InternalError" \in UploadReply
      BY DEF UploadReply
    <2> QED
      BY <1>1, <1>2, <1>4, <2>1, EndJobFacts, LocalStepKeeps
  <1> QED
    BY <1>3, <1>4 DEF Fail, UploadFails

\* The INSERT: of a complete file, for the order that was checked, or not at
\* all.
LEMMA InsertKeeps ==
    ASSUME UploadInv, NEW j \in Job, NEW answered \in InsertAnswers,
           InsertUpload(j, answered), UNCHANGED crashes
    PROVE  UploadInv'
  <1>1. /\ UploadsTypeOK /\ JobProgress /\ JobOwnsOrder
        /\ "InternalError" \in UploadReply /\ "Created" \in UploadReply
    BY DEF UploadInv, TypeOK, UploadReply
  <1>2. /\ j \in DOMAIN jobs /\ jobs[j].pc = "insert"
        /\ UNCHANGED <<orders, drawn, disk, crashes>>
    BY DEF InsertUpload, At, orderVars
  <1>3. CASE EndJob(j, "InternalError") /\ UNCHANGED uploads
    BY <1>1, <1>2, <1>3, EndJobFacts, LocalStepKeeps
  <1>4. ASSUME jobs[j].order \in DOMAIN orders,
               uploads' = InsertRow(uploads, j, NewUpload(j)),
               NEW r \in {"Created", "InternalError"}, EndJob(j, r)
        PROVE  UploadInv'
    <2> USE DEF UploadInv, TypeOK
    <2>1. /\ DOMAIN jobs' = DOMAIN jobs
          /\ \A x \in DOMAIN jobs :
                /\ x # j => jobs'[x] = jobs[x]
                /\ jobs'[x].user = jobs[x].user
                /\ jobs'[x].order = jobs[x].order
                /\ jobs'[x].file = jobs[x].file
                /\ jobs'[x] \in JobRecord
          /\ jobs'[j].pc = "done" /\ jobs'[j].reply = r
      BY <1>1, <1>2, <1>4, EndJobFacts
    <2>2. /\ DOMAIN uploads' = DOMAIN uploads \cup {j}
          /\ \A x \in DOMAIN uploads : x # j => uploads'[x] = uploads[x]
          /\ uploads'[j].order = jobs[j].order
          /\ uploads'[j].size = jobs[j].file.size
          /\ uploads'[j].mime = jobs[j].file.mime
      BY <1>4 DEF InsertRow, NewUpload
    <2>3. /\ Checked(j) /\ j \in DOMAIN disk
          /\ disk[j] = 1 .. jobs[j].file.size
          /\ Owns(jobs[j].user, jobs[j].order)
      BY <1>1, <1>2, <1>4 DEF JobProgress, JobOwnsOrder, Owns
    <2>4. uploads'[j] \in UploadRow
      BY <1>1, <1>2, <1>4, <2>3
      DEF InsertRow, NewUpload, UploadRow, Checked, UploadsTypeOK, JobRecord
    <2>5. OrdersTypeOK' /\ UploadsTypeOK' /\ crashes' \in Nat
      BY <1>2, <2>1, <2>2, <2>4 DEF OrdersTypeOK, UploadsTypeOK
    <2>6. JobProgress'
      BY <1>1, <1>2, <2>1, <2>2 DEF JobProgress, Checked
    <2>7. JobOwnsOrder'
      BY <1>1, <1>2, <2>1, <2>2, <2>3 DEF JobOwnsOrder, Owns, UploadsTypeOK
    <2>8. FileOfPlacedOrder'
      BY <1>1, <1>2, <2>1 DEF FileOfPlacedOrder, UploadsTypeOK
    <2>9. RowHasCompleteFile'
      BY <1>1, <1>2, <2>1, <2>2, <2>3
      DEF RowHasCompleteFile, Checked, UploadsTypeOK
    <2>10. TruthfulUploadReplies'
      BY <1>1, <1>2, <2>1, <2>2, <2>3 DEF TruthfulUploadReplies, UploadsTypeOK
    <2> QED
      BY <2>5, <2>6, <2>7, <2>8, <2>9, <2>10
  <1> QED
    BY <1>3, <1>4 DEF InsertUpload

LEMMA CrashKeeps ==
    ASSUME UploadInv, Crash
    PROVE  UploadInv'
  <1> USE DEF UploadInv, TypeOK
  <1>1. /\ UNCHANGED <<orders, drawn, uploads, disk>>
        /\ crashes' = crashes + 1
        /\ DOMAIN jobs' = DOMAIN jobs
    BY DEF Crash, UploadsRestart, orderVars
  <1>2. ASSUME NEW x \in DOMAIN jobs
        PROVE  /\ jobs'[x].pc = "done" /\ jobs'[x] \in JobRecord
               /\ jobs'[x].reply = IF jobs[x].pc = "done" THEN jobs[x].reply
                                                          ELSE "NoReply"
               /\ jobs'[x].user = jobs[x].user
               /\ jobs'[x].order = jobs[x].order
               /\ jobs'[x].file = jobs[x].file
    BY DEF Crash, UploadsRestart, UploadsTypeOK, JobRecord, UploadReply
  <1>3. OrdersTypeOK' /\ UploadsTypeOK' /\ crashes' \in Nat
    BY <1>1, <1>2 DEF OrdersTypeOK, UploadsTypeOK
  <1>4. JobProgress' /\ JobOwnsOrder'
    BY <1>1, <1>2 DEF JobProgress, JobOwnsOrder, Owns, UploadsTypeOK
  <1>5. FileOfPlacedOrder' /\ RowHasCompleteFile'
    BY <1>1, <1>2 DEF FileOfPlacedOrder, RowHasCompleteFile, UploadsTypeOK
  <1>6. TruthfulUploadReplies'
    BY <1>1, <1>2 DEF TruthfulUploadReplies, UploadsTypeOK
  <1> QED
    BY <1>3, <1>4, <1>5, <1>6

-----------------------------------------------------------------------------
(* The theorems. *)

LEMMA UploadInvStep ==
    ASSUME UploadInv, [Next]_vars
    PROVE  UploadInv'
  <1>1. ASSUME NEW j \in Job, UploadStep(j) PROVE UploadInv'
    BY <1>1, StorageKeeps, InsertKeeps DEF UploadStep
  <1>2. CASE UNCHANGED vars
    BY <1>2 DEF vars, UploadInv, TypeOK, OrdersTypeOK, UploadsTypeOK,
                JobProgress, Checked, JobOwnsOrder, Owns, FileOfPlacedOrder,
                RowHasCompleteFile, TruthfulUploadReplies
  <1> QED
    BY <1>1, <1>2, PostOrderKeeps, RemoveOrderKeeps, PostUploadKeeps,
       FailKeeps, CrashKeeps DEF Next, Wait

LEMMA UploadInvariant == Spec => []UploadInv
  BY InitUploadInv, UploadInvStep, PTL DEF Spec

\* Every variable keeps its type: no row records a size or a MIME type that
\* the checks do not let through.
THEOREM UploadsTyped == Spec => []TypeOK
  <1>1. UploadInv => TypeOK
    BY DEF UploadInv
  <1> QED
    BY <1>1, UploadInvariant, PTL

\* Whatever fails and wherever the process stops, a row describes a complete
\* file.
THEOREM RowsHaveFiles == Spec => []RowHasCompleteFile
  <1>1. UploadInv => RowHasCompleteFile
    BY DEF UploadInv
  <1> QED
    BY <1>1, UploadInvariant, PTL

\* What POST /uploads answers is so.
THEOREM UploadsToldTheTruth == Spec => []TruthfulUploadReplies
  <1>1. UploadInv => TruthfulUploadReplies
    BY DEF UploadInv
  <1> QED
    BY <1>1, UploadInvariant, PTL

\* The JOIN of GET /uploads/:id shows an upload to its sender only.
THEOREM UploadsShownToSender == Spec => []ShownToSender
  <1>1. UploadInv => ShownToSender
    BY DEF UploadInv, JobOwnsOrder, ShownToSender, ShownTo, Owns
  <1> QED
    BY <1>1, UploadInvariant, PTL

-----------------------------------------------------------------------------
(* The refinement. *)

Offers == {OfferOf(j) : j \in LetIn}

Entries == {EntryOf(j) : j \in DOMAIN uploads}

Acked == {j \in DOMAIN jobs : jobs[j].reply = "Created"}

\* Every entry is the offer of its upload, unchanged.
LEMMA EntriesWereOffered ==
    ASSUME UploadInv, NEW j \in DOMAIN uploads
    PROVE  j \in LetIn /\ EntryOf(j) = OfferOf(j)
  <1>1. /\ j \in DOMAIN disk /\ disk[j] = 1 .. uploads[j].size
        /\ uploads[j].size = jobs[j].file.size /\ uploads[j].mime = jobs[j].file.mime
    BY DEF UploadInv, RowHasCompleteFile
  <1>2. uploads[j].order = jobs[j].order /\ j \in DOMAIN jobs
    BY DEF UploadInv, JobOwnsOrder, TypeOK, UploadsTypeOK
  <1>3. jobs[j].reply \in {"none", "Created", "InternalError", "NoReply"}
    BY <1>2 DEF UploadInv, TruthfulUploadReplies, TypeOK, UploadsTypeOK, JobRecord,
                UploadReply
  <1> QED
    BY <1>1, <1>2, <1>3 DEF EntryOf, OfferOf, Whole, LetIn

LEMMA EntriesWereOfferedNext ==
    UploadInv' => (\A j \in DOMAIN uploads : j \in LetIn /\ EntryOf(j) = OfferOf(j))'
  <1>1. UploadInv => \A j \in DOMAIN uploads : j \in LetIn /\ EntryOf(j) = OfferOf(j)
    BY EntriesWereOffered
  <1> QED
    BY <1>1, PTL

\* Steps of requests in flight, and their ends: whatever they do to records
\* and files, orders, rows, offers and acknowledgements stay.
LEMMA ShelfStays ==
    ASSUME UploadInv, UploadInv', UNCHANGED <<orders, drawn, uploads>>,
           DOMAIN jobs' = DOMAIN jobs,
           \A j \in DOMAIN jobs :
              /\ jobs'[j].order = jobs[j].order /\ jobs'[j].file = jobs[j].file
              /\ \/ jobs'[j].reply = jobs[j].reply
                 \/ {jobs[j].reply, jobs'[j].reply} \subseteq
                       {"none", "InternalError", "NoReply"}
    PROVE  UNCHANGED Shelf!shelfVars
  <1>1. LetIn' = LetIn /\ Acked' = Acked
    BY DEF LetIn, Acked
  <1>2. \A j \in LetIn : OfferOf(j)' = OfferOf(j)
    BY DEF OfferOf, LetIn
  <1>3. \A j \in DOMAIN uploads : /\ j \in LetIn /\ EntryOf(j) = OfferOf(j)
                                  /\ EntryOf(j)' = OfferOf(j)'
    BY EntriesWereOffered, EntriesWereOfferedNext
  <1>4. Offers' = Offers /\ Entries' = Entries
    BY <1>1, <1>2, <1>3 DEF Offers, Entries
  <1> QED
    BY <1>1, <1>4 DEF Shelf!shelfVars, Offers, Entries, Acked

LEMMA PlacingOpens ==
    ASSUME UploadInv, NEW u \in User, NEW o \in OrderId, NEW b \in Body,
           PostOrder(u, o, b)
    PROVE  Shelf!Open(o)
  <1>1. /\ o \notin drawn /\ drawn' = drawn \cup {o} /\ DOMAIN orders \subseteq drawn
        /\ DOMAIN orders' = DOMAIN orders \cup {o}
        /\ UNCHANGED <<uploads, disk, jobs>>
    BY DEF PostOrder, CreateOrder, InsertRow, uploadVars, UploadInv, TypeOK, OrdersTypeOK
  <1>2. Offers' = Offers /\ Entries' = Entries /\ Acked' = Acked
    BY <1>1 DEF Offers, Entries, Acked, LetIn, OfferOf, EntryOf
  <1> QED
    BY <1>1, <1>2 DEF Shelf!Open, Offers, Entries, Acked

LEMMA RemovingCloses ==
    ASSUME UploadInv, NEW u \in User, NEW o \in OrderId, RemoveOrder(u, o)
    PROVE  Shelf!Close(o)
  <1>1. /\ o \in DOMAIN orders /\ DOMAIN orders' = DOMAIN orders \ {o}
        /\ UNCHANGED <<drawn, disk, jobs>> /\ DOMAIN orders \subseteq drawn
        /\ DOMAIN uploads' = {j \in DOMAIN uploads : uploads[j].order # o}
        /\ \A j \in DOMAIN uploads' : uploads'[j] = uploads[j]
    BY DEF RemoveOrder, DeleteOrder, CascadeUploads, DeleteRows, Restrict, Owns, UploadInv,
           TypeOK, OrdersTypeOK
  <1>2. Offers' = Offers /\ Acked' = Acked
    BY <1>1 DEF Offers, Acked, LetIn, OfferOf
  <1>3. \A j \in DOMAIN uploads : EntryOf(j).order = uploads[j].order
    BY DEF EntryOf
  <1>4. \A j \in DOMAIN uploads' : EntryOf(j)' = EntryOf(j)
    BY <1>1 DEF EntryOf
  <1>5. Entries' = {e \in Entries : e.order # o}
    BY <1>1, <1>3, <1>4 DEF Entries
  <1> QED
    BY <1>1, <1>2, <1>5 DEF Shelf!Close, Offers, Entries, Acked

\* A request that passes the checks makes an offer; one that is turned away
\* leaves no trace.
LEMMA PostingOffers ==
    ASSUME UploadInv, NEW j \in Job, NEW u \in User, NEW o \in OrderId, NEW f \in File,
           PostUpload(j, u, o, f)
    PROVE  UNCHANGED Shelf!shelfVars \/ \E e \in Shelf!Entry : Shelf!Offer(e)
  <1> DEFINE v == VerdictOn(u, o, f)
             e == [upload |-> j, order |-> o, document |-> Whole(f)]
  <1>1. /\ j \notin DOMAIN jobs /\ DOMAIN jobs' = DOMAIN jobs \cup {j}
        /\ \A x \in DOMAIN jobs : jobs'[x] = jobs[x]
        /\ jobs'[j].order = o /\ jobs'[j].file = f /\ jobs'[j].reply = v
        /\ UNCHANGED <<orders, drawn, uploads, disk>>
    BY DEF PostUpload, BeginUpload, InsertRow, orderVars
  <1>2. v \in {"none", "OrderNotFound", "EmptyFile", "FileTooLarge",
               "UnsupportedContentType"}
    BY DEF VerdictOn
  <1>3. Entries' = Entries /\ Acked' = Acked
    BY <1>1, <1>2 DEF Entries, EntryOf, Acked
  <1>4. \A x \in DOMAIN jobs : /\ x \in LetIn' <=> x \in LetIn
                               /\ OfferOf(x)' = OfferOf(x)
    BY <1>1 DEF LetIn, OfferOf
  <1>5. CASE v # "none"
    <2>1. LetIn' = LetIn
      BY <1>1, <1>2, <1>4, <1>5 DEF LetIn
    <2>2. Offers' = Offers
      BY <1>4, <2>1 DEF Offers, LetIn
    <2> QED
      BY <1>1, <1>3, <2>2 DEF Shelf!shelfVars, Offers, Entries, Acked
  <1>6. CASE v = "none"
    <2>1. Owns(u, o) /\ f.size \in 1 .. MaxSize /\ f.mime \in Mime
      BY <1>6, UploadAssumption DEF VerdictOn
    <2>2. e \in Shelf!Entry
      BY <2>1 DEF Shelf!Entry, Accepted
    <2>3. LetIn' = LetIn \cup {j} /\ OfferOf(j)' = e
      BY <1>1, <1>4, <1>6 DEF LetIn, OfferOf
    <2>4. Offers' = Offers \cup {e}
      BY <1>4, <2>3 DEF Offers, LetIn
    <2>5. \A g \in Offers : g.upload # j
      BY <1>1 DEF Offers, LetIn, OfferOf
    <2>6. Shelf!Offer(e)
      BY <1>1, <1>3, <2>1, <2>4, <2>5 DEF Shelf!Offer, Offers, Entries, Acked, Owns
    <2> QED
      BY <2>2, <2>6
  <1> QED
    BY <1>5, <1>6

\* The INSERT puts the whole document on the shelf at once, and 201, if it is
\* said, is said then.
LEMMA InsertingStores ==
    ASSUME UploadInv, UploadInv', NEW j \in Job, NEW answered \in InsertAnswers,
           InsertUpload(j, answered)
    PROVE  UNCHANGED Shelf!shelfVars \/ \E e \in Shelf!Entry : Shelf!Store(e)
  <1>1. /\ j \in DOMAIN jobs /\ jobs[j].pc = "insert" /\ UNCHANGED <<orders, drawn, disk>>
        /\ UploadsTypeOK
    BY DEF InsertUpload, At, orderVars, UploadInv, TypeOK
  <1>2. j \notin DOMAIN uploads /\ Checked(j) /\ jobs[j].reply = "none"
    BY <1>1 DEF UploadInv, JobProgress
  <1>3. "InternalError" \in UploadReply /\ "Created" \in UploadReply
    BY DEF UploadReply
  <1>4. CASE EndJob(j, "InternalError") /\ UNCHANGED uploads
    BY <1>1, <1>2, <1>3, <1>4, EndJobFacts, ShelfStays
  <1>5. ASSUME jobs[j].order \in DOMAIN orders,
               uploads' = InsertRow(uploads, j, NewUpload(j)),
               NEW r \in {"Created", "InternalError"}, EndJob(j, r)
        PROVE  \E e \in Shelf!Entry : Shelf!Store(e)
    <2>1. /\ DOMAIN jobs' = DOMAIN jobs
          /\ \A x \in DOMAIN jobs : /\ x # j => jobs'[x] = jobs[x]
                                    /\ jobs'[x].order = jobs[x].order
                                    /\ jobs'[x].file = jobs[x].file
          /\ jobs'[j].reply = r
      BY <1>1, <1>3, <1>5, EndJobFacts
    <2>2. /\ DOMAIN uploads' = DOMAIN uploads \cup {j}
          /\ \A x \in DOMAIN uploads : x # j => uploads'[x] = uploads[x]
      BY <1>5 DEF InsertRow
    <2>3. LetIn' = LetIn /\ j \in LetIn
      BY <1>1, <1>2, <1>5, <2>1 DEF LetIn
    <2>4. \A x \in LetIn : OfferOf(x)' = OfferOf(x)
      BY <2>1 DEF OfferOf, LetIn
    <2>5. Offers' = Offers
      BY <2>3, <2>4 DEF Offers
    <2>6. \A x \in DOMAIN uploads : EntryOf(x)' = EntryOf(x)
      BY <1>1, <1>2, <2>2 DEF EntryOf
    <2>7. EntryOf(j)' = OfferOf(j)
      <3>1. EntryOf(j)' = OfferOf(j)'
        BY <2>2, EntriesWereOfferedNext
      <3> QED
        BY <2>3, <2>4, <3>1
    <2> PICK e : e = OfferOf(j)
      OBVIOUS
    <2>8. Entries' = Entries \cup {e}
      BY <2>2, <2>6, <2>7 DEF Entries
    <2>9. e \in Offers /\ e \notin Entries
      BY <1>2, <2>3 DEF Offers, Entries, EntryOf, OfferOf
    <2>10. Acked' \in {Acked, Acked \cup {j}}
      <3>1. CASE r = "Created"
        BY <1>1, <2>1, <3>1 DEF Acked
      <3>2. CASE r = "InternalError"
        BY <1>1, <1>2, <2>1, <3>2 DEF Acked
      <3> QED
        BY <1>5, <3>1, <3>2
    <2>11. e \in Shelf!Entry
      BY <1>1, <1>2 DEF OfferOf, Shelf!Entry, Accepted, Checked, UploadsTypeOK, JobRecord
    <2>12. e.upload = j /\ e.order = jobs[j].order
      BY DEF OfferOf
    <2>13. Shelf!Store(e)
      BY <1>1, <1>5, <2>5, <2>8, <2>9, <2>10, <2>12 DEF Shelf!Store, Offers, Entries, Acked
    <2> QED
      BY <2>11, <2>13
  <1> QED
    BY <1>4, <1>5 DEF InsertUpload

LEMMA ShelfStep ==
    ASSUME UploadInv, UploadInv', [Next]_vars
    PROVE  Shelf!ShelfNext \/ UNCHANGED Shelf!shelfVars
  <1> USE DEF Shelf!ShelfNext
  <1>1. UploadsTypeOK /\ JobProgress
    BY DEF UploadInv, TypeOK
  <1>2. ASSUME NEW u \in User, NEW o \in OrderId,
               \/ \E b \in Body : PostOrder(u, o, b)
               \/ RemoveOrder(u, o)
               \/ \E j \in Job, f \in File : PostUpload(j, u, o, f)
        PROVE  Shelf!ShelfNext \/ UNCHANGED Shelf!shelfVars
    BY <1>2, PlacingOpens, RemovingCloses, PostingOffers
  <1>3. ASSUME NEW j \in Job, NEW answered \in InsertAnswers, InsertUpload(j, answered)
        PROVE  Shelf!ShelfNext \/ UNCHANGED Shelf!shelfVars
    BY <1>3, InsertingStores
  <1>4. ASSUME NEW j \in Job,
               \/ CreateFile(j) \/ CopyChunk(j) \/ CloseFile(j) \/ RemoveFile(j)
               \/ Fail(j)
        PROVE  UNCHANGED Shelf!shelfVars
    <2>1. /\ UNCHANGED <<orders, drawn, uploads>>
          /\ j \in DOMAIN jobs /\ jobs[j].pc # "done" /\ jobs[j].reply = "none"
      BY <1>1, <1>4
      DEF CreateFile, CopyChunk, CloseFile, RemoveFile, Fail, UploadFails, At, orderVars,
          JobProgress
    <2>2. \/ \E pc \in {"copy", "remove", "insert"} : Goto(j, pc)
          \/ EndJob(j, "InternalError")
          \/ \E end : jobs' = [jobs EXCEPT ![j].pos = end]
      BY <1>4 DEF CreateFile, CopyChunk, CloseFile, RemoveFile, Fail, UploadFails
    <2>3. /\ DOMAIN jobs' = DOMAIN jobs
          /\ \A x \in DOMAIN jobs :
                /\ jobs'[x].order = jobs[x].order /\ jobs'[x].file = jobs[x].file
                /\ x # j => jobs'[x].reply = jobs[x].reply
          /\ jobs'[j].reply \in {"none", "InternalError"}
      BY <1>1, <2>1, <2>2 DEF Goto, EndJob, UploadsTypeOK, JobRecord
    <2> QED
      BY <2>1, <2>3, ShelfStays
  <1>5. CASE Crash
    <2>1. UNCHANGED <<orders, drawn, uploads>> /\ DOMAIN jobs' = DOMAIN jobs
      BY <1>5 DEF Crash, UploadsRestart, orderVars
    <2>2. \A x \in DOMAIN jobs :
             /\ jobs'[x].order = jobs[x].order /\ jobs'[x].file = jobs[x].file
             /\ \/ jobs'[x].reply = jobs[x].reply
                \/ jobs[x].reply = "none" /\ jobs'[x].reply = "NoReply"
      BY <1>1, <1>5 DEF Crash, UploadsRestart, UploadsTypeOK, JobRecord, JobProgress
    <2> QED
      BY <2>1, <2>2, ShelfStays
  <1>6. CASE UNCHANGED vars
    BY <1>6, ShelfStays DEF vars
  <1> QED
    BY <1>2, <1>3, <1>4, <1>5, <1>6 DEF Next, UploadStep, Wait

\* Whatever fails and wherever the process stops, writing the file before the
\* row has the effect of a transaction (Service.Create of internal/upload).
THEOREM ShelfImplemented == Spec => ImplementsShelf
  <1>1. Init => Shelf!ShelfInit
    BY DEF Init, OrdersInit, UploadsInit, EmptyTable, Shelf!ShelfInit, LetIn
  <1>2. UploadInv /\ UploadInv' /\ [Next]_vars => [Shelf!ShelfNext]_(Shelf!shelfVars)
    BY ShelfStep
  <1> QED
    BY <1>1, <1>2, UploadInvariant, PTL DEF Spec, ImplementsShelf, Shelf!ShelfSpec
=============================================================================
