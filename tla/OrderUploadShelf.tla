-------------------------- MODULE OrderUploadShelf --------------------------
(***************************************************************************)
(* How OrderUpload implements UploadShelf: what is on the shelf are the    *)
(* rows of `uploads`, each with what its file holds at this moment.        *)
(***************************************************************************)
EXTENDS OrderUpload

\* A part that is stored as it was sent.
Whole(f) == [bytes |-> 1 .. f.size, size |-> f.size, mime |-> f.mime]

Accepted == {Whole(f) : f \in {f \in File : f.size \in 1 .. MaxSize /\ f.mime \in Mime}}

\* The requests that were not turned away.
LetIn == {j \in DOMAIN jobs :
             jobs[j].reply \in {"none", "Created", "InternalError", "NoReply"}}

OfferOf(j) == [upload   |-> j,
               order    |-> jobs[j].order,
               document |-> Whole(jobs[j].file)]

\* What the row says and the file holds.
EntryOf(j) == [upload   |-> j,
               order    |-> uploads[j].order,
               document |-> [bytes |-> IF j \in DOMAIN disk THEN disk[j] ELSE {},
                             size  |-> uploads[j].size,
                             mime  |-> uploads[j].mime]]

Shelf == INSTANCE UploadShelf
            WITH Upload   <- Job,
                 Document <- Accepted,
                 open     <- DOMAIN orders,
                 closed   <- drawn \ DOMAIN orders,
                 offers   <- {OfferOf(j) : j \in LetIn},
                 shelf    <- {EntryOf(j) : j \in DOMAIN uploads},
                 acked    <- {j \in DOMAIN jobs : jobs[j].reply = "Created"}

\* Whatever fails and wherever the process stops, writing the file before the
\* row has the effect of a transaction: no row ever points to a file that is
\* not there, not whole or not the one sent, none is touched again, and 201 is
\* said exactly when the row appears.
ImplementsShelf == Shelf!ShelfSpec
=============================================================================
