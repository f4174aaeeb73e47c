----------------------------- MODULE UploadShelf ----------------------------
(***************************************************************************)
(* What the service promises of uploads, as if writing a file, recording   *)
(* it and acknowledging it were one transaction: a document that was       *)
(* offered is on the shelf, whole and as it was sent, or it is not there;  *)
(* it is acknowledged at the moment it gets there or never; and it stays   *)
(* until its order goes.                                                   *)
(***************************************************************************)
CONSTANTS OrderId,
          Upload,     \* what tells one upload from another
          Document    \* the documents that are accepted, whole

VARIABLES
    open,     \* the orders that exist
    closed,   \* those that existed
    offers,   \* the uploads that were let in
    shelf,    \* those that are stored
    acked     \* those whose sender knows that they were

shelfVars == <<open, closed, offers, shelf, acked>>

Entry == [upload : Upload, order : OrderId, document : Document]

ShelfInit == open = {} /\ closed = {} /\ offers = {} /\ shelf = {} /\ acked = {}

Open(o) == /\ o \notin open \cup closed
           /\ open' = open \cup {o}
           /\ UNCHANGED <<closed, offers, shelf, acked>>

Offer(e) == /\ e.order \in open
            /\ \A f \in offers : f.upload # e.upload
            /\ offers' = offers \cup {e}
            /\ UNCHANGED <<open, closed, shelf, acked>>

Store(e) == /\ e \in offers \ shelf
            /\ e.order \in open
            /\ shelf' = shelf \cup {e}
            /\ acked' \in {acked, acked \cup {e.upload}}
            /\ UNCHANGED <<open, closed, offers>>

Close(o) == /\ o \in open
            /\ open' = open \ {o}
            /\ closed' = closed \cup {o}
            /\ shelf' = {e \in shelf : e.order # o}
            /\ UNCHANGED <<offers, acked>>

ShelfNext == \/ \E o \in OrderId : Open(o) \/ Close(o)
             \/ \E e \in Entry : Offer(e) \/ Store(e)

ShelfSpec == ShelfInit /\ [][ShelfNext]_shelfVars
=============================================================================
