---------------------------- MODULE ListingMedia ----------------------------
(***************************************************************************)
(* The photographs of a Listing (domain/catalog/media.py): a row in the    *)
(* database and an object in the media storage, which share no             *)
(* transaction.                                                            *)
(*                                                                         *)
(* An upload holds the Listing's row while the object is stored.  When it  *)
(* fails it lets the row go and then removes the object.  The name of the  *)
(* object comes from the key of the command, so a form that is submitted   *)
(* twice stores the same object.  A revocation hides the photograph first  *)
(* and cleans up afterwards, once more each time it is repeated.           *)
(*                                                                         *)
(* A definition named Slip... is the one below it with a plausible bug.    *)
(***************************************************************************)
EXTENDS Naturals

CONSTANTS
    Photos,      \* one for each upload form
    Submissions  \* of a form

VARIABLES
    photo,    \* None, Active or Revoked
    cover,    \* is_cover
    object,   \* the object is in the storage
    deleted,  \* storage_deleted_at is set
    purged,   \* cache_purged_at is set
    upload    \* where each submission of each form is

mediaVars == <<photo, cover, object, deleted, purged, upload>>

Uploads == Photos \X Submissions

\* An upload holds the Listing from its checks to its commit or rollback.
Held == \E u \in Uploads : upload[u] = "Stored"

-----------------------------------------------------------------------------
\* The object is stored before the receipt is looked at.
SlipBeginUpload(p, s) ==
    /\ upload[<<p, s>>] = "None"
    /\ ~Held
    /\ object' = [object EXCEPT ![p] = TRUE]
    /\ upload' = [upload EXCEPT ![<<p, s>>] = IF photo[p] = "None" THEN "Stored" ELSE "Over"]
    /\ UNCHANGED <<photo, cover, deleted, purged>>

\* The receipt of the command answers a form that was already accepted.
BeginUpload(p, s) ==
    /\ upload[<<p, s>>] = "None"
    /\ ~Held
    /\ IF photo[p] = "None"
       THEN /\ object' = [object EXCEPT ![p] = TRUE]
            /\ upload' = [upload EXCEPT ![<<p, s>>] = "Stored"]
       ELSE /\ upload' = [upload EXCEPT ![<<p, s>>] = "Over"]
            /\ UNCHANGED object
    /\ UNCHANGED <<photo, cover, deleted, purged>>

CommitUpload(p, s, asCover) ==
    /\ upload[<<p, s>>] = "Stored"
    /\ photo' = [photo EXCEPT ![p] = "Active"]
    /\ cover' = [q \in Photos |-> IF asCover THEN q = p ELSE cover[q]]
    /\ upload' = [upload EXCEPT ![<<p, s>>] = "Over"]
    /\ UNCHANGED <<object, deleted, purged>>

\* The order, the content or the cover is taken, or the database fails.
RollBackUpload(p, s) ==
    /\ upload[<<p, s>>] = "Stored"
    /\ upload' = [upload EXCEPT ![<<p, s>>] = "RolledBack"]
    /\ UNCHANGED <<photo, cover, object, deleted, purged>>

RemoveObject(p, s) ==
    /\ upload[<<p, s>>] = "RolledBack"
    /\ object' = [object EXCEPT ![p] = FALSE]
    /\ upload' = [upload EXCEPT ![<<p, s>>] = "Over"]
    /\ UNCHANGED <<photo, cover, deleted, purged>>

\* The process dies; the transaction is rolled back.
AbandonUpload(p, s) ==
    /\ upload[<<p, s>>] \in {"Stored", "RolledBack"}
    /\ upload' = [upload EXCEPT ![<<p, s>>] = "Over"]
    /\ UNCHANGED <<photo, cover, object, deleted, purged>>

-----------------------------------------------------------------------------
ArrangeMedia(p) ==
    /\ ~Held
    /\ photo[p] = "Active"
    /\ cover' = [q \in Photos |-> q = p]
    /\ UNCHANGED <<photo, object, deleted, purged, upload>>

\* It locks the photograph and not the Listing.
RevokeMedia(p) ==
    /\ photo[p] = "Active"
    /\ photo' = [photo EXCEPT ![p] = "Revoked"]
    /\ cover' = [cover EXCEPT ![p] = FALSE]
    /\ UNCHANGED <<object, deleted, purged, upload>>

DeleteObject(p) ==
    /\ photo[p] = "Revoked"
    /\ ~deleted[p]
    /\ object' = [object EXCEPT ![p] = FALSE]
    /\ deleted' = [deleted EXCEPT ![p] = TRUE]
    /\ UNCHANGED <<photo, cover, purged, upload>>

PurgeCache(p) ==
    /\ deleted[p]
    /\ ~purged[p]
    /\ purged' = [purged EXCEPT ![p] = TRUE]
    /\ UNCHANGED <<photo, cover, object, deleted, upload>>

-----------------------------------------------------------------------------
MediaInit ==
    /\ photo = [p \in Photos |-> "None"]
    /\ cover = [p \in Photos |-> FALSE]
    /\ object = [p \in Photos |-> FALSE]
    /\ deleted = [p \in Photos |-> FALSE]
    /\ purged = [p \in Photos |-> FALSE]
    /\ upload = [u \in Uploads |-> "None"]

UploadStep(p, s) ==
    \/ BeginUpload(p, s)
    \/ \E asCover \in BOOLEAN : CommitUpload(p, s, asCover)
    \/ RollBackUpload(p, s) \/ RemoveObject(p, s) \/ AbandonUpload(p, s)

MediaNext ==
    \/ \E p \in Photos, s \in Submissions : UploadStep(p, s)
    \/ \E p \in Photos : ArrangeMedia(p) \/ RevokeMedia(p) \/ DeleteObject(p) \/ PurgeCache(p)

MediaSpec == MediaInit /\ [][MediaNext]_mediaVars

-----------------------------------------------------------------------------
MediaTypeOK ==
    /\ photo \in [Photos -> {"None", "Active", "Revoked"}]
    /\ cover \in [Photos -> BOOLEAN]
    /\ object \in [Photos -> BOOLEAN]
    /\ deleted \in [Photos -> BOOLEAN]
    /\ purged \in [Photos -> BOOLEAN]
    /\ upload \in [Uploads -> {"None", "Stored", "RolledBack", "Over"}]

\* A photograph whose object is on record as deleted has none, and is
\* nobody's cover, although its form may be submitted again at any moment.
DeletedObjectsAreGone ==
    \A p \in Photos : deleted[p] => ~object[p] /\ ~cover[p]

\* What the comment on the compensation says: only a stored object that no
\* row references is removed.
ActivePhotosHaveTheirObject ==
    \A p \in Photos : photo[p] = "Active" => object[p]
=============================================================================
