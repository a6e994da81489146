------------------------- MODULE PropertyIngestion -------------------------
(***************************************************************************)
(* Accepting Property Documents (domain/properties.py), for one            *)
(* Organization: an artifact under its checksum, the public copy under     *)
(* src/properties, and then the rows, in one transaction.                  *)
(*                                                                         *)
(* An upload locks nothing.  It looks up the Property, puts both files in  *)
(* place, reads the newest version and inserts the next one; the unique    *)
(* keys refuse what somebody else has inserted meanwhile, and then the     *)
(* public copy is put back as the upload found it.  The form of the        *)
(* administrative pages and the upload page both end here.                 *)
(*                                                                         *)
(* A definition named Slip... is the one below it with a plausible bug.    *)
(***************************************************************************)
EXTENDS Naturals, Sequences, FiniteSets

CONSTANTS
    Uploads,         \* documents handed in, each once
    DocumentKey,     \* the property_id that each carries
    CreateOnly,      \* uploads by the form for a new Property
    Malformed,       \* documents that the validation refuses
    MaxProperties,   \* MAX_PROPERTIES
    NoFile

ASSUME IngestionAssumption ==
    /\ CreateOnly \subseteq Uploads /\ Malformed \subseteq Uploads
    /\ MaxProperties \in Nat
    /\ NoFile \notin Uploads

VARIABLES
    accepted,    \* documents accepted for each key, oldest first, empty without a Property
    artifacts,   \* documents in the content-addressed store
    copy,        \* the document whose bytes are in the public file of each key
    stage,       \* each upload: None, Found, Placed, Numbered, Colliding, Accepted, Over
    replaced,    \* what its copy has overwritten
    number,      \* the version it will insert, 0 before it knows
    audited,     \* uploads with an audit row
    disturbed    \* keys with uploads that overlapped, or one that died

ingestionVars == <<accepted, artifacts, copy, stage, replaced, number, audited, disturbed>>

DocumentKeys == {DocumentKey[u] : u \in Uploads}
Inventory == {k \in DocumentKeys : accepted[k] # <<>>}

InProgress(k) ==
    {u \in Uploads : DocumentKey[u] = k /\ stage[u] \in {"Found", "Placed", "Numbered", "Colliding"}}

-----------------------------------------------------------------------------
\* Everything the validation finds, at once; nothing is kept.
RefuseDocument(u) ==
    /\ stage[u] = "None"
    /\ \/ u \in Malformed
       \/ u \in CreateOnly /\ DocumentKey[u] \in Inventory
       \/ DocumentKey[u] \notin Inventory /\ Cardinality(Inventory) >= MaxProperties
    /\ stage' = [stage EXCEPT ![u] = "Over"]
    /\ UNCHANGED <<accepted, artifacts, copy, replaced, number, audited, disturbed>>

\* The Property with the key, or its absence and the room there is for one.
FindProperty(u) ==
    LET k == DocumentKey[u] IN
    /\ stage[u] = "None"
    /\ u \notin Malformed
    /\ k \in Inventory => u \notin CreateOnly
    /\ k \notin Inventory => Cardinality(Inventory) < MaxProperties
    /\ stage' = [stage EXCEPT ![u] = "Found"]
    /\ number' = [number EXCEPT ![u] = IF k \in Inventory THEN 0 ELSE 1]
    /\ disturbed' = IF InProgress(k) # {} THEN disturbed \cup {k} ELSE disturbed
    /\ UNCHANGED <<accepted, artifacts, copy, replaced, audited>>

PlaceFiles(u) ==
    LET k == DocumentKey[u] IN
    /\ stage[u] = "Found"
    /\ artifacts' = artifacts \cup {u}
    /\ replaced' = [replaced EXCEPT ![u] = copy[k]]
    /\ copy' = [copy EXCEPT ![k] = u]
    /\ stage' = [stage EXCEPT ![u] = IF number[u] = 1 THEN "Numbered" ELSE "Placed"]
    /\ UNCHANGED <<accepted, number, audited, disturbed>>

ReadLatestVersion(u) ==
    /\ stage[u] = "Placed"
    /\ number' = [number EXCEPT ![u] = Len(accepted[DocumentKey[u]]) + 1]
    /\ stage' = [stage EXCEPT ![u] = "Numbered"]
    /\ UNCHANGED <<accepted, artifacts, copy, replaced, audited, disturbed>>

\* Version, accepted pointer, and the Listing of a first document, at once.
AcceptDocument(u) ==
    LET k == DocumentKey[u] IN
    /\ stage[u] = "Numbered"
    /\ number[u] = Len(accepted[k]) + 1
    /\ accepted' = [accepted EXCEPT ![k] = Append(@, u)]
    /\ stage' = [stage EXCEPT ![u] = "Accepted"]
    /\ UNCHANGED <<artifacts, copy, replaced, number, audited, disturbed>>

\* Another upload has inserted the Property or the version.
Collide(u) ==
    /\ stage[u] = "Numbered"
    /\ number[u] # Len(accepted[DocumentKey[u]]) + 1
    /\ stage' = [stage EXCEPT ![u] = "Colliding"]
    /\ UNCHANGED <<accepted, artifacts, copy, replaced, number, audited, disturbed>>

\* The rollback takes the rows, and leaves the public copy as it is.
SlipRestoreCopy(u) ==
    /\ stage[u] \in {"Placed", "Numbered", "Colliding"}
    /\ stage' = [stage EXCEPT ![u] = "Over"]
    /\ UNCHANGED <<accepted, artifacts, copy, replaced, number, audited, disturbed>>

\* The compensation, for a collision and for whatever else goes wrong.
RestoreCopy(u) ==
    /\ stage[u] \in {"Placed", "Numbered", "Colliding"}
    /\ copy' = [copy EXCEPT ![DocumentKey[u]] = replaced[u]]
    /\ stage' = [stage EXCEPT ![u] = "Over"]
    /\ UNCHANGED <<accepted, artifacts, replaced, number, audited, disturbed>>

\* After the commit, in a transaction of its own.
AuditUpload(u) ==
    /\ stage[u] = "Accepted"
    /\ audited' = audited \cup {u}
    /\ stage' = [stage EXCEPT ![u] = "Over"]
    /\ UNCHANGED <<accepted, artifacts, copy, replaced, number, disturbed>>

\* The process dies: nobody puts the copy back or writes the audit row.
AbandonDocument(u) ==
    /\ stage[u] \in {"Found", "Placed", "Numbered", "Colliding", "Accepted"}
    /\ stage' = [stage EXCEPT ![u] = "Over"]
    /\ disturbed' = IF stage[u] \in {"Placed", "Numbered", "Colliding"}
                    THEN disturbed \cup {DocumentKey[u]} ELSE disturbed
    /\ UNCHANGED <<accepted, artifacts, copy, replaced, number, audited>>

-----------------------------------------------------------------------------
IngestionInit ==
    /\ accepted = [k \in DocumentKeys |-> <<>>]
    /\ artifacts = {}
    /\ copy = [k \in DocumentKeys |-> NoFile]
    /\ stage = [u \in Uploads |-> "None"]
    /\ replaced = [u \in Uploads |-> NoFile]
    /\ number = [u \in Uploads |-> 0]
    /\ audited = {}
    /\ disturbed = {}

CheckStep(u) == RefuseDocument(u) \/ FindProperty(u)
WriteStep(u) == PlaceFiles(u) \/ ReadLatestVersion(u) \/ AcceptDocument(u)
FailureStep(u) == Collide(u) \/ RestoreCopy(u) \/ AbandonDocument(u)

IngestionNext ==
    \E u \in Uploads : CheckStep(u) \/ WriteStep(u) \/ FailureStep(u) \/ AuditUpload(u)

IngestionSpec == IngestionInit /\ [][IngestionNext]_ingestionVars

-----------------------------------------------------------------------------
(***************************************************************************)
(* Properties.                                                             *)
(***************************************************************************)

IngestionTypeOK ==
    /\ accepted \in [DocumentKeys -> Seq(Uploads)]
    /\ artifacts \subseteq Uploads /\ audited \subseteq Uploads
    /\ copy \in [DocumentKeys -> Uploads \cup {NoFile}]
    /\ stage \in [Uploads -> {"None", "Found", "Placed", "Numbered", "Colliding", "Accepted", "Over"}]
    /\ replaced \in [Uploads -> Uploads \cup {NoFile}]
    /\ number \in [Uploads -> Nat]
    /\ disturbed \subseteq DocumentKeys

Newest(k) == IF accepted[k] = <<>> THEN NoFile ELSE accepted[k][Len(accepted[k])]

\* However uploads overlap, fail and die: an accepted document stays accepted
\* under its number, belongs to one version only, and can be read.  And where
\* uploads follow one another, refused ones included, the public copy is the
\* newest accepted document whenever nobody is at work.
DocumentsAreKept ==
    \A k \in DocumentKeys :
        /\ \A i \in DOMAIN accepted[k] :
               /\ accepted[k][i] \in artifacts
               /\ stage[accepted[k][i]] \in {"Accepted", "Over"}
               /\ number[accepted[k][i]] = i
        /\ \A u \in Uploads : DocumentKey[u] = k /\ stage[u] = "Accepted" =>
               \E i \in DOMAIN accepted[k] : accepted[k][i] = u
        /\ k \notin disturbed /\ InProgress(k) = {} => copy[k] = Newest(k)

\* What accept_upload says of its compensation: the copy has to go back.  An
\* upload that is refused puts it back to a document older than the one that
\* was accepted meanwhile.
CopyIsTheAcceptedOne ==
    \A k \in DocumentKeys : InProgress(k) = {} => copy[k] = Newest(k)

\* What properties.py says of the limit: the overview can never exceed it.
InventoryIsCapped == Cardinality(Inventory) <= MaxProperties

\* Every accepted document has its audit row once its upload is over.
AcceptedIsAudited ==
    \A k \in DocumentKeys : \A i \in DOMAIN accepted[k] :
        stage[accepted[k][i]] = "Over" => accepted[k][i] \in audited
=============================================================================
