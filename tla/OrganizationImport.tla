------------------------- MODULE OrganizationImport -------------------------
(***************************************************************************)
(* The first migration of an Organization's Properties                     *)
(* (domain/platform/imports.py): a dry run, an apply of exactly the same   *)
(* records, and a rollback by the identifiers that the apply stored.       *)
(*                                                                         *)
(* An apply reads the keys that are taken, decides about every record and  *)
(* inserts what it accepted, in one transaction; a key that somebody else  *)
(* takes meanwhile fails all of it.  What the team or the catalog does to  *)
(* a Property afterwards decides whether a rollback can delete it.         *)
(*                                                                         *)
(* A definition named Slip... is the one below it with a plausible bug.    *)
(***************************************************************************)
CONSTANTS
    Keys,        \* property keys
    Sources,     \* files, each with its checksum
    RecordsOf,   \* the valid keys of a file
    Applies,     \* command keys of applies
    SourceOf     \* the file an apply reads

ASSUME ImportAssumption ==
    /\ RecordsOf \in [Sources -> SUBSET Keys]
    /\ SourceOf \in [Applies -> Sources]
    /\ "Team" \notin Applies /\ "None" \notin Applies

VARIABLES
    reviewed,   \* files with a dry run on record
    run,        \* each apply: None, Applying (not committed), Applied or RolledBack
    accepting,  \* keys its transaction accepted
    created,    \* keys whose created_record_id is stored in its findings
    origin,     \* who created the Property with a key: an apply, the Team or None
    referrer    \* what refers to that Property

importVars == <<reviewed, run, accepting, created, origin, referrer>>

\* By how its foreign key meets a deletion: an appointment or a Listing
\* refuses it, a version of the document goes with it, and a sale record
\* refuses only at the commit.
Referrers == {"Visit", "Document", "Sale"}

Taken == {k \in Keys : origin[k] # "None"}

\* The rows of an apply that a rollback finds and may delete.
RollsBack(r) == {k \in created[r] : origin[k] = r /\ referrer[k] # "Visit"}

-----------------------------------------------------------------------------
\* A dry run decides as an apply does, and creates nothing.
PlanImport(s) ==
    /\ s \notin reviewed
    /\ reviewed' = reviewed \cup {s}
    /\ UNCHANGED <<run, accepting, created, origin, referrer>>

\* A command key that is on record is answered from its run.
BeginApply(r) ==
    /\ run[r] = "None"
    /\ SourceOf[r] \in reviewed
    /\ RecordsOf[SourceOf[r]] # {}
    /\ run' = [run EXCEPT ![r] = "Applying"]
    /\ accepting' = [accepting EXCEPT ![r] = RecordsOf[SourceOf[r]] \ Taken]
    /\ UNCHANGED <<reviewed, created, origin, referrer>>

\* A key that has been taken since keeps the row it has.
SlipCommitApply(r) ==
    /\ run[r] = "Applying"
    /\ run' = [run EXCEPT ![r] = "Applied"]
    /\ created' = [created EXCEPT ![r] = accepting[r]]
    /\ origin' = [k \in Keys |-> IF k \in accepting[r] \ Taken THEN r ELSE origin[k]]
    /\ accepting' = [accepting EXCEPT ![r] = {}]
    /\ UNCHANGED <<reviewed, referrer>>

CommitApply(r) ==
    /\ run[r] = "Applying"
    /\ accepting[r] \cap Taken = {}
    /\ run' = [run EXCEPT ![r] = "Applied"]
    /\ created' = [created EXCEPT ![r] = accepting[r]]
    /\ origin' = [k \in Keys |-> IF k \in accepting[r] THEN r ELSE origin[k]]
    /\ accepting' = [accepting EXCEPT ![r] = {}]
    /\ UNCHANGED <<reviewed, referrer>>

\* The unique key on (Organization, property_key) refuses an insert, or the
\* process dies: nothing of the run remains.
FailApply(r) ==
    /\ run[r] = "Applying"
    /\ run' = [run EXCEPT ![r] = "None"]
    /\ accepting' = [accepting EXCEPT ![r] = {}]
    /\ UNCHANGED <<reviewed, created, origin, referrer>>

\* Each Property is deleted in a savepoint of its own.  A row that is kept
\* keeps its identifier.  A sale record lets the savepoint pass and then fails
\* the commit, and with it the whole rollback, every time.
RollBackImport(r) ==
    /\ run[r] = "Applied"
    /\ \A k \in RollsBack(r) : referrer[k] # "Sale"
    /\ run' = [run EXCEPT ![r] = "RolledBack"]
    /\ origin' = [k \in Keys |-> IF k \in RollsBack(r) THEN "None" ELSE origin[k]]
    /\ referrer' = [k \in Keys |-> IF k \in RollsBack(r) THEN "None" ELSE referrer[k]]
    /\ created' = [created EXCEPT ![r] = @ \ RollsBack(r)]
    /\ UNCHANGED <<reviewed, accepting>>

-----------------------------------------------------------------------------
\* The team creates a Property under a key of its own choice.
RegisterProperty(k) ==
    /\ origin[k] = "None"
    /\ origin' = [origin EXCEPT ![k] = "Team"]
    /\ UNCHANGED <<reviewed, run, accepting, created, referrer>>

ReferTo(k) ==
    /\ origin[k] # "None"
    /\ referrer[k] = "None"
    /\ \E kind \in Referrers : referrer' = [referrer EXCEPT ![k] = kind]
    /\ UNCHANGED <<reviewed, run, accepting, created, origin>>

ImportInit ==
    /\ reviewed = {}
    /\ run = [r \in Applies |-> "None"]
    /\ accepting = [r \in Applies |-> {}]
    /\ created = [r \in Applies |-> {}]
    /\ origin = [k \in Keys |-> "None"]
    /\ referrer = [k \in Keys |-> "None"]

ApplyStep(r) == BeginApply(r) \/ CommitApply(r) \/ FailApply(r) \/ RollBackImport(r)

ImportNext ==
    \/ \E s \in Sources : PlanImport(s)
    \/ \E r \in Applies : ApplyStep(r)
    \/ \E k \in Keys : RegisterProperty(k) \/ ReferTo(k)

ImportSpec == ImportInit /\ [][ImportNext]_importVars

-----------------------------------------------------------------------------
(***************************************************************************)
(* Properties.                                                             *)
(***************************************************************************)

ImportTypeOK ==
    /\ reviewed \subseteq Sources
    /\ run \in [Applies -> {"None", "Applying", "Applied", "RolledBack"}]
    /\ accepting \in [Applies -> SUBSET Keys]
    /\ created \in [Applies -> SUBSET Keys]
    /\ origin \in [Keys -> Applies \cup {"Team", "None"}]
    /\ referrer \in [Keys -> Referrers \cup {"None"}]

\* However applies overlap one another and the team, the identifiers stored
\* with a run are exactly the Properties it created and has not removed, none
\* of a run that failed is left, and after a rollback only those that a visit
\* or a Listing refers to remain.
RollbackKnowsItsRecords ==
    \A r \in Applies :
        /\ created[r] = {k \in Keys : origin[k] = r}
        /\ run[r] \in {"None", "Applying"} => created[r] = {}
        /\ run[r] = "RolledBack" => \A k \in created[r] : referrer[k] # "None"

\* What roll_back says of itself: a Property another record already refers to
\* is left in place.  A document that refers to it goes with it.
ReferencedPropertiesStay ==
    [][\A k \in Keys : referrer[k] # "None" => origin'[k] # "None"]_importVars
=============================================================================
