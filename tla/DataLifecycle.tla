--------------------------- MODULE DataLifecycle ---------------------------
(***************************************************************************)
(* Handing over and removing what an Organization owns                     *)
(* (domain/platform/lifecycle.py), for one Organization.                   *)
(*                                                                         *)
(* A deletion looks for holds and then removes table after table in one    *)
(* transaction, which locks neither the holds nor the Organization.  Work  *)
(* goes on meanwhile.  An export is written to a file before its row is    *)
(* committed.  A request carries a command key and may be sent again at    *)
(* any time, while the first one is at work included: then the unique key  *)
(* makes it wait and fail.                                                 *)
(*                                                                         *)
(* A definition named Slip... is the one below it with a plausible bug.    *)
(***************************************************************************)
EXTENDS Naturals

CONSTANTS
    Deletions,    \* command keys of deletions
    ScopeOf,      \* the scope a deletion asks for
    Exports,      \* command keys of exports
    Holds,
    MaxCopies     \* bound: files written for one export

ASSUME LifecycleAssumption ==
    /\ ScopeOf \in [Deletions -> {"OperationalContent", "Everything"}]
    /\ MaxCopies \in Nat

VARIABLES
    hold,       \* each hold: None, Live, Lapsed or Released
    deletion,   \* state of the organization_data_deletions row, "None" before
    deleting,   \* deletions that found no hold and are removing tables
    held,       \* kinds of table that have rows
    removed,    \* deletions that removed rows
    export,     \* state of the organization_data_exports row, "None" before
    writing,    \* open transactions of each export that have written a file
    copies      \* files in the export directory, by request

lifecycleVars == <<hold, deletion, deleting, held, removed, export, writing, copies>>

\* The registry marks a table as content or not (scoping.py).
TableKinds == {"Content", "Commercial"}
Removable(d) == IF ScopeOf[d] = "Everything" THEN TableKinds ELSE {"Content"}

LiveHolds == {h \in Holds : hold[h] = "Live"}

\* Only a request that was carried out is answered from its row.
SlipAnswered(d) == deletion[d] = "Completed"

Answered(d) == deletion[d] \in {"Completed", "Blocked"}

-----------------------------------------------------------------------------
RecordHold(h) ==
    /\ hold[h] = "None"
    /\ hold' = [hold EXCEPT ![h] = "Live"]
    /\ UNCHANGED <<deletion, deleting, held, removed, export, writing, copies>>

ReleaseHold(h) ==
    /\ hold[h] \in {"Live", "Lapsed"}
    /\ hold' = [hold EXCEPT ![h] = "Released"]
    /\ UNCHANGED <<deletion, deleting, held, removed, export, writing, copies>>

\* A hold that has a date.
HoldLapses(h) ==
    /\ hold[h] = "Live"
    /\ hold' = [hold EXCEPT ![h] = "Lapsed"]
    /\ UNCHANGED <<deletion, deleting, held, removed, export, writing, copies>>

BlockDeletion(d) ==
    /\ ~Answered(d)
    /\ d \notin deleting
    /\ LiveHolds # {}
    /\ deletion' = [deletion EXCEPT ![d] = "Blocked"]
    /\ UNCHANGED <<hold, deleting, held, removed, export, writing, copies>>

BeginDeletion(d) ==
    /\ ~Answered(d)
    /\ d \notin deleting
    /\ LiveHolds = {}
    /\ deleting' = deleting \cup {d}
    /\ UNCHANGED <<hold, deletion, held, removed, export, writing, copies>>

CommitDeletion(d) ==
    /\ d \in deleting
    /\ held' = held \ Removable(d)
    /\ removed' = IF held \cap Removable(d) # {} THEN removed \cup {d} ELSE removed
    /\ deletion' = [deletion EXCEPT ![d] = "Completed"]
    /\ deleting' = deleting \ {d}
    /\ UNCHANGED <<hold, export, writing, copies>>

\* A row written meanwhile refers to one that is to go, or the process dies.
RollBackDeletion(d) ==
    /\ d \in deleting
    /\ deleting' = deleting \ {d}
    /\ UNCHANGED <<hold, deletion, held, removed, export, writing, copies>>

\* The Organization stays, and its work goes on.
Work ==
    /\ held # TableKinds
    /\ held' = TableKinds
    /\ UNCHANGED <<hold, deletion, deleting, removed, export, writing, copies>>

-----------------------------------------------------------------------------
\* The unique key keeps a second call out, until there is a row that Failed.
MayWrite(e) ==
    \/ export[e] = "None" /\ writing[e] = 0
    \/ export[e] = "Failed"

WriteArtifact(e) ==
    /\ MayWrite(e)
    /\ copies[e] < MaxCopies
    /\ copies' = [copies EXCEPT ![e] = @ + 1]
    /\ writing' = [writing EXCEPT ![e] = @ + 1]
    /\ UNCHANGED <<hold, deletion, deleting, held, removed, export>>

\* The file cannot be written, and that is what is committed.
FailExport(e) ==
    /\ MayWrite(e)
    /\ export' = [export EXCEPT ![e] = "Failed"]
    /\ UNCHANGED <<hold, deletion, deleting, held, removed, writing, copies>>

CommitExport(e) ==
    /\ writing[e] > 0
    /\ export' = [export EXCEPT ![e] = "Completed"]
    /\ writing' = [writing EXCEPT ![e] = @ - 1]
    /\ UNCHANGED <<hold, deletion, deleting, held, removed, copies>>

\* The process dies with the file in place.
AbandonExport(e) ==
    /\ writing[e] > 0
    /\ writing' = [writing EXCEPT ![e] = @ - 1]
    /\ UNCHANGED <<hold, deletion, deleting, held, removed, export, copies>>

-----------------------------------------------------------------------------
LifecycleInit ==
    /\ hold = [h \in Holds |-> "None"]
    /\ deletion = [d \in Deletions |-> "None"]
    /\ deleting = {}
    /\ held = TableKinds
    /\ removed = {}
    /\ export = [e \in Exports |-> "None"]
    /\ writing = [e \in Exports |-> 0]
    /\ copies = [e \in Exports |-> 0]

HoldStep(h) == RecordHold(h) \/ ReleaseHold(h) \/ HoldLapses(h)

DeletionStep(d) == BlockDeletion(d) \/ BeginDeletion(d) \/ CommitDeletion(d) \/ RollBackDeletion(d)

ExportStep(e) == WriteArtifact(e) \/ FailExport(e) \/ CommitExport(e) \/ AbandonExport(e)

LifecycleNext ==
    \/ \E h \in Holds : HoldStep(h)
    \/ \E d \in Deletions : DeletionStep(d)
    \/ \E e \in Exports : ExportStep(e)
    \/ Work

LifecycleSpec == LifecycleInit /\ [][LifecycleNext]_lifecycleVars

-----------------------------------------------------------------------------
(***************************************************************************)
(* Properties.                                                             *)
(***************************************************************************)

LifecycleTypeOK ==
    /\ hold \in [Holds -> {"None", "Live", "Lapsed", "Released"}]
    /\ deletion \in [Deletions -> {"None", "Blocked", "Completed"}]
    /\ deleting \subseteq Deletions /\ removed \subseteq Deletions
    /\ held \subseteq TableKinds
    /\ export \in [Exports -> {"None", "Failed", "Completed"}]
    /\ writing \in [Exports -> 0..MaxCopies]
    /\ copies \in [Exports -> 0..MaxCopies]

\* A request that was refused because of a hold removes nothing later, though
\* the hold has gone and the request is sent again or was sent twice at once;
\* and one that was carried out is not carried out on what came after it.
RefusedRequestsRemoveNothing ==
    \A d \in Deletions :
        /\ deletion[d] = "Blocked" => d \notin removed
        /\ d \in deleting => deletion[d] = "None"

\* What lifecycle.py says of itself: a live retention hold stops the request.
HoldsAreRespected ==
    [][held' # held /\ held' \subseteq held => LiveHolds = {}]_lifecycleVars

\* What the comment on export says: a request that is sent again returns the
\* artifact of the first one rather than writing a second copy.
OneCopyPerRequest == \A e \in Exports : copies[e] <= 1
=============================================================================
