-------------------------- MODULE PurchaseJourney --------------------------
(***************************************************************************)
(* The purchase Journey of an Opportunity (domain/journeys.py), the sale   *)
(* and profile records it keeps, and the shared market dataset they are    *)
(* copied to (domain/market_intelligence.py, the triggers of migration     *)
(* 0028).                                                                  *)
(*                                                                         *)
(* Two calls of conclude may have read the Journey and its sale before     *)
(* either locks the row, and the lock does not refresh what was read.  A   *)
(* milestone and the profile are written by calls that looked at the       *)
(* Journey, or at the sale, without locking it.  A trigger numbers every   *)
(* version of a record and leaves a contribution with its content; the     *)
(* projector takes the contributions in the order in which their           *)
(* transactions began, which need not be the order of the versions, and    *)
(* one it cannot project stays for a later pass.                           *)
(*                                                                         *)
(* A definition named Slip... is the one below it with a plausible bug.    *)
(***************************************************************************)
EXTENDS Naturals

CONSTANTS
    Journeys,       \* one per Opportunity, and of one Organization each
    Milestones,
    Conclusions,    \* calls of conclude that may be under way together
    MaxTemplates,   \* bound: template versions
    MaxVersions     \* bound: versions of a record

ASSUME JourneyBounds == MaxTemplates \in Nat /\ MaxVersions \in Nat

VARIABLES
    template,    \* state of each template version
    journey,     \* transaction_journeys.state, "None" before there is a row
    milestone,   \* transaction_milestones.state
    confirming,  \* update_milestone calls that have found the Journey Active
    read,        \* what a call of conclude has read of Journey and sale
    record,      \* version and state of the sale and of the profile
    whole,       \* the sale has the facts a completed one needs
    profiling,   \* update_profile calls that have found the sale open
    won,         \* the Opportunity is Won
    waiting,     \* contributions that are Pending or Failed
    shared,      \* version and state in the shared dataset
    resolved     \* shared records the analyst resolved with another

journeyVars == <<template, journey, milestone, confirming, read, record, whole, profiling, won,
                 waiting, shared, resolved>>

Versions == 1..MaxTemplates
RecordTypes == {"Sale", "Profile"}
\* Completed and Skipped are finished, the other four states are open.
MilestoneStates == {"Open", "Finished"}
Absent == [version |-> 0, state |-> "None"]
NotReading == [journey |-> "None", sale |-> "None"]

Latest == {v \in Versions : template[v] # "None" /\ \A w \in Versions : w > v => template[w] = "None"}

Opening(type) == [version |-> 1, state |-> IF type = "Sale" THEN "Preparation" ELSE "Recorded"]

\* The contribution that comes last wins.
SlipNewer(contribution, current) == contribution # current

Newer(contribution, current) == contribution.version > current.version

\* What an UPDATE of a record does, by the triggers of its table.
Revise(j, type, state) ==
    LET revised == [version |-> record[j][type].version + 1, state |-> state] IN
    /\ record[j][type].version < MaxVersions
    /\ record' = [record EXCEPT ![j][type] = revised]
    /\ waiting' = [waiting EXCEPT ![j][type] = @ \cup {revised}]

-----------------------------------------------------------------------------
\* A Draft that exists already is returned.
CreateDraft ==
    /\ \A v \in Latest : template[v] # "Draft"
    /\ \E v \in Versions :
          /\ template[v] = "None"
          /\ \A w \in Versions : w < v => template[w] # "None"
          /\ template' = [template EXCEPT ![v] = "Draft"]
    /\ UNCHANGED <<journey, milestone, confirming, read, record, whole, profiling, won,
                   waiting, shared, resolved>>

Approve(v) ==
    /\ template[v] = "Draft"
    /\ template' = [w \in Versions |-> CASE w = v -> "Approved"
                                         [] template[w] = "Approved" -> "Superseded"
                                         [] OTHER -> template[w]]
    /\ UNCHANGED <<journey, milestone, confirming, read, record, whole, profiling, won,
                   waiting, shared, resolved>>

\* The Opportunity is locked, and must be one that is still worked on.
Start(j) ==
    /\ journey[j] = "None"
    /\ ~won[j]
    /\ \E v \in Versions : template[v] = "Approved"
    /\ journey' = [journey EXCEPT ![j] = "Active"]
    /\ record' = [record EXCEPT ![j] = [type \in RecordTypes |-> Opening(type)]]
    /\ waiting' = [waiting EXCEPT ![j] = [type \in RecordTypes |-> {Opening(type)}]]
    /\ UNCHANGED <<template, milestone, confirming, read, whole, profiling, won, shared, resolved>>

-----------------------------------------------------------------------------
\* update_milestone: the milestone is locked, the Journey is not.
ReadActive(j, m) ==
    /\ journey[j] = "Active"
    /\ <<j, m>> \notin confirming
    /\ confirming' = confirming \cup {<<j, m>>}
    /\ UNCHANGED <<template, journey, milestone, read, record, whole, profiling, won,
                   waiting, shared, resolved>>

\* Any state may follow any other, and a call may also come to nothing.
ConfirmMilestone(j, m) ==
    /\ <<j, m>> \in confirming
    /\ \E state \in MilestoneStates : milestone' = [milestone EXCEPT ![j][m] = state]
    /\ confirming' = confirming \ {<<j, m>>}
    /\ UNCHANGED <<template, journey, read, record, whole, profiling, won, waiting, shared, resolved>>

\* for_opportunity, before the Journey is locked.
ReadWorkspace(c, j) ==
    /\ journey[j] # "None"
    /\ read[c][j] = NotReading
    /\ read' = [read EXCEPT ![c][j] = [journey |-> journey[j], sale |-> record[j]["Sale"].state]]
    /\ UNCHANGED <<template, journey, milestone, confirming, record, whole, profiling, won,
                   waiting, shared, resolved>>

\* Refused because of what was read, or for want of a reason.
RefuseConclusion(c, j) ==
    /\ read[c][j] # NotReading
    /\ read' = [read EXCEPT ![c][j] = NotReading]
    /\ UNCHANGED <<template, journey, milestone, confirming, record, whole, profiling, won,
                   waiting, shared, resolved>>

CompleteJourney(c, j) ==
    /\ read[c][j].journey = "Active"
    /\ \A m \in Milestones : milestone[j][m] = "Finished"
    /\ journey' = [journey EXCEPT ![j] = "Completed"]
    /\ read' = [read EXCEPT ![c][j] = NotReading]
    /\ UNCHANGED <<template, milestone, confirming, record, whole, profiling, won,
                   waiting, shared, resolved>>

CancelJourney(c, j) ==
    /\ read[c][j].journey = "Active"
    /\ journey' = [journey EXCEPT ![j] = "Cancelled"]
    /\ IF read[c][j].sale = "Completed"
       THEN UNCHANGED <<record, waiting>>
       ELSE Revise(j, "Sale", "Cancelled")
    /\ read' = [read EXCEPT ![c][j] = NotReading]
    /\ UNCHANGED <<template, milestone, confirming, whole, profiling, won, shared, resolved>>

-----------------------------------------------------------------------------
\* update_profile looks at the sale without locking it.
ReadOpenSale(j) ==
    /\ journey[j] # "None"
    /\ record[j]["Sale"].state # "Completed"
    /\ profiling' = profiling \cup {j}
    /\ UNCHANGED <<template, journey, milestone, confirming, read, record, whole, won,
                   waiting, shared, resolved>>

UpdateProfile(j) ==
    /\ j \in profiling
    /\ profiling' = profiling \ {j}
    /\ Revise(j, "Profile", "Recorded")
    /\ UNCHANGED <<template, journey, milestone, confirming, read, whole, won, shared, resolved>>

\* The Journey and the sale are locked.
UpdateSale(j) ==
    /\ journey[j] # "None"
    /\ record[j]["Sale"].state \notin {"Completed", "Cancelled"}
    /\ \E has \in BOOLEAN : whole' = [whole EXCEPT ![j] = has]
    /\ Revise(j, "Sale", record[j]["Sale"].state)
    /\ UNCHANGED <<template, journey, milestone, confirming, read, profiling, won, shared, resolved>>

\* complete_for_won, in the transaction that makes the Opportunity Won.  A
\* sale that was cancelled is not refused.
CompleteForWon(j) ==
    /\ journey[j] # "None"
    /\ ~won[j]
    /\ whole[j]
    /\ won' = [won EXCEPT ![j] = TRUE]
    /\ Revise(j, "Sale", "Completed")
    /\ UNCHANGED <<template, journey, milestone, confirming, read, whole, profiling, shared, resolved>>

-----------------------------------------------------------------------------
\* MarketProjector.drain, one contribution: an older version is passed over.
\* One that is not projected becomes Failed and waits as before.
Project(j, type, contribution) ==
    /\ contribution \in waiting[j][type]
    /\ shared' = IF Newer(contribution, shared[j][type])
                 THEN [shared EXCEPT ![j][type] = contribution]
                 ELSE shared
    /\ waiting' = [waiting EXCEPT ![j][type] = @ \ {contribution}]
    /\ UNCHANGED <<template, journey, milestone, confirming, read, record, whole, profiling,
                   won, resolved>>

\* The other contributions come from other Organizations.
ResolveDuplicate(j) ==
    /\ shared[j]["Sale"].state = "Completed"
    /\ j \notin resolved
    /\ resolved' = resolved \cup {j}
    /\ UNCHANGED <<template, journey, milestone, confirming, read, record, whole, profiling,
                   won, waiting, shared>>

-----------------------------------------------------------------------------
JourneyInit ==
    /\ template = [v \in Versions |-> "None"]
    /\ journey = [j \in Journeys |-> "None"]
    /\ milestone = [j \in Journeys |-> [m \in Milestones |-> "Open"]]
    /\ confirming = {}
    /\ read = [c \in Conclusions |-> [j \in Journeys |-> NotReading]]
    /\ record = [j \in Journeys |-> [type \in RecordTypes |-> Absent]]
    /\ whole = [j \in Journeys |-> FALSE]
    /\ profiling = {}
    /\ won = [j \in Journeys |-> FALSE]
    /\ waiting = [j \in Journeys |-> [type \in RecordTypes |-> {}]]
    /\ shared = [j \in Journeys |-> [type \in RecordTypes |-> Absent]]
    /\ resolved = {}

ConclusionStep(c, j) ==
    \/ ReadWorkspace(c, j) \/ RefuseConclusion(c, j)
    \/ CompleteJourney(c, j) \/ CancelJourney(c, j)

RecordStep(j) ==
    \/ ReadOpenSale(j) \/ UpdateProfile(j) \/ UpdateSale(j) \/ CompleteForWon(j)
    \/ \E type \in RecordTypes : \E contribution \in waiting[j][type] : Project(j, type, contribution)
    \/ ResolveDuplicate(j)

JourneyNext ==
    \/ CreateDraft
    \/ \E v \in Versions : Approve(v)
    \/ \E j \in Journeys :
          \/ Start(j)
          \/ \E m \in Milestones : ReadActive(j, m) \/ ConfirmMilestone(j, m)
          \/ \E c \in Conclusions : ConclusionStep(c, j)
          \/ RecordStep(j)

JourneySpec == JourneyInit /\ [][JourneyNext]_journeyVars

-----------------------------------------------------------------------------
(***************************************************************************)
(* Properties.                                                             *)
(***************************************************************************)

\* The variables have the shape of the rows they stand for.
JourneyTypeOK ==
    /\ template \in [Versions -> {"None", "Draft", "Approved", "Superseded"}]
    /\ journey \in [Journeys -> {"None", "Active", "Completed", "Cancelled"}]
    /\ milestone \in [Journeys -> [Milestones -> MilestoneStates]]
    /\ confirming \subseteq Journeys \X Milestones
    /\ won \in [Journeys -> BOOLEAN] /\ whole \in [Journeys -> BOOLEAN]
    /\ profiling \subseteq Journeys /\ resolved \subseteq Journeys
    /\ \A j \in Journeys, type \in RecordTypes :
          /\ record[j][type].version \in 0..MaxVersions
          /\ shared[j][type].version \in 0..MaxVersions

\* Whatever the order in which the contributions were taken: when none of a
\* record waits, the shared dataset has its current content.
DatasetCatchesUp ==
    \A j \in Journeys, type \in RecordTypes :
        waiting[j][type] = {} => shared[j][type] = record[j][type]

\* What conclude says when it refuses: a Journey is only closed once every
\* milestone is completed or left out for a reason.
CompletedJourneysAreWhole ==
    \A j \in Journeys : journey[j] = "Completed" =>
        \A m \in Milestones : milestone[j][m] = "Finished"

\* ADR-0058: an Opportunity that is Won keeps its completed sale.
WonSaleStaysCompleted ==
    \A j \in Journeys : won[j] => record[j]["Sale"].state = "Completed"

\* What update_profile and update_sale say when they refuse: a completed sale
\* is only corrected in the database.
CompletedProfilesAreFrozen ==
    [][\A j \in Journeys : record[j]["Sale"].state = "Completed" =>
            record'[j]["Profile"] = record[j]["Profile"]]_journeyVars
=============================================================================
