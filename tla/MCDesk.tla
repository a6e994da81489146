------------------------------- MODULE MCDesk -------------------------------
(***************************************************************************)
(* What the operation keeps beside its Conversations, side by side.  A     *)
(* behaviour is one of the component "part"; the others stay as they       *)
(* begin, for no two of them share a row.                                  *)
(***************************************************************************)
EXTENDS PurchaseJourney, SupportAccess, DataLifecycle, OrganizationImport, Entitlements,
        OrganizationSetup, ScheduledContact, Measurement, PropertyIngestion, ContactNeeds,
        VisitDesk, TLC

CONSTANT Parts   \* the components a run explores

ASSUME PartsAssumption ==
    Parts \subseteq {"Journey", "Support", "Lifecycle", "Import", "Plan", "Setup",
                     "Schedule", "Measurement", "Ingestion", "Needs", "Visits"}

VARIABLE part

\* One request for the content and one for everything.
TwoScopes == "d1" :> "OperationalContent" @@ "d2" :> "Everything"

\* Two files that share a key, each with an apply.
TwoFiles == "s1" :> {"k1", "k2"} @@ "s2" :> {"k2"}
ReadBy == "a1" :> "s1" @@ "a2" :> "s2"

\* The third command asks for what the first one asked for.
ThreeLimits == "p1" :> 1 @@ "p2" :> 2 @@ "p3" :> 1

TwoDocuments == "c1" :> "x" @@ "c2" :> "y"

\* Two facts of one day and one of the next.
TwoDays == 1 :> "mon" @@ 2 :> "mon" @@ 3 :> "tue"

\* Three documents of one Property and one of another.
OneKeyOften == "o1" :> "x" @@ "o2" :> "x" @@ "o3" :> "y" @@ "o4" :> "x"

\* Maia claims, then infers otherwise, and somebody confirms.
ThreeKinds == "n1" :> "Claimed" @@ "n2" :> "Inferred" @@ "n3" :> "Confirm"
OneName == [t \in {"n1", "n2", "n3"} |-> "intent"]
TwoValues == "n1" :> "Buy" @@ "n2" :> "Rent" @@ "n3" :> "Rent"
OneExcerpt == [t \in {"n1", "n2", "n3"} |-> "m1"]

\* A booking, its reschedule, and the reschedule back.
AskedFor == "k1" :> "s1" @@ "k2" :> "s2" @@ "k3" :> "s1"
BookThenMove == "k1" :> NoCall @@ "k2" :> "k1" @@ "k3" :> "k2"

others(own) ==
    /\ "Journey" # own => UNCHANGED journeyVars
    /\ "Support" # own => UNCHANGED supportVars
    /\ "Lifecycle" # own => UNCHANGED lifecycleVars
    /\ "Import" # own => UNCHANGED importVars
    /\ "Plan" # own => UNCHANGED entitlementVars
    /\ "Setup" # own => UNCHANGED setupVars
    /\ "Schedule" # own => UNCHANGED scheduleVars
    /\ "Measurement" # own => UNCHANGED measureVars
    /\ "Ingestion" # own => UNCHANGED ingestionVars
    /\ "Needs" # own => UNCHANGED needVars
    /\ "Visits" # own => UNCHANGED agendaVars
    /\ UNCHANGED part

DeskInit ==
    /\ part \in Parts
    /\ JourneyInit /\ SupportInit /\ LifecycleInit /\ ImportInit /\ EntitlementInit
    /\ SetupInit /\ ScheduleInit /\ MeasureInit /\ IngestionInit /\ NeedsInit /\ VisitInit
    \* Only the part that moves chooses among its initial states.
    /\ part # "Setup" => material = References
    \* The two Advisors are alike.
    /\ rule = "a1"

DeskNext ==
    \/ part = "Journey" /\ JourneyNext /\ others("Journey")
    \/ part = "Support" /\ SupportNext /\ others("Support")
    \/ part = "Lifecycle" /\ LifecycleNext /\ others("Lifecycle")
    \/ part = "Import" /\ ImportNext /\ others("Import")
    \/ part = "Plan" /\ EntitlementNext /\ others("Plan")
    \/ part = "Setup" /\ SetupNext /\ others("Setup")
    \/ part = "Schedule" /\ ScheduleNext /\ others("Schedule")
    \/ part = "Measurement" /\ MeasureNext /\ others("Measurement")
    \/ part = "Ingestion" /\ IngestionNext /\ others("Ingestion")
    \/ part = "Needs" /\ NeedsNext /\ others("Needs")
    \/ part = "Visits" /\ VisitNext /\ others("Visits")

DeskSpec == DeskInit /\ [][DeskNext]_<<part, journeyVars, supportVars, lifecycleVars, importVars,
                 entitlementVars, setupVars, scheduleVars, measureVars, ingestionVars, needVars, agendaVars>>

\* The type invariant of every component.
DeskTypeOK ==
    /\ part \in Parts
    /\ JourneyTypeOK /\ SupportTypeOK /\ LifecycleTypeOK /\ ImportTypeOK /\ EntitlementTypeOK
    /\ SetupTypeOK /\ ScheduleTypeOK /\ MeasureTypeOK
    /\ IngestionTypeOK /\ NeedsTypeOK /\ VisitTypeOK
=============================================================================
