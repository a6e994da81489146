--------------------------- MODULE CommercialWork ---------------------------
(***************************************************************************)
(* Opportunities (domain/commercial/opportunities.py), who is responsible  *)
(* for them (assignment.py), what is owed on them (next_actions.py) and    *)
(* the team that works them (team.py).                                     *)
(*                                                                         *)
(* Every command locks the row of its Opportunity, and so is one action.   *)
(* Three are two steps.  The rows of the team are read without a lock      *)
(* while an Advisor is chosen.  A deactivation locks one member and counts *)
(* the others.  A completion reads its action before it locks anything,    *)
(* and keeps the object it read: the locking query that follows returns    *)
(* the row and leaves the loaded object as it is.                          *)
(*                                                                         *)
(* A command repeated with its key changes nothing and is left out, as are *)
(* the evidence and the wording of outcomes; whether the need of a Contact *)
(* qualifies is a free choice.                                             *)
(*                                                                         *)
(* A definition named Slip... is the one below it with a plausible bug.    *)
(***************************************************************************)
EXTENDS Naturals, FiniteSets

CONSTANTS
    Opportunities,
    Members,
    Administrators,     \* members with the role Administrator
    Advising,           \* members who may own work
    NoMember,
    MaxTeamCommands     \* bound: commands about the team

ASSUME WorkAssumption ==
    /\ Administrators \subseteq Members
    /\ Advising \subseteq Members
    /\ NoMember \notin Members
    /\ MaxTeamCommands \in Nat

VARIABLES
    stage,         \* opportunities.stage; "None" before it is opened
    responsible,   \* the open assignment, responsible_advisor_id
    queued,        \* reason of the open assignment_queue_entries row
    owed,          \* responsible_member_id of the Pending next action
    excused,       \* an opportunity_exceptions row is open
    choosing,      \* the command that holds the row while it reads the team
    reporting,     \* what a completion under way has read: the action that is
                   \* still Pending ("Current") or one closed since ("Past")
    active,        \* organization_members.active
    leaving,       \* deactivations that passed their check, not committed
    fallback,      \* the member with is_default_advisor
    away,          \* members with an absence in force
    primary,       \* the primary expert of the Property
    backups,       \* its backup experts
    alerted,       \* members whose deactivation raised an alert
    review,        \* the work that alert names
    teamCommands   \* commands about the team so far

opportunityVars == <<stage, responsible, queued, owed, excused, choosing, reporting>>
teamVars == <<active, leaving, fallback, away, primary, backups, alerted, review, teamCommands>>
workVars == <<stage, responsible, queued, owed, excused, choosing, reporting,
              active, leaving, fallback, away, primary, backups, alerted, review, teamCommands>>

QUALIFIED_OR_BEYOND == {"Qualified", "Searching", "Visiting", "Negotiating"}
ACTIVE_STAGES == {"New", "InConversation"} \cup QUALIFIED_OR_BEYOND
TERMINAL_STAGES == {"Won", "Lost", "Dormant"}
Stages == ACTIVE_STAGES \cup TERMINAL_STAGES

ALLOWED_TRANSITIONS ==
    [from \in Stages |->
        CASE from = "New"            -> {"InConversation", "Qualified", "Lost", "Dormant"}
          [] from = "InConversation" -> {"Qualified", "Lost", "Dormant"}
          [] from = "Qualified"      -> (QUALIFIED_OR_BEYOND \cup TERMINAL_STAGES) \ {"Qualified"}
          [] from = "Searching"      -> {"Visiting", "Negotiating"} \cup TERMINAL_STAGES
          [] from = "Visiting"       -> {"Searching", "Negotiating"} \cup TERMINAL_STAGES
          [] from = "Negotiating"    -> {"Visiting"} \cup TERMINAL_STAGES
          [] from = "Dormant"        -> {"InConversation", "Qualified", "Searching", "Visiting", "Lost"}
          [] OTHER                   -> {}]

QueueReasons == {"NoEligibleAdvisor", "DefaultAdvisorInactive", "EveryCandidateAbsent"}

Idle == [to |-> "None", plan |-> FALSE, pick |-> NoMember]

\* A chosen Advisor, or the reason nobody was found; to is the stage the
\* command moves to and plan tells whether it brings a first next action.
AdvisorChoices == [to : Stages, plan : BOOLEAN, pick : Members \cup QueueReasons]

Legal(o, to) == stage[o] # "None" /\ to \in ALLOWED_TRANSITIONS[stage[o]]

\* The row of the Opportunity is not locked by another command.
Unlocked(o) == choosing[o] = Idle

-----------------------------------------------------------------------------
(***************************************************************************)
(* Who the rule chooses.                                                   *)
(***************************************************************************)

Present(m) == m \in active \cap Advising /\ m \notin away

PresentBackups == {m \in backups : Present(m)}

\* An expert who could own work stayed out because of an absence.
ExpertAway == \E m \in backups \cup {primary} : m \in active \cap Advising

\* Backups have ranks; which present one comes first is a free choice.
Candidates ==
    CASE Present(primary) -> {primary}
      [] ~Present(primary) /\ PresentBackups # {} -> PresentBackups
      [] ~Present(primary) /\ PresentBackups = {} ->
            CASE fallback = NoMember ->
                    {IF ExpertAway THEN "EveryCandidateAbsent" ELSE "NoEligibleAdvisor"}
              [] fallback # NoMember /\ fallback \notin active -> {"DefaultAdvisorInactive"}
              [] fallback \in active /\ ~Present(fallback) -> {"EveryCandidateAbsent"}
              [] OTHER -> {fallback}

\* An existing Responsible Advisor is preserved, whoever is away.
Picks(o) == IF responsible[o] # NoMember THEN {responsible[o]} ELSE Candidates

Queue(o, reason) ==
    queued' = [queued EXCEPT ![o] = IF @ = "None" THEN reason ELSE @]

\* The entry stays open when somebody is attached.
SlipAttachKeepsEntry(o, pick) ==
    /\ responsible' = [responsible EXCEPT ![o] = pick]
    /\ UNCHANGED queued

\* _attach, _sync_column and _resolve_queue_entry.
Attach(o, pick) ==
    /\ responsible' = [responsible EXCEPT ![o] = pick]
    /\ queued' = [queued EXCEPT ![o] = "None"]

-----------------------------------------------------------------------------
(***************************************************************************)
(* Opportunities.                                                          *)
(***************************************************************************)

Open(o) ==
    /\ stage[o] = "None"
    /\ stage' = [stage EXCEPT ![o] = "New"]
    /\ UNCHANGED <<responsible, queued, owed, excused, choosing, reporting>>
    /\ UNCHANGED teamVars

\* The Contact writes, or a member says that they talked.
Converse(o) ==
    /\ Unlocked(o)
    /\ Legal(o, "InConversation")
    /\ stage' = [stage EXCEPT ![o] = "InConversation"]
    /\ UNCHANGED <<responsible, queued, owed, excused, choosing, reporting>>
    /\ UNCHANGED teamVars

\* AdvanceStage to Qualified or beyond, up to the choice of an Advisor.
Qualify(o, to, plan) ==
    /\ Unlocked(o)
    /\ to \in QUALIFIED_OR_BEYOND
    /\ Legal(o, to)
    /\ \E pick \in Picks(o) :
          choosing' = [choosing EXCEPT ![o] = [to |-> to, plan |-> plan, pick |-> pick]]
    /\ UNCHANGED <<stage, responsible, queued, owed, excused, reporting>>
    /\ UNCHANGED teamVars

\* Assignment.assign asked for by itself.
AskForAdvisor(o) ==
    /\ Unlocked(o)
    /\ stage[o] # "None"
    /\ \E pick \in Picks(o) :
          choosing' = [choosing EXCEPT ![o] = [to |-> stage[o], plan |-> FALSE, pick |-> pick]]
    /\ UNCHANGED <<stage, responsible, queued, owed, excused, reporting>>
    /\ UNCHANGED teamVars

\* Assignment.assign_manually.
NameAdvisor(o, m) ==
    /\ Unlocked(o)
    /\ stage[o] # "None"
    /\ Present(m)
    /\ choosing' = [choosing EXCEPT ![o] = [to |-> stage[o], plan |-> FALSE, pick |-> m]]
    /\ UNCHANGED <<stage, responsible, queued, owed, excused, reporting>>
    /\ UNCHANGED teamVars

\* The pending action becomes the one owed by m, or none for NoMember; a
\* completion that has read it has read the past.
Owe(o, m) ==
    /\ owed' = [owed EXCEPT ![o] = m]
    /\ reporting' = [reporting EXCEPT ![o] = IF @ = "None" THEN @ ELSE "Past"]

\* The coverage of a newly qualified Opportunity depends on its history.
SlipCoverageOnlyFirst(o, c) ==
    IF stage[o] \in {"New", "InConversation"} /\ c.to \in QUALIFIED_OR_BEYOND
    THEN /\ Owe(o, IF c.plan /\ c.pick \in Members THEN c.pick ELSE NoMember)
         /\ excused' = [excused EXCEPT ![o] = ~(c.plan /\ c.pick \in Members)]
    ELSE UNCHANGED <<owed, excused, reporting>>

\* What a command that enters the qualified stages leaves to be done: the
\* planned action if somebody owns it, otherwise an exception.
Cover(o, c) ==
    IF stage[o] \notin QUALIFIED_OR_BEYOND /\ c.to \in QUALIFIED_OR_BEYOND
    THEN /\ Owe(o, IF c.plan /\ c.pick \in Members THEN c.pick ELSE NoMember)
         /\ excused' = [excused EXCEPT ![o] = ~(c.plan /\ c.pick \in Members)]
    ELSE UNCHANGED <<owed, excused, reporting>>

\* The first action of a preserved owner who was deactivated is refused; a
\* member chosen by this command is still the active one it has loaded.
OwnerHasLeft(o, c) ==
    /\ stage[o] \notin QUALIFIED_OR_BEYOND
    /\ c.to \in QUALIFIED_OR_BEYOND
    /\ c.plan
    /\ c.pick \in Members \ active
    /\ responsible[o] = c.pick

CommitChoice(o) ==
    /\ choosing[o] # Idle
    /\ LET c == choosing[o] IN
          /\ ~OwnerHasLeft(o, c)
          /\ stage' = [stage EXCEPT ![o] = c.to]
          /\ IF c.pick \in Members
             THEN Attach(o, c.pick)
             ELSE Queue(o, c.pick) /\ UNCHANGED responsible
          /\ Cover(o, c)
    /\ choosing' = [choosing EXCEPT ![o] = Idle]
    /\ UNCHANGED teamVars

\* A command that fails is rolled back as a whole.
RollBack(o) ==
    /\ choosing[o] # Idle
    /\ choosing' = [choosing EXCEPT ![o] = Idle]
    /\ UNCHANGED <<stage, responsible, queued, owed, excused, reporting>>
    /\ UNCHANGED teamVars

\* RecordWon, RecordLost and RecordDormant.
Conclude(o, to) ==
    /\ Unlocked(o)
    /\ to \in TERMINAL_STAGES
    /\ Legal(o, to)
    /\ stage' = [stage EXCEPT ![o] = to]
    /\ Owe(o, NoMember)
    /\ excused' = [excused EXCEPT ![o] = FALSE]
    /\ UNCHANGED <<responsible, queued, choosing>>
    /\ UNCHANGED teamVars

\* Assignment.release: an active Opportunity goes back to the queue, and a
\* qualified one is excused.
Release(o) ==
    /\ Unlocked(o)
    /\ responsible[o] # NoMember
    /\ responsible' = [responsible EXCEPT ![o] = NoMember]
    /\ IF stage[o] \in ACTIVE_STAGES THEN Queue(o, "NoEligibleAdvisor") ELSE UNCHANGED queued
    /\ IF stage[o] \in QUALIFIED_OR_BEYOND
       THEN /\ Owe(o, NoMember)
            /\ excused' = [excused EXCEPT ![o] = TRUE]
       ELSE UNCHANGED <<owed, excused, reporting>>
    /\ UNCHANGED <<stage, choosing>>
    /\ UNCHANGED teamVars

RecordException(o) ==
    /\ Unlocked(o)
    /\ stage[o] # "None"
    /\ Owe(o, NoMember)
    /\ excused' = [excused EXCEPT ![o] = TRUE]
    /\ UNCHANGED <<stage, responsible, queued, choosing>>
    /\ UNCHANGED teamVars

ClearException(o) ==
    /\ Unlocked(o)
    /\ excused[o]
    /\ stage[o] \in QUALIFIED_OR_BEYOND => owed[o] # NoMember
    /\ excused' = [excused EXCEPT ![o] = FALSE]
    /\ UNCHANGED <<stage, responsible, queued, owed, choosing, reporting>>
    /\ UNCHANGED teamVars

\* NextActions.schedule; the action pending before it is superseded.
Schedule(o, m) ==
    /\ Unlocked(o)
    /\ stage[o] \in ACTIVE_STAGES
    /\ m \in active
    /\ Owe(o, m)
    /\ excused' = [excused EXCEPT ![o] = FALSE]
    /\ UNCHANGED <<stage, responsible, queued, choosing>>
    /\ UNCHANGED teamVars

\* A completion reads its action, without any lock.
ReadAction(o) ==
    /\ owed[o] # NoMember
    /\ reporting[o] = "None"
    /\ reporting' = [reporting EXCEPT ![o] = "Current"]
    /\ UNCHANGED <<stage, responsible, queued, owed, excused, choosing>>
    /\ UNCHANGED teamVars

\* NextActions.complete, with the locks.  The status it checks is the one it
\* has read, so an action closed since is completed once more and the one
\* that replaced it stays.  Only one exception may be open.
Complete(o) ==
    /\ Unlocked(o)
    /\ reporting[o] # "None"
    /\ reporting' = [reporting EXCEPT ![o] = "None"]
    /\ IF stage[o] \in QUALIFIED_OR_BEYOND /\ excused[o]
       THEN UNCHANGED <<owed, excused>>
       ELSE /\ owed' = [owed EXCEPT ![o] = IF reporting[o] = "Current" THEN NoMember ELSE @]
            /\ excused' = [excused EXCEPT ![o] = @ \/ stage[o] \in QUALIFIED_OR_BEYOND]
    /\ UNCHANGED <<stage, responsible, queued, choosing>>
    /\ UNCHANGED teamVars

-----------------------------------------------------------------------------
(***************************************************************************)
(* The team.  Every command needs an active Administrator.                 *)
(***************************************************************************)

TeamCommand ==
    /\ active \cap Administrators # {}
    /\ teamCommands < MaxTeamCommands
    /\ teamCommands' = teamCommands + 1
    /\ UNCHANGED opportunityVars

\* The open work that is in the name of a member.
WorkOf(m) == {o \in Opportunities : responsible[o] = m /\ stage[o] \in ACTIVE_STAGES}

\* The row of m is locked, the other Administrators are counted unlocked.
StartDeactivation(m) ==
    /\ TeamCommand
    /\ m \in active \ leaving
    /\ m \in Administrators => active \cap Administrators # {m}
    /\ leaving' = leaving \cup {m}
    /\ UNCHANGED <<active, fallback, away, primary, backups, alerted, review>>

\* The fallback stays the fallback.
SlipDeactivationKeepsFallback(m) ==
    /\ m \in leaving
    /\ leaving' = leaving \ {m}
    /\ active' = active \ {m}
    /\ alerted' = alerted \cup {m}
    /\ review' = [review EXCEPT ![m] = IF m \in alerted THEN @ ELSE WorkOf(m)]
    /\ UNCHANGED opportunityVars
    /\ UNCHANGED <<fallback, away, primary, backups, teamCommands>>

\* The alert is raised under the key of the member, so an alert that exists
\* is kept as it is.
FinishDeactivation(m) ==
    /\ m \in leaving
    /\ leaving' = leaving \ {m}
    /\ active' = active \ {m}
    /\ fallback' = IF fallback = m THEN NoMember ELSE fallback
    /\ alerted' = alerted \cup {m}
    /\ review' = [review EXCEPT ![m] = IF m \in alerted THEN @ ELSE WorkOf(m)]
    /\ UNCHANGED opportunityVars
    /\ UNCHANGED <<away, primary, backups, teamCommands>>

Reactivate(m) ==
    /\ TeamCommand
    /\ m \in Members \ active
    /\ active' = active \cup {m}
    /\ UNCHANGED <<leaving, fallback, away, primary, backups, alerted, review>>

\* Locks the rows of the outgoing and of the new fallback.
SetFallback(m) ==
    /\ TeamCommand
    /\ fallback \notin leaving
    /\ m # NoMember => m \in (active \cap Advising) \ leaving
    /\ m # fallback
    /\ fallback' = m
    /\ UNCHANGED <<active, leaving, away, primary, backups, alerted, review>>

StartAbsence(m) ==
    /\ TeamCommand
    /\ m \in (active \cap Advising) \ leaving
    /\ m \notin away
    /\ away' = away \cup {m}
    /\ UNCHANGED <<active, leaving, fallback, primary, backups, alerted, review>>

\* An Administrator ends it, or its time is over.
AbsenceEnds(m) ==
    /\ m \in away
    /\ away' = away \ {m}
    /\ UNCHANGED opportunityVars
    /\ UNCHANGED <<active, leaving, fallback, primary, backups, alerted, review, teamCommands>>

\* A new primary displaces the old one; a member has one designation.
DesignateExpert(m, asPrimary) ==
    /\ TeamCommand
    /\ m \in (active \cap Advising) \ leaving
    /\ primary' = IF asPrimary THEN m ELSE IF primary = m THEN NoMember ELSE primary
    /\ backups' = IF asPrimary THEN backups \ {m} ELSE backups \cup {m}
    /\ <<primary', backups'>> # <<primary, backups>>
    /\ UNCHANGED <<active, leaving, fallback, away, alerted, review>>

RevokeExpert(m) ==
    /\ TeamCommand
    /\ m \in backups \cup {primary}
    /\ m \in Members
    /\ primary' = IF primary = m THEN NoMember ELSE primary
    /\ backups' = backups \ {m}
    /\ UNCHANGED <<active, leaving, fallback, away, alerted, review>>

-----------------------------------------------------------------------------
WorkInit ==
    /\ stage = [o \in Opportunities |-> "None"]
    /\ responsible = [o \in Opportunities |-> NoMember]
    /\ queued = [o \in Opportunities |-> "None"]
    /\ owed = [o \in Opportunities |-> NoMember]
    /\ excused = [o \in Opportunities |-> FALSE]
    /\ choosing = [o \in Opportunities |-> Idle]
    /\ reporting = [o \in Opportunities |-> "None"]
    /\ active = Members
    /\ leaving = {}
    /\ fallback = NoMember
    /\ away = {}
    /\ primary = NoMember
    /\ backups = {}
    /\ alerted = {}
    /\ review = [m \in Members |-> {}]
    /\ teamCommands = 0

OpportunityStep(o) ==
    \/ Open(o)
    \/ Converse(o)
    \/ \E to \in QUALIFIED_OR_BEYOND, plan \in BOOLEAN : Qualify(o, to, plan)
    \/ AskForAdvisor(o)
    \/ \E m \in Members : NameAdvisor(o, m)
    \/ CommitChoice(o)
    \/ RollBack(o)
    \/ \E to \in TERMINAL_STAGES : Conclude(o, to)
    \/ Release(o)
    \/ RecordException(o)
    \/ ClearException(o)
    \/ \E m \in Members : Schedule(o, m)
    \/ ReadAction(o)
    \/ Complete(o)

TeamStep(m) ==
    \/ StartDeactivation(m)
    \/ FinishDeactivation(m)
    \/ Reactivate(m)
    \/ SetFallback(m)
    \/ StartAbsence(m)
    \/ AbsenceEnds(m)
    \/ \E asPrimary \in BOOLEAN : DesignateExpert(m, asPrimary)
    \/ RevokeExpert(m)

WorkNext ==
    \/ \E o \in Opportunities : OpportunityStep(o)
    \/ \E m \in Members : TeamStep(m)
    \/ SetFallback(NoMember)

WorkSpec == WorkInit /\ [][WorkNext]_workVars

-----------------------------------------------------------------------------
(***************************************************************************)
(* Properties.                                                             *)
(***************************************************************************)

\* The variables have the shape of the rows they stand for.
WorkTypeOK ==
    /\ stage \in [Opportunities -> Stages \cup {"None"}]
    /\ responsible \in [Opportunities -> Members \cup {NoMember}]
    /\ queued \in [Opportunities -> QueueReasons \cup {"None"}]
    /\ owed \in [Opportunities -> Members \cup {NoMember}]
    /\ excused \in [Opportunities -> BOOLEAN]
    /\ choosing \in [Opportunities -> AdvisorChoices \cup {Idle}]
    /\ reporting \in [Opportunities -> {"None", "Current", "Past"}]
    /\ active \subseteq Members
    /\ leaving \subseteq active
    /\ fallback \in Members \cup {NoMember}
    /\ away \subseteq Members
    /\ primary \in Members \cup {NoMember}
    /\ backups \subseteq Members
    /\ alerted \subseteq Members
    /\ review \in [Members -> SUBSET Opportunities]
    /\ teamCommands \in 0 .. MaxTeamCommands

\* A qualified Opportunity always has something to be done on it or a reason
\* why not, and nothing is owed on one that is paused or concluded: whatever
\* sequence of schedules, completions, exceptions, pauses and releases led to
\* it, and whatever a completion had read before.
OwedWhileActive ==
    \A o \in Opportunities :
        /\ stage[o] \in QUALIFIED_OR_BEYOND => owed[o] # NoMember \/ excused[o]
        /\ stage[o] \notin ACTIVE_STAGES => owed[o] = NoMember

\* What the comment in NextActions.schedule concludes: an exception means
\* that no action is owed, so a qualified Opportunity never has both.
CoverageDoesNotOverlap ==
    \A o \in Opportunities :
        stage[o] \in QUALIFIED_OR_BEYOND => ~(owed[o] # NoMember /\ excused[o])

\* A qualified Opportunity is in the Assignment Queue exactly while nobody is
\* responsible for it.
QueueMatchesOwnership ==
    \A o \in Opportunities :
        stage[o] \in QUALIFIED_OR_BEYOND =>
            (responsible[o] = NoMember <=> queued[o] # "None")

\* The member the rule falls back on can own work, also while members are
\* being deactivated.
FallbackCanOwnWork ==
    fallback # NoMember => fallback \in active \cap Advising

\* Whatever has to be done has somebody to do it, whichever of Maia, the
\* Contact, the Advisors and the Administrators moved last.
WorkIsAccountedFor == OwedWhileActive /\ QueueMatchesOwnership /\ FallbackCanOwnWork

\* What the alert of team.py promises: each time a member is deactivated,
\* the open work left in their name is named in an alert.
DeparturesAreReviewed ==
    [][\A m \in Members :
          m \in active /\ m \notin active' => WorkOf(m) \subseteq review'[m]]_workVars

\* What team.py refuses: an Organization without an active Administrator.
AnAdministratorRemains == active \cap Administrators # {}
=============================================================================
