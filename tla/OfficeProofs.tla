---------------------------- MODULE OfficeProofs ----------------------------
(***************************************************************************)
(* Proofs about the components of the office: the commercial work, the     *)
(* administration channel, the photographs of a Listing, the website, the  *)
(* provisioning of Organizations, the external inventory, the catalog,     *)
(* sponsorship, the Broker's notices and saved collections; each for any   *)
(* constants that its module allows.                                       *)
(***************************************************************************)
EXTENDS CommercialWork, AdminChannel, ListingMedia, WebsiteChat, Provisioning,
        ExternalInventory, Catalog, Sponsorship, BrokerNotices, SavedCollections,
        FiniteSetTheorems, TLAPS

-----------------------------------------------------------------------------
(***************************************************************************)
(* Commercial work.  What is promised about the owner of an Opportunity    *)
(* and its entry in the queue is kept by a command that has chosen,        *)
(* perhaps long ago, from a team it did not lock.  The invariant therefore *)
(* says what such a command may still rely on: its own Opportunity has not *)
(* moved, and if it found nobody then nobody is responsible.               *)
(***************************************************************************)

\* A command that holds the row of o has read what is still so.
ChoiceIsCurrent(o) ==
    choosing[o] # Idle =>
        /\ stage[o] # "None"
        /\ choosing[o].to = stage[o] \/ choosing[o].to \in QUALIFIED_OR_BEYOND
        /\ choosing[o].pick \notin Members => responsible[o] = NoMember

\* What the invariant says of one Opportunity.
Sound(o) ==
    /\ stage[o] \in QUALIFIED_OR_BEYOND => owed[o] # NoMember \/ excused[o]
    /\ stage[o] \notin ACTIVE_STAGES => owed[o] = NoMember
    /\ stage[o] \in QUALIFIED_OR_BEYOND => (responsible[o] = NoMember <=> queued[o] # "None")
    /\ ChoiceIsCurrent(o)

WorkInv ==
    /\ WorkTypeOK
    /\ \A o \in Opportunities : Sound(o)
    /\ FallbackCanOwnWork

\* The columns of an Opportunity have their types.
RowsOK ==
    /\ stage \in [Opportunities -> Stages \cup {"None"}]
    /\ responsible \in [Opportunities -> Members \cup {NoMember}]
    /\ queued \in [Opportunities -> QueueReasons \cup {"None"}]
    /\ owed \in [Opportunities -> Members \cup {NoMember}]
    /\ excused \in [Opportunities -> BOOLEAN]
    /\ choosing \in [Opportunities -> AdvisorChoices \cup {Idle}]
    /\ reporting \in [Opportunities -> {"None", "Current", "Past"}]

\* A step about o leaves the others alone.
OthersStay(o) ==
    \A p \in Opportunities \ {o} :
        /\ stage'[p] = stage[p] /\ responsible'[p] = responsible[p]
        /\ queued'[p] = queued[p] /\ owed'[p] = owed[p]
        /\ excused'[p] = excused[p] /\ choosing'[p] = choosing[p]

USE DEF QUALIFIED_OR_BEYOND, ACTIVE_STAGES, TERMINAL_STAGES, QueueReasons

-----------------------------------------------------------------------------
\* The rule finds a member, or says why not.
LEMMA RuleAnswers ==
    ASSUME WorkTypeOK, NEW o \in Opportunities, NEW pick \in Picks(o)
    PROVE  /\ pick \in Members \cup QueueReasons
           /\ pick \notin Members => responsible[o] = NoMember
<1>1. Candidates \subseteq Members \cup QueueReasons
  <2>1. \A m : Present(m) => m \in Members
    BY DEF Present, WorkTypeOK
  <2>2. PresentBackups \subseteq Members
    BY <2>1 DEF PresentBackups
  <2>3. fallback \in Members \cup {NoMember}
    BY DEF WorkTypeOK
  <2>4. CASE Present(primary)
    BY <2>4, <2>1 DEF Candidates
  <2>5. CASE ~Present(primary) /\ PresentBackups # {}
    BY <2>5, <2>2 DEF Candidates
  <2>6. CASE ~Present(primary) /\ PresentBackups = {}
    <3>1. CASE fallback = NoMember
      BY <2>6, <3>1, WorkAssumption DEF Candidates, WorkTypeOK
    <3>2. CASE fallback # NoMember /\ fallback \notin active
      BY <2>6, <3>2 DEF Candidates
    <3>3. CASE fallback # NoMember /\ fallback \in active /\ ~Present(fallback)
      BY <2>6, <3>3 DEF Candidates
    <3>4. CASE fallback # NoMember /\ fallback \in active /\ Present(fallback)
      BY <2>6, <3>4, <2>3 DEF Candidates
    <3> QED BY <3>1, <3>2, <3>3, <3>4
  <2> QED BY <2>4, <2>5, <2>6
<1>2. CASE responsible[o] # NoMember
  BY <1>2 DEF Picks, WorkTypeOK
<1>3. CASE responsible[o] = NoMember
  BY <1>1, <1>3 DEF Picks
<1> QED BY <1>2, <1>3

\* A step about one Opportunity needs to be looked at there only.
LEMMA OneRowSuffices ==
    ASSUME WorkInv, NEW o \in Opportunities,
           RowsOK', Sound(o)', OthersStay(o), UNCHANGED teamVars
    PROVE  WorkInv'
<1>1. WorkTypeOK'
  BY DEF WorkInv, WorkTypeOK, RowsOK, teamVars
<1>2. FallbackCanOwnWork'
  BY DEF WorkInv, FallbackCanOwnWork, teamVars
<1>3. ASSUME NEW p \in Opportunities
      PROVE  Sound(p)'
  <2>1. CASE p = o
    BY <2>1
  <2>2. CASE p # o
    BY <2>2 DEF OthersStay, Sound, ChoiceIsCurrent, WorkInv
  <2> QED BY <2>1, <2>2
<1> QED BY <1>1, <1>2, <1>3 DEF WorkInv

-----------------------------------------------------------------------------
\* Reading the team while the row is held.
LEMMA ChoicesPreserve ==
    ASSUME WorkInv, NEW o \in Opportunities,
           \/ \E to \in QUALIFIED_OR_BEYOND, plan \in BOOLEAN : Qualify(o, to, plan)
           \/ AskForAdvisor(o)
           \/ \E m \in Members : NameAdvisor(o, m)
    PROVE  WorkInv'
<1>1. RowsOK
  BY DEF WorkInv, WorkTypeOK, RowsOK
<1>2. PICK to \in Stages, plan \in BOOLEAN, pick \in Members \cup QueueReasons :
         /\ choosing' = [choosing EXCEPT ![o] = [to |-> to, plan |-> plan, pick |-> pick]]
         /\ stage[o] # "None"
         /\ to = stage[o] \/ to \in QUALIFIED_OR_BEYOND
         /\ pick \notin Members => responsible[o] = NoMember
  <2>1. CASE \E to \in QUALIFIED_OR_BEYOND, plan \in BOOLEAN : Qualify(o, to, plan)
    BY <2>1, RuleAnswers DEF Qualify, Legal, Stages, WorkInv
  <2>2. CASE AskForAdvisor(o)
    BY <2>2, <1>1, RuleAnswers DEF AskForAdvisor, WorkInv, RowsOK
  <2>3. CASE \E m \in Members : NameAdvisor(o, m)
    <3>1. PICK m \in Members : NameAdvisor(o, m)
      BY <2>3
    <3>2. /\ choosing' = [choosing EXCEPT ![o] = [to |-> stage[o], plan |-> FALSE, pick |-> m]]
          /\ stage[o] # "None"
      BY <3>1 DEF NameAdvisor
    <3>3. stage[o] \in Stages /\ FALSE \in BOOLEAN /\ m \in Members \cup QueueReasons
      BY <1>1, <3>2 DEF RowsOK
    <3> QED BY <3>2, <3>3
  <2> QED BY <2>1, <2>2, <2>3
<1>3. UNCHANGED <<stage, responsible, queued, owed, excused, reporting>> /\ UNCHANGED teamVars
  BY DEF Qualify, AskForAdvisor, NameAdvisor
<1>4. [to |-> to, plan |-> plan, pick |-> pick] \in AdvisorChoices
  BY DEF AdvisorChoices
<1>5. RowsOK'
  BY <1>1, <1>2, <1>3, <1>4 DEF RowsOK
<1>6. choosing'[o] = [to |-> to, plan |-> plan, pick |-> pick]
  BY <1>1, <1>2 DEF RowsOK
<1>7. Sound(o)'
  BY <1>2, <1>3, <1>6 DEF Sound, ChoiceIsCurrent, WorkInv
<1>8. OthersStay(o)
  BY <1>1, <1>2, <1>3 DEF OthersStay, RowsOK
<1> QED BY <1>3, <1>5, <1>7, <1>8, OneRowSuffices

\* Committing what was chosen.
LEMMA CommitPreserves ==
    ASSUME WorkInv, NEW o \in Opportunities, CommitChoice(o)
    PROVE  WorkInv'
<1> DEFINE c == choosing[o]
           covered == stage[o] \notin QUALIFIED_OR_BEYOND /\ c.to \in QUALIFIED_OR_BEYOND
           planned == c.plan /\ c.pick \in Members
<1>1. RowsOK
  BY DEF WorkInv, WorkTypeOK, RowsOK
<1>2. /\ c # Idle
      /\ c.to \in Stages /\ c.plan \in BOOLEAN /\ c.pick \in Members \cup QueueReasons
      /\ stage[o] # "None"
      /\ c.to = stage[o] \/ c.to \in QUALIFIED_OR_BEYOND
      /\ c.pick \notin Members => responsible[o] = NoMember
  <2>1. c # Idle
    BY DEF CommitChoice
  <2>2. c \in AdvisorChoices
    BY <1>1, <2>1 DEF RowsOK
  <2> QED BY <2>1, <2>2 DEF AdvisorChoices, WorkInv, Sound, ChoiceIsCurrent
<1>3. /\ stage' = [stage EXCEPT ![o] = c.to]
      /\ choosing' = [choosing EXCEPT ![o] = Idle]
      /\ UNCHANGED teamVars
  BY DEF CommitChoice
<1>4. /\ responsible' \in [Opportunities -> Members \cup {NoMember}]
      /\ queued' \in [Opportunities -> QueueReasons \cup {"None"}]
      /\ \A p \in Opportunities \ {o} : responsible'[p] = responsible[p] /\ queued'[p] = queued[p]
      /\ responsible'[o] = NoMember <=> queued'[o] # "None"
  <2>1. CASE c.pick \in Members
    BY <2>1, <1>1, WorkAssumption DEF CommitChoice, Attach, RowsOK
  <2>2. CASE c.pick \notin Members
    BY <2>2, <1>1, <1>2 DEF CommitChoice, Queue, RowsOK
  <2> QED BY <2>1, <2>2
<1>5. CASE covered
  <2>1. /\ owed' = [owed EXCEPT ![o] = IF planned THEN c.pick ELSE NoMember]
        /\ reporting' = [reporting EXCEPT ![o] = IF @ = "None" THEN @ ELSE "Past"]
        /\ excused' = [excused EXCEPT ![o] = ~planned]
    BY <1>5 DEF CommitChoice, Cover, Owe
  <2>2. RowsOK'
    BY <2>1, <1>1, <1>2, <1>3, <1>4 DEF RowsOK
  <2>3. owed'[o] # NoMember \/ excused'[o]
    BY <2>1, <1>1, WorkAssumption DEF RowsOK
  <2>4. Sound(o)'
    BY <1>1, <1>3, <1>4, <1>5, <2>3 DEF Sound, ChoiceIsCurrent, RowsOK
  <2>5. OthersStay(o)
    BY <1>1, <1>3, <1>4, <2>1 DEF OthersStay, RowsOK
  <2> QED BY <2>2, <2>4, <2>5, <1>3, OneRowSuffices
<1>6. CASE ~covered
  <2>1. UNCHANGED <<owed, excused, reporting>>
    BY <1>6 DEF CommitChoice, Cover
  <2>2. RowsOK'
    BY <2>1, <1>1, <1>2, <1>3, <1>4 DEF RowsOK
  <2>3. stage'[o] = c.to /\ choosing'[o] = Idle
    BY <1>1, <1>3 DEF RowsOK
  <2>4. c.to = stage[o] \/ stage[o] \in QUALIFIED_OR_BEYOND
    BY <1>2, <1>6
  <2>5. Sound(o)'
    BY <1>2, <1>4, <2>1, <2>3, <2>4 DEF Sound, ChoiceIsCurrent, WorkInv
  <2>6. OthersStay(o)
    BY <1>1, <1>3, <1>4, <2>1 DEF OthersStay, RowsOK
  <2> QED BY <2>2, <2>5, <2>6, <1>3, OneRowSuffices
<1> QED BY <1>5, <1>6

\* The commands that move the stage or the owner in one step.
LEMMA MovesPreserve ==
    ASSUME WorkInv, NEW o \in Opportunities,
           \/ Open(o) \/ Converse(o) \/ RollBack(o) \/ Release(o)
           \/ \E to \in TERMINAL_STAGES : Conclude(o, to)
    PROVE  WorkInv'
<1>1. RowsOK
  BY DEF WorkInv, WorkTypeOK, RowsOK
<1>2. CASE Open(o)
  <2>1. RowsOK' /\ OthersStay(o)
    BY <1>1, <1>2 DEF Open, RowsOK, OthersStay, Stages
  <2>2. Sound(o)'
    BY <1>1, <1>2 DEF Open, RowsOK, Sound, ChoiceIsCurrent, WorkInv
  <2> QED BY <2>1, <2>2, <1>2, OneRowSuffices DEF Open
<1>3. CASE Converse(o)
  <2>1. RowsOK' /\ OthersStay(o)
    BY <1>1, <1>3 DEF Converse, RowsOK, OthersStay, Stages
  <2>2. Sound(o)'
    BY <1>1, <1>3 DEF Converse, Unlocked, RowsOK, Sound, ChoiceIsCurrent, WorkInv
  <2> QED BY <2>1, <2>2, <1>3, OneRowSuffices DEF Converse
<1>4. CASE RollBack(o)
  <2>1. RowsOK' /\ OthersStay(o)
    BY <1>1, <1>4 DEF RollBack, RowsOK, OthersStay
  <2>2. Sound(o)'
    BY <1>1, <1>4 DEF RollBack, RowsOK, Sound, ChoiceIsCurrent, WorkInv
  <2> QED BY <2>1, <2>2, <1>4, OneRowSuffices DEF RollBack
<1>5. CASE Release(o)
  <2>1. /\ stage' = stage /\ choosing' = choosing /\ choosing[o] = Idle
        /\ responsible' = [responsible EXCEPT ![o] = NoMember]
        /\ UNCHANGED teamVars
    BY <1>5 DEF Release, Unlocked
  <2>2. /\ queued' \in [Opportunities -> QueueReasons \cup {"None"}]
        /\ stage[o] \in QUALIFIED_OR_BEYOND => queued'[o] # "None"
        /\ \A p \in Opportunities \ {o} : queued'[p] = queued[p]
    BY <1>1, <1>5 DEF Release, Queue, RowsOK
  <2>3. /\ owed' \in [Opportunities -> Members \cup {NoMember}]
        /\ excused' \in [Opportunities -> BOOLEAN]
        /\ reporting' \in [Opportunities -> {"None", "Current", "Past"}]
        /\ stage[o] \in QUALIFIED_OR_BEYOND => excused'[o]
        /\ stage[o] \notin QUALIFIED_OR_BEYOND => owed'[o] = owed[o]
        /\ \A p \in Opportunities \ {o} : owed'[p] = owed[p] /\ excused'[p] = excused[p]
    BY <1>1, <1>5 DEF Release, Owe, RowsOK
  <2>4. RowsOK'
    BY <1>1, <2>1, <2>2, <2>3 DEF RowsOK
  <2>5. Sound(o)'
    BY <1>1, <2>1, <2>2, <2>3 DEF RowsOK, Sound, ChoiceIsCurrent, WorkInv
  <2>6. OthersStay(o)
    BY <1>1, <2>1, <2>2, <2>3 DEF RowsOK, OthersStay
  <2> QED BY <2>1, <2>4, <2>5, <2>6, OneRowSuffices
<1>6. CASE \E to \in TERMINAL_STAGES : Conclude(o, to)
  <2>1. PICK to \in TERMINAL_STAGES : Conclude(o, to)
    BY <1>6
  <2>2. RowsOK' /\ OthersStay(o)
    BY <1>1, <2>1 DEF Conclude, Owe, RowsOK, OthersStay, Stages
  <2>3. Sound(o)'
    BY <1>1, <2>1 DEF Conclude, Owe, Unlocked, RowsOK, Sound, ChoiceIsCurrent
  <2> QED BY <2>1, <2>2, <2>3, OneRowSuffices DEF Conclude
<1> QED BY <1>2, <1>3, <1>4, <1>5, <1>6

\* The commands about what is to be done next.
LEMMA ActionsPreserve ==
    ASSUME WorkInv, NEW o \in Opportunities,
           \/ RecordException(o) \/ ClearException(o) \/ ReadAction(o) \/ Complete(o)
           \/ \E m \in Members : Schedule(o, m)
    PROVE  WorkInv'
<1>1. RowsOK
  BY DEF WorkInv, WorkTypeOK, RowsOK
<1>2. CASE RecordException(o)
  <2>1. RowsOK' /\ OthersStay(o)
    BY <1>1, <1>2 DEF RecordException, Owe, RowsOK, OthersStay
  <2>2. Sound(o)'
    BY <1>1, <1>2 DEF RecordException, Owe, RowsOK, Sound, ChoiceIsCurrent, WorkInv
  <2> QED BY <2>1, <2>2, <1>2, OneRowSuffices DEF RecordException
<1>3. CASE ClearException(o)
  <2>1. RowsOK' /\ OthersStay(o)
    BY <1>1, <1>3 DEF ClearException, RowsOK, OthersStay
  <2>2. Sound(o)'
    BY <1>1, <1>3 DEF ClearException, RowsOK, Sound, ChoiceIsCurrent, WorkInv
  <2> QED BY <2>1, <2>2, <1>3, OneRowSuffices DEF ClearException
<1>4. CASE ReadAction(o)
  <2>1. RowsOK' /\ OthersStay(o)
    BY <1>1, <1>4 DEF ReadAction, RowsOK, OthersStay
  <2>2. Sound(o)'
    BY <1>4 DEF ReadAction, Sound, ChoiceIsCurrent, WorkInv
  <2> QED BY <2>1, <2>2, <1>4, OneRowSuffices DEF ReadAction
<1>5. CASE Complete(o)
  <2>1. /\ UNCHANGED <<stage, responsible, queued, choosing>> /\ UNCHANGED teamVars
        /\ reporting' \in [Opportunities -> {"None", "Current", "Past"}]
    BY <1>1, <1>5 DEF Complete, RowsOK
  <2>2. /\ owed' \in [Opportunities -> Members \cup {NoMember}]
        /\ excused' \in [Opportunities -> BOOLEAN]
        /\ owed'[o] = owed[o] \/ owed'[o] = NoMember
        /\ stage[o] \in QUALIFIED_OR_BEYOND => excused'[o]
        /\ \A p \in Opportunities \ {o} : owed'[p] = owed[p] /\ excused'[p] = excused[p]
    <3>1. CASE stage[o] \in QUALIFIED_OR_BEYOND /\ excused[o]
      BY <3>1, <1>1, <1>5 DEF Complete, RowsOK
    <3>2. CASE ~(stage[o] \in QUALIFIED_OR_BEYOND /\ excused[o])
      BY <3>2, <1>1, <1>5 DEF Complete, RowsOK
    <3> QED BY <3>1, <3>2
  <2>3. RowsOK' /\ OthersStay(o)
    BY <1>1, <2>1, <2>2 DEF RowsOK, OthersStay
  <2>4. Sound(o)'
    BY <2>1, <2>2 DEF Sound, ChoiceIsCurrent, WorkInv
  <2> QED BY <2>1, <2>3, <2>4, OneRowSuffices
<1>6. CASE \E m \in Members : Schedule(o, m)
  <2>1. PICK m \in Members : Schedule(o, m)
    BY <1>6
  <2>2. RowsOK' /\ OthersStay(o)
    BY <1>1, <2>1 DEF Schedule, Owe, RowsOK, OthersStay
  <2>3. Sound(o)'
    BY <1>1, <2>1, WorkAssumption
    DEF Schedule, Owe, RowsOK, Sound, ChoiceIsCurrent, WorkInv
  <2> QED BY <2>1, <2>2, <2>3, OneRowSuffices DEF Schedule
<1> QED BY <1>2, <1>3, <1>4, <1>5, <1>6

\* The commands about the team touch no Opportunity.
LEMMA TeamPreserves ==
    ASSUME WorkInv,
           \/ \E m \in Members : TeamStep(m)
           \/ SetFallback(NoMember)
    PROVE  WorkInv'
<1>1. UNCHANGED opportunityVars
  BY DEF TeamStep, StartDeactivation, FinishDeactivation, Reactivate, SetFallback,
         StartAbsence, AbsenceEnds, DesignateExpert, RevokeExpert, TeamCommand
<1>2. RowsOK' /\ \A o \in Opportunities : Sound(o)'
  BY <1>1 DEF opportunityVars, WorkInv, WorkTypeOK, RowsOK, Sound, ChoiceIsCurrent
<1>3. teamCommands' \in 0 .. MaxTeamCommands
  BY WorkAssumption
  DEF WorkInv, WorkTypeOK, TeamStep, StartDeactivation, FinishDeactivation, Reactivate,
      SetFallback, StartAbsence, AbsenceEnds, DesignateExpert, RevokeExpert, TeamCommand
<1>4. review' \in [Members -> SUBSET Opportunities]
  BY DEF WorkInv, WorkTypeOK, TeamStep, StartDeactivation, FinishDeactivation, Reactivate,
         SetFallback, StartAbsence, AbsenceEnds, DesignateExpert, RevokeExpert, WorkOf
<1>5. /\ active' \subseteq Members /\ leaving' \subseteq active'
      /\ fallback' \in Members \cup {NoMember} /\ FallbackCanOwnWork'
      /\ alerted' \subseteq Members
  <2>1. CASE \E m \in Members : StartDeactivation(m)
    BY <2>1 DEF StartDeactivation, WorkInv, WorkTypeOK, FallbackCanOwnWork
  <2>2. CASE \E m \in Members : FinishDeactivation(m)
    BY <2>2 DEF FinishDeactivation, WorkInv, WorkTypeOK, FallbackCanOwnWork
  <2>3. CASE \E m \in Members : Reactivate(m)
    BY <2>3 DEF Reactivate, WorkInv, WorkTypeOK, FallbackCanOwnWork
  <2>4. CASE \E m \in Members \cup {NoMember} : SetFallback(m)
    BY <2>4 DEF SetFallback, WorkInv, WorkTypeOK, FallbackCanOwnWork
  <2>5. CASE \E m \in Members : \/ StartAbsence(m) \/ AbsenceEnds(m) \/ RevokeExpert(m)
                                \/ \E asPrimary \in BOOLEAN : DesignateExpert(m, asPrimary)
    BY <2>5 DEF StartAbsence, AbsenceEnds, RevokeExpert, DesignateExpert,
                WorkInv, WorkTypeOK, FallbackCanOwnWork
  <2> QED BY <2>1, <2>2, <2>3, <2>4, <2>5 DEF TeamStep
<1>6. away' \subseteq Members /\ primary' \in Members \cup {NoMember} /\ backups' \subseteq Members
  BY DEF WorkInv, WorkTypeOK, TeamStep, StartDeactivation, FinishDeactivation, Reactivate,
         SetFallback, StartAbsence, AbsenceEnds, DesignateExpert, RevokeExpert
<1> QED BY <1>2, <1>3, <1>4, <1>5, <1>6 DEF WorkInv, WorkTypeOK, RowsOK

-----------------------------------------------------------------------------
\* Initially there is no Opportunity, and everybody is active.
LEMMA WorkInitially == WorkInit => WorkInv
<1> SUFFICES ASSUME WorkInit PROVE WorkInv
  OBVIOUS
<1>1. WorkTypeOK
  BY WorkAssumption DEF WorkInit, WorkTypeOK
<1>2. \A o \in Opportunities : Sound(o)
  BY DEF WorkInit, Sound, ChoiceIsCurrent
<1>3. FallbackCanOwnWork
  BY DEF WorkInit, FallbackCanOwnWork
<1> QED BY <1>1, <1>2, <1>3 DEF WorkInv

LEMMA WorkStep == WorkInv /\ [WorkNext]_workVars => WorkInv'
<1> SUFFICES ASSUME WorkInv, [WorkNext]_workVars PROVE WorkInv'
  OBVIOUS
<1>1. ASSUME NEW o \in Opportunities, OpportunityStep(o)
      PROVE  WorkInv'
  BY <1>1, ChoicesPreserve, CommitPreserves, MovesPreserve, ActionsPreserve DEF OpportunityStep
<1>2. CASE (\E m \in Members : TeamStep(m)) \/ SetFallback(NoMember)
  BY <1>2, TeamPreserves
<1>3. CASE UNCHANGED workVars
  BY <1>3 DEF workVars, WorkInv, WorkTypeOK, Sound, ChoiceIsCurrent, FallbackCanOwnWork
<1> QED BY <1>1, <1>2, <1>3 DEF WorkNext

\* However the commands about Opportunities and about the team interleave,
\* the rows keep their types, and WorkInv holds of every Opportunity.
THEOREM WorkInvariant == WorkSpec => []WorkInv
<1>1. WorkInit => WorkInv
  BY WorkInitially
<1>2. WorkInv /\ [WorkNext]_workVars => WorkInv'
  BY WorkStep
<1> QED BY <1>1, <1>2, PTL DEF WorkSpec

\* Every qualified Opportunity has something to be done on it or a reason why
\* not, is queued exactly while nobody is responsible, and the fallback of the
\* rule is somebody who can own work.
THEOREM NothingIsLeftLying == WorkSpec => []WorkIsAccountedFor
<1>1. WorkInv => WorkIsAccountedFor
  BY DEF WorkInv, Sound, WorkIsAccountedFor, OwedWhileActive, QueueMatchesOwnership
<1> QED BY <1>1, WorkInvariant, PTL

\* The rows of Opportunities and of the team keep their types.
THEOREM WorkIsTyped == WorkSpec => []WorkTypeOK
<1>1. WorkInv => WorkTypeOK
  BY DEF WorkInv
<1> QED BY <1>1, WorkInvariant, PTL

-----------------------------------------------------------------------------
(***************************************************************************)
(* The Telegram channel.  Only the update after the cursor can be between  *)
(* its record and the cursor, and its turn has been run only if the worker *)
(* is past it.                                                             *)
(***************************************************************************)
ChannelInv ==
    /\ ChannelTypeOK
    /\ \A u \in Updates : turns[u] > 0 => u \in recorded
    /\ OrdersAreCarriedOutOnce
    /\ handling # "Idle" => Current <= sent /\ Current \in recorded
    /\ handling = "Turn" => allowed[Current] /\ turns[Current] = 0

LEMMA ChannelInitially == ChannelInit => ChannelInv
BY ChannelBounds DEF ChannelInit, ChannelInv, ChannelTypeOK, OrdersAreCarriedOutOnce, Updates

LEMMA ChannelStep == ChannelInv /\ [ChannelNext]_channelVars => ChannelInv'
<1> SUFFICES ASSUME ChannelInv, [ChannelNext]_channelVars PROVE ChannelInv'
  OBVIOUS
<1> USE ChannelBounds DEF ChannelInv, ChannelTypeOK, Updates, Current, OrdersAreCarriedOutOnce
<1>1. CASE SendUpdate
  BY <1>1 DEF SendUpdate
<1>2. CASE SeenBefore
  BY <1>2 DEF SeenBefore
<1>3. CASE RecordUpdate
  BY <1>3 DEF RecordUpdate
<1>4. CASE RunAdminTurn
  BY <1>4 DEF RunAdminTurn
<1>5. ASSUME NEW failed \in BOOLEAN, FinishUpdate(failed)
      PROVE  ChannelInv'
  BY <1>5 DEF FinishUpdate
<1>6. CASE AdvanceCursor
  BY <1>6 DEF AdvanceCursor
<1>7. CASE KillChannelWorker
  BY <1>7 DEF KillChannelWorker
<1>8. CASE UNCHANGED channelVars
  BY <1>8 DEF channelVars
<1> QED BY <1>1, <1>2, <1>3, <1>4, <1>5, <1>6, <1>7, <1>8 DEF ChannelNext, HandleUpdate

\* However often the worker dies and Telegram delivers again, no order of an
\* Administrator is carried out twice, and nobody else's is.
THEOREM OrdersRunOnce == ChannelSpec => []OrdersAreCarriedOutOnce
<1>1. ChannelInv => OrdersAreCarriedOutOnce
  BY DEF ChannelInv
<1> QED BY <1>1, ChannelInitially, ChannelStep, PTL DEF ChannelSpec

-----------------------------------------------------------------------------
(***************************************************************************)
(* Listing media.  An upload can only be storing or cleaning up the object *)
(* of a form that has no row yet, or of one whose row exists, but then it  *)
(* only removes it.                                                        *)
(***************************************************************************)
MediaInv ==
    /\ MediaTypeOK
    /\ \A u, v \in Uploads : upload[u] = "Stored" /\ upload[v] = "Stored" => u = v
    /\ \A p \in Photos, s \in Submissions : upload[<<p, s>>] = "Stored" => photo[p] = "None"
    /\ \A p \in Photos : deleted[p] => photo[p] = "Revoked"
    /\ \A p \in Photos : cover[p] => photo[p] = "Active"
    /\ \A p \in Photos : deleted[p] => ~object[p]

LEMMA MediaInitially == MediaInit => MediaInv
BY DEF MediaInit, MediaInv, MediaTypeOK, Uploads

LEMMA MediaStep == MediaInv /\ [MediaNext]_mediaVars => MediaInv'
<1> SUFFICES ASSUME MediaInv, [MediaNext]_mediaVars PROVE MediaInv'
  OBVIOUS
<1> USE DEF MediaInv, MediaTypeOK, Uploads, Held
<1>1. ASSUME NEW p \in Photos, NEW s \in Submissions, UploadStep(p, s)
      PROVE  MediaInv'
  <2>1. CASE BeginUpload(p, s)
    <3>1. UNCHANGED <<photo, cover, deleted, purged>>
      BY <2>1 DEF BeginUpload
    <3>2. CASE photo[p] = "None"
      <4>1. /\ object' = [object EXCEPT ![p] = TRUE]
            /\ upload' = [upload EXCEPT ![<<p, s>>] = "Stored"]
            /\ \A u \in Uploads : upload[u] # "Stored"
        BY <2>1, <3>2 DEF BeginUpload
      <4>2. \A u \in Uploads : upload'[u] = "Stored" => u = <<p, s>>
        BY <4>1
      <4>3. ~deleted[p]
        BY <3>2
      <4>4. MediaTypeOK'
        BY <3>1, <4>1
      <4>5. \A q \in Photos, z \in Submissions : upload'[<<q, z>>] = "Stored" => q = p
        BY <4>2
      <4> QED BY <3>1, <3>2, <4>1, <4>2, <4>3, <4>4, <4>5
    <3>3. CASE photo[p] # "None"
      <4>1. /\ UNCHANGED object
            /\ upload' = [upload EXCEPT ![<<p, s>>] = "Over"]
        BY <2>1, <3>3 DEF BeginUpload
      <4>2. \A u \in Uploads : upload'[u] = "Stored" => upload[u] = "Stored"
        BY <4>1
      <4> QED BY <3>1, <4>1, <4>2
    <3> QED BY <3>2, <3>3
  <2>2. ASSUME NEW asCover \in BOOLEAN, CommitUpload(p, s, asCover)
        PROVE  MediaInv'
    BY <2>2 DEF CommitUpload
  <2>3. CASE RollBackUpload(p, s)
    BY <2>3 DEF RollBackUpload
  <2>4. CASE RemoveObject(p, s)
    BY <2>4 DEF RemoveObject
  <2>5. CASE AbandonUpload(p, s)
    BY <2>5 DEF AbandonUpload
  <2> QED BY <1>1, <2>1, <2>2, <2>3, <2>4, <2>5 DEF UploadStep
<1>2. ASSUME NEW p \in Photos, ArrangeMedia(p) \/ RevokeMedia(p) \/ DeleteObject(p) \/ PurgeCache(p)
      PROVE  MediaInv'
  <2>1. CASE ArrangeMedia(p)
    BY <2>1 DEF ArrangeMedia
  <2>2. CASE RevokeMedia(p)
    BY <2>2 DEF RevokeMedia
  <2>3. CASE DeleteObject(p)
    BY <2>3 DEF DeleteObject
  <2>4. CASE PurgeCache(p)
    BY <2>4 DEF PurgeCache
  <2> QED BY <1>2, <2>1, <2>2, <2>3, <2>4
<1>3. CASE UNCHANGED mediaVars
  BY <1>3 DEF mediaVars
<1> QED BY <1>1, <1>2, <1>3 DEF MediaNext

\* A photograph whose object is on record as deleted has none and is no cover,
\* also while its form is submitted again.
THEOREM DeletedMeansGone == MediaSpec => []DeletedObjectsAreGone
<1>1. MediaInv => DeletedObjectsAreGone
  BY DEF MediaInv, DeletedObjectsAreGone
<1> QED BY <1>1, MediaInitially, MediaStep, PTL DEF MediaSpec

-----------------------------------------------------------------------------
(***************************************************************************)
(* The website.  The turn being answered is Running in every state: the    *)
(* person who closes the conversation fails Pending turns only.            *)
(***************************************************************************)
WebsiteInv ==
    /\ turn \in [TurnIds -> TurnStatuses]
    /\ Answering => answering \in TurnIds /\ turn[answering] = "Running"

\* The oldest of some turns is one of them.
LEMMA FirstIsMember ==
    ASSUME NEW S \in SUBSET TurnIds, S # {}
    PROVE  First(S) \in S
<1> DEFINE UpTo(t) == {other \in S : other <= t}
           Cuts == {UpTo(t) : t \in S}
<1>1. S \subseteq Nat
  BY WebsiteBounds DEF TurnIds
<1>2. IsFiniteSet(S)
  <2>1. IsFiniteSet(TurnIds)
    BY WebsiteBounds, FS_Interval DEF TurnIds
  <2> QED BY <2>1, FS_Subset
<1>3. Cuts \subseteq FiniteSubsetsOf(S)
  BY <1>2, FS_FiniteSubsetsOfFinite
<1>4. IsWellFoundedOn(StrictSubsetOrdering(S), FiniteSubsetsOf(S))
  BY FS_StrictSubsetOrderingWellFounded
<1>5. PICK least \in Cuts : \A cut \in Cuts : <<cut, least>> \notin StrictSubsetOrdering(S)
  <2> HIDE DEF Cuts
  <2>1. Cuts # {}
    BY DEF Cuts
  <2> QED BY <2>1, <1>3, <1>4, WFMin
<1>6. PICK t \in S : least = UpTo(t)
  OBVIOUS
<1>7. ASSUME NEW other \in S
      PROVE  t <= other
  <2>1. SUFFICES ASSUME other < t PROVE FALSE
    BY <1>1
  <2>2. UpTo(other) \subseteq UpTo(t) /\ UpTo(other) # UpTo(t)
    <3>1. t \in UpTo(t) /\ t \notin UpTo(other)
      BY <1>1, <2>1
    <3>2. ASSUME NEW x \in UpTo(other)
          PROVE  x \in UpTo(t)
      BY <1>1, <2>1
    <3> HIDE DEF UpTo
    <3> QED BY <3>1, <3>2
  <2>3. UpTo(other) \in Cuts
    OBVIOUS
  <2>4. UpTo(other) \in SUBSET S /\ UpTo(t) \in SUBSET S
    OBVIOUS
  <2> HIDE DEF UpTo, Cuts
  <2> QED BY <1>5, <1>6, <2>2, <2>3, <2>4 DEF StrictSubsetOrdering
<1> QED BY <1>7 DEF First

LEMMA WebsiteInitially == WebsiteInit => WebsiteInv
BY DEF WebsiteInit, WebsiteInv, Answering, TurnStatuses

\* A step keeps the invariant, and no turn that is over moves.
LEMMA WebsiteStep ==
    ASSUME WebsiteInv, [WebsiteNext]_websiteVars
    PROVE  WebsiteInv' /\ \A t \in TurnIds : turn[t] \in Finished => turn'[t] = turn[t]
<1> DEFINE Stays == WebsiteInv' /\ \A t \in TurnIds : turn[t] \in Finished => turn'[t] = turn[t]
<1>1. Fresh # {} => First(Fresh) \in TurnIds /\ turn[First(Fresh)] = "None"
  BY FirstIsMember DEF Fresh
<1>2. Waiting # {} => First(Waiting) \in TurnIds /\ turn[First(Waiting)] = "Pending"
  BY FirstIsMember DEF Waiting
<1>3. 0 \notin TurnIds
  BY WebsiteBounds DEF TurnIds
<1> USE <1>3 DEF WebsiteInv, Answering, TurnStatuses, Finished
<1>4. CASE EnqueueTurn
  BY <1>1, <1>4 DEF EnqueueTurn
<1>5. ASSUME NEW keeps \in BOOLEAN, HandleTurn(keeps)
      PROVE  Stays
  BY <1>1, <1>5 DEF HandleTurn
<1>6. CASE ClaimTurn
  BY <1>2, <1>6 DEF ClaimTurn
<1>7. CASE PinConversation
  BY <1>7 DEF PinConversation
<1>8. ASSUME NEW keeps \in BOOLEAN, AnswerTurn(keeps)
      PROVE  Stays
  BY <1>8 DEF AnswerTurn
<1>9. CASE FailTurn
  BY <1>9 DEF FailTurn
<1>10. CASE KillWebsiteWorker
  BY <1>10 DEF KillWebsiteWorker
<1>11. ASSUME NEW erase \in BOOLEAN, CloseChat(erase)
       PROVE  Stays
  BY <1>11 DEF CloseChat
<1>12. ASSUME NEW r \in References, ReferenceStep(r)
       PROVE  Stays
  BY <1>12 DEF ReferenceStep, IssueReference, ResolveReference, ResolveHalfway, ExpireReference
<1>13. CASE UNCHANGED websiteVars
  BY <1>13 DEF websiteVars
<1> QED
  BY <1>4, <1>5, <1>6, <1>7, <1>8, <1>9, <1>10, <1>11, <1>12, <1>13
  DEF WebsiteNext, WebsiteWorkerStep, WebsiteVisitorStep

\* A turn is answered, failed or closed once: whoever comes second leaves it.
THEOREM TurnsAreOver == WebsiteSpec => TurnsEndOnce
<1>1. WebsiteInv /\ [WebsiteNext]_websiteVars
        => WebsiteInv' /\ [\A t \in TurnIds : turn[t] \in Finished => turn'[t] = turn[t]]_websiteVars
  BY WebsiteStep
<1> QED BY <1>1, WebsiteInitially, PTL DEF WebsiteSpec, TurnsEndOnce

-----------------------------------------------------------------------------
(***************************************************************************)
(* Provisioning.  The steps a call has behind it are completed, or were    *)
(* rolled back while it was under way, or an overlapping call of the same  *)
(* run wrote its failure over them.                                        *)
(***************************************************************************)
Settled == {x \in Runs \X Steps : stepState[x[1]][x[2]] \in StepOver \/ x \in overwritten}

ProvisioningTyped ==
    /\ serving \in [Calls -> Runs \cup {NoRun}]
    /\ position \in [Calls -> 0 .. Activation + 1]
    /\ stepState \in [Runs -> [Steps -> StepStates]]
    /\ runState \in [Runs -> RunStates]
    /\ \A c \in Calls : position[c] # 0 => serving[c] \in Runs

BehindIsSettled ==
    \A c \in Calls : \A s \in Steps : s < position[c] => <<serving[c], s>> \in Settled

ProvisioningInv == ProvisioningTyped /\ BehindIsSettled

\* What a step declares Completed is whole.
DeclaredWhole ==
    \A r \in Runs : runState'[r] = "Completed" /\ runState[r] # "Completed" =>
        \A s \in Steps : stepState[r][s] \in StepOver \/ <<r, s>> \in overwritten

LEMMA ProvisioningInitially == ProvisioningInit => ProvisioningInv
BY DEF ProvisioningInit, ProvisioningInv, ProvisioningTyped, BehindIsSettled,
       Steps, Organization, Activation, StepStates, RunStates

\* Steps that neither write the row of a step nor carry a call further.
LEMMA StandingKeepsProvisioning ==
    ASSUME ProvisioningInv, UNCHANGED <<stepState, overwritten, serving>>,
           runState' \in [Runs -> RunStates],
           position' \in [Calls -> 0 .. Activation + 1],
           \A c \in Calls : position'[c] = position[c] \/ position'[c] = 0
    PROVE  ProvisioningInv'
<1>1. ProvisioningTyped'
  BY DEF ProvisioningInv, ProvisioningTyped
<1>2. Settled' = Settled
  BY DEF Settled
<1>3. ASSUME NEW c \in Calls, NEW s \in Steps, s < position'[c]
      PROVE  <<serving'[c], s>> \in Settled'
  <2>1. position'[c] = position[c]
    BY <1>3 DEF Steps, Organization, Activation
  <2> QED BY <2>1, <1>2, <1>3 DEF ProvisioningInv, BehindIsSettled
<1> QED BY <1>1, <1>3 DEF ProvisioningInv, BehindIsSettled

\* A call goes a step further once the row of the step is settled.
LEMMA AdvancingKeepsProvisioning ==
    ASSUME ProvisioningInv, NEW c \in Calls, AtStep(c, phase[c]),
           NextStep(c), UNCHANGED <<serving, runState>>,
           stepState' \in [Runs -> [Steps -> StepStates]],
           Settled \subseteq Settled', <<serving[c], position[c]>> \in Settled'
    PROVE  ProvisioningInv'
<1> USE DEF Steps, Organization, Activation
<1>1. position[c] \in Steps /\ position' = [position EXCEPT ![c] = @ + 1]
  BY DEF AtStep, NextStep
<1>2. ProvisioningTyped'
  BY <1>1 DEF ProvisioningInv, ProvisioningTyped
<1>3. ASSUME NEW d \in Calls, NEW s \in Steps, s < position'[d]
      PROVE  <<serving'[d], s>> \in Settled'
  <2>1. CASE d = c /\ s = position[c]
    BY <2>1
  <2>2. CASE d # c \/ s # position[c]
    <3>1. s < position[d]
      BY <2>2, <1>1, <1>3 DEF ProvisioningInv, ProvisioningTyped
    <3>2. <<serving[d], s>> \in Settled
      BY <3>1 DEF ProvisioningInv, BehindIsSettled
    <3> QED BY <3>2
  <2> QED BY <2>1, <2>2
<1> QED BY <1>2, <1>3 DEF ProvisioningInv, BehindIsSettled

\* A step passed over, and a step completed.
LEMMA PassingKeepsProvisioning ==
    ASSUME ProvisioningInv, NEW c \in Calls, SkipStep(c) \/ CompleteStep(c)
    PROVE  ProvisioningInv' /\ UNCHANGED runState
<1> DEFINE r == serving[c]
           p == position[c]
<1>1. AtStep(c, phase[c]) /\ NextStep(c) /\ UNCHANGED <<serving, runState>>
  BY DEF SkipStep, CompleteStep, AtStep
<1>2. p \in Steps /\ r \in Runs
  BY <1>1 DEF AtStep, ProvisioningInv, ProvisioningTyped, Steps, Organization, Activation
<1>3. CASE SkipStep(c)
  <2>1. UNCHANGED <<stepState, overwritten>> /\ stepState[r][p] = "Completed"
    BY <1>3 DEF SkipStep, Done
  <2>2. Settled' = Settled /\ <<r, p>> \in Settled
    BY <2>1, <1>2 DEF Settled, StepOver
  <2> QED BY <1>1, <2>1, <2>2, AdvancingKeepsProvisioning DEF ProvisioningInv, ProvisioningTyped
<1>4. CASE CompleteStep(c)
  <2>1. /\ stepState' = [stepState EXCEPT ![r][p] = "Completed"]
        /\ overwritten' = overwritten \ {<<r, p>>}
    BY <1>4 DEF CompleteStep
  <2>2. stepState' \in [Runs -> [Steps -> StepStates]]
    BY <2>1, <1>2 DEF ProvisioningInv, ProvisioningTyped, StepStates
  <2>3. stepState'[r][p] = "Completed"
    BY <2>1, <1>2 DEF ProvisioningInv, ProvisioningTyped
  <2>4. <<r, p>> \in Settled'
    BY <2>3, <1>2 DEF Settled, StepOver
  <2>5. ASSUME NEW x \in Settled, x # <<r, p>>
        PROVE  x \in Settled'
    <3>1. x[1] \in Runs /\ x[2] \in Steps /\ x = <<x[1], x[2]>>
      BY DEF Settled
    <3>2. x[1] # r \/ x[2] # p
      BY <3>1, <2>5
    <3>3. stepState'[x[1]][x[2]] = stepState[x[1]][x[2]]
      BY <3>1, <3>2, <2>1 DEF ProvisioningInv, ProvisioningTyped
    <3>4. x \in overwritten => x \in overwritten'
      BY <2>1, <2>5
    <3> QED BY <3>3, <3>4 DEF Settled
  <2>6. Settled \subseteq Settled'
    BY <2>4, <2>5
  <2> QED BY <1>1, <2>2, <2>4, <2>6, AdvancingKeepsProvisioning
<1> QED BY <1>1, <1>3, <1>4

\* A failure is written over the success of another call, or over a step that
\* no call has behind.
LEMMA FailingKeepsProvisioning ==
    ASSUME ProvisioningInv, NEW c \in Calls, FailStep(c)
    PROVE  ProvisioningInv' /\ UNCHANGED runState
<1> DEFINE r == serving[c]
           p == position[c]
<1>1. /\ p \in Steps
      /\ stepState' = [stepState EXCEPT ![r][p] = "Failed"]
      /\ overwritten' = IF PassedByAnother(c) THEN overwritten \cup {<<r, p>>} ELSE overwritten
      /\ UNCHANGED <<runState, serving, position>>
  BY DEF FailStep, AtStep
<1>2. r \in Runs
  BY <1>1 DEF ProvisioningInv, ProvisioningTyped, Steps, Organization, Activation
<1>3. ProvisioningTyped'
  BY <1>1, <1>2 DEF ProvisioningInv, ProvisioningTyped, StepStates
<1>4. ASSUME NEW d \in Calls, NEW s \in Steps, s < position[d]
      PROVE  <<serving[d], s>> \in Settled'
  <2>1. serving[d] \in Runs /\ <<serving[d], s>> \in Settled
    <3>1. position[d] # 0
      BY <1>4 DEF Steps, Organization, Activation
    <3>2. serving[d] \in Runs
      BY <3>1 DEF ProvisioningInv, ProvisioningTyped
    <3> QED BY <3>2, <1>4 DEF ProvisioningInv, BehindIsSettled
  <2>2. CASE serving[d] = r /\ s = p
    <3>1. PassedByAnother(c)
      BY <2>2, <1>4 DEF PassedByAnother
    <3> QED BY <3>1, <2>2, <2>1, <1>1 DEF Settled
  <2>3. CASE serving[d] # r \/ s # p
    <3>1. stepState'[serving[d]][s] = stepState[serving[d]][s]
      BY <2>3, <2>1, <1>1 DEF ProvisioningInv, ProvisioningTyped
    <3>2. overwritten \subseteq overwritten'
      BY <1>1
    <3> QED BY <3>1, <3>2, <2>1 DEF Settled
  <2> QED BY <2>2, <2>3
<1>5. BehindIsSettled'
  BY <1>1, <1>4 DEF BehindIsSettled
<1> QED BY <1>1, <1>3, <1>5 DEF ProvisioningInv

\* A new call has nothing behind it.
LEMMA ComingKeepsProvisioning ==
    ASSUME ProvisioningInv, NEW c \in Calls, NEW r \in Runs, Provision(c, r)
    PROVE  ProvisioningInv' /\ DeclaredWhole
<1> USE DEF Steps, Organization, Activation
<1>1. /\ serving' = [serving EXCEPT ![c] = r]
      /\ runState' = [runState EXCEPT ![r] = IF @ = "None" THEN "Pending" ELSE @]
      /\ position' = [position EXCEPT ![c] = 1]
      /\ UNCHANGED <<stepState, overwritten>>
  BY DEF Provision
<1>2. ProvisioningTyped'
  BY <1>1 DEF ProvisioningInv, ProvisioningTyped, RunStates
<1>3. Settled' = Settled
  BY <1>1 DEF Settled
<1>4. ASSUME NEW d \in Calls, NEW s \in Steps, s < position'[d]
      PROVE  <<serving'[d], s>> \in Settled'
  <2>1. d # c
    BY <1>1, <1>4 DEF ProvisioningInv, ProvisioningTyped
  <2>2. position'[d] = position[d] /\ serving'[d] = serving[d]
    BY <2>1, <1>1 DEF ProvisioningInv, ProvisioningTyped
  <2> QED BY <2>2, <1>3, <1>4 DEF ProvisioningInv, BehindIsSettled
<1>5. DeclaredWhole
  BY <1>1 DEF DeclaredWhole, ProvisioningInv, ProvisioningTyped
<1> QED BY <1>2, <1>4, <1>5 DEF ProvisioningInv, BehindIsSettled

\* The call that declares a run Completed has all of its steps behind it.
LEMMA FinishingIsWhole ==
    ASSUME ProvisioningInv, NEW c \in Calls, FinishRun(c)
    PROVE  ProvisioningInv' /\ DeclaredWhole
<1> USE DEF Steps, Organization, Activation
<1> DEFINE r == serving[c]
<1>1. /\ position[c] = 8
      /\ position' = [position EXCEPT ![c] = 0]
      /\ runState' = [runState EXCEPT ![r] = IF loadedState[c] = "Completed" THEN @ ELSE "Completed"]
      /\ UNCHANGED <<stepState, overwritten, serving>>
  BY DEF FinishRun, CallEnds
<1>2. r \in Runs
  BY <1>1 DEF ProvisioningInv, ProvisioningTyped
<1>3. ASSUME NEW s \in Steps
      PROVE  <<r, s>> \in Settled
  <2>1. s < position[c]
    BY <1>1
  <2> QED BY <2>1 DEF ProvisioningInv, BehindIsSettled
<1>4. \A q \in Runs : q # r => runState'[q] = runState[q]
  BY <1>1 DEF ProvisioningInv, ProvisioningTyped
<1>5. DeclaredWhole
  <2>1. \A s \in Steps : stepState[r][s] \in StepOver \/ <<r, s>> \in overwritten
    BY <1>3 DEF Settled
  <2> QED BY <2>1, <1>4 DEF DeclaredWhole
<1>6. runState' \in [Runs -> RunStates]
  BY <1>1, <1>2 DEF ProvisioningInv, ProvisioningTyped, RunStates
<1>7. /\ position' \in [Calls -> 0 .. Activation + 1]
      /\ \A d \in Calls : position'[d] = position[d] \/ position'[d] = 0
  BY <1>1 DEF ProvisioningInv, ProvisioningTyped
<1> QED BY <1>1, <1>5, <1>6, <1>7, StandingKeepsProvisioning

\* What was completed is over also when it is rolled back.
LEMMA RollingBackKeepsProvisioning ==
    ASSUME ProvisioningInv, NEW r \in Runs, Rollback(r)
    PROVE  ProvisioningInv' /\ DeclaredWhole
<1> DEFINE undone == {s \in Steps : Done(r, s)}
           rows == [s \in Steps |-> IF s \in undone THEN "RolledBack" ELSE stepState[r][s]]
<1>1. /\ stepState' = [stepState EXCEPT ![r] = rows]
      /\ runState' = [runState EXCEPT ![r] = "RolledBack"]
      /\ UNCHANGED <<serving, position, overwritten>>
  BY DEF Rollback, callVars
<1>2. rows \in [Steps -> StepStates]
  BY DEF ProvisioningInv, ProvisioningTyped, StepStates
<1>3. ProvisioningTyped'
  BY <1>1, <1>2 DEF ProvisioningInv, ProvisioningTyped, RunStates
<1>4. ASSUME NEW x \in Settled
      PROVE  x \in Settled'
  <2>1. x[1] \in Runs /\ x[2] \in Steps /\ x \in Runs \X Steps
    BY DEF Settled
  <2>2. stepState[x[1]][x[2]] \in StepOver => stepState'[x[1]][x[2]] \in StepOver
    <3>1. CASE x[1] = r
      <4>1. stepState'[x[1]][x[2]] = rows[x[2]]
        BY <3>1, <1>1, <2>1 DEF ProvisioningInv, ProvisioningTyped
      <4>2. rows[x[2]] = IF x[2] \in undone THEN "RolledBack" ELSE stepState[r][x[2]]
        BY <2>1
      <4> QED BY <4>1, <4>2, <3>1 DEF StepOver
    <3>2. CASE x[1] # r
      BY <3>2, <1>1, <2>1 DEF ProvisioningInv, ProvisioningTyped
    <3> QED BY <3>1, <3>2
  <2> QED BY <2>1, <2>2, <1>1 DEF Settled
<1>5. BehindIsSettled'
  BY <1>1, <1>4 DEF ProvisioningInv, BehindIsSettled
<1>6. DeclaredWhole
  BY <1>1 DEF DeclaredWhole, ProvisioningInv, ProvisioningTyped
<1> QED BY <1>3, <1>5, <1>6 DEF ProvisioningInv

\* A step keeps the invariant, and completes a run only past its last step.
LEMMA ProvisioningStep ==
    ASSUME ProvisioningInv, [ProvisioningNext]_provisioningVars
    PROVE  ProvisioningInv' /\ DeclaredWhole
<1> DEFINE Whole == ProvisioningInv' /\ DeclaredWhole
<1>a. UNCHANGED runState => DeclaredWhole
  BY DEF DeclaredWhole
<1>b. ASSUME UNCHANGED <<stepState, overwritten, serving, position, runState>>
      PROVE  Whole
  <2>1. ProvisioningInv'
    BY <1>b, StandingKeepsProvisioning DEF ProvisioningInv, ProvisioningTyped
  <2> QED BY <2>1, <1>a, <1>b
<1>1. ASSUME NEW c \in Calls, NEW r \in Runs, Provision(c, r)
      PROVE  Whole
  BY <1>1, ComingKeepsProvisioning
<1>2. ASSUME NEW c \in Calls, SkipStep(c) \/ CompleteStep(c)
      PROVE  Whole
  BY <1>2, <1>a, PassingKeepsProvisioning
<1>3. ASSUME NEW c \in Calls, TryStep(c) \/ TeamBeforeItsStep(c)
      PROVE  Whole
  BY <1>3, <1>b DEF TryStep, TeamBeforeItsStep, callVars
<1>4. ASSUME NEW c \in Calls, FailStep(c)
      PROVE  Whole
  BY <1>4, <1>a, FailingKeepsProvisioning
<1>5. ASSUME NEW c \in Calls, FinishRun(c)
      PROVE  Whole
  BY <1>5, FinishingIsWhole
<1>6. ASSUME NEW c \in Calls, FailRun(c) \/ InterruptRun(c)
      PROVE  Whole
  <2>1. /\ position' = [position EXCEPT ![c] = 0]
        /\ UNCHANGED <<stepState, overwritten, serving>>
        /\ \/ UNCHANGED runState
           \/ runState' = [runState EXCEPT ![serving[c]] = "Failed"]
    BY <1>6 DEF FailRun, InterruptRun, CallEnds
  <2>2. /\ runState' \in [Runs -> RunStates]
        /\ position' \in [Calls -> 0 .. Activation + 1]
        /\ \A d \in Calls : position'[d] = position[d] \/ position'[d] = 0
    BY <2>1 DEF ProvisioningInv, ProvisioningTyped, RunStates, Activation
  <2>3. ProvisioningInv'
    BY <2>1, <2>2, StandingKeepsProvisioning
  <2>4. DeclaredWhole
    BY <2>1 DEF DeclaredWhole, ProvisioningInv, ProvisioningTyped
  <2> QED BY <2>3, <2>4
<1>7. ASSUME NEW r \in Runs, Rollback(r)
      PROVE  Whole
  BY <1>7, RollingBackKeepsProvisioning
<1>8. ASSUME NEW o \in Organizations, Deprovision(o) \/ Suspend(o) \/ Resume(o)
      PROVE  Whole
  BY <1>8, <1>b DEF Deprovision, Suspend, Resume, callVars
<1>9. CASE UNCHANGED provisioningVars
  BY <1>9, <1>b DEF provisioningVars, callVars
<1> QED
  BY <1>1, <1>2, <1>3, <1>4, <1>5, <1>6, <1>7, <1>8, <1>9 DEF ProvisioningNext

\* However calls of one command key overlap, a run that is declared Completed
\* has left no step out.
THEOREM RunsAreWhole == ProvisioningSpec => CompletedRunsAreWhole
<1>1. ProvisioningInv /\ [ProvisioningNext]_provisioningVars
        => /\ ProvisioningInv'
           /\ [DeclaredWhole]_provisioningVars
  BY ProvisioningStep
<1>2. ProvisioningSpec => [][DeclaredWhole]_provisioningVars
  BY <1>1, ProvisioningInitially, PTL DEF ProvisioningSpec
<1> QED BY <1>2 DEF DeclaredWhole, CompletedRunsAreWhole

-----------------------------------------------------------------------------
(***************************************************************************)
(* External inventory.  Only a revalidation that reached the source can    *)
(* approve, and what it decides from is what the source just answered.     *)
(***************************************************************************)

\* A row has its columns; that their values fit is not needed.
Columns == {"known", "authority", "approved", "evidence", "served", "withdrawn", "content", "purged"}
RowShapes == [Columns -> BOOLEAN \cup {"Pending", "Authorized", "Denied"}]

InventoryInv ==
    /\ source \in [Listings -> Observations]
    /\ fetched \in [Listings -> Observations]
    /\ row \in [Listings -> RowShapes]
    /\ loaded \in [Listings -> RowShapes]
    /\ offers \in [Listings -> Nat]
    /\ decision \in [Listings -> {"None", "Eligible", "Pending", "Denied"}]

\* A row from whatever the code does to one.
LEMMA NoRowIsARow == NoRow \in RowShapes
<1>1. DOMAIN NoRow = Columns
  BY DEF NoRow, Columns
<1>2. \A f \in Columns : NoRow[f] \in BOOLEAN \cup {"Pending", "Authorized", "Denied"}
  <2>1. /\ NoRow["known"] = FALSE /\ NoRow["authority"] = "Pending" /\ NoRow["approved"] = FALSE
        /\ NoRow["evidence"] = FALSE /\ NoRow["served"] = FALSE /\ NoRow["withdrawn"] = FALSE
        /\ NoRow["content"] = FALSE /\ NoRow["purged"] = FALSE
    BY DEF NoRow
  <2> QED BY <2>1 DEF Columns
<1>3. NoRow = [f \in DOMAIN NoRow |-> NoRow[f]]
  BY DEF NoRow
<1> QED BY <1>1, <1>2, <1>3 DEF RowShapes

LEMMA WithdrawnIsARow ==
    ASSUME NEW r \in RowShapes
    PROVE  Withdrawn(r) \in RowShapes
BY DEF Withdrawn, RowShapes, Columns

LEMMA WithdrawnIsWithdrawn ==
    ASSUME NEW r \in RowShapes
    PROVE  Withdrawn(r).withdrawn = TRUE
BY DEF Withdrawn, RowShapes, Columns

LEMMA StoredIsARow ==
    ASSUME NEW r \in RowShapes, NEW l, NEW seen
    PROVE  Stored(r, l, seen) \in RowShapes
<1> DEFINE copied == [r EXCEPT !.known = TRUE, !.content = TRUE,
                            !.served = (seen.answer # "Elsewhere")]
<1>1. copied \in RowShapes
  BY DEF RowShapes, Columns
<1> HIDE DEF copied
<1>2. Withdrawn(copied) \in RowShapes
  BY <1>1, WithdrawnIsARow
<1>3. [copied EXCEPT !.authority = "Denied"] \in RowShapes
  BY <1>1 DEF RowShapes, Columns
<1>4. [copied EXCEPT !.authority = "Pending", !.approved = FALSE] \in RowShapes
  BY <1>1 DEF RowShapes, Columns
<1> QED BY <1>1, <1>2, <1>3, <1>4 DEF Stored, copied

LEMMA FlushedIsARow ==
    ASSUME NEW r \in RowShapes, NEW old \in RowShapes, NEW new \in RowShapes
    PROVE  FlushOver(r, old, new) \in RowShapes
BY DEF FlushOver, RowShapes

\* A revalidation that says Eligible has seen the listing offered.
LEMMA EligibleIsOffered ==
    ASSUME NEW r \in RowShapes, NEW l \in Listings, NEW seen \in Observations,
           seen.answer # "NotFound",
           Outcome(Stored(r, l, seen), TRUE, OffersChanged(r, l, seen), seen.terms) = "Eligible"
    PROVE  seen.answer = "Offered"
<1>1. seen.answer \in {"Offered", "Elsewhere", "Withdrawn"}
  BY DEF Observations, Answers
<1> DEFINE copied == [r EXCEPT !.known = TRUE, !.content = TRUE,
                            !.served = (seen.answer # "Elsewhere")]
<1>2. copied \in RowShapes
  BY DEF RowShapes, Columns
<1>3. CASE seen.answer = "Withdrawn"
  <2> HIDE DEF copied
  <2>1. Withdrawn(copied).withdrawn = TRUE
    BY <1>2, WithdrawnIsWithdrawn
  <2>2. Stored(r, l, seen) = Withdrawn(copied)
    BY <1>3 DEF Stored, copied
  <2>3. Outcome(Withdrawn(copied), TRUE, OffersChanged(r, l, seen), seen.terms) = "Denied"
    BY <2>1 DEF Outcome
  <2> QED BY <2>2, <2>3
<1>4. CASE seen.answer = "Elsewhere"
  <2> HIDE DEF copied
  <2> DEFINE denied == [copied EXCEPT !.authority = "Denied"]
  <2>1. denied.authority = "Denied"
    BY <1>2 DEF RowShapes, Columns
  <2>2. Stored(r, l, seen) = denied
    BY <1>4 DEF Stored, copied
  <2> HIDE DEF denied
  <2>3. Outcome(denied, TRUE, OffersChanged(r, l, seen), seen.terms) = "Denied"
    BY <2>1 DEF Outcome
  <2> QED BY <2>2, <2>3
<1> QED BY <1>1, <1>3, <1>4

LEMMA InventoryInitially == InventoryInit => InventoryInv
BY InventoryAssumption, NoRowIsARow DEF InventoryInit, InventoryInv, Observations, Answers, NothingFetched

\* A step keeps the invariant, and approves only what the source offers.
LEMMA InventoryStep ==
    ASSUME InventoryInv, [InventoryNext]_inventoryVars
    PROVE  /\ InventoryInv'
           /\ \A l \in Listings : Approves(l) =>
                 /\ source[l].answer = "Offered"
                 /\ offers'[l] = source[l].terms
<1> DEFINE Justified == \A l \in Listings : Approves(l) =>
                            /\ source[l].answer = "Offered"
                            /\ offers'[l] = source[l].terms
<1> USE DEF InventoryInv, Approves
<1>1. ASSUME NEW l \in Listings, SourceChanges(l)
      PROVE  InventoryInv' /\ Justified
  <2>1. PICK seen \in Observations : source' = [source EXCEPT ![l] = seen]
    BY <1>1 DEF SourceChanges
  <2> QED BY <1>1, <2>1 DEF SourceChanges
<1>2. ASSUME NEW l \in Listings, SynchronizeFetches(l)
      PROVE  InventoryInv' /\ Justified
  BY <1>2 DEF SynchronizeFetches
<1>3. ASSUME NEW l \in Listings, SynchronizeStores(l)
      PROVE  InventoryInv' /\ Justified
  <2>1. Stored(row[l], l, fetched[l]) \in RowShapes
    BY StoredIsARow
  <2>2. NothingFetched \in Observations /\ fetched[l].terms \in Nat
    BY InventoryAssumption DEF NothingFetched, Observations, Answers
  <2> QED BY <1>3, <2>1, <2>2 DEF SynchronizeStores
<1>4. ASSUME NEW l \in Listings, NEW given \in BOOLEAN, ConfirmEvidence(l, given)
      PROVE  InventoryInv' /\ Justified
  <2>1. row' \in [Listings -> RowShapes]
    BY <1>4 DEF ConfirmEvidence, RowShapes, Columns
  <2> QED BY <1>4, <2>1 DEF ConfirmEvidence
<1>5. ASSUME NEW l \in Listings, PurgeDue(l)
      PROVE  InventoryInv' /\ Justified
  <2>1. row' \in [Listings -> RowShapes]
    BY <1>5 DEF PurgeDue, RowShapes, Columns
  <2> QED BY <1>5, <2>1 DEF PurgeDue
<1>6. ASSUME NEW l \in Listings, LoadForUse(l)
      PROVE  InventoryInv' /\ Justified
  BY <1>6 DEF LoadForUse
<1>7. ASSUME NEW l \in Listings, DecideRefreshed(l)
      PROVE  InventoryInv' /\ Justified
  <2> DEFINE new == Stored(loaded[l], l, source[l])
  <2>1. new \in RowShapes /\ FlushOver(row[l], loaded[l], new) \in RowShapes
    BY StoredIsARow, FlushedIsARow
  <2>2. source[l].terms \in Nat
    BY DEF Observations
  <2>3. Outcome(new, TRUE, OffersChanged(loaded[l], l, source[l]), source[l].terms)
            \in {"Eligible", "Pending", "Denied"}
    BY DEF Outcome
  <2>4. /\ row' = [row EXCEPT ![l] = FlushOver(row[l], loaded[l], new)]
        /\ offers' = [offers EXCEPT ![l] = source[l].terms]
        /\ decision' = [decision EXCEPT ![l] =
               Outcome(new, TRUE, OffersChanged(loaded[l], l, source[l]), source[l].terms)]
        /\ loaded' = [loaded EXCEPT ![l] = NoRow]
        /\ source[l].answer # "NotFound"
        /\ UNCHANGED <<source, fetched>>
    BY <1>7 DEF DecideRefreshed
  <2> HIDE DEF new
  <2>5. InventoryInv'
    BY <2>1, <2>2, <2>3, <2>4, NoRowIsARow
  <2>6. Approves(l) => source[l].answer = "Offered" /\ offers'[l] = source[l].terms
    <3>1. SUFFICES ASSUME Approves(l) PROVE source[l].answer = "Offered"
      BY <2>4
    <3>2. Outcome(new, TRUE, OffersChanged(loaded[l], l, source[l]), source[l].terms) = "Eligible"
      BY <2>4, <3>1
    <3>3. loaded[l] \in RowShapes /\ source[l] \in Observations
      OBVIOUS
    <3>4. Outcome(Stored(loaded[l], l, source[l]), TRUE,
                  OffersChanged(loaded[l], l, source[l]), source[l].terms) = "Eligible"
      BY <3>2 DEF new
    <3>5. source[l].answer # "NotFound"
      BY <2>4
    <3> QED BY <3>3, <3>4, <3>5, EligibleIsOffered
  <2>7. \A other \in Listings : Approves(other) => other = l
    BY <2>4
  <2> QED BY <2>5, <2>6, <2>7
<1>8. ASSUME NEW l \in Listings, DecideNotFound(l)
      PROVE  InventoryInv' /\ Justified
  <2>1. FlushOver(row[l], loaded[l], Withdrawn(loaded[l])) \in RowShapes
    BY WithdrawnIsARow, FlushedIsARow
  <2> QED BY <1>8, <2>1, NoRowIsARow DEF DecideNotFound
<1>9. ASSUME NEW l \in Listings, DecideUnreachable(l)
      PROVE  InventoryInv' /\ Justified
  <2>1. Outcome(loaded[l], FALSE, FALSE, offers[l]) \in {"Pending", "Denied"}
    BY DEF Outcome
  <2> QED BY <1>9, <2>1, NoRowIsARow DEF DecideUnreachable
<1>10. CASE UNCHANGED inventoryVars
  BY <1>10 DEF inventoryVars
<1> QED
  BY <1>1, <1>2, <1>3, <1>4, <1>5, <1>6, <1>7, <1>8, <1>9, <1>10 DEF InventoryNext, ListingStep

\* A listing becomes Eligible only while the source offers it, on its terms.
THEOREM ApprovedIsOffered == InventorySpec => EligibleIsStillOffered
<1>1. InventoryInv /\ [InventoryNext]_inventoryVars
        => /\ InventoryInv'
           /\ [\A l \in Listings : Approves(l) =>
                 /\ source[l].answer = "Offered"
                 /\ offers'[l] = source[l].terms]_inventoryVars
  BY InventoryStep
<1> QED BY <1>1, InventoryInitially, PTL DEF InventorySpec, EligibleIsStillOffered

-----------------------------------------------------------------------------
(***************************************************************************)
(* The catalog.  While a review is being completed, and from then on, no   *)
(* other call is at work on the visit, unless it counts as overtaken; so   *)
(* what the calendar said stays true and nobody writes the row again.      *)
(***************************************************************************)
VisitsTyped ==
    /\ visit \in [Visits -> VisitStates]
    /\ reviewed \in [Visits -> Reviews]
    /\ event \in [Visits -> BOOLEAN]
    /\ held \in [Visits -> HeldFor \cup {"Nothing"}]
    /\ handler \in [Visits -> [Handlers -> {"None", "Asking", "Made", "Unclear", "Over"}]]
    /\ move \in [Visits -> [Moves -> {"None", "Asking", "Released", "Over"}]]

\* The review of a visit that was left alone.
ReviewIsSafe(v) ==
    /\ reviewed[v] # "None" => visit[v] \notin {"None", "Pending"}
    /\ v \notin overtaken /\ held[v] = "Complete" =>
          ~AtWork(v) /\ ~event[v] /\ reviewed[v] = "HandlingManually"
    /\ v \notin overtaken /\ reviewed[v] = "Complete" =>
          ~AtWork(v) /\ ~event[v] /\ visit[v] = "Cancelled" /\ Free(v)

CatalogInv == VisitsTyped /\ \A v \in Visits : ReviewIsSafe(v)

LEMMA CatalogInitially == CatalogInit => CatalogInv
BY DEF CatalogInit, CatalogInv, VisitsTyped, ReviewIsSafe, VisitStates, Reviews, HeldFor

\* A function that changed at one visit.
LEMMA OneVisitChanges ==
    ASSUME NEW S, NEW f \in [Visits -> S], NEW v \in Visits, NEW x \in S
    PROVE  LET g == [f EXCEPT ![v] = x]
           IN  g \in [Visits -> S] /\ \A w \in Visits \ {v} : g[w] = f[w]
OBVIOUS

HandlerSteps == {"None", "Asking", "Made", "Unclear", "Over"}
MoveSteps == {"None", "Asking", "Released", "Over"}

\* What a step does to one visit of a Property is nothing to another.
LEMMA VisitsStandAlone ==
    ASSUME CatalogInv, NEW v \in Visits, VisitStep(v)
    PROVE  VisitsTyped' /\ \A w \in Visits \ {v} : ReviewIsSafe(w)'
<1> DEFINE Apart ==
        \A w \in Visits \ {v} :
            /\ visit'[w] = visit[w] /\ reviewed'[w] = reviewed[w] /\ event'[w] = event[w]
            /\ held'[w] = held[w] /\ handler'[w] = handler[w] /\ move'[w] = move[w]
            /\ (w \in overtaken' <=> w \in overtaken)
<1>a. /\ visit \in [Visits -> VisitStates]
      /\ reviewed \in [Visits -> Reviews]
      /\ event \in [Visits -> BOOLEAN]
      /\ held \in [Visits -> HeldFor \cup {"Nothing"}]
      /\ handler \in [Visits -> [Handlers -> HandlerSteps]]
      /\ move \in [Visits -> [Moves -> MoveSteps]]
  BY DEF CatalogInv, VisitsTyped, HandlerSteps, MoveSteps
<1>b. ASSUME NEW to \in HandlerSteps, NEW h \in Handlers
      PROVE  LET g == Step(handler, v, h, to)
             IN  g \in [Visits -> [Handlers -> HandlerSteps]] /\ \A w \in Visits \ {v} : g[w] = handler[w]
  BY <1>a DEF Step
<1>c. ASSUME NEW to \in MoveSteps, NEW m \in Moves
      PROVE  LET g == Step(move, v, m, to)
             IN  g \in [Visits -> [Moves -> MoveSteps]] /\ \A w \in Visits \ {v} : g[w] = move[w]
  BY <1>a DEF Step
<1>d. ASSUME NEW to \in VisitStates
      PROVE  LET g == [visit EXCEPT ![v] = to]
             IN  g \in [Visits -> VisitStates] /\ \A w \in Visits \ {v} : g[w] = visit[w]
  BY <1>a, OneVisitChanges
<1>e. ASSUME NEW to \in BOOLEAN
      PROVE  LET g == [event EXCEPT ![v] = to]
             IN  g \in [Visits -> BOOLEAN] /\ \A w \in Visits \ {v} : g[w] = event[w]
  BY <1>a, OneVisitChanges
<1>f. ASSUME NEW to \in HeldFor \cup {"Nothing"}
      PROVE  LET g == [held EXCEPT ![v] = to]
             IN  g \in [Visits -> HeldFor \cup {"Nothing"}] /\ \A w \in Visits \ {v} : g[w] = held[w]
  BY <1>a, OneVisitChanges
<1>g. ASSUME NEW to \in Reviews
      PROVE  LET g == [reviewed EXCEPT ![v] = to]
             IN  g \in [Visits -> Reviews] /\ \A w \in Visits \ {v} : g[w] = reviewed[w]
  BY <1>a, OneVisitChanges
<1>h. ASSUME /\ visit' \in [Visits -> VisitStates]
             /\ reviewed' \in [Visits -> Reviews]
             /\ event' \in [Visits -> BOOLEAN]
             /\ held' \in [Visits -> HeldFor \cup {"Nothing"}]
             /\ handler' \in [Visits -> [Handlers -> HandlerSteps]]
             /\ move' \in [Visits -> [Moves -> MoveSteps]]
      PROVE  VisitsTyped'
  BY <1>h DEF VisitsTyped, HandlerSteps, MoveSteps
<1>i. /\ {"None", "Asking", "Made", "Unclear", "Over"} \subseteq HandlerSteps
      /\ {"Asking", "Released", "Over"} \subseteq MoveSteps
      /\ {"Pending", "NeedsReview", "Confirmed", "Rescheduled"} \subseteq VisitStates
      /\ {"HandlingManually", "Complete"} \subseteq Reviews
  BY DEF HandlerSteps, MoveSteps, VisitStates, Reviews
<1>1. ASSUME NEW h \in Handlers, BeginVisit(v, h)
      PROVE  VisitsTyped' /\ Apart
  BY <1>1, <1>a, <1>b, <1>d, <1>h, <1>i DEF BeginVisit
<1>2. ASSUME NEW h \in Handlers, TakeUpVisit(v, h)
      PROVE  VisitsTyped' /\ Apart
  BY <1>2, <1>a, <1>b, <1>h, <1>i DEF TakeUpVisit
<1>3. ASSUME NEW h \in Handlers, WriteEvent(v, h)
      PROVE  VisitsTyped' /\ Apart
  <2>1. PICK to \in {"Made", "Unclear"} : handler' = Step(handler, v, h, to)
    BY <1>3 DEF WriteEvent
  <2>2. event' = event \/ event' = [event EXCEPT ![v] = TRUE]
    BY <1>3 DEF WriteEvent
  <2>3. event' \in [Visits -> BOOLEAN] /\ \A w \in Visits \ {v} : event'[w] = event[w]
    BY <2>2, <1>a, <1>e
  <2>4. UNCHANGED <<visit, reviewed, held, move, overtaken>>
    BY <1>3 DEF WriteEvent
  <2> QED BY <2>1, <2>3, <2>4, <1>a, <1>b, <1>h, <1>i
<1>4. ASSUME NEW h \in Handlers, RecordVisit(v, h)
      PROVE  VisitsTyped' /\ Apart
  <2>1. /\ handler' = Step(handler, v, h, "Over")
        /\ UNCHANGED <<reviewed, event, held, move, overtaken>>
        /\ \/ visit' = visit
           \/ visit' = [visit EXCEPT ![v] = "Confirmed"]
           \/ visit' = [visit EXCEPT ![v] = "NeedsReview"]
    BY <1>4 DEF RecordVisit
  <2>2. visit' \in [Visits -> VisitStates] /\ \A w \in Visits \ {v} : visit'[w] = visit[w]
    <3>1. CASE visit' = visit
      BY <3>1, <1>a
    <3>2. ASSUME NEW to \in {"Confirmed", "NeedsReview"}, visit' = [visit EXCEPT ![v] = to]
          PROVE  visit' \in [Visits -> VisitStates] /\ \A w \in Visits \ {v} : visit'[w] = visit[w]
      BY <3>2, <1>d, <1>i
    <3> QED BY <2>1, <3>1, <3>2
  <2> QED BY <2>1, <2>2, <1>a, <1>b, <1>h, <1>i
<1>5. ASSUME NEW m \in Moves, StartMove(v, m)
      PROVE  VisitsTyped' /\ Apart
  BY <1>5, <1>a, <1>c, <1>h, <1>i DEF StartMove
<1>6. ASSUME NEW m \in Moves, FailMove(v, m)
      PROVE  VisitsTyped' /\ Apart
  BY <1>6, <1>a, <1>c, <1>h, <1>i DEF FailMove
<1>7. ASSUME NEW m \in Moves, ReleaseOriginal(v, m)
      PROVE  VisitsTyped' /\ Apart
  <2>1. PICK left \in {FALSE, event[v]} : event' = [event EXCEPT ![v] = left]
    BY <1>7 DEF ReleaseOriginal
  <2>2. left \in BOOLEAN
    BY <2>1, <1>a
  <2> QED BY <2>1, <2>2, <1>7, <1>a, <1>c, <1>e, <1>h, <1>i DEF ReleaseOriginal
<1>8. ASSUME NEW m \in Moves, FinishMove(v, m)
      PROVE  VisitsTyped' /\ Apart
  BY <1>8, <1>a, <1>c, <1>d, <1>h, <1>i DEF FinishMove
<1>9. ASSUME NEW m \in Moves, SettleSuccessor(v, m)
      PROVE  VisitsTyped' /\ Apart
  BY <1>9, <1>a, <1>h DEF SettleSuccessor
<1>10. ASSUME GiveUp(v)
      PROVE  VisitsTyped' /\ Apart
  <2>1. UNCHANGED <<visit, reviewed, event, held, overtaken>>
    BY <1>10 DEF GiveUp
  <2>2. ASSUME NEW h \in Handlers, handler' = Step(handler, v, h, "Over"), move' = move
        PROVE  VisitsTyped' /\ Apart
    BY <2>1, <2>2, <1>a, <1>b, <1>h, <1>i
  <2>3. ASSUME NEW m \in Moves, move' = Step(move, v, m, "Over"), handler' = handler
        PROVE  VisitsTyped' /\ Apart
    BY <2>1, <2>3, <1>a, <1>c, <1>h, <1>i
  <2> QED BY <1>10, <2>2, <2>3 DEF GiveUp
<1>11. ASSUME NEW to \in HeldFor, HoldVisit(v, to)
       PROVE  VisitsTyped' /\ Apart
  <2>1. PICK left : /\ left \in CASE to = "Cancelled" -> {FALSE}
                                  [] to \in {"Rescheduled", "Successor"} -> {FALSE, event[v]}
                                  [] OTHER -> {event[v]}
                    /\ event' = [event EXCEPT ![v] = left]
    BY <1>11 DEF HoldVisit
  <2>2. left \in BOOLEAN
    BY <2>1, <1>a
  <2>3. held' = [held EXCEPT ![v] = to] /\ UNCHANGED <<visit, reviewed, handler, move>>
    BY <1>11 DEF HoldVisit
  <2>4. \A w \in Visits \ {v} : w \in overtaken' <=> w \in overtaken
    BY <1>11 DEF HoldVisit
  <2> QED BY <2>1, <2>2, <2>3, <2>4, <1>a, <1>e, <1>f, <1>h
<1>12. ASSUME WriteVisit(v)
      PROVE  VisitsTyped' /\ Apart
  <2>1. StatusFor(held[v]) \in VisitStates
    BY <1>12, <1>a DEF WriteVisit, Free, StatusFor, HeldFor, VisitStates
  <2>2. PICK to \in Reviews : reviewed' = [reviewed EXCEPT ![v] = to]
    BY <1>12, <1>a, <1>i DEF WriteVisit
  <2>3. /\ visit' = [visit EXCEPT ![v] = StatusFor(held[v])]
        /\ held' = [held EXCEPT ![v] = "Nothing"]
        /\ UNCHANGED <<event, handler, move, overtaken>>
    BY <1>12 DEF WriteVisit
  <2>4. visit' \in [Visits -> VisitStates] /\ \A w \in Visits \ {v} : visit'[w] = visit[w]
    BY <2>1, <2>3, <1>d
  <2>5. reviewed' \in [Visits -> Reviews] /\ \A w \in Visits \ {v} : reviewed'[w] = reviewed[w]
    BY <2>2, <1>g
  <2>6. /\ held' \in [Visits -> HeldFor \cup {"Nothing"}]
        /\ \A w \in Visits \ {v} : held'[w] = held[w]
    BY <2>3, <1>f
  <2> QED BY <2>3, <2>4, <2>5, <2>6, <1>a, <1>h
<1>13. ASSUME LetGo(v)
      PROVE  VisitsTyped' /\ Apart
  <2>1. /\ held' = [held EXCEPT ![v] = "Nothing"]
        /\ UNCHANGED <<visit, reviewed, event, handler, move, overtaken>>
    BY <1>13 DEF LetGo
  <2>2. /\ held' \in [Visits -> HeldFor \cup {"Nothing"}]
        /\ \A w \in Visits \ {v} : held'[w] = held[w]
    BY <2>1, <1>f
  <2> QED BY <2>1, <2>2, <1>a, <1>h
<1>14. ASSUME RecoverVisit(v)
      PROVE  VisitsTyped' /\ Apart
  <2>1. /\ visit' = [visit EXCEPT ![v] = "NeedsReview"]
        /\ UNCHANGED <<reviewed, event, held, handler, move, overtaken>>
    BY <1>14 DEF RecoverVisit, callsOnVisits
  <2>2. visit' \in [Visits -> VisitStates] /\ \A w \in Visits \ {v} : visit'[w] = visit[w]
    BY <2>1, <1>d, <1>i
  <2> QED BY <2>1, <2>2, <1>a, <1>h
<1>15. ASSUME RemoveEvent(v)
      PROVE  VisitsTyped' /\ Apart
  <2>1. /\ event' = [event EXCEPT ![v] = FALSE]
        /\ UNCHANGED <<visit, reviewed, held, handler, move, overtaken>>
    BY <1>15 DEF RemoveEvent, callsOnVisits
  <2>2. event' \in [Visits -> BOOLEAN] /\ \A w \in Visits \ {v} : event'[w] = event[w]
    BY <2>1, <1>e
  <2> QED BY <2>1, <2>2, <1>a, <1>h
<1>16. ASSUME HandleManually(v)
      PROVE  VisitsTyped' /\ Apart
  <2>1. /\ reviewed' = [reviewed EXCEPT ![v] = "HandlingManually"]
        /\ UNCHANGED <<visit, event, held, handler, move, overtaken>>
    BY <1>16 DEF HandleManually, callsOnVisits
  <2>2. reviewed' \in [Visits -> Reviews] /\ \A w \in Visits \ {v} : reviewed'[w] = reviewed[w]
    BY <2>1, <1>g, <1>i
  <2> QED BY <2>1, <2>2, <1>a, <1>h
<1>17. VisitsTyped' /\ Apart
  <2> HIDE DEF Apart
  <2> QED
  BY <1>1, <1>2, <1>3, <1>4, <1>5, <1>6, <1>7, <1>8, <1>9, <1>10, <1>11, <1>12, <1>13, <1>14,
     <1>15, <1>16 DEF VisitStep
<1>18. ASSUME NEW w \in Visits \ {v}
       PROVE  ReviewIsSafe(w)'
  BY <1>17 DEF CatalogInv, ReviewIsSafe, AtWork, Free
<1> QED BY <1>17, <1>18

\* The visit a step is about.
LEMMA ReviewsStaySafe ==
    ASSUME CatalogInv, NEW v \in Visits, VisitStep(v)
    PROVE  ReviewIsSafe(v)'
<1> USE DEF CatalogInv, VisitsTyped, ReviewIsSafe, AtWork, Free, Step
<1>1. ASSUME NEW h \in Handlers, BeginVisit(v, h)
      PROVE  ReviewIsSafe(v)'
  BY <1>1 DEF BeginVisit
<1>2. ASSUME NEW h \in Handlers, TakeUpVisit(v, h)
      PROVE  ReviewIsSafe(v)'
  BY <1>2 DEF TakeUpVisit
<1>3. ASSUME NEW h \in Handlers, WriteEvent(v, h)
      PROVE  ReviewIsSafe(v)'
  BY <1>3 DEF WriteEvent
<1>4. ASSUME NEW h \in Handlers, RecordVisit(v, h)
      PROVE  ReviewIsSafe(v)'
  BY <1>4 DEF RecordVisit
<1>5. ASSUME NEW m \in Moves, StartMove(v, m)
      PROVE  ReviewIsSafe(v)'
  BY <1>5 DEF StartMove
<1>6. ASSUME NEW m \in Moves, FailMove(v, m)
      PROVE  ReviewIsSafe(v)'
  BY <1>6 DEF FailMove
<1>7. ASSUME NEW m \in Moves, ReleaseOriginal(v, m)
      PROVE  ReviewIsSafe(v)'
  BY <1>7 DEF ReleaseOriginal
<1>8. ASSUME NEW m \in Moves, FinishMove(v, m)
      PROVE  ReviewIsSafe(v)'
  BY <1>8 DEF FinishMove
<1>9. ASSUME NEW m \in Moves, SettleSuccessor(v, m)
      PROVE  ReviewIsSafe(v)'
  BY <1>9 DEF SettleSuccessor
<1>10. CASE GiveUp(v)
  BY <1>10 DEF GiveUp
<1>11. ASSUME NEW to \in HeldFor, HoldVisit(v, to)
       PROVE  ReviewIsSafe(v)'
  <2>1. CASE to = "Complete"
    BY <2>1, <1>11 DEF HoldVisit, MayHold
  <2>2. CASE to # "Complete"
    BY <2>2, <1>11 DEF HoldVisit, MayHold, HeldFor
  <2> QED BY <2>1, <2>2
<1>12. CASE WriteVisit(v)
  BY <1>12 DEF WriteVisit, StatusFor, HeldFor
<1>13. CASE LetGo(v)
  BY <1>13 DEF LetGo
<1>14. CASE RecoverVisit(v)
  BY <1>14 DEF RecoverVisit, callsOnVisits
<1>15. CASE RemoveEvent(v)
  BY <1>15 DEF RemoveEvent, callsOnVisits
<1>16. CASE HandleManually(v)
  BY <1>16 DEF HandleManually, callsOnVisits
<1> QED
  BY <1>1, <1>2, <1>3, <1>4, <1>5, <1>6, <1>7, <1>8, <1>9, <1>10, <1>11, <1>12, <1>13, <1>14,
     <1>15, <1>16 DEF VisitStep

LEMMA CatalogStep == CatalogInv /\ [CatalogNext]_catalogVars => CatalogInv'
<1> SUFFICES ASSUME CatalogInv, [CatalogNext]_catalogVars PROVE CatalogInv'
  OBVIOUS
<1>1. ASSUME UNCHANGED visitVars
      PROVE  CatalogInv'
  BY <1>1 DEF visitVars, callsOnVisits, CatalogInv, VisitsTyped, ReviewIsSafe, AtWork, Free
<1>2. ASSUME NEW l \in CatalogListings, CatalogCommand(l)
      PROVE  CatalogInv'
  <2>1. UNCHANGED visitVars
    BY <1>2
    DEF CatalogCommand, SetListingAvailability, SetListingAuthority, ReviewListing,
        SetPublicationState, RecordOffer, CompleteSale, CompleteRental
  <2> QED BY <2>1, <1>1
<1>3. ASSUME NEW reason, SetPropertyStatus(reason)
      PROVE  CatalogInv'
  <2>1. /\ reviewed' = [v \in Visits |->
                           IF reason # "None" /\ visit[v] = "Confirmed" /\ reviewed[v] = "None"
                           THEN "Pending" ELSE reviewed[v]]
        /\ UNCHANGED <<visit, event, callsOnVisits>>
    BY <1>3 DEF SetPropertyStatus
  <2>2. VisitsTyped'
    BY <2>1 DEF callsOnVisits, CatalogInv, VisitsTyped, Reviews
  <2>3. ASSUME NEW v \in Visits
        PROVE  ReviewIsSafe(v)'
    BY <2>1 DEF callsOnVisits, CatalogInv, ReviewIsSafe, AtWork, Free
  <2> QED BY <2>2, <2>3 DEF CatalogInv
<1>4. ASSUME NEW v \in Visits, VisitStep(v)
      PROVE  CatalogInv'
  BY <1>4, VisitsStandAlone, ReviewsStaySafe DEF CatalogInv
<1>5. CASE UNCHANGED catalogVars
  BY <1>5, <1>1 DEF catalogVars
<1> QED BY <1>2, <1>3, <1>4, <1>5 DEF CatalogNext

\* A visit on record as cancelled by hand is Cancelled and off the calendar,
\* unless another call was at work on it while that was recorded or later.
THEOREM ReviewsEndCancelled == CatalogSpec => []CompletedReviewsAreCancelled
<1>1. CatalogInv => CompletedReviewsAreCancelled
  BY DEF CatalogInv, ReviewIsSafe, CompletedReviewsAreCancelled
<1> QED BY <1>1, CatalogInitially, CatalogStep, PTL DEF CatalogSpec

-----------------------------------------------------------------------------
(***************************************************************************)
(* Sponsorship.  A sale adds its campaign, at most, to those that hold a   *)
(* day, and only to the days on which there is room.                       *)
(***************************************************************************)
SponsorInv ==
    /\ window \in [SponsoredCampaigns -> Windows]
    /\ today \in Nat
    /\ limit \in [Surfaces -> Nat] /\ ceiling \in [Surfaces -> Nat]
    /\ \A s \in Surfaces : limit[s] <= ceiling[s]
    /\ \A s \in Surfaces, d \in Nat : Cardinality(Reserved(s, d)) <= ceiling[s]

\* The campaigns that hold a day are finitely many.
LEMMA ReservedIsFinite ==
    ASSUME NEW s, NEW d
    PROVE  IsFiniteSet(Reserved(s, d)) /\ Cardinality(Reserved(s, d)) \in Nat
BY SponsorshipAssumption, FS_Subset, FS_CardinalityType DEF Reserved

LEMMA SponsorInitially == SponsorInit => SponsorInv
<1> SUFFICES ASSUME SponsorInit PROVE SponsorInv
  OBVIOUS
<1>1. /\ window \in [SponsoredCampaigns -> Windows] /\ today \in Nat
      /\ limit \in [Surfaces -> Nat] /\ ceiling \in [Surfaces -> Nat]
      /\ \A s \in Surfaces : limit[s] <= ceiling[s]
  BY SponsorshipAssumption DEF SponsorInit, Windows
<1>2. ASSUME NEW s \in Surfaces, NEW d \in Nat
      PROVE  Cardinality(Reserved(s, d)) <= ceiling[s]
  <2>1. Reserved(s, d) = {}
    BY DEF SponsorInit, Reserved, Holds
  <2>2. Cardinality(Reserved(s, d)) = 0
    BY <2>1, FS_EmptySet
  <2> QED BY <1>1, <2>2
<1> QED BY <1>1, <1>2 DEF SponsorInv

\* What is within a limit is so with fewer members.
LEMMA SmallerFits ==
    ASSUME NEW S, NEW T, IsFiniteSet(S), T \subseteq S, NEW bound \in Nat, Cardinality(S) <= bound
    PROVE  Cardinality(T) <= bound
<1>1. IsFiniteSet(T) /\ Cardinality(T) <= Cardinality(S)
  BY FS_Subset
<1>2. Cardinality(T) \in Nat /\ Cardinality(S) \in Nat
  BY <1>1, FS_CardinalityType
<1> QED BY <1>1, <1>2

LEMMA SponsorStep == SponsorInv /\ [SponsorNext]_sponsorVars => SponsorInv'
<1> SUFFICES ASSUME SponsorInv, [SponsorNext]_sponsorVars PROVE SponsorInv'
  OBVIOUS
<1>1. today' \in Nat
  <2>1. today' = today \/ today' = today + 1
    BY DEF SponsorNext, IssueQuote, AcceptQuote, ExpireQuote, SetLimit, ScheduleCampaign,
           ActivateCampaign, PauseCampaign, CancelCampaign, Show, PassFindsIneligible,
           PassDelivers, SetLimit, DayPasses, sponsorVars
  <2> QED BY <2>1 DEF SponsorInv
<1>2. CASE \E q \in Quotes, from \in today .. LastDay : AcceptQuote(q, from)
  <2>1. PICK q \in Quotes, from \in today .. LastDay : AcceptQuote(q, from)
    BY <1>2
  <2> DEFINE c == QuoteOf[q]
             to == from + DurationDays[q]
  <2>2. c \in SponsoredCampaigns /\ from \in Nat /\ to \in Nat
    BY SponsorshipAssumption DEF SponsorInv
  <2>3. /\ window' = [window EXCEPT ![c] = [from |-> from, to |-> to, held |-> TRUE]]
        /\ \A s \in PackageSurfaces[c] : Room(s, from, to)
    BY <2>1 DEF AcceptQuote
  <2>4. window' \in [SponsoredCampaigns -> Windows]
    BY <2>2, <2>3 DEF SponsorInv, Windows
  <2>l. UNCHANGED <<limit, ceiling>>
    BY <2>1 DEF AcceptQuote, limits
  <2>5. ASSUME NEW s \in Surfaces, NEW d \in Nat
        PROVE  Cardinality(Reserved(s, d)') <= ceiling[s]
    <3>1. /\ Cardinality(Reserved(s, d)) <= ceiling[s]
          /\ Cardinality(Reserved(s, d)) \in Nat /\ ceiling[s] \in Nat
          /\ limit[s] \in Nat /\ limit[s] <= ceiling[s]
      BY ReservedIsFinite DEF SponsorInv
    <3>2. CASE s \in PackageSurfaces[c] /\ from <= d /\ d < to
      <4>1. Cardinality(Reserved(s, d)) < limit[s]
        BY <2>2, <2>3, <3>2 DEF Room
      <4>2. Reserved(s, d)' \subseteq Reserved(s, d) \cup {c}
        BY <2>2, <2>3 DEF Reserved, Holds, SponsorInv
      <4>3. /\ IsFiniteSet(Reserved(s, d) \cup {c})
            /\ Cardinality(Reserved(s, d) \cup {c}) =
                  IF c \in Reserved(s, d) THEN Cardinality(Reserved(s, d))
                  ELSE Cardinality(Reserved(s, d)) + 1
        BY ReservedIsFinite, FS_AddElement
      <4>4. Cardinality(Reserved(s, d) \cup {c}) <= ceiling[s]
        BY <3>1, <4>1, <4>3
      <4> QED BY <3>1, <4>2, <4>3, <4>4, SmallerFits
    <3>3. CASE ~(s \in PackageSurfaces[c] /\ from <= d /\ d < to)
      <4>1. Reserved(s, d)' \subseteq Reserved(s, d)
        BY <2>2, <2>3, <3>3 DEF Reserved, Holds, SponsorInv
      <4> QED BY <3>1, <4>1, ReservedIsFinite, SmallerFits
    <3> QED BY <3>2, <3>3
  <2> QED BY <1>1, <2>4, <2>5, <2>l DEF SponsorInv
<1>3. CASE /\ window' = window \/ \E c \in SponsoredCampaigns : window' = Freed(c)
           /\ UNCHANGED limits
  <2>1. window' \in [SponsoredCampaigns -> Windows]
    BY <1>3 DEF Freed, SponsorInv, Windows
  <2>2. \A c \in SponsoredCampaigns :
            window'[c].held => window'[c] = window[c]
    BY <1>3 DEF Freed, SponsorInv, Windows
  <2>3. ASSUME NEW s \in Surfaces, NEW d \in Nat
        PROVE  Cardinality(Reserved(s, d)') <= ceiling[s]
    <3>1. Reserved(s, d)' \subseteq Reserved(s, d)
      BY <2>2 DEF Reserved, Holds
    <3>2. Cardinality(Reserved(s, d)) <= ceiling[s] /\ ceiling[s] \in Nat
      BY DEF SponsorInv
    <3> QED BY <3>1, <3>2, ReservedIsFinite, SmallerFits
  <2> QED BY <1>1, <1>3, <2>1, <2>3 DEF SponsorInv, limits
<1>5. CASE \E s \in Surfaces, to \in 0 .. MaxLimit : SetLimit(s, to)
  <2>1. PICK s \in Surfaces, to \in 0 .. MaxLimit : SetLimit(s, to)
    BY <1>5
  <2> DEFINE unsold == \A c \in SponsoredCampaigns : s \in PackageSurfaces[c] => ~window[c].held
  <2>2. /\ limit' = [limit EXCEPT ![s] = to]
        /\ ceiling' = [ceiling EXCEPT ![s] = IF unsold \/ to > ceiling[s] THEN to ELSE @]
        /\ window' = window
    BY <2>1 DEF SetLimit
  <2>3. to \in Nat
    BY SponsorshipAssumption
  <2>4. /\ limit' \in [Surfaces -> Nat] /\ ceiling' \in [Surfaces -> Nat]
        /\ \A t \in Surfaces : limit'[t] <= ceiling'[t]
    <3> HIDE DEF unsold
    <3> QED BY <2>2, <2>3 DEF SponsorInv
  <2>5. ASSUME NEW t \in Surfaces, NEW d \in Nat
        PROVE  Cardinality(Reserved(t, d)') <= ceiling'[t]
    <3>1. Reserved(t, d)' = Reserved(t, d)
      BY <2>2 DEF Reserved, Holds
    <3>2. Cardinality(Reserved(t, d)) <= ceiling[t] /\ Cardinality(Reserved(t, d)) \in Nat
      BY ReservedIsFinite DEF SponsorInv
    <3>3. CASE t = s /\ unsold
      <4>1. Reserved(t, d) = {}
        BY <3>3 DEF Reserved, Holds
      <4>2. Cardinality(Reserved(t, d)) = 0
        BY <4>1, FS_EmptySet
      <4> QED BY <3>1, <4>2, <2>4
    <3>4. CASE t # s \/ ~unsold
      <4> HIDE DEF unsold
      <4>1. ceiling[t] <= ceiling'[t]
        BY <3>4, <2>2, <2>3 DEF SponsorInv
      <4>2. ceiling[t] \in Nat /\ ceiling'[t] \in Nat
        BY <2>4 DEF SponsorInv
      <4> QED BY <3>1, <3>2, <4>1, <4>2
    <3> QED BY <3>3, <3>4
  <2>6. window' \in [SponsoredCampaigns -> Windows]
    BY <2>2 DEF SponsorInv
  <2> QED BY <1>1, <2>4, <2>5, <2>6 DEF SponsorInv
<1>4. ASSUME ~ \E q \in Quotes, from \in today .. LastDay : AcceptQuote(q, from),
             ~ \E s \in Surfaces, to \in 0 .. MaxLimit : SetLimit(s, to)
      PROVE  /\ window' = window \/ \E c \in SponsoredCampaigns : window' = Freed(c)
             /\ UNCHANGED limits
  BY <1>4
  DEF SponsorNext, IssueQuote, ExpireQuote, ScheduleCampaign, ActivateCampaign, PauseCampaign,
      CancelCampaign, Show, PassFindsIneligible, PassDelivers, DayPasses, sponsorVars
<1> QED BY <1>2, <1>3, <1>4, <1>5

\* On no day are more campaigns sold on a surface than a limit in force since
\* it was last free.
THEOREM SalesFit == SponsorSpec => []ReservationsFit
<1>1. SponsorInv => ReservationsFit
  <2> SUFFICES ASSUME SponsorInv, NEW s \in Surfaces, NEW c \in SponsoredCampaigns,
                      NEW d \in SoldDays(c)
               PROVE  Cardinality(Reserved(s, d)) <= ceiling[s]
    BY DEF ReservationsFit
  <2>1. d \in Nat
    BY DEF SponsorInv, SoldDays, Windows
  <2> QED BY <2>1 DEF SponsorInv
<1> QED BY <1>1, SponsorInitially, SponsorStep, PTL DEF SponsorSpec

\* The rows of campaigns, quotes and delivery days keep their shape.
THEOREM SponsorTypeCorrect == SponsorSpec => []SponsorTypeOK
<1>1. SponsorInit => SponsorTypeOK
  BY SponsorshipAssumption DEF SponsorInit, SponsorTypeOK, CampaignStates, LIVE_STATES, Windows, Days
<1>2. SponsorTypeOK /\ [SponsorNext]_sponsorVars => SponsorTypeOK'
  <2> SUFFICES ASSUME SponsorTypeOK, [SponsorNext]_sponsorVars PROVE SponsorTypeOK'
    OBVIOUS
  <2> USE SponsorshipAssumption DEF SponsorTypeOK, CampaignStates, LIVE_STATES, limits
  <2>1. ASSUME NEW q \in Quotes, IssueQuote(q) PROVE SponsorTypeOK'
    BY <2>1 DEF IssueQuote
  <2>2. ASSUME NEW q \in Quotes, NEW from \in today .. LastDay, AcceptQuote(q, from)
        PROVE  SponsorTypeOK'
    <3>1. from \in Nat /\ from + DurationDays[q] \in Nat /\ DurationDays[q] \in Nat
      BY DEF Days
    <3> QED BY <2>2, <3>1 DEF AcceptQuote, Windows
  <2>3. ASSUME NEW q \in Quotes, ExpireQuote(q) PROVE SponsorTypeOK'
    BY <2>3 DEF ExpireQuote
  <2>4. ASSUME NEW c \in SponsoredCampaigns PROVE Freed(c) \in [SponsoredCampaigns -> Windows]
    BY DEF Freed, Windows
  <2>5. ASSUME NEW c \in SponsoredCampaigns, NEW from \in today .. LastDay, ScheduleCampaign(c, from)
        PROVE  SponsorTypeOK'
    <3>1. from \in Days
      BY DEF Days
    <3> QED BY <2>5, <3>1 DEF ScheduleCampaign
  <2>6. ASSUME NEW c \in SponsoredCampaigns,
               ActivateCampaign(c) \/ PauseCampaign(c) \/ Show(c)
        PROVE  SponsorTypeOK'
    <3>1. CASE ActivateCampaign(c)
      BY <3>1 DEF ActivateCampaign
    <3>2. CASE PauseCampaign(c)
      BY <3>2 DEF PauseCampaign
    <3>3. CASE Show(c)
      BY <3>3 DEF Show
    <3> QED BY <2>6, <3>1, <3>2, <3>3
  <2>7. ASSUME NEW c \in SponsoredCampaigns, CancelCampaign(c) PROVE SponsorTypeOK'
    BY <2>4, <2>7 DEF CancelCampaign
  <2>8. ASSUME NEW c \in SponsoredCampaigns, PassFindsIneligible(c) PROVE SponsorTypeOK'
    BY <2>8 DEF PassFindsIneligible
  <2>9. ASSUME NEW c \in SponsoredCampaigns, PassDelivers(c) PROVE SponsorTypeOK'
    <3>1. deliveredDays[c] + (IF Counts(c) THEN 1 ELSE 0) \in Nat
      OBVIOUS
    <3> QED BY <2>4, <2>9, <3>1 DEF PassDelivers
  <2>10. CASE DayPasses
    BY <2>10 DEF DayPasses, Days
  <2>11. CASE UNCHANGED sponsorVars
    BY <2>11 DEF sponsorVars
  <2>12. ASSUME NEW s \in Surfaces, NEW to \in 0 .. MaxLimit, SetLimit(s, to)
         PROVE  SponsorTypeOK'
    BY <2>12 DEF SetLimit
  <2> QED BY <2>1, <2>2, <2>3, <2>5, <2>6, <2>7, <2>8, <2>9, <2>10, <2>11, <2>12 DEF SponsorNext
<1> QED BY <1>1, <1>2, PTL DEF SponsorSpec

\* A place is held exactly for the campaigns that still have days to deliver.
THEOREM PlacesAreHeld == SponsorSpec => []LiveCampaignsHoldTheirPlace
<1>1. SponsorInit => LiveCampaignsHoldTheirPlace
  BY DEF SponsorInit, LiveCampaignsHoldTheirPlace, LIVE_STATES
<1>2. SponsorTypeOK /\ LiveCampaignsHoldTheirPlace /\ [SponsorNext]_sponsorVars
          => LiveCampaignsHoldTheirPlace'
  <2> SUFFICES ASSUME SponsorTypeOK, LiveCampaignsHoldTheirPlace, [SponsorNext]_sponsorVars,
                      NEW k \in SponsoredCampaigns
               PROVE  window'[k].held <=> campaign'[k] \in {"Reserved"} \cup LIVE_STATES
    BY DEF LiveCampaignsHoldTheirPlace
  <2>1. window[k].held <=> campaign[k] \in {"Reserved"} \cup LIVE_STATES
    BY DEF LiveCampaignsHoldTheirPlace
  <2>2. /\ window \in [SponsoredCampaigns -> Windows]
        /\ campaign \in [SponsoredCampaigns -> CampaignStates]
    BY DEF SponsorTypeOK
  <2>3. ASSUME NEW q \in Quotes, IssueQuote(q)
        PROVE  window'[k].held <=> campaign'[k] \in {"Reserved"} \cup LIVE_STATES
    BY <2>1, <2>2, <2>3 DEF IssueQuote, LIVE_STATES
  <2>4. ASSUME NEW q \in Quotes, NEW from \in today .. LastDay, AcceptQuote(q, from)
        PROVE  window'[k].held <=> campaign'[k] \in {"Reserved"} \cup LIVE_STATES
    BY <2>1, <2>2, <2>4 DEF AcceptQuote, LIVE_STATES
  <2>5. ASSUME NEW c \in SponsoredCampaigns,
               \/ \E from \in today .. LastDay : ScheduleCampaign(c, from)
               \/ ActivateCampaign(c) \/ PauseCampaign(c) \/ PassFindsIneligible(c)
        PROVE  window'[k].held <=> campaign'[k] \in {"Reserved"} \cup LIVE_STATES
    BY <2>1, <2>2, <2>5
    DEF ScheduleCampaign, ActivateCampaign, PauseCampaign, PassFindsIneligible, LIVE_STATES
  <2>6. ASSUME NEW c \in SponsoredCampaigns, CancelCampaign(c) \/ PassDelivers(c)
        PROVE  window'[k].held <=> campaign'[k] \in {"Reserved"} \cup LIVE_STATES
    BY <2>1, <2>2, <2>6 DEF CancelCampaign, PassDelivers, Freed, Windows, LIVE_STATES
  <2>7. CASE /\ UNCHANGED <<campaign, window>>
    BY <2>1, <2>7
  <2>8. \/ \E q \in Quotes :
             IssueQuote(q) \/ \E from \in today .. LastDay : AcceptQuote(q, from)
        \/ \E c \in SponsoredCampaigns :
             \/ \E from \in today .. LastDay : ScheduleCampaign(c, from)
             \/ ActivateCampaign(c) \/ PauseCampaign(c) \/ PassFindsIneligible(c)
             \/ CancelCampaign(c) \/ PassDelivers(c)
        \/ UNCHANGED <<campaign, window>>
    BY DEF SponsorNext, ExpireQuote, Show, SetLimit, DayPasses, sponsorVars
  <2> QED BY <2>3, <2>4, <2>5, <2>6, <2>7, <2>8
<1> QED BY <1>1, <1>2, SponsorTypeCorrect, PTL DEF SponsorSpec

\* The only step that counts a day is the pass that delivers, and it counts
\* today only when today was not counted yet.
LEMMA OnlyDeliveryCounts ==
    ASSUME SponsorTypeOK, [SponsorNext]_sponsorVars, NEW c \in SponsoredCampaigns
    PROVE  \/ /\ deliveredDays'[c] = deliveredDays[c]
              /\ \A d \in Days : serviceDay'[c][d] = "Counted" <=> serviceDay[c][d] = "Counted"
           \/ /\ deliveredDays'[c] = deliveredDays[c] + 1
              /\ serviceDay[c][today] # "Counted" /\ serviceDay'[c][today] = "Counted"
              /\ \A d \in Days \ {today} : serviceDay'[c][d] = serviceDay[c][d]
<1> DEFINE Goal == \/ /\ deliveredDays'[c] = deliveredDays[c]
                      /\ \A d \in Days : serviceDay'[c][d] = "Counted" <=> serviceDay[c][d] = "Counted"
                   \/ /\ deliveredDays'[c] = deliveredDays[c] + 1
                      /\ serviceDay[c][today] # "Counted" /\ serviceDay'[c][today] = "Counted"
                      /\ \A d \in Days \ {today} : serviceDay'[c][d] = serviceDay[c][d]
<1>1. /\ deliveredDays \in [SponsoredCampaigns -> Nat]
      /\ serviceDay \in [SponsoredCampaigns ->
                            [Days -> {"None", "Counted", "NoMeasuredDelivery", "NotEligible"}]]
      /\ today \in Days
  BY DEF SponsorTypeOK
<1>2. CASE UNCHANGED <<deliveredDays, serviceDay>>
  BY <1>2
<1>3. ASSUME NEW k \in SponsoredCampaigns, PassFindsIneligible(k) PROVE Goal
  BY <1>1, <1>3 DEF PassFindsIneligible
<1>4. ASSUME NEW k \in SponsoredCampaigns, PassDelivers(k) PROVE Goal
  <2>1. CASE k # c
    BY <1>1, <1>4, <2>1 DEF PassDelivers
  <2>2. CASE k = c /\ Counts(c)
    BY <1>1, <1>4, <2>2 DEF PassDelivers, Counts
  <2>3. CASE k = c /\ ~Counts(c)
    BY <1>1, <1>4, <2>3 DEF PassDelivers
  <2> QED BY <2>1, <2>2, <2>3
<1>5. \/ UNCHANGED <<deliveredDays, serviceDay>>
      \/ \E k \in SponsoredCampaigns : PassFindsIneligible(k) \/ PassDelivers(k)
  BY DEF SponsorNext, IssueQuote, AcceptQuote, ExpireQuote, ScheduleCampaign, ActivateCampaign,
         PauseCampaign, CancelCampaign, Show, SetLimit, DayPasses, sponsorVars
<1> QED BY <1>2, <1>3, <1>4, <1>5

\* What is charged against the paid days is what the delivery rows say.
THEOREM DaysAreNotCountedTwice == SponsorSpec => []DaysAreCountedOnce
<1>1. SponsorInit => DaysAreCountedOnce
  <2> SUFFICES ASSUME SponsorInit, NEW c \in SponsoredCampaigns
               PROVE  deliveredDays[c] = Cardinality({d \in Days : serviceDay[c][d] = "Counted"})
    BY DEF DaysAreCountedOnce
  <2>1. {d \in Days : serviceDay[c][d] = "Counted"} = {}
    BY DEF SponsorInit
  <2> QED BY <2>1, FS_EmptySet DEF SponsorInit
<1>2. SponsorTypeOK /\ DaysAreCountedOnce /\ [SponsorNext]_sponsorVars => DaysAreCountedOnce'
  <2> SUFFICES ASSUME SponsorTypeOK, DaysAreCountedOnce, [SponsorNext]_sponsorVars,
                      NEW c \in SponsoredCampaigns
               PROVE  deliveredDays'[c] = Cardinality({d \in Days : serviceDay'[c][d] = "Counted"})
    BY DEF DaysAreCountedOnce
  <2> DEFINE before == {d \in Days : serviceDay[c][d] = "Counted"}
             after == {d \in Days : serviceDay'[c][d] = "Counted"}
  <2>1. deliveredDays[c] = Cardinality(before)
    BY DEF DaysAreCountedOnce
  <2>2. CASE /\ deliveredDays'[c] = deliveredDays[c]
             /\ \A d \in Days : serviceDay'[c][d] = "Counted" <=> serviceDay[c][d] = "Counted"
    <3>1. after = before
      BY <2>2
    <3> QED BY <2>1, <2>2, <3>1
  <2>3. CASE /\ deliveredDays'[c] = deliveredDays[c] + 1
             /\ serviceDay[c][today] # "Counted" /\ serviceDay'[c][today] = "Counted"
             /\ \A d \in Days \ {today} : serviceDay'[c][d] = serviceDay[c][d]
    <3>1. today \in Days
      BY DEF SponsorTypeOK
    <3>2. after = before \cup {today} /\ today \notin before
      BY <2>3, <3>1
    <3>3. IsFiniteSet(Days)
      <4>1. 0 \in Int /\ LastDay \in Int
        BY SponsorshipAssumption
      <4> QED BY <4>1, FS_Interval DEF Days
    <3>4. IsFiniteSet(before)
      <4>1. before \subseteq Days
        OBVIOUS
      <4> HIDE DEF before
      <4> QED BY <4>1, <3>3, FS_Subset
    <3> HIDE DEF before, after
    <3>5. Cardinality(after) = Cardinality(before) + 1
      BY <3>2, <3>4, FS_AddElement
    <3>6. deliveredDays'[c] = Cardinality(after)
      BY <2>1, <2>3, <3>5
    <3> QED BY <3>6 DEF after
  <2> QED BY <2>2, <2>3, OnlyDeliveryCounts
<1> QED BY <1>1, <1>2, SponsorTypeCorrect, PTL DEF SponsorSpec

-----------------------------------------------------------------------------
(***************************************************************************)
(* What the Broker is told.                                                *)
(***************************************************************************)

Announcements == {"Booked", "NeedsReview"}
Reminding == {"Reminder"}

IsAbout(kinds, notice, b) == notice.kind \in kinds /\ b \in notice.covers

\* No visit has two notices of the kind in the queue.
OnceEach(kinds, queue) ==
    \A b \in Bookings : \A i, j \in 1..Len(queue) :
        IsAbout(kinds, queue[i], b) /\ IsAbout(kinds, queue[j], b) => i = j

USE DEF Losses

\* One more than the losses is the most, and only where it is stamped or about
\* to be; what is still to be sent is neither.
IsAccounted(kinds, stamped, count, b) ==
    /\ count <= 1 + Losses
    /\ ~stamped /\ ~IsAbout(kinds, unstamped, b) => count <= Losses
    /\ \A i \in 1..Len(owing) : IsAbout(kinds, owing[i], b) =>
           count <= Losses /\ ~IsAbout(kinds, unstamped, b)

TickOK ==
    /\ reading \in {"Idle", "Digest", "Reminders", "Sending"}
    /\ noticed \in [Bookings -> BOOLEAN] /\ reminded \in [Bookings -> BOOLEAN]
    /\ told \in [Bookings -> Nat] /\ reminders \in [Bookings -> Nat]
    /\ owing \in Seq(Notices) /\ unstamped \in Notices
    /\ noticeCrashes \in Nat /\ lostAnswers \in Nat
    /\ reading = "Idle" => owing = << >>
    /\ reading # "Sending" => unstamped = NoNotice
    /\ reading # "Sending" =>
           \A i \in 1..Len(owing) : owing[i].kind \in Announcements \cup {"Digest"}

NoticesInv ==
    /\ TickOK
    /\ OnceEach(Announcements, owing) /\ OnceEach(Reminding, owing)
    /\ \A b \in Bookings : /\ IsAccounted(Announcements, noticed[b], told[b], b)
                           /\ IsAccounted(Reminding, reminded[b], reminders[b], b)

\* A sequence of a finite set has each element at one place.
LEMMA SequenceOfASet ==
    ASSUME NEW S, IsFiniteSet(S)
    PROVE  /\ SetToSeq(S) \in Seq(S)
           /\ \A i, j \in 1..Len(SetToSeq(S)) : SetToSeq(S)[i] = SetToSeq(S)[j] => i = j
<1>1. Cardinality(S) \in Nat /\ ExistsBijection(1..Cardinality(S), S)
  BY FS_CardinalityType
<1>2. \E f \in [1..Cardinality(S) -> S] : IsInjective(f)
  BY <1>1 DEF ExistsBijection, Bijection, Injection
<1>3. SetToSeq(S) \in [1..Cardinality(S) -> S] /\ IsInjective(SetToSeq(S))
  BY <1>2 DEF SetToSeq
<1> QED BY <1>1, <1>3 DEF IsInjective

LEMMA NoNoticeIsAboutNothing ==
    /\ NoNotice \in Notices
    /\ \A b : ~IsAbout(Announcements, NoNotice, b) /\ ~IsAbout(Reminding, NoNotice, b)
BY DEF NoNotice, Notice, Notices, IsAbout, Announcements, Reminding

\* Each notice that is due is about one visit, which was not told yet.
LEMMA AnnouncementsDue ==
    /\ ImmediateNotices \in Seq(Notices)
    /\ OnceEach(Announcements, ImmediateNotices)
    /\ \A i \in 1..Len(ImmediateNotices) :
           /\ ImmediateNotices[i].kind \in Announcements
           /\ \A b \in ImmediateNotices[i].covers : ~noticed[b]
<1> DEFINE due == {b \in Resolved : ~noticed[b]}
           one(b) == Notice(IF booking[b] = "Confirmed" THEN "Booked" ELSE "NeedsReview", {b})
           S == {one(b) : b \in due}
<1>1. ImmediateNotices = SetToSeq(S)
  BY DEF ImmediateNotices
<1>2. due \subseteq Bookings
  BY DEF Resolved
<1>3. IsFiniteSet(S)
  <2>1. IsFiniteSet(due)
    BY <1>2, NoticeBounds, FS_Subset
  <2> DEFINE f == [b \in due |-> one(b)]
  <2>2. f \in Surjection(due, S)
    BY DEF Surjection
  <2> QED BY <2>1, <2>2, FS_Surjection DEF ExistsSurjection
<1>4. \A x \in S : x \in Notices /\ x.kind \in Announcements /\ \E b \in due : x.covers = {b}
  BY <1>2 DEF Notice, Notices, Announcements
<1>5. \A x, y \in S : \A b : b \in x.covers /\ b \in y.covers => x = y
  <2> SUFFICES ASSUME NEW x \in S, NEW y \in S, NEW b, b \in x.covers, b \in y.covers
               PROVE  x = y
    OBVIOUS
  <2>1. PICK b1 \in due, b2 \in due : x = one(b1) /\ y = one(b2)
    OBVIOUS
  <2>2. b1 = b2
    BY <2>1 DEF Notice
  <2> QED BY <2>1, <2>2
<1>6. \A x \in S : \A b \in x.covers : ~noticed[b]
  BY <1>4
<1> HIDE DEF S
<1>7. /\ SetToSeq(S) \in Seq(S)
      /\ \A i, j \in 1..Len(SetToSeq(S)) : SetToSeq(S)[i] = SetToSeq(S)[j] => i = j
  BY <1>3, SequenceOfASet
<1>8. SetToSeq(S) \in Seq(Notices) /\ \A i \in 1..Len(SetToSeq(S)) : SetToSeq(S)[i] \in S
  BY <1>4, <1>7
<1> QED BY <1>1, <1>4, <1>5, <1>6, <1>7, <1>8 DEF OnceEach, IsAbout

LEMMA RemindersDue ==
    /\ ReminderNotices \in Seq(Notices)
    /\ OnceEach(Reminding, ReminderNotices)
    /\ \A i \in 1..Len(ReminderNotices) :
           /\ ReminderNotices[i].kind \in Reminding
           /\ \A b \in ReminderNotices[i].covers : ~reminded[b]
<1> DEFINE due == {c \in ConfirmedToday : ~reminded[c]}
           one(b) == Notice("Reminder", {b})
           S == {one(b) : b \in due}
<1>1. ReminderNotices = SetToSeq(S) \/ ReminderNotices = << >>
  BY DEF ReminderNotices
<1>2. due \subseteq Bookings
  BY DEF ConfirmedToday
<1>3. IsFiniteSet(S)
  <2>1. IsFiniteSet(due)
    BY <1>2, NoticeBounds, FS_Subset
  <2> DEFINE f == [b \in due |-> one(b)]
  <2>2. f \in Surjection(due, S)
    BY DEF Surjection
  <2> QED BY <2>1, <2>2, FS_Surjection DEF ExistsSurjection
<1>4. \A x \in S : x \in Notices /\ x.kind \in Reminding /\ \E b \in due : x.covers = {b}
  BY <1>2 DEF Notice, Notices, Reminding
<1>5. \A x, y \in S : \A b : b \in x.covers /\ b \in y.covers => x = y
  <2> SUFFICES ASSUME NEW x \in S, NEW y \in S, NEW b, b \in x.covers, b \in y.covers
               PROVE  x = y
    OBVIOUS
  <2>1. PICK b1 \in due, b2 \in due : x = one(b1) /\ y = one(b2)
    OBVIOUS
  <2>2. b1 = b2
    BY <2>1 DEF Notice
  <2> QED BY <2>1, <2>2
<1>6. \A x \in S : \A b \in x.covers : ~reminded[b]
  BY <1>4
<1> HIDE DEF S
<1>7. /\ SetToSeq(S) \in Seq(S)
      /\ \A i, j \in 1..Len(SetToSeq(S)) : SetToSeq(S)[i] = SetToSeq(S)[j] => i = j
  BY <1>3, SequenceOfASet
<1>8. SetToSeq(S) \in Seq(Notices) /\ \A i \in 1..Len(SetToSeq(S)) : SetToSeq(S)[i] \in S
  BY <1>4, <1>7
<1>9. CASE ReminderNotices = SetToSeq(S)
  BY <1>4, <1>5, <1>6, <1>7, <1>8, <1>9 DEF OnceEach, IsAbout
<1>10. CASE ReminderNotices = << >>
  BY <1>10 DEF OnceEach
<1> QED BY <1>1, <1>9, <1>10

\* What follows a queue without notices of the kind decides.
LEMMA QueueGrows ==
    ASSUME NEW q \in Seq(Notices), NEW more \in Seq(Notices)
    PROVE  /\ q \o more \in Seq(Notices) /\ Len(q \o more) = Len(q) + Len(more)
           /\ \A i \in 1..Len(q) : (q \o more)[i] = q[i]
           /\ \A i \in 1..Len(q \o more) : i \notin 1..Len(q) =>
                  i - Len(q) \in 1..Len(more) /\ (q \o more)[i] = more[i - Len(q)]
OBVIOUS

LEMMA NoticesInitially == NoticesInit => NoticesInv
<1> SUFFICES ASSUME NoticesInit PROVE NoticesInv
  OBVIOUS
<1>1. TickOK
  BY NoNoticeIsAboutNothing DEF NoticesInit, TickOK
<1>2. owing = << >> /\ unstamped = NoNotice /\ Losses = 0
      /\ \A b \in Bookings : told[b] = 0 /\ reminders[b] = 0
  BY DEF NoticesInit
<1>3. OnceEach(Announcements, owing) /\ OnceEach(Reminding, owing)
  BY <1>2 DEF OnceEach
<1>4. \A b \in Bookings : /\ IsAccounted(Announcements, noticed[b], told[b], b)
                          /\ IsAccounted(Reminding, reminded[b], reminders[b], b)
  BY <1>2 DEF IsAccounted
<1> QED BY <1>1, <1>3, <1>4 DEF NoticesInv

\* The three queries of a tick.
LEMMA ReadingStep ==
    ASSUME NoticesInv, ReadImmediate \/ ReadDigest \/ ReadReminders
    PROVE  NoticesInv'
<1>1. TickOK /\ UNCHANGED <<noticed, told, reminders, unstamped, noticeCrashes, lostAnswers>>
  BY DEF NoticesInv, ReadImmediate, ReadDigest, ReadReminders, counts, stamps, faults
<1>2. unstamped = NoNotice
  BY <1>1 DEF TickOK, ReadImmediate, ReadDigest, ReadReminders
<1>3. \A b \in Bookings : /\ told[b] <= 1 + Losses /\ reminders[b] <= 1 + Losses
                          /\ ~noticed[b] => told[b] <= Losses
                          /\ ~reminded[b] => reminders[b] <= Losses
  BY <1>2, NoNoticeIsAboutNothing DEF NoticesInv, IsAccounted
<1>4. CASE ReadImmediate
  <2>1. /\ owing' = ImmediateNotices /\ reading' = "Digest"
        /\ reminded' \in [Bookings -> BOOLEAN]
        /\ \A b \in Bookings : reminded[b] => reminded'[b]
    BY <1>1, <1>4 DEF ReadImmediate, TickOK
  <2>2. TickOK'
    BY <1>1, <1>2, <2>1, AnnouncementsDue DEF TickOK
  <2>3. OnceEach(Announcements, owing') /\ OnceEach(Reminding, owing')
    BY <2>1, AnnouncementsDue DEF OnceEach, IsAbout, Announcements, Reminding
  <2>4. \A b \in Bookings : \A i \in 1..Len(owing') :
            /\ IsAbout(Announcements, owing'[i], b) => ~noticed[b]
            /\ ~IsAbout(Reminding, owing'[i], b)
    BY <2>1, AnnouncementsDue DEF IsAbout, Announcements, Reminding
  <2>5. \A b \in Bookings : /\ IsAccounted(Announcements, noticed[b], told[b], b)'
                            /\ IsAccounted(Reminding, reminded[b], reminders[b], b)'
    BY <1>1, <1>2, <1>3, <2>1, <2>4, NoNoticeIsAboutNothing DEF IsAccounted
  <2> QED BY <2>2, <2>3, <2>5 DEF NoticesInv
<1>5. CASE ReadDigest
  <2>1. /\ owing' = owing \o DigestNotices /\ reading' = "Reminders" /\ reading = "Digest"
        /\ reminded' = reminded
    BY <1>5 DEF ReadDigest, stamps
  <2>2. /\ DigestNotices \in Seq(Notices)
        /\ \A i \in 1..Len(DigestNotices) : DigestNotices[i].kind = "Digest"
    <3>1. PICK digest : digest = Notice("Digest", ConfirmedToday)
      OBVIOUS
    <3>2. digest \in Notices /\ digest.kind = "Digest"
      BY <3>1 DEF Notice, Notices, ConfirmedToday
    <3>3. DigestNotices = <<digest>> \/ DigestNotices = << >>
      BY <3>1 DEF DigestNotices
    <3>4. CASE DigestNotices = <<digest>>
      <4>1. Len(DigestNotices) = 1 /\ DigestNotices[1] = digest
        BY <3>4
      <4>2. DigestNotices \in Seq(Notices)
        BY <3>2, <3>4
      <4> QED BY <3>2, <4>1, <4>2
    <3>5. CASE DigestNotices = << >>
      BY <3>5
    <3> QED BY <3>3, <3>4, <3>5
  <2>3. /\ owing' \in Seq(Notices)
        /\ \A i \in 1..Len(owing') : \/ i \in 1..Len(owing) /\ owing'[i] = owing[i]
                                     \/ owing'[i].kind = "Digest"
    BY <1>1, <2>1, <2>2, QueueGrows DEF TickOK
  <2>4. TickOK'
    BY <1>1, <1>2, <2>1, <2>3 DEF TickOK
  <2>5. \A b \in Bookings, i \in 1..Len(owing') :
            /\ IsAbout(Announcements, owing'[i], b) =>
                   i \in 1..Len(owing) /\ IsAbout(Announcements, owing[i], b)
            /\ ~IsAbout(Reminding, owing'[i], b)
    BY <1>1, <2>1, <2>3 DEF IsAbout, Announcements, Reminding, TickOK
  <2>6. OnceEach(Announcements, owing') /\ OnceEach(Reminding, owing')
    BY <2>5 DEF NoticesInv, OnceEach
  <2>7. \A b \in Bookings : /\ IsAccounted(Announcements, noticed[b], told[b], b)'
                            /\ IsAccounted(Reminding, reminded[b], reminders[b], b)'
    BY <1>1, <1>2, <1>3, <2>1, <2>5, NoNoticeIsAboutNothing DEF IsAccounted, NoticesInv
  <2> QED BY <2>4, <2>6, <2>7 DEF NoticesInv
<1>6. CASE ReadReminders
  <2>1. /\ owing' = owing \o ReminderNotices /\ reading' = "Sending" /\ reading = "Reminders"
        /\ reminded' = reminded
    BY <1>6 DEF ReadReminders, stamps
  <2>2. /\ owing' \in Seq(Notices)
        /\ \A i \in 1..Len(owing') :
               \/ i \in 1..Len(owing) /\ owing'[i] = owing[i]
               \/ i - Len(owing) \in 1..Len(ReminderNotices) /\ i \notin 1..Len(owing)
                  /\ owing'[i] = ReminderNotices[i - Len(owing)]
    BY <1>1, <2>1, RemindersDue, QueueGrows DEF TickOK
  <2>3. TickOK'
    BY <1>1, <1>2, <2>1, <2>2 DEF TickOK
  <2>4. \A b \in Bookings, i \in 1..Len(owing') :
            /\ IsAbout(Announcements, owing'[i], b) =>
                   i \in 1..Len(owing) /\ IsAbout(Announcements, owing[i], b)
            /\ IsAbout(Reminding, owing'[i], b) =>
                   /\ i - Len(owing) \in 1..Len(ReminderNotices)
                   /\ owing'[i] = ReminderNotices[i - Len(owing)]
                   /\ ~reminded[b]
    <3> SUFFICES ASSUME NEW b \in Bookings, NEW i \in 1..Len(owing')
                 PROVE  /\ IsAbout(Announcements, owing'[i], b) =>
                               i \in 1..Len(owing) /\ IsAbout(Announcements, owing[i], b)
                        /\ IsAbout(Reminding, owing'[i], b) =>
                               /\ i - Len(owing) \in 1..Len(ReminderNotices)
                               /\ owing'[i] = ReminderNotices[i - Len(owing)]
                               /\ ~reminded[b]
      OBVIOUS
    <3>1. CASE i \in 1..Len(owing) /\ owing'[i] = owing[i]
      <4>1. owing[i].kind \in Announcements \cup {"Digest"}
        BY <1>1, <2>1, <3>1 DEF TickOK
      <4>2. ~IsAbout(Reminding, owing'[i], b)
        BY <3>1, <4>1 DEF IsAbout, Announcements, Reminding
      <4> QED BY <3>1, <4>2
    <3>2. CASE /\ i - Len(owing) \in 1..Len(ReminderNotices)
               /\ owing'[i] = ReminderNotices[i - Len(owing)]
      <4>1. PICK k : k = i - Len(owing)
        OBVIOUS
      <4>2. /\ ReminderNotices[k].kind \in Reminding
            /\ b \in ReminderNotices[k].covers => ~reminded[b]
        BY <3>2, <4>1, RemindersDue
      <4> QED BY <3>2, <4>1, <4>2 DEF IsAbout, Announcements, Reminding
    <3> QED BY <2>2, <3>1, <3>2
  <2>5. OnceEach(Announcements, owing')
    BY <2>4 DEF NoticesInv, OnceEach
  <2>6. OnceEach(Reminding, owing')
    <3> SUFFICES ASSUME NEW b \in Bookings, NEW i \in 1..Len(owing'), NEW j \in 1..Len(owing'),
                        IsAbout(Reminding, owing'[i], b), IsAbout(Reminding, owing'[j], b)
                 PROVE  i = j
      BY DEF OnceEach
    <3>1. i - Len(owing) = j - Len(owing)
      BY <2>4, RemindersDue DEF OnceEach
    <3>2. Len(owing) \in Nat /\ i \in Nat /\ j \in Nat
      BY <1>1, <2>2 DEF TickOK
    <3> QED BY <3>1, <3>2
  <2>7. \A b \in Bookings : /\ IsAccounted(Announcements, noticed[b], told[b], b)'
                            /\ IsAccounted(Reminding, reminded[b], reminders[b], b)'
    BY <1>1, <1>2, <1>3, <2>1, <2>4, NoNoticeIsAboutNothing DEF IsAccounted, NoticesInv
  <2> QED BY <2>3, <2>5, <2>6, <2>7 DEF NoticesInv
<1> QED BY <1>4, <1>5, <1>6

\* The first of the queue, sent; or the stamp; or the end of the tick.
LEMMA SendingStep ==
    ASSUME NoticesInv, SendNotice
    PROVE  NoticesInv'
<1>1. /\ TickOK /\ reading = "Sending" /\ unstamped = NoNotice /\ owing # << >>
      /\ UNCHANGED <<noticed, reminded, reading, noticeCrashes, lostAnswers>>
  BY DEF NoticesInv, SendNotice, stamps, faults
<1>2. PICK head : head = Head(owing)
  OBVIOUS
<1>3. /\ unstamped' = head /\ owing' = Tail(owing)
      /\ told' = [b \in Bookings |-> told[b] + (IF IsAbout(Announcements, head, b) THEN 1 ELSE 0)]
      /\ reminders' = [b \in Bookings |->
                          reminders[b] + (IF IsAbout(Reminding, head, b) THEN 1 ELSE 0)]
  BY <1>2 DEF SendNotice, Counted, IsAbout, Announcements, Reminding
<1>4. /\ Len(owing) \in Nat /\ 1 \in 1..Len(owing) /\ head = owing[1] /\ head \in Notices
      /\ owing' \in Seq(Notices)
      /\ \A i \in 1..Len(owing') : /\ i + 1 \in 1..Len(owing) /\ i + 1 # 1
                                   /\ owing'[i] = owing[i + 1]
  BY <1>1, <1>2, <1>3 DEF TickOK
<1>5. \A b \in Bookings : told'[b] \in Nat /\ reminders'[b] \in Nat
  BY <1>1, <1>3 DEF TickOK
<1>6. TickOK'
  BY <1>1, <1>3, <1>4, <1>5 DEF TickOK
<1>7. ASSUME NEW kinds, OnceEach(kinds, owing) PROVE OnceEach(kinds, owing')
  <2> SUFFICES ASSUME NEW b \in Bookings, NEW i \in 1..Len(owing'), NEW j \in 1..Len(owing'),
                      IsAbout(kinds, owing'[i], b), IsAbout(kinds, owing'[j], b)
               PROVE  i = j
    BY DEF OnceEach
  <2>1. i + 1 = j + 1
    BY <1>4, <1>7 DEF OnceEach
  <2> QED BY <2>1
<1>8. ASSUME NEW kinds, NEW stamped, NEW count \in Nat, NEW count2, NEW b \in Bookings,
             OnceEach(kinds, owing), IsAccounted(kinds, stamped, count, b),
             ~IsAbout(kinds, unstamped, b),
             count2 = count + (IF IsAbout(kinds, head, b) THEN 1 ELSE 0)
      PROVE  IsAccounted(kinds, stamped, count2, b)'
  <2>1. Losses \in Nat /\ count <= 1 + Losses /\ (~stamped => count <= Losses)
    BY <1>1, <1>8 DEF IsAccounted, TickOK
  <2>2. CASE IsAbout(kinds, head, b)
    <3>1. count <= Losses /\ count2 = count + 1
      BY <1>4, <1>8, <2>2 DEF IsAccounted
    <3>2. \A i \in 1..Len(owing') : ~IsAbout(kinds, owing'[i], b)
      BY <1>4, <1>8, <2>2 DEF OnceEach
    <3> QED BY <1>1, <1>3, <2>1, <2>2, <3>1, <3>2 DEF IsAccounted
  <2>3. CASE ~IsAbout(kinds, head, b)
    <3>1. count2 = count
      BY <1>8, <2>3
    <3>2. \A i \in 1..Len(owing') : IsAbout(kinds, owing'[i], b) => count <= Losses
      BY <1>4, <1>8 DEF IsAccounted
    <3> QED BY <1>1, <1>3, <2>1, <2>3, <3>1, <3>2 DEF IsAccounted
  <2> QED BY <2>2, <2>3
<1>9. ASSUME NEW b \in Bookings
      PROVE  /\ IsAccounted(Announcements, noticed[b], told[b], b)'
             /\ IsAccounted(Reminding, reminded[b], reminders[b], b)'
  <2>1. PICK t, t2, r, r2, n, m : /\ t = told[b] /\ t2 = told'[b] /\ r = reminders[b]
                                  /\ r2 = reminders'[b] /\ n = noticed[b] /\ m = reminded[b]
    OBVIOUS
  <2>2. /\ t \in Nat /\ t2 = t + (IF IsAbout(Announcements, head, b) THEN 1 ELSE 0)
        /\ r \in Nat /\ r2 = r + (IF IsAbout(Reminding, head, b) THEN 1 ELSE 0)
    BY <1>1, <1>3, <2>1 DEF TickOK
  <2>3. IsAccounted(Announcements, n, t, b) /\ IsAccounted(Reminding, m, r, b)
    BY <2>1 DEF NoticesInv
  <2>4. OnceEach(Announcements, owing) /\ OnceEach(Reminding, owing)
    BY DEF NoticesInv
  <2>5. IsAccounted(Announcements, n, t2, b)' /\ IsAccounted(Reminding, m, r2, b)'
    BY <1>1, <1>8, <2>2, <2>3, <2>4, NoNoticeIsAboutNothing
  <2> QED BY <1>1, <2>1, <2>5
<1> QED BY <1>6, <1>7, <1>9 DEF NoticesInv

LEMMA StampingStep ==
    ASSUME NoticesInv, StampNotice
    PROVE  NoticesInv'
<1>1. /\ TickOK /\ unstamped # NoNotice /\ unstamped' = NoNotice
      /\ UNCHANGED <<told, reminders, owing, reading, noticeCrashes, lostAnswers>>
      /\ noticed' = [b \in Bookings |-> noticed[b] \/ IsAbout(Announcements, unstamped, b)]
      /\ reminded' = [b \in Bookings |-> reminded[b] \/ IsAbout(Reminding, unstamped, b)]
  <2>1. /\ TickOK /\ unstamped # NoNotice /\ unstamped' = NoNotice
        /\ UNCHANGED <<told, reminders, owing, reading, noticeCrashes, lostAnswers>>
    BY DEF NoticesInv, StampNotice, counts, faults
  <2>2. noticed' = [b \in Bookings |->
                       noticed[b] \/ (b \in unstamped.covers /\ unstamped.kind \in {"Booked", "NeedsReview"})]
    BY Zenon DEF StampNotice
  <2>3. reminded' = [b \in Bookings |->
                       reminded[b] \/ (b \in unstamped.covers /\ unstamped.kind = "Reminder")]
    BY Zenon DEF StampNotice
  <2>4. \A b \in Bookings : /\ (noticed[b] \/ IsAbout(Announcements, unstamped, b))
                                 = (noticed[b] \/ (b \in unstamped.covers
                                                   /\ unstamped.kind \in {"Booked", "NeedsReview"}))
                            /\ (reminded[b] \/ IsAbout(Reminding, unstamped, b))
                                 = (reminded[b] \/ (b \in unstamped.covers
                                                    /\ unstamped.kind = "Reminder"))
    BY DEF IsAbout, Announcements, Reminding
  <2> QED BY <2>1, <2>2, <2>3, <2>4
<1>2. \A b \in Bookings : /\ noticed'[b] \in BOOLEAN /\ reminded'[b] \in BOOLEAN
                          /\ ~noticed'[b] => ~noticed[b] /\ ~IsAbout(Announcements, unstamped, b)
                          /\ ~reminded'[b] => ~reminded[b] /\ ~IsAbout(Reminding, unstamped, b)
  BY <1>1 DEF TickOK, IsAbout
<1>3. noticed' \in [Bookings -> BOOLEAN] /\ reminded' \in [Bookings -> BOOLEAN]
  BY <1>1, <1>2
<1>4. TickOK'
  BY <1>1, <1>3, NoNoticeIsAboutNothing DEF TickOK
<1>5. OnceEach(Announcements, owing') /\ OnceEach(Reminding, owing')
  BY <1>1 DEF NoticesInv
<1>6. ASSUME NEW b \in Bookings
      PROVE  /\ IsAccounted(Announcements, noticed[b], told[b], b)'
             /\ IsAccounted(Reminding, reminded[b], reminders[b], b)'
  <2>1. /\ IsAccounted(Announcements, noticed[b], told[b], b)
        /\ IsAccounted(Reminding, reminded[b], reminders[b], b)
    BY DEF NoticesInv
  <2> QED BY <1>1, <1>2, <2>1, NoNoticeIsAboutNothing DEF IsAccounted
<1> QED BY <1>4, <1>5, <1>6 DEF NoticesInv

\* The queue is dropped, with what was sent and not stamped or without.
LEMMA DroppingStep ==
    ASSUME NoticesInv, SendRejected \/ EndTick \/ KillNotifier
    PROVE  NoticesInv'
<1>1. /\ TickOK /\ owing' = << >> /\ reading' = "Idle" /\ unstamped' = NoNotice
      /\ UNCHANGED <<noticed, reminded, told, reminders>>
      /\ \/ noticeCrashes' = noticeCrashes + 1
         \/ noticeCrashes' = noticeCrashes /\ unstamped = NoNotice
      /\ lostAnswers' = lostAnswers
  BY DEF NoticesInv, SendRejected, EndTick, KillNotifier, stamps, counts, faults
<1>2. TickOK'
  BY <1>1, NoNoticeIsAboutNothing DEF TickOK
<1>3. OnceEach(Announcements, owing') /\ OnceEach(Reminding, owing')
  BY <1>1 DEF OnceEach
<1>4. ASSUME NEW b \in Bookings
      PROVE  /\ IsAccounted(Announcements, noticed[b], told[b], b)'
             /\ IsAccounted(Reminding, reminded[b], reminders[b], b)'
  <2>1. /\ told[b] \in Nat /\ reminders[b] \in Nat /\ Losses \in Nat
        /\ told[b] <= 1 + Losses /\ reminders[b] <= 1 + Losses
    BY <1>1 DEF NoticesInv, IsAccounted, TickOK
  <2>2. CASE noticeCrashes' = noticeCrashes + 1
    <3>1. /\ told'[b] = told[b] /\ reminders'[b] = reminders[b]
          /\ lostAnswers \in Nat /\ Losses' = Losses + 1
      BY <1>1, <2>1, <2>2 DEF TickOK
    <3>2. told'[b] <= Losses' /\ reminders'[b] <= Losses'
      BY <2>1, <3>1
    <3>3. told'[b] <= 1 + Losses' /\ reminders'[b] <= 1 + Losses'
      BY <2>1, <2>2, <3>1, <3>2
    <3>4. Len(owing') = 0 /\ \A i \in 1..Len(owing') : FALSE
      BY <1>1
    <3> HIDE DEF Losses
    <3> QED BY <3>2, <3>3, <3>4 DEF IsAccounted
  <2>3. CASE noticeCrashes' = noticeCrashes /\ unstamped = NoNotice
    BY <1>1, <2>1, <2>3, NoNoticeIsAboutNothing DEF NoticesInv, IsAccounted
  <2> QED BY <1>1, <2>2, <2>3
<1> QED BY <1>2, <1>3, <1>4 DEF NoticesInv

\* The first of the queue is seen, and its stamp will not come.
LEMMA UnansweredStep ==
    ASSUME NoticesInv, SendUnanswered
    PROVE  NoticesInv'
<1>1. /\ TickOK /\ reading = "Sending" /\ owing # << >>
      /\ unstamped = NoNotice /\ unstamped' = NoNotice
      /\ owing' = << >> /\ reading' = "Idle"
      /\ noticeCrashes' = noticeCrashes /\ lostAnswers' = lostAnswers + 1
      /\ UNCHANGED <<noticed, reminded>>
  BY DEF NoticesInv, SendUnanswered, stamps
<1>2. PICK head : head = Head(owing)
  OBVIOUS
<1>3. /\ told' = [b \in Bookings |-> told[b] + (IF IsAbout(Announcements, head, b) THEN 1 ELSE 0)]
      /\ reminders' = [b \in Bookings |->
                          reminders[b] + (IF IsAbout(Reminding, head, b) THEN 1 ELSE 0)]
  BY <1>2 DEF SendUnanswered, Counted, IsAbout, Announcements, Reminding
<1>4. \A b \in Bookings : told'[b] \in Nat /\ reminders'[b] \in Nat
  BY <1>1, <1>3 DEF TickOK
<1>5. TickOK'
  BY <1>1, <1>3, <1>4, NoNoticeIsAboutNothing DEF TickOK
<1>6. OnceEach(Announcements, owing') /\ OnceEach(Reminding, owing')
  BY <1>1 DEF OnceEach
<1>7. ASSUME NEW b \in Bookings
      PROVE  /\ IsAccounted(Announcements, noticed[b], told[b], b)'
             /\ IsAccounted(Reminding, reminded[b], reminders[b], b)'
  <2>1. /\ told[b] \in Nat /\ reminders[b] \in Nat
        /\ told[b] <= 1 + Losses /\ reminders[b] <= 1 + Losses
        /\ noticeCrashes \in Nat /\ lostAnswers \in Nat
    BY <1>1 DEF NoticesInv, IsAccounted, TickOK
  <2>2. 1 \in 1..Len(owing) /\ head = owing[1]
    BY <1>1, <1>2 DEF TickOK
  <2>3. /\ IsAbout(Announcements, head, b) => told[b] <= Losses
        /\ IsAbout(Reminding, head, b) => reminders[b] <= Losses
    BY <2>2 DEF NoticesInv, IsAccounted
  <2>4. /\ told'[b] = told[b] + (IF IsAbout(Announcements, head, b) THEN 1 ELSE 0)
        /\ reminders'[b] = reminders[b] + (IF IsAbout(Reminding, head, b) THEN 1 ELSE 0)
    BY <1>3
  <2>5. told'[b] <= Losses + 1 /\ reminders'[b] <= Losses + 1 /\ Losses' = Losses + 1
    BY <1>1, <2>1, <2>3, <2>4
  <2>6. told'[b] <= Losses' /\ reminders'[b] <= Losses'
    BY <2>1, <2>5
  <2>7. told'[b] <= 1 + Losses' /\ reminders'[b] <= 1 + Losses'
    <3>1. Losses \in Nat /\ told'[b] \in Nat /\ reminders'[b] \in Nat
      BY <1>4, <2>1
    <3> HIDE DEF Losses
    <3> QED BY <2>5, <3>1
  <2>8. \A i \in 1..Len(owing') : FALSE
    BY <1>1
  <2> HIDE DEF Losses
  <2> QED BY <2>6, <2>7, <2>8 DEF IsAccounted
<1> QED BY <1>5, <1>6, <1>7 DEF NoticesInv

LEMMA NoticesStep == NoticesInv /\ [NoticesNext]_noticeVars => NoticesInv'
<1> SUFFICES ASSUME NoticesInv, [NoticesNext]_noticeVars PROVE NoticesInv'
  OBVIOUS
<1>1. CASE NoticeTick
  BY <1>1, ReadingStep, SendingStep, StampingStep, DroppingStep, UnansweredStep DEF NoticeTick
<1>2. ASSUME UNCHANGED <<stamps, counts, tick, faults>> PROVE NoticesInv'
  <2>1. UNCHANGED <<noticed, reminded, told, reminders, reading, owing, unstamped, noticeCrashes, lostAnswers>>
    BY <1>2 DEF stamps, counts, tick, faults
  <2> QED BY <2>1 DEF NoticesInv, TickOK, OnceEach, IsAccounted
<1>3. CASE HourPasses
  BY <1>2, <1>3 DEF HourPasses
<1>4. ASSUME NEW b \in Bookings, NEW to, Book(b, to) \/ ResolveBooking(b, to) PROVE NoticesInv'
  BY <1>2, <1>4 DEF Book, ResolveBooking
<1>5. CASE UNCHANGED noticeVars
  BY <1>2, <1>5 DEF noticeVars
<1> QED BY <1>1, <1>3, <1>4, <1>5 DEF NoticesNext

\* However visits are resolved and cancelled while a tick reads, sends and
\* stamps, and whatever Telegram refuses, a notice is repeated only as often as
\* the worker died or an answer of Telegram was lost (pending_notices, mark_sent,
\* send_message and the Broker's tick).
THEOREM ToldOnce == NoticesSpec => []NoticesAreNotRepeated
<1>1. NoticesInv => NoticesAreNotRepeated
  BY DEF NoticesInv, IsAccounted, NoticesAreNotRepeated
<1> QED BY <1>1, NoticesInitially, NoticesStep, PTL DEF NoticesSpec

HIDE DEF Losses
-----------------------------------------------------------------------------
(***************************************************************************)
(* Saved collections.  A merge adds one hop to the way of every cookie     *)
(* that ends at the merged collection, and to no other; with a hop to      *)
(* spare its new end is the collection that took the Listings over.        *)
(***************************************************************************)

\* Rows and pointers have their types.
LEMMA SavedTyped == SavedSpec => []SavedTypeOK
<1>1. SavedInit => SavedTypeOK
  BY DEF SavedInit, SavedTypeOK
<1>2. SavedTypeOK /\ [SavedNext]_savedVars => SavedTypeOK'
  <2> SUFFICES ASSUME SavedTypeOK, [SavedNext]_savedVars PROVE SavedTypeOK'
    OBVIOUS
  <2> USE DEF SavedTypeOK
  <2>1. \A c \in Cookies : Reached(c) \in Cookies
    BY DEF Reached, Hop
  <2>2. ASSUME NEW c \in Cookies, SavedCommand(c) PROVE SavedTypeOK'
    <3>1. ASSUME NEW l \in SavedListings, CreateCollection(c, l) PROVE SavedTypeOK'
      BY <3>1 DEF CreateCollection
    <3>2. ASSUME NEW l \in SavedListings, AddSaved(c, l) PROVE SavedTypeOK'
      BY <2>1, <3>2 DEF AddSaved
    <3>3. ASSUME NEW l \in SavedListings, RemoveSaved(c, l) PROVE SavedTypeOK'
      BY <2>1, <3>3 DEF RemoveSaved
    <3>4. CASE EmptySaved(c)
      BY <2>1, <3>4 DEF EmptySaved
    <3>5. CASE DeleteCollection(c)
      BY <2>1, <3>5 DEF DeleteCollection
    <3> QED BY <2>2, <3>1, <3>2, <3>3, <3>4, <3>5 DEF SavedCommand
  <2>3. ASSUME NEW c \in Cookies, ProtectionStep(c) PROVE SavedTypeOK'
    <3>1. CASE AskProtection(c)
      BY <2>1, <3>1 DEF AskProtection
    <3>2. ASSUME NEW contact \in Owners, ProtectCollection(c, contact) PROVE SavedTypeOK'
      BY <3>2 DEF ProtectCollection
    <3>3. ASSUME NEW contact \in Owners, MergeCollection(c, contact) PROVE SavedTypeOK'
      <4>1. PICK other \in Cookies \ {c} :
               /\ saved' = [saved EXCEPT ![other] = @ \cup saved[c], ![c] = {}]
               /\ into' = [into EXCEPT ![c] = other]
               /\ claimed' = [claimed EXCEPT ![c] = FALSE, ![other] = FALSE]
        BY <3>3 DEF MergeCollection
      <4> QED BY <3>3, <4>1 DEF MergeCollection
    <3> QED BY <2>3, <3>1, <3>2, <3>3 DEF ProtectionStep
  <2>4. ASSUME NEW c \in Cookies, LapseCollection(c) PROVE SavedTypeOK'
    BY <2>4 DEF LapseCollection
  <2>5. CASE UNCHANGED savedVars
    BY <2>5 DEF savedVars
  <2> QED BY <2>2, <2>3, <2>4, <2>5 DEF SavedNext
<1> QED BY <1>1, <1>2, PTL DEF SavedSpec

\* Only the two ways of protecting use a reference up.
LEMMA ReferencesAreSpent ==
    ASSUME SavedTypeOK, SavedNext, NEW b \in Cookies, protection[b], ~protection'[b]
    PROVE  \E contact \in Owners : ProtectCollection(b, contact) \/ MergeCollection(b, contact)
<1>1. PICK c \in Cookies : SavedCommand(c) \/ ProtectionStep(c) \/ LapseCollection(c)
  BY DEF SavedNext
<1>2. ~SavedCommand(c) /\ ~LapseCollection(c)
  BY DEF SavedCommand, CreateCollection, AddSaved, RemoveSaved, EmptySaved,
         DeleteCollection, LapseCollection
<1>3. ~AskProtection(c)
  BY DEF AskProtection, SavedTypeOK
<1>4. PICK contact \in Owners : ProtectCollection(c, contact) \/ MergeCollection(c, contact)
  BY <1>1, <1>2, <1>3 DEF ProtectionStep
<1>5. c = b
  BY <1>4 DEF ProtectCollection, MergeCollection, SavedTypeOK
<1> QED BY <1>4, <1>5

\* What the browser sees is protected where it is, or its Listings join those of
\* a Live collection one merge further.
LEMMA NothingIsLost ==
    ASSUME SavedTypeOK, NEW b \in Cookies, NEW contact \in Owners,
           ProtectCollection(b, contact) \/ MergeCollection(b, contact),
           NEW c \in Cookies, HopToSpare(c), Usable(c)
    PROVE  Usable(c)' /\ saved[Reached(c)] \subseteq saved'[Reached(c)']
<1> DEFINE end == Reached(c)
<1>1. /\ end \in Cookies /\ collection[end] = "Live" /\ Hop(Hop(c)) = end
      /\ c \in Cookies /\ Hop(c) \in Cookies
  BY DEF SavedTypeOK, Hop, Reached, HopToSpare, Usable
<1>2. CASE ProtectCollection(b, contact)
  <2>1. \A d \in Cookies : Hop(d)' = Hop(d)
    BY <1>2 DEF ProtectCollection, SavedTypeOK, Hop
  <2>2. Reached(c)' = end
    BY <2>1, <1>1 DEF Reached, Hop
  <2>3. collection'[end] = "Live" /\ UNCHANGED saved
    BY <1>1, <1>2 DEF ProtectCollection, SavedTypeOK
  <2> QED BY <2>2, <2>3 DEF Usable
<1>3. CASE MergeCollection(b, contact)
  <2>1. PICK other \in Cookies \ {b} :
           /\ collection[other] = "Live"
           /\ saved' = [saved EXCEPT ![other] = @ \cup saved[b], ![b] = {}]
           /\ into' = [into EXCEPT ![b] = other]
    BY <1>3 DEF MergeCollection
  <2>2. collection[b] \in {"Live", "Lapsed"} /\ collection' = [collection EXCEPT ![b] = "Merged"]
    BY <1>3 DEF MergeCollection
  <2>3. \A d \in Cookies : Hop(d)' = IF d = b THEN other ELSE Hop(d)
    BY <2>1, <2>2 DEF SavedTypeOK, Hop
  <2>4. Hop(b) = b
    BY <2>2 DEF Hop
  <2>5. Hop(other)' = other /\ collection'[other] = "Live"
    BY <2>1, <2>2, <2>3 DEF SavedTypeOK, Hop
  <2>6. CASE end = b
    <3>1. Reached(c)' = other
      <4>1. CASE c = b
        BY <4>1, <2>3, <2>5 DEF Reached
      <4>2. CASE c # b /\ Hop(c) = b
        BY <4>2, <1>1, <2>3, <2>5 DEF Reached
      <4>3. CASE c # b /\ Hop(c) # b
        BY <4>3, <1>1, <2>6, <2>3, <2>5 DEF Reached
      <4> QED BY <4>1, <4>2, <4>3
    <3>2. saved[b] \subseteq saved'[other]
      BY <2>1 DEF SavedTypeOK
    <3> QED BY <2>5, <2>6, <3>1, <3>2 DEF Usable
  <2>7. CASE end # b
    <3>1. c # b /\ Hop(c) # b
      BY <2>4, <2>7, <1>1
    <3>2. Reached(c)' = end
      <4>1. \A d \in Cookies \ {b} : collection'[d] = collection[d] /\ into'[d] = into[d]
        BY <2>1, <2>2 DEF SavedTypeOK
      <4> QED BY <1>1, <2>7, <3>1, <4>1 DEF Reached, Hop
    <3>3. collection'[end] = "Live" /\ saved[end] \subseteq saved'[end]
      BY <1>1, <2>1, <2>2, <2>7 DEF SavedTypeOK
    <3> QED BY <3>2, <3>3 DEF Usable
  <2> QED BY <2>6, <2>7
<1> QED BY <1>2, <1>3

\* Whatever is protected and merged, and wherever the browser's own collection
\* went before, what it showed it still shows (protect, merge and _resolve).
THEOREM ProtectionKeepsListings == SavedSpec => ProtectionLosesNothing
<1>1. ASSUME SavedTypeOK, [SavedNext]_savedVars
      PROVE  [\A c \in Cookies :
                 HopToSpare(c) /\ (\E b \in Cookies : protection[b] /\ ~protection'[b]) =>
                     Visible(c) \subseteq Visible(c)']_savedVars
  <2> SUFFICES ASSUME SavedNext, NEW c \in Cookies, HopToSpare(c),
                      NEW b \in Cookies, protection[b], ~protection'[b]
               PROVE  Visible(c) \subseteq Visible(c)'
    BY <1>1
  <2>1. PICK contact \in Owners : ProtectCollection(b, contact) \/ MergeCollection(b, contact)
    BY <1>1, ReferencesAreSpent
  <2>2. Usable(c) => Usable(c)' /\ saved[Reached(c)] \subseteq saved'[Reached(c)']
    BY <1>1, <2>1, NothingIsLost
  <2> QED BY <2>2 DEF Visible
<1> QED BY <1>1, SavedTyped, PTL DEF SavedSpec, ProtectionLosesNothing
=============================================================================
