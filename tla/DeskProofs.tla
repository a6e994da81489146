----------------------------- MODULE DeskProofs -----------------------------
(***************************************************************************)
(* Proofs about what the operation keeps beside its Conversations: support *)
(* access, deletions, imports and entitlements, follow-ups, journeys,      *)
(* visits, documents, reported numbers and what is known of a Contact,     *)
(* each for any number of grants, requests, files, keys, commands,         *)
(* members, holds, records, calls, uploads, passes and statements.         *)
(*                                                                         *)
(* The first three are inductive once it is said which of the rows can be  *)
(* in force together; the history of a capability needs, in addition, that *)
(* a grant in progress has read a row with another limit than its own; a   *)
(* visit, that no call moves one that has not come about.                  *)
(***************************************************************************)
EXTENDS SupportAccess, DataLifecycle, OrganizationImport, Entitlements, OrganizationSetup,
        ScheduledContact, PurchaseJourney, VisitDesk, PropertyIngestion, Measurement,
        ContactNeeds, FiniteSetTheorems, TLAPS

-----------------------------------------------------------------------------
(***************************************************************************)
(* Support access.                                                         *)
(***************************************************************************)

\* One grant of a login is on record at a time, and the sweep has locked
\* nothing else.
SupportInv ==
    /\ SupportTypeOK
    /\ \A g, h \in Unrevoked : g = h
    /\ closing \subseteq Unrevoked
    /\ AccessFollowsTheGrant

LEMMA SupportInitially == SupportInit => SupportInv
BY DEF SupportInit, SupportInv, SupportTypeOK, Unrevoked, AccessFollowsTheGrant

LEMMA SupportStep == SupportInv /\ [SupportNext]_supportVars => SupportInv'
<1> SUFFICES ASSUME SupportInv, [SupportNext]_supportVars PROVE SupportInv'
  OBVIOUS
<1> USE DEF SupportInv, SupportTypeOK, Unrevoked, AccessFollowsTheGrant
<1>1. ASSUME NEW g \in Grants, GrantAccess(g)
      PROVE  SupportInv'
  <2>1. Unrevoked' = {g}
    BY <1>1 DEF GrantAccess
  <2> QED BY <1>1, <2>1 DEF GrantAccess
<1>2. ASSUME NEW g \in Grants, RevokeAccess(g)
      PROVE  SupportInv'
  <2>1. Unrevoked' = {} /\ closing = {}
    BY <1>2 DEF RevokeAccess
  <2> QED BY <1>2, <2>1 DEF RevokeAccess
<1>3. ASSUME NEW g \in Grants, AccessLapses(g)
      PROVE  SupportInv'
  <2>1. Unrevoked' = Unrevoked
    BY <1>3 DEF AccessLapses
  <2> QED BY <1>3, <2>1 DEF AccessLapses
<1>4. CASE ExpireDue
  <2>1. Unrevoked' = {}
    BY <1>4 DEF ExpireDue
  <2> QED BY <1>4, <2>1 DEF ExpireDue
<1>5. CASE FindLapsed \/ AbandonSweep
  BY <1>5 DEF FindLapsed, AbandonSweep
<1>6. CASE SwitchEngineer
  BY <1>6 DEF SwitchEngineer
<1>7. ASSUME NEW g \in Grants, ResolveEngineer(g)
      PROVE  SupportInv'
  BY <1>7 DEF ResolveEngineer
<1>8. CASE UNCHANGED supportVars
  BY <1>8 DEF supportVars
<1> QED BY <1>1, <1>2, <1>3, <1>4, <1>5, <1>6, <1>7, <1>8 DEF SupportNext, UpkeepStep

\* However grants of one login lapse, are revoked and follow one another, the
\* member is active exactly while a grant is on record, unless an
\* Administrator has switched it.
THEOREM AccessIsTheGrants == SupportSpec => []AccessFollowsTheGrant
<1>1. SupportInv => AccessFollowsTheGrant
  BY DEF SupportInv
<1> QED BY <1>1, SupportInitially, SupportStep, PTL DEF SupportSpec

-----------------------------------------------------------------------------
(***************************************************************************)
(* Deletions.                                                              *)
(***************************************************************************)

\* A deletion is begun by a request that has no row, and what it removed is on
\* record.
LifecycleInv ==
    /\ deletion \in [Deletions -> {"None", "Blocked", "Completed"}]
    /\ deleting \subseteq Deletions
    /\ \A d \in removed : deletion[d] = "Completed"
    /\ RefusedRequestsRemoveNothing

LEMMA LifecycleInitially == LifecycleInit => LifecycleInv
BY DEF LifecycleInit, LifecycleInv, RefusedRequestsRemoveNothing

LEMMA LifecycleStep == LifecycleInv /\ [LifecycleNext]_lifecycleVars => LifecycleInv'
<1> SUFFICES ASSUME LifecycleInv, [LifecycleNext]_lifecycleVars PROVE LifecycleInv'
  OBVIOUS
<1> USE DEF LifecycleInv, RefusedRequestsRemoveNothing
<1>1. ASSUME NEW d \in Deletions, DeletionStep(d)
      PROVE  LifecycleInv'
  <2>1. CASE BlockDeletion(d)
    BY <2>1 DEF BlockDeletion, Answered
  <2>2. CASE BeginDeletion(d)
    BY <2>2 DEF BeginDeletion, Answered
  <2>3. CASE CommitDeletion(d)
    BY <2>3 DEF CommitDeletion
  <2>4. CASE RollBackDeletion(d)
    BY <2>4 DEF RollBackDeletion
  <2> QED BY <1>1, <2>1, <2>2, <2>3, <2>4 DEF DeletionStep
<1>2. ASSUME UNCHANGED <<deletion, deleting, removed>>
      PROVE  LifecycleInv'
  BY <1>2
<1>3. ASSUME NEW h \in Holds, HoldStep(h)
      PROVE  UNCHANGED <<deletion, deleting, removed>>
  BY <1>3 DEF HoldStep, RecordHold, ReleaseHold, HoldLapses
<1>4. ASSUME NEW e \in Exports, ExportStep(e)
      PROVE  UNCHANGED <<deletion, deleting, removed>>
  BY <1>4 DEF ExportStep, WriteArtifact, FailExport, CommitExport, AbandonExport
<1> QED BY <1>1, <1>2, <1>3, <1>4 DEF LifecycleNext, Work, lifecycleVars

\* A deletion that a hold refused never removes a row, however holds come and
\* go and however often it is sent.
THEOREM RefusalIsFinal == LifecycleSpec => []RefusedRequestsRemoveNothing
<1>1. LifecycleInv => RefusedRequestsRemoveNothing
  BY DEF LifecycleInv
<1> QED BY <1>1, LifecycleInitially, LifecycleStep, PTL DEF LifecycleSpec

-----------------------------------------------------------------------------
(***************************************************************************)
(* Imports.                                                                *)
(***************************************************************************)

ImportInv == ImportTypeOK /\ RollbackKnowsItsRecords

LEMMA ImportInitially == ImportInit => ImportInv
BY ImportAssumption DEF ImportInit, ImportInv, ImportTypeOK, RollbackKnowsItsRecords

LEMMA ImportStep == ImportInv /\ [ImportNext]_importVars => ImportInv'
<1> SUFFICES ASSUME ImportInv, [ImportNext]_importVars PROVE ImportInv'
  OBVIOUS
<1> USE ImportAssumption DEF ImportInv, ImportTypeOK, RollbackKnowsItsRecords
<1>1. ASSUME NEW r \in Applies, BeginApply(r) \/ FailApply(r)
      PROVE  ImportInv'
  <2>1. /\ accepting' \in [Applies -> SUBSET Keys]
        /\ run' \in [Applies -> {"None", "Applying", "Applied", "RolledBack"}]
        /\ UNCHANGED <<reviewed, created, origin, referrer>>
    BY <1>1 DEF BeginApply, FailApply
  <2>2. \A s \in Applies : /\ run'[s] \in {"None", "Applying"} => run[s] \in {"None", "Applying"}
                           /\ run'[s] = "RolledBack" => run[s] = "RolledBack"
    BY <1>1 DEF BeginApply, FailApply
  <2> QED BY <2>1, <2>2
<1>2. ASSUME NEW r \in Applies, CommitApply(r)
      PROVE  ImportInv'
  <2>1. /\ run[r] = "Applying" /\ accepting[r] \subseteq Keys
        /\ \A k \in accepting[r] : origin[k] = "None"
        /\ UNCHANGED <<reviewed, referrer>>
    BY <1>2 DEF CommitApply, Taken
  <2>2. /\ run' = [run EXCEPT ![r] = "Applied"]
        /\ created' = [created EXCEPT ![r] = accepting[r]]
        /\ accepting' = [accepting EXCEPT ![r] = {}]
        /\ origin' = [k \in Keys |-> IF k \in accepting[r] THEN r ELSE origin[k]]
    BY <1>2 DEF CommitApply
  <2>3. ImportTypeOK'
    BY <2>1, <2>2
  <2>4. ASSUME NEW s \in Applies
        PROVE  created'[s] = {k \in Keys : origin'[k] = s}
    <3>1. CASE s = r
      BY <2>1, <2>2, <3>1
    <3>2. CASE s # r
      BY <2>1, <2>2, <3>2
    <3> QED BY <3>1, <3>2
  <2>5. ASSUME NEW s \in Applies
        PROVE  /\ run'[s] \in {"None", "Applying"} => created'[s] = {}
               /\ run'[s] = "RolledBack" => \A k \in created'[s] : referrer'[k] # "None"
    BY <2>1, <2>2
  <2> QED BY <2>3, <2>4, <2>5
<1>3. ASSUME NEW r \in Applies, RollBackImport(r)
      PROVE  ImportInv'
  <2>1. /\ run[r] = "Applied" /\ UNCHANGED <<reviewed, accepting>>
        /\ run' = [run EXCEPT ![r] = "RolledBack"]
        /\ origin' = [k \in Keys |-> IF k \in RollsBack(r) THEN "None" ELSE origin[k]]
        /\ referrer' = [k \in Keys |-> IF k \in RollsBack(r) THEN "None" ELSE referrer[k]]
        /\ created' = [created EXCEPT ![r] = @ \ RollsBack(r)]
    BY <1>3 DEF RollBackImport
  <2>2. /\ RollsBack(r) \subseteq created[r]
        /\ \A k \in created[r] \ RollsBack(r) : referrer[k] = "Visit"
    BY DEF RollsBack
  <2>3. ImportTypeOK'
    BY <2>1
  <2>4. ASSUME NEW s \in Applies
        PROVE  created'[s] = {k \in Keys : origin'[k] = s}
    <3>1. CASE s = r
      BY <2>1, <2>2, <3>1
    <3>2. CASE s # r
      BY <2>1, <2>2, <3>2
    <3> QED BY <3>1, <3>2
  <2>5. ASSUME NEW s \in Applies
        PROVE  /\ run'[s] \in {"None", "Applying"} => created'[s] = {}
               /\ run'[s] = "RolledBack" => \A k \in created'[s] : referrer'[k] # "None"
    <3>1. CASE s = r
      BY <2>1, <2>2, <3>1
    <3>2. CASE s # r
      BY <2>1, <2>2, <3>2
    <3> QED BY <3>1, <3>2
  <2> QED BY <2>3, <2>4, <2>5
<1>4. ASSUME NEW k \in Keys, RegisterProperty(k)
      PROVE  ImportInv'
  BY <1>4 DEF RegisterProperty
<1>5. ASSUME NEW k \in Keys, ReferTo(k)
      PROVE  ImportInv'
  <2>1. PICK kind \in Referrers : referrer' = [referrer EXCEPT ![k] = kind]
    BY <1>5 DEF ReferTo
  <2>2. UNCHANGED <<reviewed, run, accepting, created, origin>> /\ kind # "None"
    BY <1>5 DEF ReferTo, Referrers
  <2> QED BY <2>1, <2>2
<1>6. ASSUME NEW s \in Sources, PlanImport(s)
      PROVE  ImportInv'
  BY <1>6 DEF PlanImport
<1>7. CASE UNCHANGED importVars
  BY <1>7 DEF importVars
<1> QED BY <1>1, <1>2, <1>3, <1>4, <1>5, <1>6, <1>7 DEF ImportNext, ApplyStep

\* The identifiers an apply stored are the Properties it created and has not
\* removed, whatever overlapped it.
THEOREM RollbackIsExact == ImportSpec => []RollbackKnowsItsRecords
<1>1. ImportInv => RollbackKnowsItsRecords
  BY DEF ImportInv
<1> QED BY <1>1, ImportInitially, ImportStep, PTL DEF ImportSpec

-----------------------------------------------------------------------------
(***************************************************************************)
(* Entitlements.                                                           *)
(***************************************************************************)

\* A grant in progress has read a row with another limit, or found none.
ReadAnotherLimit ==
    \A g \in DOMAIN granting :
        /\ g \in Grantings
        /\ granting[g] \in 0 .. Len(history)
        /\ granting[g] # 0 => history[granting[g]] # LimitOf[g]

HistoryInv ==
    /\ history \in Seq(Nat \cup {None})
    /\ HistoryIsALine
    /\ ReadAnotherLimit

LEMMA CurrentIsNewest ==
    ASSUME HistoryInv
    PROVE  CurrentRow = Len(history) /\ Len(history) \in Nat
<1>1. CASE history = <<>>
  BY <1>1 DEF HistoryInv, HistoryIsALine, CurrentRow
<1>2. CASE history # <<>>
  <2>1. inForce = {Len(history)}
    BY <1>2 DEF HistoryInv, HistoryIsALine
  <2> QED BY <2>1 DEF HistoryInv, CurrentRow
<1> QED BY <1>1, <1>2

LEMMA HistoryInitially == EntitlementInit => HistoryInv
BY DEF EntitlementInit, HistoryInv, HistoryIsALine, ReadAnotherLimit

LEMMA HistoryStep == HistoryInv /\ [EntitlementNext]_entitlementVars => HistoryInv'
<1> SUFFICES ASSUME HistoryInv, [EntitlementNext]_entitlementVars PROVE HistoryInv'
  OBVIOUS
<1>1. ASSUME NEW g \in Grantings, ReadCurrent(g)
      PROVE  HistoryInv'
  <2>1. UNCHANGED <<history, inForce>>
    BY <1>1 DEF ReadCurrent
  <2>2. CASE CurrentRow # 0 /\ history[CurrentRow] = LimitOf[g]
    BY <1>1, <2>1, <2>2 DEF ReadCurrent, HistoryInv, HistoryIsALine, ReadAnotherLimit
  <2>3. CASE ~(CurrentRow # 0 /\ history[CurrentRow] = LimitOf[g])
    <3>1. granting' = [h \in DOMAIN granting \cup {g} |-> IF h = g THEN CurrentRow ELSE granting[h]]
      BY <1>1, <2>3 DEF ReadCurrent
    <3>2. ReadAnotherLimit'
      BY <2>1, <2>3, <3>1, CurrentIsNewest DEF HistoryInv, ReadAnotherLimit
    <3> QED BY <2>1, <3>2 DEF HistoryInv, HistoryIsALine
  <2> QED BY <2>2, <2>3
<1>2. ASSUME NEW g \in Grantings, Supersede(g)
      PROVE  HistoryInv'
  <2>0. /\ g \in DOMAIN granting
        /\ granting' = [h \in DOMAIN granting \ {g} |-> granting[h]]
    BY <1>2 DEF Supersede
  <2>1. CASE ~(inForce \subseteq {granting[g]})
    <3>1. UNCHANGED <<history, inForce>>
      BY <1>2, <2>1 DEF Supersede
    <3> QED BY <2>0, <3>1 DEF HistoryInv, HistoryIsALine, ReadAnotherLimit
  <2>2. CASE inForce \subseteq {granting[g]}
    <3>1. history' = Append(history, LimitOf[g]) /\ inForce' = {Len(history) + 1}
      BY <1>2, <2>2 DEF Supersede
    <3>2. /\ history' \in Seq(Nat \cup {None}) /\ Len(history') = Len(history) + 1
          /\ \A i \in 1 .. Len(history) : history'[i] = history[i]
          /\ history'[Len(history) + 1] = LimitOf[g]
      BY <3>1, EntitlementAssumption DEF HistoryInv
    <3>3. Len(history) # 0 => history[Len(history)] # LimitOf[g]
      <4>1. ASSUME Len(history) # 0
            PROVE  granting[g] = Len(history)
        BY <2>2, <4>1 DEF HistoryInv, HistoryIsALine
      <4> QED BY <4>1, <2>0 DEF HistoryInv, ReadAnotherLimit
    <3>4. HistoryIsALine'
      <4>1. inForce' = {Len(history')} /\ history' # <<>>
        BY <3>1, <3>2, CurrentIsNewest
      <4>2. ASSUME NEW i \in 1 .. (Len(history') - 1)
            PROVE  history'[i] # history'[i + 1]
        <5>1. CASE i = Len(history)
          BY <5>1, <3>2, <3>3, CurrentIsNewest
        <5>2. CASE i # Len(history)
          <6>1. i \in 1 .. (Len(history) - 1)
            BY <5>2, <3>2, CurrentIsNewest
          <6> QED BY <6>1, <3>2, CurrentIsNewest DEF HistoryInv, HistoryIsALine
        <5> QED BY <5>1, <5>2
      <4> QED BY <4>1, <4>2 DEF HistoryIsALine
    <3>5. ReadAnotherLimit'
      BY <2>0, <3>2, CurrentIsNewest DEF HistoryInv, ReadAnotherLimit
    <3> QED BY <3>2, <3>4, <3>5 DEF HistoryInv
  <2> QED BY <2>1, <2>2
<1>3. ASSUME UNCHANGED planVars
      PROVE  HistoryInv'
  BY <1>3 DEF planVars, HistoryInv, HistoryIsALine, ReadAnotherLimit
<1>4. ASSUME NEW m \in Seats, SeatStep(m)
      PROVE  UNCHANGED planVars
  BY <1>4 DEF SeatStep, RequireSeat, AddMember, AddColleague, SetMemberActive, UpdateMember
<1>5. ASSUME NEW p \in Refreshes, PassStep(p)
      PROVE  UNCHANGED planVars
  BY <1>5 DEF PassStep, Measure, StoreUsage, AbandonRefresh
<1> QED BY <1>1, <1>2, <1>3, <1>4, <1>5
        DEF EntitlementNext, GrantStep, entitlementVars, planVars

\* However commands overlap, a capability has one row in force, the newest,
\* and no row repeats the limit of the row before it.
THEOREM HistoryIsLinear == EntitlementSpec => []HistoryIsALine
<1>1. HistoryInv => HistoryIsALine
  BY DEF HistoryInv
<1> QED BY <1>1, HistoryInitially, HistoryStep, PTL DEF EntitlementSpec

-----------------------------------------------------------------------------
(***************************************************************************)
(* Configuration and references to secrets.                                *)
(***************************************************************************)

Documents == {DocumentOf[k] : k \in Settings}

\* A command in progress has no version yet.
SetupInv ==
    /\ versions \in Seq(Documents) /\ recordedBy \in Seq(Settings)
    /\ Len(recordedBy) = Len(versions)
    /\ DOMAIN recording \subseteq Settings
    /\ \A i \in DOMAIN recordedBy : recordedBy[i] \notin DOMAIN recording
    /\ secret \in [References -> {"None", "Active", "Rotating", "Revoked"}]
    /\ SetupHasOneAnswer

LEMMA SetupInitially == SetupInit => SetupInv
BY DEF SetupInit, SetupInv, SetupHasOneAnswer, Holding, AtMostOne

LEMMA VersionStep ==
    ASSUME SetupInv, NEW k \in Settings, ConfigurationStep(k)
    PROVE  SetupInv'
<1>1. UNCHANGED secret
  BY DEF ConfigurationStep, ReadVersions, RecordVersion, LeaveVersions, secretVars
<1>2. AtMostOne(Holding("Active"))'
  BY <1>1 DEF SetupInv, SetupHasOneAnswer, AtMostOne, Holding
<1>3. CASE ReadVersions(k)
  BY <1>1, <1>2, <1>3 DEF ReadVersions, SetupInv, SetupHasOneAnswer
<1>4. CASE LeaveVersions(k)
  BY <1>1, <1>2, <1>4 DEF LeaveVersions, SetupInv, SetupHasOneAnswer
<1>5. CASE RecordVersion(k)
  <2>1. /\ k \in DOMAIN recording
        /\ versions' = Append(versions, DocumentOf[k]) /\ recordedBy' = Append(recordedBy, k)
        /\ currentOnes' = {Len(versions) + 1}
        /\ recording' = [j \in DOMAIN recording \ {k} |-> recording[j]]
    BY <1>5 DEF RecordVersion
  <2>2. /\ versions' \in Seq(Documents) /\ recordedBy' \in Seq(Settings)
        /\ Len(versions') = Len(versions) + 1 /\ Len(recordedBy') = Len(versions) + 1
        /\ DOMAIN recordedBy' = 1 .. (Len(versions) + 1) /\ Len(versions) \in Nat
        /\ recordedBy'[Len(versions) + 1] = k
        /\ \A i \in 1 .. Len(versions) : i \in DOMAIN recordedBy /\ recordedBy'[i] = recordedBy[i]
    BY <2>1 DEF SetupInv, Documents
  <2>3. \A i \in 1 .. Len(versions) : recordedBy'[i] # k
    BY <2>1, <2>2 DEF SetupInv
  <2>4. \A i \in DOMAIN recordedBy' : recordedBy'[i] \notin DOMAIN recording'
    <3>1. ASSUME NEW i \in 1 .. Len(versions)
          PROVE  recordedBy'[i] \notin DOMAIN recording'
      BY <2>1, <2>2 DEF SetupInv
    <3> QED BY <2>1, <2>2, <3>1
  <2>5. currentOnes' = (IF versions' = <<>> THEN {} ELSE {Len(versions')})
    BY <2>1, <2>2
  <2>6. \A i, j \in DOMAIN recordedBy' : recordedBy'[i] = recordedBy'[j] => i = j
    <3>1. ASSUME NEW i \in 1 .. Len(versions), NEW j \in 1 .. Len(versions),
                 recordedBy'[i] = recordedBy'[j]
          PROVE  i = j
      BY <2>2, <3>1 DEF SetupInv, SetupHasOneAnswer
    <3> QED BY <2>2, <2>3, <3>1
  <2> QED BY <1>1, <1>2, <2>1, <2>2, <2>4, <2>5, <2>6 DEF SetupInv, SetupHasOneAnswer
<1> QED BY <1>3, <1>4, <1>5 DEF ConfigurationStep

LEMMA SecretStep ==
    ASSUME SetupInv, UNCHANGED documentVars,
           \/ \E r \in References : ReferenceStep(r)
           \/ ReadForRevocation \/ RevokeReferences \/ ResolveCredential \/ UNCHANGED secretVars
    PROVE  SetupInv'
<1>1. /\ secret' \in [References -> {"None", "Active", "Rotating", "Revoked"}]
      /\ AtMostOne(Holding("Active"))'
  <2>1. ASSUME secret' = secret
        PROVE  <1>1!1 /\ <1>1!2
    BY <2>1 DEF SetupInv, SetupHasOneAnswer, AtMostOne, Holding
  <2>2. CASE RevokeReferences
    BY <2>2 DEF RevokeReferences, SetupInv, SetupHasOneAnswer, AtMostOne, Holding
  <2>3. ASSUME NEW r \in References, RecordReference(r)
        PROVE  <1>1!1 /\ <1>1!2
    <3>1. CASE secret' # secret
      <4>1. /\ secret' = Rotated(r, rotating[r])
            /\ \A q \in References \ rotating[r] : secret[q] # "Active"
        BY <2>3, <3>1 DEF RecordReference
      <4>2. secret' \in [References -> {"None", "Active", "Rotating", "Revoked"}]
        BY <4>1 DEF Rotated, SetupInv
      <4>3. ASSUME NEW q \in References, q # r
            PROVE  secret'[q] # "Active"
        BY <4>1, <4>3 DEF Rotated
      <4> QED BY <4>2, <4>3 DEF AtMostOne, Holding
    <3> QED BY <2>1, <3>1
  <2> QED BY <2>1, <2>2, <2>3
          DEF ReferenceStep, ReadReferences, ChangeMaterial, ReadForRevocation, ResolveCredential,
              secretVars
<1> QED BY <1>1 DEF documentVars, SetupInv, SetupHasOneAnswer

LEMMA SetupStep == SetupInv /\ [SetupNext]_setupVars => SetupInv'
<1> SUFFICES ASSUME SetupInv, [SetupNext]_setupVars PROVE SetupInv'
  OBVIOUS
<1>1. CASE \E k \in Settings : ConfigurationStep(k)
  BY <1>1, VersionStep
<1>2. CASE UNCHANGED setupVars
  BY <1>2, SecretStep DEF setupVars, documentVars, secretVars
<1>3. CASE \E r \in References : ReferenceStep(r)
  <2>1. UNCHANGED documentVars
    BY <1>3 DEF ReferenceStep, ReadReferences, RecordReference, ChangeMaterial
  <2> QED BY <1>3, <2>1, SecretStep
<1>4. CASE ReadForRevocation \/ RevokeReferences \/ ResolveCredential
  BY <1>4, SecretStep DEF ReadForRevocation, RevokeReferences, ResolveCredential
<1> QED BY <1>1, <1>2, <1>3, <1>4 DEF SetupNext

\* However commands overlap, the newest version of the configuration is the
\* current one and a provider has one active reference at most.
THEOREM OneAnswer == SetupSpec => []SetupHasOneAnswer
<1>1. SetupInv => SetupHasOneAnswer
  BY DEF SetupInv
<1> QED BY <1>1, SetupInitially, SetupStep, PTL DEF SetupSpec

-----------------------------------------------------------------------------
(***************************************************************************)
(* Follow-ups.                                                             *)
(***************************************************************************)

ContactInv ==
    /\ attempt \in [Attempts -> AttemptStates]
    /\ decided \in [Attempts -> Nat]
    /\ picked \in [Workers -> SUBSET Attempts]
    /\ AttemptsAreWhole

LEMMA ContactInitially == ScheduleInit => ContactInv
BY DEF ScheduleInit, ContactInv, AttemptsAreWhole, AttemptStates

LEMMA ContactStep == ContactInv /\ [ScheduleNext]_scheduleVars => ContactInv'
<1> SUFFICES ASSUME ContactInv, [ScheduleNext]_scheduleVars PROVE ContactInv'
  OBVIOUS
<1>1. ASSUME NEW w \in Workers, AttemptOne(w)
      PROVE  ContactInv'
  <2>1. PICK a \in picked[w], verdict \in {"Blocked", "Enqueued"} :
           Attempt(w, a, verdict) /\ picked' = [picked EXCEPT ![w] = @ \ {a}]
    BY <1>1 DEF AttemptOne, Verdicts
  <2>2. a \in Attempts /\ picked' \in [Workers -> SUBSET Attempts]
    BY <2>1 DEF ContactInv
  <2>3. CASE attempt[a] = "None"
    <3>1. /\ attempt' = [attempt EXCEPT ![a] = verdict]
          /\ queued' = IF verdict = "Enqueued" THEN queued \cup {a} ELSE queued
          /\ decided' = [decided EXCEPT ![a] = @ + 1]
      BY <2>1, <2>3 DEF Attempt
    <3>2. /\ attempt' \in [Attempts -> AttemptStates] /\ decided' \in [Attempts -> Nat]
          /\ attempt'[a] = verdict /\ decided'[a] = 1
          /\ \A b \in Attempts \ {a} : attempt'[b] = attempt[b] /\ decided'[b] = decided[b]
      BY <3>1, <2>2, <2>3 DEF ContactInv, AttemptsAreWhole, AttemptStates
    <3>3. /\ a \in queued' <=> verdict = "Enqueued"
          /\ \A b \in Attempts \ {a} : b \in queued' <=> b \in queued
      BY <3>1, <2>2, <2>3 DEF ContactInv, AttemptsAreWhole
    <3> QED BY <2>1, <2>2, <3>2, <3>3 DEF ContactInv, AttemptsAreWhole
  <2>4. CASE attempt[a] # "None"
    BY <2>1, <2>2, <2>4 DEF Attempt, ContactInv, AttemptsAreWhole
  <2> QED BY <2>3, <2>4
<1>2. ASSUME UNCHANGED <<attempt, decided, queued>>, picked' \in [Workers -> SUBSET Attempts]
      PROVE  ContactInv'
  BY <1>2 DEF ContactInv, AttemptsAreWhole
<1>3. ASSUME NEW w \in Workers, PickDue(w) \/ InterruptFollowUps(w)
      PROVE  ContactInv'
  BY <1>2, <1>3 DEF PickDue, InterruptFollowUps, DueAttempts, ContactInv
<1>4. CASE UNCHANGED contactVars
  BY <1>2, <1>4 DEF contactVars, ContactInv
<1>5. ASSUME NEW c \in Cycles, CycleStep(c)
      PROVE  UNCHANGED <<attempt, decided, queued, picked>>
  BY <1>5 DEF CycleStep, DayComesDue, CycleExpires, ContactStops
<1>6. ASSUME NEW w \in Workers, ReminderStep(w)
      PROVE  UNCHANGED contactVars
  BY <1>6 DEF ReminderStep, ReadReminders, SettleReminders, InterruptReminders
<1>7. ASSUME NEW v \in Visits, ScheduleReminders(v) \/ VisitChanges(v)
      PROVE  UNCHANGED contactVars
  BY <1>7 DEF ScheduleReminders, VisitChanges
<1>8. ASSUME NEW r \in Reminders, ReminderComesDue(r)
      PROVE  UNCHANGED contactVars
  BY <1>8 DEF ReminderComesDue
<1>9. CASE \E c \in Cycles : CycleStep(c)
  BY <1>2, <1>5, <1>9 DEF ContactInv
<1> QED BY <1>1, <1>3, <1>4, <1>6, <1>7, <1>8, <1>9
        DEF ScheduleNext, FollowUpStep, scheduleVars

\* Whatever two workers find due at once and wherever one stops, a follow-up
\* has its message exactly when its row says so, and one decision behind it.
THEOREM AttemptsCommitWhole == ScheduleSpec => []AttemptsAreWhole
<1>1. ContactInv => AttemptsAreWhole
  BY DEF ContactInv
<1> QED BY <1>1, ContactInitially, ContactStep, PTL DEF ScheduleSpec

-----------------------------------------------------------------------------
(***************************************************************************)
(* The shared market dataset.                                              *)
(***************************************************************************)

\* The current version of a record is shared or waits, nothing newer is to be
\* found anywhere, and its version number names its content.
Followed(j, type) ==
    /\ record[j][type].version \in Nat
    /\ \/ shared[j][type] = record[j][type]
       \/ record[j][type] \in waiting[j][type]
    /\ \A w \in waiting[j][type] \cup {shared[j][type]} :
          /\ w.version \in 0..record[j][type].version
          /\ w.version = record[j][type].version => w = record[j][type]

RecordsAreFollowed ==
    /\ DOMAIN record = Journeys /\ DOMAIN waiting = Journeys /\ DOMAIN shared = Journeys
    /\ \A j \in Journeys : /\ DOMAIN record[j] = RecordTypes
                           /\ DOMAIN waiting[j] = RecordTypes
                           /\ DOMAIN shared[j] = RecordTypes
    /\ \A j \in Journeys, type \in RecordTypes :
          /\ Followed(j, type)
          /\ journey[j] = "None" => record[j][type] = Absent

\* Who works on a Journey found one.
OnlyStarted ==
    /\ DOMAIN journey = Journeys
    /\ DOMAIN read = Conclusions
    /\ \A c \in Conclusions : DOMAIN read[c] = Journeys
    /\ \A c \in Conclusions, j \in Journeys :
          read[c][j].journey = "Active" => journey[j] # "None"
    /\ profiling \subseteq {j \in Journeys : journey[j] # "None"}

JourneyInv == RecordsAreFollowed /\ OnlyStarted

LEMMA JourneyInitially == JourneyInit => JourneyInv
<1> SUFFICES ASSUME JourneyInit PROVE JourneyInv
  OBVIOUS
<1>1. RecordsAreFollowed
  BY DEF JourneyInit, RecordsAreFollowed, Followed, Absent
<1>2. OnlyStarted
  BY DEF JourneyInit, OnlyStarted, NotReading
<1> QED BY <1>1, <1>2 DEF JourneyInv

\* A Journey that there is stays.
LEMMA JourneysStay ==
    ASSUME JourneyInv, [JourneyNext]_journeyVars
    PROVE  /\ DOMAIN journey' = Journeys
           /\ \A j \in Journeys : journey[j] # "None" => journey'[j] # "None"
BY DEF JourneyInv, OnlyStarted, JourneyNext, CreateDraft, Approve, Start, ReadActive, ConfirmMilestone,
       ConclusionStep, ReadWorkspace, RefuseConclusion, CompleteJourney, CancelJourney, RecordStep,
       ReadOpenSale, UpdateProfile, UpdateSale, CompleteForWon, Project, ResolveDuplicate, journeyVars

LEMMA OnlyStartedStep ==
    ASSUME JourneyInv, [JourneyNext]_journeyVars
    PROVE  OnlyStarted'
<1>1. /\ DOMAIN journey' = Journeys
      /\ \A j \in Journeys : journey[j] # "None" => journey'[j] # "None"
  BY JourneysStay
<1>2. CASE UNCHANGED <<read, profiling>>
  BY <1>1, <1>2 DEF JourneyInv, OnlyStarted
<1>3. ASSUME NEW c \in Conclusions, NEW j \in Journeys, ReadWorkspace(c, j)
      PROVE  OnlyStarted'
  BY <1>1, <1>3 DEF ReadWorkspace, JourneyInv, OnlyStarted
<1>4. ASSUME NEW c \in Conclusions, NEW j \in Journeys,
             RefuseConclusion(c, j) \/ CompleteJourney(c, j) \/ CancelJourney(c, j)
      PROVE  OnlyStarted'
  <2>1. read' = [read EXCEPT ![c][j] = NotReading] /\ profiling' = profiling
    BY <1>4 DEF RefuseConclusion, CompleteJourney, CancelJourney
  <2> QED BY <1>1, <2>1 DEF JourneyInv, OnlyStarted, NotReading
<1>5. ASSUME NEW j \in Journeys, ReadOpenSale(j) \/ UpdateProfile(j)
      PROVE  OnlyStarted'
  <2>1. profiling' \subseteq profiling \cup {i \in Journeys : journey[i] # "None"} /\ read' = read
    BY <1>5 DEF ReadOpenSale, UpdateProfile
  <2> QED BY <1>1, <2>1 DEF JourneyInv, OnlyStarted
<1> QED
  BY <1>2, <1>3, <1>4, <1>5
  DEF JourneyNext, CreateDraft, Approve, Start, ReadActive, ConfirmMilestone, ConclusionStep,
      RecordStep, UpdateSale, CompleteForWon, Project, ResolveDuplicate, journeyVars

\* A revised record waits with its new version.
LEMMA ReviseKeeps ==
    ASSUME JourneyInv, NEW j \in Journeys, NEW type \in RecordTypes, NEW state,
           Revise(j, type, state), UNCHANGED shared,
           \A i \in Journeys : journey[i] # "None" => journey'[i] # "None",
           journey[j] # "None"
    PROVE  RecordsAreFollowed'
<1> DEFINE revised == [version |-> record[j][type].version + 1, state |-> state]
<1>1. /\ record' = [record EXCEPT ![j][type] = revised]
      /\ waiting' = [waiting EXCEPT ![j][type] = @ \cup {revised}]
  BY DEF Revise
<1> USE DEF JourneyInv, RecordsAreFollowed
<1>2. Followed(j, type) /\ revised.version = record[j][type].version + 1
  OBVIOUS
<1> HIDE DEF revised
<1>3. /\ DOMAIN record' = Journeys /\ DOMAIN waiting' = Journeys
      /\ \A i \in Journeys : DOMAIN record'[i] = RecordTypes /\ DOMAIN waiting'[i] = RecordTypes
  BY <1>1
<1>4. record'[j][type] = revised /\ waiting'[j][type] = waiting[j][type] \cup {revised}
  BY <1>1
<1>5. \A i \in Journeys, t \in RecordTypes : i # j \/ t # type =>
          record'[i][t] = record[i][t] /\ waiting'[i][t] = waiting[i][t]
  BY <1>1
<1>6. Followed(j, type)'
  BY <1>2, <1>4 DEF Followed
<1>7. \A i \in Journeys, t \in RecordTypes : i # j \/ t # type => Followed(i, t)'
  BY <1>5 DEF Followed
<1>8. \A i \in Journeys, t \in RecordTypes : journey'[i] = "None" => record'[i][t] = Absent
  BY <1>5
<1> QED BY <1>3, <1>6, <1>7, <1>8

LEMMA FollowedStep ==
    ASSUME JourneyInv, [JourneyNext]_journeyVars
    PROVE  RecordsAreFollowed'
<1>1. \A j \in Journeys : journey[j] # "None" => journey'[j] # "None"
  BY JourneysStay
<1>2. CASE UNCHANGED <<record, waiting, shared>>
  BY <1>1, <1>2 DEF JourneyInv, RecordsAreFollowed, Followed
<1>3. ASSUME NEW j \in Journeys, Start(j) PROVE RecordsAreFollowed'
  <2> USE DEF JourneyInv, RecordsAreFollowed
  <2>1. /\ record' = [record EXCEPT ![j] = [type \in RecordTypes |-> Opening(type)]]
        /\ waiting' = [waiting EXCEPT ![j] = [type \in RecordTypes |-> {Opening(type)}]]
        /\ shared' = shared
        /\ journey[j] = "None" /\ journey' = [journey EXCEPT ![j] = "Active"]
    BY <1>3 DEF Start
  <2>2. \A type \in RecordTypes : Opening(type).version = 1
    BY DEF Opening
  <2>3. \A type \in RecordTypes : shared[j][type].version = 0
    BY <2>1 DEF Followed, Absent
  <2>4. \A type \in RecordTypes : Followed(j, type)'
    BY <2>1, <2>2, <2>3 DEF Followed
  <2>5. \A i \in Journeys \ {j}, type \in RecordTypes : Followed(i, type)'
    BY <2>1 DEF Followed
  <2> QED BY <1>1, <2>1, <2>4, <2>5 DEF OnlyStarted
<1>4. ASSUME NEW c \in Conclusions, NEW j \in Journeys, CancelJourney(c, j)
      PROVE  RecordsAreFollowed'
  <2>1. journey[j] # "None" /\ shared' = shared
    BY <1>4 DEF CancelJourney, JourneyInv, OnlyStarted
  <2>2. CASE Revise(j, "Sale", "Cancelled")
    BY <1>1, <2>1, <2>2, ReviseKeeps DEF RecordTypes
  <2> QED BY <1>2, <1>4, <2>1, <2>2 DEF CancelJourney
<1>5. ASSUME NEW j \in Journeys, UpdateProfile(j) PROVE RecordsAreFollowed'
  BY <1>1, <1>5, ReviseKeeps DEF UpdateProfile, JourneyInv, OnlyStarted, RecordTypes
<1>6. ASSUME NEW j \in Journeys, UpdateSale(j) PROVE RecordsAreFollowed'
  BY <1>1, <1>6, ReviseKeeps DEF UpdateSale, RecordTypes
<1>7. ASSUME NEW j \in Journeys, CompleteForWon(j) PROVE RecordsAreFollowed'
  BY <1>1, <1>7, ReviseKeeps DEF CompleteForWon, RecordTypes
<1>8. ASSUME NEW j \in Journeys, NEW type \in RecordTypes, NEW w \in waiting[j][type],
             Project(j, type, w)
      PROVE  RecordsAreFollowed'
  <2> USE DEF JourneyInv, RecordsAreFollowed
  <2>1. /\ waiting' = [waiting EXCEPT ![j][type] = @ \ {w}]
        /\ record' = record /\ journey' = journey
        /\ \/ w.version > shared[j][type].version /\ shared' = [shared EXCEPT ![j][type] = w]
           \/ ~(w.version > shared[j][type].version) /\ shared' = shared
    BY <1>8 DEF Project, Newer
  <2>2. /\ DOMAIN waiting' = Journeys /\ DOMAIN shared' = Journeys
        /\ \A i \in Journeys : DOMAIN waiting'[i] = RecordTypes /\ DOMAIN shared'[i] = RecordTypes
    BY <2>1
  <2>3. \A i \in Journeys, t \in RecordTypes : i # j \/ t # type =>
            shared'[i][t] = shared[i][t] /\ waiting'[i][t] = waiting[i][t]
    BY <2>1
  <2>4. /\ waiting'[j][type] = waiting[j][type] \ {w}
        /\ \/ w.version > shared[j][type].version /\ shared'[j][type] = w
           \/ ~(w.version > shared[j][type].version) /\ shared'[j][type] = shared[j][type]
    BY <2>1
  <2>5. Followed(j, type)'
    <3>1. /\ record[j][type].version \in Nat
          /\ shared[j][type] = record[j][type] \/ record[j][type] \in waiting[j][type]
          /\ \A v \in waiting[j][type] \cup {shared[j][type]} :
                /\ v.version \in 0..record[j][type].version
                /\ v.version = record[j][type].version => v = record[j][type]
      BY DEF Followed
    <3>2. shared'[j][type] \in waiting[j][type] \cup {shared[j][type]}
      BY <2>4
    <3>3. shared'[j][type] = record[j][type] \/ record[j][type] \in waiting'[j][type]
      BY <2>4, <3>1
    <3> QED BY <2>1, <2>4, <3>1, <3>2, <3>3 DEF Followed
  <2>6. \A i \in Journeys, t \in RecordTypes : i # j \/ t # type => Followed(i, t)'
    BY <2>1, <2>3 DEF Followed
  <2> QED BY <2>1, <2>2, <2>5, <2>6
<1> QED
  BY <1>2, <1>3, <1>4, <1>5, <1>6, <1>7, <1>8
  DEF JourneyNext, CreateDraft, Approve, ReadActive, ConfirmMilestone, ConclusionStep, ReadWorkspace,
      RefuseConclusion, CompleteJourney, RecordStep, ReadOpenSale, ResolveDuplicate, journeyVars

\* In whatever order the contributions are taken, and however often one is
\* passed over, the shared dataset ends with the current version of a record.
THEOREM SharedIsCurrent == JourneySpec => []DatasetCatchesUp
<1>1. JourneyInv => DatasetCatchesUp
  BY DEF JourneyInv, RecordsAreFollowed, Followed, DatasetCatchesUp
<1>2. JourneyInv /\ [JourneyNext]_journeyVars => JourneyInv'
  BY OnlyStartedStep, FollowedStep DEF JourneyInv
<1> QED BY <1>1, <1>2, JourneyInitially, PTL DEF JourneySpec

-----------------------------------------------------------------------------
(***************************************************************************)
(* Visits.                                                                 *)
(***************************************************************************)

VisitStates ==
    {"None", "Pending", "Confirmed", "NeedsReview", "Rejected", "Cancelled", "Rescheduled"}

CallStates == {"None", "Checked", "Found", "Persisted", "TakenUp", "Over"}

AgendaOK ==
    /\ call \in [Calls -> CallStates]
    /\ DOMAIN kept = Calls /\ DOMAIN takenUp = Calls
    /\ row \in [Calls -> [state : VisitStates, advisor : Advisors \cup {NoAdvisor},
                          attending : Advisors \cup {NoAdvisor}, attended : BOOLEAN]]
    /\ applied \in Calls \cup {NoCall}
    /\ rule \in Advisors \cup {NoAdvisor} /\ owner \in Advisors \cup {NoAdvisor}
    /\ DOMAIN quoted = {"usable", "starts"} /\ quoted.starts \subseteq shown

\* A call that is choosing has no row and knows who would attend, at a time
\* that was shown; one that has its row has no event yet, unless a move took
\* the row up meanwhile.
CallIsCurrent(c) ==
    /\ call[c] \in {"None", "Checked", "Found", "TakenUp"} => row[c].state = "None"
    /\ call[c] \in {"Checked", "Found"} =>
           /\ kept[c].attending # NoAdvisor
           /\ IsBooking(c) => StartOf[c] \in shown
    /\ call[c] = "Persisted" =>
           row[c].state \in {"Pending", "NeedsReview", "Rejected"} \/ c \in TakenUpRows
    /\ call[c] # "Over" => c \notin onCalendar \/ c \in TakenUpRows
    /\ kept[c].attending \in Advisors \cup {NoAdvisor}

\* A move takes up a row there is, and not that of the visit it moves.
TakenUpIsThere(c) ==
    /\ call[c] \notin {"TakenUp", "Over"} => takenUp[c].of = NoCall
    /\ call[c] = "TakenUp" => ~IsBooking(c) /\ takenUp[c].of \in Calls \ {Moves[c]}
    /\ takenUp[c].of # NoCall => takenUp[c].of \in Calls /\ row[takenUp[c].of].state # "None"

\* The visit that a call moves came about, and its own call is over.
OriginCameAbout(c) ==
    call[c] \in {"Checked", "Found", "Persisted", "TakenUp"} /\ ~IsBooking(c) =>
        /\ StartOf[c] # StartOf[Moves[c]] /\ row[Moves[c]].state # "None"
        /\ call[Moves[c]] = "Over" \/ Moves[c] \in TakenUpRows

RowIsAnswerable(c) ==
    /\ row[c].state # "None" =>
           /\ row[c].advisor # NoAdvisor /\ row[c].attending # NoAdvisor
           /\ IsBooking(c) => StartOf[c] \in shown
    /\ row[c].attended => StartOf[c] \in past
    /\ pending = c => row[c].state \in {"Confirmed", "Cancelled", "Rescheduled"} \/ c \in TakenUpRows

VisitInv ==
    /\ AgendaOK
    /\ \A c \in Calls : CallIsCurrent(c) /\ TakenUpIsThere(c) /\ OriginCameAbout(c) /\ RowIsAnswerable(c)
    /\ applied # NoCall => row[applied].state # "None" /\ row[applied].advisor = owner

LEMMA VisitInitially == VisitInit => VisitInv
<1> SUFFICES ASSUME VisitInit PROVE VisitInv
  OBVIOUS
<1>1. AgendaOK
  BY DEF VisitInit, AgendaOK, VisitStates, CallStates, NoVisit
<1>2. \A c \in Calls : row[c].state = "None" /\ row[c].attended = FALSE /\ pending # c
  BY VisitAssumption DEF VisitInit, NoVisit
<1>3. \A c \in Calls : CallIsCurrent(c) /\ TakenUpIsThere(c) /\ OriginCameAbout(c) /\ RowIsAnswerable(c)
  BY <1>2 DEF VisitInit, NoHold, NoRowThere, CallIsCurrent, TakenUpIsThere, OriginCameAbout, RowIsAnswerable
<1> QED BY <1>1, <1>3 DEF VisitInit, VisitInv

\* What a call moves is another call.
LEMMA MovesACall == \A c \in Calls : ~IsBooking(c) => Moves[c] \in Calls
BY VisitAssumption DEF IsBooking

\* A row that was taken up is there.
LEMMA TakenUpHaveRows ==
    ASSUME VisitInv
    PROVE  \A d \in TakenUpRows : d \in Calls /\ row[d].state # "None"
BY DEF VisitInv, TakenUpIsThere, TakenUpRows

\* Only the status of one visit changes.
Becomes(c, state) ==
    /\ row' \in [Calls -> [state : VisitStates, advisor : Advisors \cup {NoAdvisor},
                           attending : Advisors \cup {NoAdvisor}, attended : BOOLEAN]]
    /\ row'[c].state = state
    /\ row'[c].advisor = row[c].advisor /\ row'[c].attending = row[c].attending
    /\ row'[c].attended = row[c].attended
    /\ \A d \in Calls \ {c} : row'[d] = row[d]

LEMMA StatusBecomes ==
    ASSUME AgendaOK, NEW c \in Calls, NEW state \in VisitStates,
           row' = [row EXCEPT ![c].state = state]
    PROVE  Becomes(c, state)
BY DEF AgendaOK, Becomes

\* What happens to the times that were shown, to the clock and to what is
\* neither a call nor a visit changes nothing here.
LEMMA AgendaKept ==
    ASSUME VisitInv, UNCHANGED <<call, kept, row, takenUp, onCalendar, pending>>,
           AgendaOK', shown \subseteq shown', past \subseteq past',
           applied' # NoCall => applied' = applied /\ owner' = owner
    PROVE  VisitInv'
BY DEF VisitInv, CallIsCurrent, TakenUpIsThere, OriginCameAbout, RowIsAnswerable, IsBooking, TakenUpRows

LEMMA WorldKeeps ==
    ASSUME VisitInv, WorldStep \/ Qualify
    PROVE  VisitInv'
<1>1. CASE TeamChanges \/ CalendarChanges \/ Qualify
  <2>1. /\ UNCHANGED <<call, kept, row, takenUp, onCalendar, pending, applied, owner, shown, past, quoted>>
        /\ rule' \in Advisors \cup {NoAdvisor}
    BY <1>1 DEF TeamChanges, CalendarChanges, Qualify, VisitInv, AgendaOK
  <2>2. AgendaOK'
    BY <2>1 DEF VisitInv, AgendaOK
  <2> QED BY <2>1, <2>2, AgendaKept
<1>2. CASE HorizonPasses
  <2>1. /\ UNCHANGED <<call, kept, row, takenUp, onCalendar, pending, applied, rule, owner, shown, past>>
        /\ quoted' = [quoted EXCEPT !.usable = FALSE]
    BY <1>2 DEF HorizonPasses
  <2>2. AgendaOK'
    BY <2>1 DEF VisitInv, AgendaOK
  <2> QED BY <2>1, <2>2, AgendaKept
<1>3. CASE AssignManually
  <2>1. /\ UNCHANGED <<call, kept, row, takenUp, onCalendar, pending, quoted, shown, past, rule>>
        /\ applied' = NoCall /\ owner' \in Advisors
    BY <1>3 DEF AssignManually
  <2>2. AgendaOK'
    BY <2>1 DEF VisitInv, AgendaOK
  <2> QED BY <2>1, <2>2, AgendaKept
<1>4. CASE StartPasses
  <2>1. /\ UNCHANGED <<call, kept, row, takenUp, onCalendar, pending, quoted, shown, rule, owner, applied>>
        /\ past \subseteq past'
    BY <1>4 DEF StartPasses, crm
  <2>2. AgendaOK'
    BY <2>1 DEF VisitInv, AgendaOK
  <2> QED BY <2>1, <2>2, AgendaKept
<1> QED BY <1>1, <1>2, <1>3, <1>4 DEF WorldStep

\* What is owed becomes something else, or the follow-up of a visit there is.
LEMMA FollowUpKeeps ==
    ASSUME VisitInv, UNCHANGED <<call, kept, row, takenUp, onCalendar, applied, rule, owner, quoted, shown, past>>,
           pending' \in {"None", "Other"}
    PROVE  VisitInv'
<1>1. \A c \in Calls : pending' # c
  BY VisitAssumption
<1> QED BY <1>1 DEF VisitInv, AgendaOK, CallIsCurrent, TakenUpIsThere, OriginCameAbout, RowIsAnswerable,
                   IsBooking, TakenUpRows

LEMMA ChoosingKeeps ==
    ASSUME VisitInv, NEW c \in Calls, CheckBooking(c) \/ CheckMove(c) \/ FindSlot(c)
    PROVE  VisitInv'
<1> USE DEF VisitInv
<1>0. UNCHANGED takenUp /\ TakenUpRows' = TakenUpRows
  BY DEF CheckBooking, CheckMove, FindSlot, TakenUpRows
<1>1. CASE CheckBooking(c)
  <2>1. /\ call' = [call EXCEPT ![c] = "Checked"] /\ call[c] = "None" /\ IsBooking(c)
        /\ kept' = [kept EXCEPT ![c] =
                       [stage |-> pursuit, owner |-> owner, attending |-> Rule(owner)]]
        /\ Rule(owner) # NoAdvisor /\ StartOf[c] \in quoted.starts
        /\ UNCHANGED <<row, onCalendar, pending, applied, rule, owner, quoted, shown, past>>
    BY <1>1 DEF CheckBooking, Offered, crm
  <2>2. AgendaOK'
    BY <1>0, <2>1 DEF AgendaOK, CallStates
  <2>3. call'[c] = "Checked" /\ kept'[c].attending \in Advisors /\ StartOf[c] \in shown
    BY <2>1 DEF AgendaOK, Rule
  <2>4. \A d \in Calls \ {c} : call'[d] = call[d] /\ kept'[d] = kept[d]
    BY <2>1 DEF AgendaOK
  <2>5. \A d \in Calls : CallIsCurrent(d)'
    BY <1>0, <2>1, <2>3, <2>4, VisitAssumption DEF CallIsCurrent, IsBooking
  <2>6. \A d \in Calls : OriginCameAbout(d)'
    BY <1>0, <2>1, <2>3, <2>4, MovesACall, TakenUpHaveRows DEF CallIsCurrent, OriginCameAbout, IsBooking
  <2>7. \A d \in Calls : RowIsAnswerable(d)'
    BY <1>0, <2>1 DEF RowIsAnswerable, IsBooking
  <2>8. \A d \in Calls : TakenUpIsThere(d)'
    BY <1>0, <2>1, <2>3, <2>4 DEF TakenUpIsThere
  <2> QED BY <2>1, <2>2, <2>5, <2>6, <2>7, <2>8
<1>2. CASE CheckMove(c)
  <2>1. /\ call' = [call EXCEPT ![c] = "Checked"] /\ call[c] = "None" /\ ~IsBooking(c)
        /\ kept' = [kept EXCEPT ![c] = [NoHold EXCEPT !.attending = row[Moves[c]].attending]]
        /\ row[Moves[c]].state = "Confirmed" /\ StartOf[c] # StartOf[Moves[c]]
        /\ UNCHANGED <<row, onCalendar, pending, applied, rule, owner, quoted, shown, past>>
    BY <1>2 DEF CheckMove, IsToCome, crm
  <2>2. AgendaOK'
    BY <1>0, <2>1 DEF AgendaOK, CallStates
  <2>3. /\ Moves[c] \in Calls /\ Moves[c] # c
        /\ call[Moves[c]] = "Over" \/ Moves[c] \in TakenUpRows
    BY <2>1, MovesACall DEF CallIsCurrent, AgendaOK, CallStates
  <2>4. call'[c] = "Checked" /\ kept'[c].attending \in Advisors
    BY <2>1, <2>3 DEF AgendaOK, RowIsAnswerable, NoHold
  <2>5. \A d \in Calls \ {c} : call'[d] = call[d] /\ kept'[d] = kept[d]
    BY <2>1 DEF AgendaOK
  <2>6. \A d \in Calls : CallIsCurrent(d)'
    BY <1>0, <2>1, <2>4, <2>5, VisitAssumption DEF CallIsCurrent, IsBooking
  <2>7. \A d \in Calls : OriginCameAbout(d)'
    BY <1>0, <2>1, <2>3, <2>4, <2>5, MovesACall DEF OriginCameAbout, IsBooking
  <2>8. \A d \in Calls : RowIsAnswerable(d)'
    BY <1>0, <2>1 DEF RowIsAnswerable, IsBooking
  <2>9. \A d \in Calls : TakenUpIsThere(d)'
    BY <1>0, <2>1, <2>4, <2>5 DEF TakenUpIsThere
  <2> QED BY <2>1, <2>2, <2>6, <2>7, <2>8, <2>9
<1>3. CASE FindSlot(c)
  <2>1. /\ call[c] = "Checked"
        /\ UNCHANGED <<kept, row, onCalendar, pending, applied, rule, owner, past>>
        /\ call' = [call EXCEPT ![c] = "Found"] \/ call' = [call EXCEPT ![c] = "Over"]
        /\ \/ UNCHANGED <<quoted, shown>>
           \/ \E a \in {Rule(kept[c].owner), Rule(owner)} : Requote(a)
    BY <1>3 DEF FindSlot, crm
  <2>2. /\ shown \subseteq shown'
        /\ DOMAIN quoted' = {"usable", "starts"} /\ quoted'.starts \subseteq shown'
    BY <2>1 DEF Requote, AgendaOK
  <2>3. AgendaOK'
    BY <1>0, <2>1, <2>2 DEF AgendaOK, CallStates
  <2>4. call'[c] \in {"Found", "Over"} /\ \A d \in Calls \ {c} : call'[d] = call[d]
    BY <2>1 DEF AgendaOK
  <2>5. \A d \in Calls : CallIsCurrent(d)'
    BY <1>0, <2>1, <2>2, <2>4 DEF CallIsCurrent, IsBooking
  <2>6. \A d \in Calls : OriginCameAbout(d)'
    BY <1>0, <2>1, <2>4, MovesACall DEF OriginCameAbout, IsBooking
  <2>7. \A d \in Calls : RowIsAnswerable(d)'
    BY <1>0, <2>1, <2>2 DEF RowIsAnswerable, IsBooking
  <2>8. \A d \in Calls : TakenUpIsThere(d)'
    BY <1>0, <2>1, <2>4 DEF TakenUpIsThere
  <2> QED BY <2>1, <2>3, <2>5, <2>6, <2>7, <2>8
<1> QED BY <1>1, <1>2, <1>3

\* A call that found its time is over, and has written nothing.
LEMMA NothingWritten ==
    ASSUME VisitInv, NEW c \in Calls, call[c] = "Found", call' = [call EXCEPT ![c] = "Over"],
           UNCHANGED <<row, takenUp, owner, applied, kept, onCalendar, pending, rule, quoted, shown, past>>
    PROVE  VisitInv'
<1> USE DEF VisitInv
<1>1. AgendaOK'
  BY DEF AgendaOK, CallStates
<1>2. call'[c] = "Over" /\ \A d \in Calls \ {c} : call'[d] = call[d]
  BY DEF AgendaOK
<1>3. TakenUpRows' = TakenUpRows
  BY DEF TakenUpRows
<1>4. \A d \in Calls : CallIsCurrent(d)' /\ RowIsAnswerable(d)'
  BY <1>2, <1>3 DEF CallIsCurrent, RowIsAnswerable, IsBooking
<1>5. \A d \in Calls : OriginCameAbout(d)'
  BY <1>2, <1>3, MovesACall DEF OriginCameAbout, IsBooking
<1>6. \A d \in Calls : TakenUpIsThere(d)'
  BY <1>2 DEF TakenUpIsThere
<1> QED BY <1>1, <1>4, <1>5, <1>6

\* A call writes its row, or is over without one.
LEMMA PersistKeeps ==
    ASSUME VisitInv, NEW c \in Calls, PersistBooking(c) \/ PersistMove(c)
    PROVE  VisitInv'
<1> USE DEF VisitInv
<1>1. /\ call[c] = "Found" /\ row[c].state = "None"
      /\ UNCHANGED <<kept, takenUp, onCalendar, pending, rule, quoted, shown, past>>
  BY DEF PersistBooking, PersistMove, crm, CallIsCurrent
<1>2. CASE call' = [call EXCEPT ![c] = "Over"] /\ UNCHANGED <<row, owner, applied>>
  BY <1>1, <1>2, NothingWritten
<1>3. ASSUME NEW a \in Advisors,
             call' = [call EXCEPT ![c] = "Persisted"], WriteRow(c, a),
             \/ UNCHANGED <<owner, applied>>
             \/ applied' = c /\ owner' = a
      PROVE  VisitInv'
  <2>1. /\ row'[c].state = "Pending" /\ row'[c].advisor = a
        /\ row'[c].attending = kept[c].attending /\ row'[c].attended = FALSE
        /\ \A d \in Calls \ {c} : row'[d] = row[d]
    BY <1>3 DEF WriteRow, AgendaOK
  <2>2. call'[c] = "Persisted" /\ \A d \in Calls \ {c} : call'[d] = call[d]
    BY <1>3 DEF AgendaOK
  <2>3. kept[c].attending \in Advisors \cup {NoAdvisor}
    BY DEF CallIsCurrent
  <2>4. AgendaOK'
    BY <1>1, <1>3, <2>3 DEF AgendaOK, WriteRow, VisitStates, CallStates
  <2>5. TakenUpRows' = TakenUpRows /\ c \notin TakenUpRows
    BY <1>1, TakenUpHaveRows DEF TakenUpRows
  <2>6. \A d \in Calls : CallIsCurrent(d)'
    BY <1>1, <2>1, <2>2, <2>5 DEF CallIsCurrent, IsBooking
  <2>7. \A d \in Calls : OriginCameAbout(d)'
    BY <1>1, <2>1, <2>2, <2>5, MovesACall DEF OriginCameAbout, IsBooking
  <2>8. \A d \in Calls : RowIsAnswerable(d)'
    BY <1>1, <1>3, <2>1, <2>5, VisitAssumption DEF RowIsAnswerable, CallIsCurrent, IsBooking
  <2>9. \A d \in Calls : TakenUpIsThere(d)'
    BY <1>1, <2>1, <2>2 DEF TakenUpIsThere
  <2>10. applied' # NoCall => row'[applied'].state # "None" /\ row'[applied'].advisor = owner'
    BY <1>1, <1>3, <2>1 DEF AgendaOK
  <2> QED BY <2>4, <2>6, <2>7, <2>8, <2>9, <2>10
<1>4. CASE PersistBooking(c)
  <2>1. Rule(owner) # NoAdvisor => Rule(owner) \in Advisors
    BY DEF Rule, AgendaOK
  <2>2. owner # NoAdvisor => Rule(owner) = owner
    BY DEF Rule
  <2>3. \/ call' = [call EXCEPT ![c] = "Over"] /\ UNCHANGED <<row, owner, applied>>
        \/ /\ Rule(owner) # NoAdvisor
           /\ call' = [call EXCEPT ![c] = "Persisted"] /\ WriteRow(c, Rule(owner))
           /\ owner' = Rule(owner) /\ applied' = IF owner = NoAdvisor THEN c ELSE applied
    BY <1>4 DEF PersistBooking
  <2> QED BY <1>2, <1>3, <2>1, <2>2, <2>3
<1>5. CASE PersistMove(c)
  <2>1. /\ ~IsBooking(c) /\ UNCHANGED <<owner, applied>>
        /\ \/ call' = [call EXCEPT ![c] = "Over"] /\ UNCHANGED row
           \/ call' = [call EXCEPT ![c] = "Persisted"] /\ WriteRow(c, row[Moves[c]].advisor)
    BY <1>5 DEF PersistMove, crm
  <2>2. Moves[c] \in Calls /\ row[Moves[c]].state # "None"
    BY <1>1, <2>1, MovesACall DEF OriginCameAbout
  <2>3. row[Moves[c]].advisor \in Advisors
    BY <2>2 DEF RowIsAnswerable, AgendaOK
  <2> QED BY <1>2, <1>3, <2>1, <2>3
<1> QED BY <1>4, <1>5

\* A move finds a row of its time, and answers with it or goes on with it.
LEMMA TakingUpKeeps ==
    ASSUME VisitInv, NEW c \in Calls, TakeUpRow(c)
    PROVE  VisitInv'
<1>1. PICK d \in OfTheSameTime(c) :
          IF row[d].state = "Confirmed"
            THEN call' = [call EXCEPT ![c] = "Over"] /\ UNCHANGED takenUp
            ELSE /\ call' = [call EXCEPT ![c] = "TakenUp"]
                 /\ takenUp' = [takenUp EXCEPT ![c] = [of |-> d, state |-> row[d].state]]
  BY DEF TakeUpRow
<1>2. /\ call[c] = "Found" /\ ~IsBooking(c)
      /\ UNCHANGED <<kept, row, onCalendar, pending, applied, rule, owner, quoted, shown, past>>
  BY DEF TakeUpRow, crm
<1>3. CASE row[d].state = "Confirmed"
  BY <1>1, <1>2, <1>3, NothingWritten
<1>4. CASE row[d].state # "Confirmed"
  <2> USE DEF VisitInv
  <2>1. /\ call'[c] = "TakenUp" /\ takenUp'[c].of = d
        /\ \A e \in Calls \ {c} : call'[e] = call[e] /\ takenUp'[e] = takenUp[e]
        /\ AgendaOK'
    BY <1>1, <1>2, <1>4 DEF AgendaOK, CallStates
  <2>2. d \in Calls /\ row[d].state # "None" /\ StartOf[d] = StartOf[c]
    BY DEF OfTheSameTime
  <2>3. takenUp[c].of = NoCall
    BY <1>2 DEF TakenUpIsThere
  <2>4. TakenUpRows \subseteq TakenUpRows'
    BY <2>1, <2>3 DEF TakenUpRows
  <2>5. d # Moves[c]
    BY <1>2, <2>2 DEF OriginCameAbout
  <2>6. \A e \in Calls : CallIsCurrent(e)' /\ RowIsAnswerable(e)'
    BY <1>2, <2>1, <2>4 DEF CallIsCurrent, RowIsAnswerable, IsBooking
  <2>7. \A e \in Calls : OriginCameAbout(e)'
    BY <1>2, <2>1, <2>4, MovesACall DEF OriginCameAbout, IsBooking
  <2>8. \A e \in Calls : TakenUpIsThere(e)'
    BY <1>2, <2>1, <2>2, <2>5 DEF TakenUpIsThere, IsBooking
  <2> QED BY <1>2, <2>1, <2>6, <2>7, <2>8
<1> QED BY <1>3, <1>4

CallTypes == [Calls -> CallStates]

\* At most one call ends, and it had a row to record.
CallMayEnd(c) ==
    \/ call' = call
    \/ call' = [call EXCEPT ![c] = "Over"] /\ call[c] \in {"Persisted", "TakenUp"}

LEMMA CallEnds ==
    ASSUME call \in CallTypes, NEW c \in Calls, CallMayEnd(c)
    PROVE  /\ call' \in CallTypes
           /\ call'[c] = call[c] \/ (call[c] \in {"Persisted", "TakenUp"} /\ call'[c] = "Over")
           /\ \A d \in Calls \ {c} : call'[d] = call[d]
<1>1. CASE call' = call
  BY <1>1
<1>2. CASE call' = [call EXCEPT ![c] = "Over"] /\ call[c] \in {"Persisted", "TakenUp"}
  BY <1>2 DEF CallTypes, CallStates
<1> QED BY <1>1, <1>2 DEF CallMayEnd

RowTypes == [Calls -> [state : VisitStates, advisor : Advisors \cup {NoAdvisor},
                       attending : Advisors \cup {NoAdvisor}, attended : BOOLEAN]]

\* Two rows change their status in one commit.
LEMMA RowsReplaced ==
    ASSUME row \in RowTypes, NEW c \in Calls, NEW o \in Calls, c # o,
           row' = [row EXCEPT ![c].state = "Confirmed", ![o].state = "Rescheduled"]
    PROVE  /\ row' \in RowTypes
           /\ row'[c].state = "Confirmed" /\ row'[o].state = "Rescheduled"
           /\ \A d \in {c, o} : /\ row'[d].advisor = row[d].advisor
                                /\ row'[d].attending = row[d].attending
                                /\ row'[d].attended = row[d].attended
           /\ \A d \in Calls \ {c, o} : row'[d] = row[d]
<1>1. row' = [d \in Calls |-> IF d = o THEN [row[d] EXCEPT !.state = "Rescheduled"]
                              ELSE IF d = c THEN [row[d] EXCEPT !.state = "Confirmed"]
                              ELSE row[d]]
  BY DEF RowTypes
<1>2. \A d \in Calls : /\ [row[d] EXCEPT !.state = "Rescheduled"] \in
                              [state : VisitStates, advisor : Advisors \cup {NoAdvisor},
                               attending : Advisors \cup {NoAdvisor}, attended : BOOLEAN]
                       /\ [row[d] EXCEPT !.state = "Confirmed"] \in
                              [state : VisitStates, advisor : Advisors \cup {NoAdvisor},
                               attending : Advisors \cup {NoAdvisor}, attended : BOOLEAN]
  BY DEF RowTypes, VisitStates
<1>3. row' \in RowTypes
  BY <1>1, <1>2 DEF RowTypes
<1> QED BY <1>1, <1>3 DEF RowTypes

\* One visit takes another status, and a call may be over with it.
LEMMA StatusKeeps ==
    ASSUME VisitInv, NEW c \in Calls, NEW e \in Calls, NEW state \in VisitStates \ {"None"},
           Becomes(c, state), row[c].state # "None", CallMayEnd(e),
           UNCHANGED <<rule, owner, applied, kept, takenUp, quoted, shown, past>>,
           call'[c] = "Persisted" => state \in {"Pending", "NeedsReview", "Rejected"} \/ c \in TakenUpRows,
           \A d \in Calls : d \in onCalendar' =>
               d \in onCalendar \/ call'[d] = "Over" \/ d \in TakenUpRows,
           \A d \in Calls : pending' = d =>
               \/ (IF d = c THEN state ELSE row[d].state) \in {"Confirmed", "Cancelled", "Rescheduled"}
               \/ d \in TakenUpRows
    PROVE  VisitInv'
<1> USE DEF VisitInv, Becomes
<1>1. /\ call' \in CallTypes
      /\ \A d \in Calls : \/ call'[d] = call[d]
                          \/ d = e /\ call[d] \in {"Persisted", "TakenUp"} /\ call'[d] = "Over"
  BY CallEnds DEF AgendaOK, CallTypes
<1>2. AgendaOK'
  BY <1>1 DEF AgendaOK, CallTypes
<1>3. TakenUpRows' = TakenUpRows
  BY DEF TakenUpRows
<1>4. \A d \in Calls : row'[d].state = "None" <=> row[d].state = "None"
  OBVIOUS
<1>5. \A d \in Calls : CallIsCurrent(d)'
  BY <1>1, <1>3, <1>4 DEF CallIsCurrent, IsBooking
<1>6. \A d \in Calls : OriginCameAbout(d)'
  BY <1>1, <1>3, <1>4, MovesACall DEF OriginCameAbout, IsBooking
<1>7. \A d \in Calls : RowIsAnswerable(d)'
  BY <1>3 DEF RowIsAnswerable, IsBooking
<1>8. \A d \in Calls : TakenUpIsThere(d)'
  BY <1>1, <1>4 DEF TakenUpIsThere, IsBooking
<1>9. applied' # NoCall => row'[applied'].state # "None" /\ row'[applied'].advisor = owner'
  BY DEF AgendaOK
<1> QED BY <1>2, <1>5, <1>6, <1>7, <1>8, <1>9

\* A row takes the place of the visit that is moved.
LEMMA ReplacingKeeps ==
    ASSUME VisitInv, NEW c \in Calls, NEW v \in Calls, NEW e \in Calls, v # c,
           row[c].state # "None", row[v].state # "None", CallMayEnd(e),
           row' = [row EXCEPT ![c].state = "Confirmed", ![v].state = "Rescheduled"],
           UNCHANGED <<rule, owner, applied, kept, takenUp, quoted, shown, past>>, pending' = c,
           call[v] = "Over" \/ v \in TakenUpRows, call'[c] = "Over" \/ c \in TakenUpRows,
           \A d \in Calls : d \in onCalendar' => d \in onCalendar \/ d = c
    PROVE  VisitInv'
<1>1. /\ AgendaOK
      /\ applied # NoCall => row[applied].state # "None" /\ row[applied].advisor = owner
      /\ \A d \in Calls : CallIsCurrent(d) /\ TakenUpIsThere(d) /\ OriginCameAbout(d) /\ RowIsAnswerable(d)
  BY DEF VisitInv
<1>2. /\ call' \in CallTypes
      /\ \A d \in Calls : \/ call'[d] = call[d]
                          \/ d = e /\ call[d] \in {"Persisted", "TakenUp"} /\ call'[d] = "Over"
  BY <1>1, CallEnds DEF AgendaOK, CallTypes
<1>3. /\ row' \in RowTypes
      /\ row'[c].state = "Confirmed" /\ row'[v].state = "Rescheduled"
      /\ \A d \in {c, v} : /\ row'[d].advisor = row[d].advisor
                           /\ row'[d].attending = row[d].attending
                           /\ row'[d].attended = row[d].attended
      /\ \A d \in Calls \ {c, v} : row'[d] = row[d]
  BY <1>1, RowsReplaced DEF AgendaOK, RowTypes
<1>4. AgendaOK'
  BY <1>1, <1>2, <1>3 DEF AgendaOK, CallTypes, RowTypes
<1>5. TakenUpRows' = TakenUpRows
  BY DEF TakenUpRows
<1>6. /\ \A d \in Calls : row'[d].state = "None" <=> row[d].state = "None"
      /\ call'[v] = "Over" \/ v \in TakenUpRows
  BY <1>2, <1>3
<1>7. ASSUME NEW d \in Calls PROVE CallIsCurrent(d)'
  <2>1. CASE d \in {c, v}
    BY <1>1, <1>2, <1>3, <1>5, <1>6, <2>1 DEF CallIsCurrent, IsBooking
  <2>2. CASE d \notin {c, v}
    <3>1. row'[d] = row[d] /\ kept'[d] = kept[d] /\ shown' = shown /\ (d \in onCalendar' => d \in onCalendar)
      BY <1>3, <2>2
    <3>2. call'[d] = call[d] \/ call'[d] = "Over"
      BY <1>2
    <3>3. CallIsCurrent(d)
      BY <1>1
    <3> QED BY <1>5, <3>1, <3>2, <3>3 DEF CallIsCurrent, IsBooking
  <2> QED BY <2>1, <2>2
<1>8. \A d \in Calls : OriginCameAbout(d)'
  BY <1>1, <1>2, <1>5, <1>6, MovesACall DEF OriginCameAbout, IsBooking
<1>9. ASSUME NEW d \in Calls PROVE RowIsAnswerable(d)'
  <2>1. RowIsAnswerable(d) /\ (row'[d].state = "None" <=> row[d].state = "None")
    BY <1>1, <1>6
  <2>2. /\ row'[d].advisor = row[d].advisor /\ row'[d].attending = row[d].attending
        /\ row'[d].attended = row[d].attended
    BY <1>3
  <2>3. pending' = d => row'[d].state = "Confirmed"
    BY <1>3
  <2> QED BY <2>1, <2>2, <2>3 DEF RowIsAnswerable, IsBooking
<1>10. ASSUME NEW d \in Calls PROVE TakenUpIsThere(d)'
  <2>1. TakenUpIsThere(d) /\ takenUp'[d] = takenUp[d]
    BY <1>1
  <2>2. call'[d] = call[d] \/ call'[d] = "Over"
    BY <1>2
  <2>3. takenUp[d].of # NoCall => row'[takenUp[d].of].state # "None"
    BY <1>6, <2>1 DEF TakenUpIsThere
  <2>4. call'[d] \notin {"TakenUp", "Over"} => takenUp[d].of = NoCall
    BY <1>2, <2>1 DEF TakenUpIsThere
  <2> QED BY <2>1, <2>2, <2>3, <2>4 DEF TakenUpIsThere, IsBooking
<1>11. applied' # NoCall => row'[applied'].state # "None" /\ row'[applied'].advisor = owner'
  BY <1>1, <1>3 DEF AgendaOK
<1> QED BY <1>4, <1>7, <1>8, <1>9, <1>10, <1>11 DEF VisitInv

\* What is recorded of the calendar's answer to a move.
LEMMA ReplaceKeeps ==
    ASSUME VisitInv, NEW c \in Calls, NEW v \in Calls, NEW e \in Calls, v # c,
           NEW keeps \in BOOLEAN, Replace(v, c, keeps), CallMayEnd(e),
           UNCHANGED <<rule, owner, applied, kept, takenUp, quoted, shown, past>>,
           row[c].state # "None", row[v].state # "None",
           call[v] = "Over" \/ v \in TakenUpRows, call'[c] = "Over" \/ c \in TakenUpRows
    PROVE  VisitInv'
<1> USE DEF VisitInv
<1>1. \A d \in Calls : d \in onCalendar' => d \in onCalendar \/ d = c
  BY DEF Replace
<1>2. CASE UNCHANGED <<row, pending>>
  <2>1. UNCHANGED <<row, pending>>
    BY <1>2
  <2>2. /\ call' \in CallTypes
        /\ \A d \in Calls : \/ call'[d] = call[d]
                            \/ d = e /\ call[d] \in {"Persisted", "TakenUp"} /\ call'[d] = "Over"
    BY CallEnds DEF AgendaOK, CallTypes
  <2>3. AgendaOK'
    BY <2>1, <2>2 DEF AgendaOK, CallTypes
  <2>4. TakenUpRows' = TakenUpRows
    BY DEF TakenUpRows
  <2>5. \A d \in Calls : CallIsCurrent(d)' /\ RowIsAnswerable(d)'
    BY <1>1, <2>1, <2>2, <2>4 DEF CallIsCurrent, RowIsAnswerable, IsBooking
  <2>6. \A d \in Calls : OriginCameAbout(d)' /\ TakenUpIsThere(d)'
    BY <2>1, <2>2, <2>4, MovesACall DEF OriginCameAbout, TakenUpIsThere, IsBooking
  <2> QED BY <2>1, <2>3, <2>5, <2>6
<1>3. CASE row' = [row EXCEPT ![c].state = "Confirmed", ![v].state = "Rescheduled"] /\ pending' = c
  BY <1>1, <1>3, ReplacingKeeps
<1> QED BY <1>2, <1>3 DEF Replace, HandOff

\* The write of a row ended with no conclusive answer.
LEMMA InconclusiveKeeps ==
    ASSUME VisitInv, NEW c \in Calls, NEW e \in Calls, NEW was, Inconclusive(c, was), CallMayEnd(e),
           UNCHANGED <<rule, owner, applied, kept, takenUp, quoted, shown, past>>,
           row[c].state # "None", call'[c] = "Over" \/ c \in TakenUpRows,
           c \notin TakenUpRows => pending # c
    PROVE  VisitInv'
<1> USE DEF VisitInv
<1>1. /\ pending' = pending /\ \A d \in Calls : d \in onCalendar' => d \in onCalendar \/ d = c
      /\ \E state \in {row[c].state, "NeedsReview"} : row' = [row EXCEPT ![c].state = state]
  BY DEF Inconclusive
<1>2. row[c].state \in VisitStates \ {"None"}
  BY DEF AgendaOK
<1>3. PICK state \in VisitStates \ {"None"} : row' = [row EXCEPT ![c].state = state]
  BY <1>1, <1>2 DEF VisitStates
<1>4. Becomes(c, state)
  BY <1>3, StatusBecomes
<1>5. \A d \in Calls : pending' = d =>
          \/ (IF d = c THEN state ELSE row[d].state) \in {"Confirmed", "Cancelled", "Rescheduled"}
          \/ d \in TakenUpRows
  BY <1>1 DEF RowIsAnswerable
<1> QED BY <1>1, <1>4, <1>5, StatusKeeps

\* What is recorded of the calendar's answer, by the call or for it.
LEMMA OutcomeKeeps ==
    ASSUME VisitInv, NEW c \in Calls,
           \/ RecordBooking(c) \/ RecordMove(c) \/ RecordTakenUp(c)
           \/ RecoverAttempt(c) \/ ResolveAttempt(c)
    PROVE  VisitInv'
<1> USE DEF VisitInv
<1>1. \A d \in Calls : pending = d =>
          row[d].state \in {"Confirmed", "Cancelled", "Rescheduled"} \/ d \in TakenUpRows
  BY DEF RowIsAnswerable
<1>2. UNCHANGED <<rule, owner, applied, kept, takenUp, quoted, shown, past>> /\ CallMayEnd(c)
  BY DEF RecordBooking, RecordMove, RecordTakenUp, RecoverAttempt, ResolveAttempt, crm, CallMayEnd
<1>3. CASE RecoverAttempt(c)
  <2>1. /\ row' = [row EXCEPT ![c].state = "NeedsReview"] /\ row[c].state = "Pending"
        /\ UNCHANGED <<call, onCalendar, pending>>
    BY <1>3 DEF RecoverAttempt, crm
  <2>2. Becomes(c, "NeedsReview")
    BY <2>1, StatusBecomes DEF VisitStates
  <2> QED BY <1>1, <1>2, <2>1, <2>2, StatusKeeps DEF VisitStates
<1>4. ASSUME row' = [row EXCEPT ![c].state = "Confirmed"], pending' = c, row[c].state # "None",
             call'[c] = "Over" \/ c \in TakenUpRows,
             \A d \in Calls : d \in onCalendar' => d \in onCalendar \/ d = c
      PROVE  VisitInv'
  <2>1. Becomes(c, "Confirmed")
    BY <1>4, StatusBecomes DEF VisitStates
  <2> QED BY <1>2, <1>4, <2>1, StatusKeeps DEF VisitStates
<1>5. ASSUME call[c] = "Persisted" PROVE row[c].state # "None" /\ (c \notin TakenUpRows => pending # c)
  BY <1>1, <1>5, TakenUpHaveRows DEF CallIsCurrent
<1>6. CASE RecordBooking(c)
  <2>1. call' = [call EXCEPT ![c] = "Over"] /\ call[c] = "Persisted" /\ call'[c] = "Over"
    BY <1>6 DEF RecordBooking, AgendaOK
  <2>2. CASE row' = [row EXCEPT ![c].state = "Confirmed"] /\ pending' = c /\ onCalendar' = onCalendar \cup {c}
    BY <1>4, <1>5, <2>1, <2>2
  <2>4. CASE UNCHANGED <<row, pending>> /\ onCalendar' = onCalendar \cup {c}
    <3>1. row[c].state \in VisitStates \ {"None"} /\ row' = [row EXCEPT ![c].state = row[c].state]
      BY <1>5, <2>1, <2>4 DEF AgendaOK
    <3>2. Becomes(c, row[c].state)
      BY <3>1, StatusBecomes
    <3> QED BY <1>1, <1>2, <2>1, <2>4, <3>1, <3>2, StatusKeeps
  <2>3. CASE Inconclusive(c, "Pending")
    BY <1>2, <1>5, <2>1, <2>3, InconclusiveKeeps
  <2> QED BY <1>6, <2>2, <2>3, <2>4 DEF RecordBooking, HandOff
<1>7. CASE RecordMove(c)
  <2>1. /\ call' = [call EXCEPT ![c] = "Over"] /\ call[c] = "Persisted" /\ ~IsBooking(c)
        /\ call'[c] = "Over"
        /\ (\E keeps \in BOOLEAN : Replace(Moves[c], c, keeps)) \/ Inconclusive(c, "Pending")
    BY <1>7 DEF RecordMove, AgendaOK
  <2>2. /\ Moves[c] \in Calls /\ Moves[c] # c /\ row[Moves[c]].state # "None"
        /\ call[Moves[c]] = "Over" \/ Moves[c] \in TakenUpRows
    BY <2>1, MovesACall DEF OriginCameAbout
  <2>3. CASE Inconclusive(c, "Pending")
    BY <1>2, <1>5, <2>1, <2>3, InconclusiveKeeps
  <2>4. ASSUME NEW keeps \in BOOLEAN, Replace(Moves[c], c, keeps) PROVE VisitInv'
    BY <1>2, <1>5, <2>1, <2>2, <2>4, ReplaceKeeps
  <2> QED BY <2>1, <2>3, <2>4
<1>8. CASE RecordTakenUp(c)
  <2> DEFINE d == takenUp[c].of
  <2>1. /\ call[c] = "TakenUp"
        /\ (\E keeps \in BOOLEAN : Replace(Moves[c], d, keeps)) \/ Inconclusive(d, takenUp[c].state)
    BY <1>8 DEF RecordTakenUp
  <2>2. /\ ~IsBooking(c) /\ d \in Calls \ {Moves[c]} /\ d # NoCall
    BY <2>1, VisitAssumption DEF TakenUpIsThere
  <2>3. d \in TakenUpRows /\ row[d].state # "None"
    BY <2>2 DEF TakenUpIsThere, TakenUpRows
  <2>4. /\ Moves[c] \in Calls /\ row[Moves[c]].state # "None"
        /\ call[Moves[c]] = "Over" \/ Moves[c] \in TakenUpRows
    BY <2>1, <2>2, MovesACall DEF OriginCameAbout
  <2> HIDE DEF d
  <2>5. CASE Inconclusive(d, takenUp[c].state)
    BY <1>2, <2>2, <2>3, <2>5, InconclusiveKeeps
  <2>6. ASSUME NEW keeps \in BOOLEAN, Replace(Moves[c], d, keeps) PROVE VisitInv'
    BY <1>2, <2>2, <2>3, <2>4, <2>6, ReplaceKeeps
  <2> QED BY <2>1, <2>5, <2>6
<1>9. CASE ResolveAttempt(c)
  <2>1. row[c].state = "NeedsReview" /\ call' = call
    BY <1>9 DEF ResolveAttempt
  <2>2. CASE row' = [row EXCEPT ![c].state = "Rejected"] /\ UNCHANGED <<pending, onCalendar>>
    <3>1. Becomes(c, "Rejected")
      BY <2>2, StatusBecomes DEF VisitStates
    <3> QED BY <1>1, <1>2, <2>1, <2>2, <3>1, StatusKeeps DEF VisitStates
  <2>3. c \in onCalendar => call[c] = "Over" \/ c \in TakenUpRows
    BY DEF CallIsCurrent
  <2>4. CASE /\ c \in onCalendar /\ row' = [row EXCEPT ![c].state = "Confirmed"]
             /\ pending' = c /\ UNCHANGED onCalendar
    BY <1>4, <2>1, <2>3, <2>4
  <2>5. ASSUME NEW keeps \in BOOLEAN, Replace(Moves[c], c, keeps), c \in onCalendar, ~IsBooking(c),
               row[Moves[c]].state = "Confirmed"
        PROVE  VisitInv'
    <3>1. Moves[c] \in Calls /\ Moves[c] # c
      BY <2>1, <2>5, MovesACall
    <3>2. call[Moves[c]] = "Over" \/ Moves[c] \in TakenUpRows
      BY <2>5, <3>1 DEF CallIsCurrent, AgendaOK, CallStates
    <3> QED BY <1>2, <2>1, <2>3, <2>5, <3>1, <3>2, ReplaceKeeps
  <2> QED BY <1>9, <2>2, <2>4, <2>5 DEF ResolveAttempt, HandOff
<1> QED BY <1>3, <1>6, <1>7, <1>8, <1>9

LEMMA AgendaStepKeeps ==
    ASSUME VisitInv, NEW c \in Calls, CancelVisit(c) \/ RecordOutcome(c)
    PROVE  VisitInv'
<1>0. row \in [Calls -> [state : VisitStates, advisor : Advisors \cup {NoAdvisor},
                         attending : Advisors \cup {NoAdvisor}, attended : BOOLEAN]]
  BY DEF VisitInv, AgendaOK
<1> USE DEF VisitInv
<1>1. CASE CancelVisit(c)
  <2>1. /\ row' = [row EXCEPT ![c].state = "Cancelled"] /\ row[c].state = "Confirmed"
        /\ onCalendar' \subseteq onCalendar
        /\ UNCHANGED <<rule, owner, applied, kept, takenUp, quoted, shown, past, call, pending>>
    BY <1>1 DEF CancelVisit, crm
  <2>2. Becomes(c, "Cancelled")
    BY <2>1, StatusBecomes DEF VisitStates
  <2>3. \A d \in Calls : pending = d =>
            row[d].state \in {"Confirmed", "Cancelled", "Rescheduled"} \/ d \in TakenUpRows
    BY DEF RowIsAnswerable
  <2>4. call[c] # "Persisted" \/ c \in TakenUpRows
    BY <2>1 DEF CallIsCurrent
  <2> QED BY <2>1, <2>2, <2>3, <2>4, StatusKeeps DEF VisitStates, CallMayEnd
<1>2. CASE RecordOutcome(c)
  <2>1. /\ row' = [row EXCEPT ![c].attended = TRUE] /\ StartOf[c] \in past
        /\ UNCHANGED <<rule, owner, applied, kept, takenUp, quoted, shown, past, call, onCalendar>>
        /\ TakenUpRows' = TakenUpRows
        /\ pending' \in {pending, "None", "Other"}
    BY <1>2 DEF RecordOutcome, SettleFollowUp, HasBegun, TakenUpRows
  <2>2. /\ row' \in [Calls -> [state : VisitStates, advisor : Advisors \cup {NoAdvisor},
                               attending : Advisors \cup {NoAdvisor}, attended : BOOLEAN]]
        /\ \A d \in Calls : /\ row'[d].state = row[d].state /\ row'[d].advisor = row[d].advisor
                            /\ row'[d].attending = row[d].attending
        /\ \A d \in Calls \ {c} : row'[d].attended = row[d].attended
    BY <1>0, <2>1
  <2>3. AgendaOK'
    BY <2>1, <2>2 DEF AgendaOK
  <2>4. \A d \in Calls : CallIsCurrent(d)'
    BY <2>1, <2>2 DEF CallIsCurrent, IsBooking
  <2>5. \A d \in Calls : OriginCameAbout(d)'
    BY <2>1, <2>2, MovesACall DEF OriginCameAbout, IsBooking
  <2>6. \A d \in Calls : RowIsAnswerable(d)'
    BY <2>1, <2>2, VisitAssumption DEF RowIsAnswerable, IsBooking
  <2>7. applied' # NoCall => row'[applied'].state # "None" /\ row'[applied'].advisor = owner'
    BY <2>1, <2>2 DEF AgendaOK
  <2>8. \A d \in Calls : TakenUpIsThere(d)'
    BY <2>1, <2>2 DEF TakenUpIsThere, IsBooking
  <2> QED BY <2>3, <2>4, <2>5, <2>6, <2>7, <2>8
<1> QED BY <1>1, <1>2

LEMMA VisitStepKeeps == VisitInv /\ [VisitNext]_agendaVars => VisitInv'
<1> SUFFICES ASSUME VisitInv, [VisitNext]_agendaVars PROVE VisitInv'
  OBVIOUS
<1>1. CASE GetAvailableSlots
  <2>1. /\ UNCHANGED <<call, kept, row, takenUp, onCalendar, pending, applied, rule, owner, past>>
        /\ Requote(Rule(owner))
    BY <1>1 DEF GetAvailableSlots, crm
  <2>2. AgendaOK' /\ shown \subseteq shown'
    BY <2>1 DEF Requote, VisitInv, AgendaOK
  <2> QED BY <2>1, <2>2, AgendaKept
<1>2. CASE ClosePursuit \/ ScheduleAction
  <2>1. /\ UNCHANGED <<call, kept, row, takenUp, onCalendar, applied, rule, owner, quoted, shown, past>>
        /\ pending' \in {"None", "Other"}
    BY <1>2 DEF ClosePursuit, ScheduleAction
  <2> QED BY <2>1, FollowUpKeeps
<1>3. CASE UNCHANGED agendaVars
  <2>1. /\ UNCHANGED <<call, kept, row, takenUp, onCalendar, pending, applied, owner, shown, past>>
        /\ AgendaOK'
    BY <1>3 DEF agendaVars, VisitInv, AgendaOK
  <2> QED BY <2>1, AgendaKept
<1>4. ASSUME NEW c \in Calls,
             FindSlot(c) \/ BookingStep(c) \/ MoveStep(c) \/ ReviewStep(c) \/ AgendaStep(c)
      PROVE  VisitInv'
  BY <1>4, ChoosingKeeps, PersistKeeps, TakingUpKeeps, OutcomeKeeps, AgendaStepKeeps
  DEF BookingStep, MoveStep, ReviewStep, AgendaStep
<1> QED BY <1>1, <1>2, <1>3, <1>4, WorldKeeps DEF VisitNext, PursuitStep

\* However calls, recovery, resolutions, closings, the team and the clock
\* interleave: whoever a booking made responsible has a visit to show for it,
\* every visit has its people and its time, and what is owed belongs to a
\* visit that came about.
THEOREM VisitsHaveAnswers == VisitSpec => []VisitsAreAnswerable
<1>1. VisitInv => VisitsAreAnswerable
  BY DEF VisitInv, RowIsAnswerable, VisitsAreAnswerable
<1> QED BY <1>1, VisitInitially, VisitStepKeeps, PTL DEF VisitSpec

-----------------------------------------------------------------------------
(***************************************************************************)
(* Property Documents.                                                     *)
(***************************************************************************)

AtWork == {"Found", "Placed", "Numbered", "Colliding"}
HasPlaced == {"Placed", "Numbered", "Colliding"}

VersionIsHeld(k, i) ==
    /\ accepted[k][i] \in artifacts
    /\ stage[accepted[k][i]] \in {"Accepted", "Over"}
    /\ number[accepted[k][i]] = i

UploadIsHeld(u) ==
    /\ stage[u] = "Accepted" =>
           /\ number[u] \in 1..Len(accepted[DocumentKey[u]])
           /\ accepted[DocumentKey[u]][number[u]] = u
    /\ stage[u] \in HasPlaced => u \in artifacts

\* An upload that nobody disturbs has the key to itself: the public file is
\* the newest document until it is replaced, and then what was replaced is.
KeyIsHeld(k) ==
    k \notin disturbed =>
        /\ InProgress(k) = {} => copy[k] = Newest(k)
        /\ \A u \in InProgress(k) :
               /\ InProgress(k) = {u}
               /\ stage[u] = "Found" => copy[k] = Newest(k)
               /\ stage[u] \in HasPlaced => copy[k] = u /\ replaced[u] = Newest(k)

DocumentInv ==
    /\ IngestionTypeOK
    /\ \A k \in DocumentKeys : \A i \in 1..Len(accepted[k]) : VersionIsHeld(k, i)
    /\ \A u \in Uploads : UploadIsHeld(u)
    /\ \A k \in DocumentKeys : KeyIsHeld(k)

LEMMA DocumentsInitially == IngestionInit => DocumentInv
<1> SUFFICES ASSUME IngestionInit PROVE DocumentInv
  OBVIOUS
<1>1. IngestionTypeOK
  BY DEF IngestionInit, IngestionTypeOK
<1>2. \A k \in DocumentKeys : accepted[k] = <<>> /\ copy[k] = NoFile /\ InProgress(k) = {}
  BY DEF IngestionInit, InProgress
<1>3. \A u \in Uploads : UploadIsHeld(u)
  BY DEF IngestionInit, UploadIsHeld, HasPlaced
<1> QED BY <1>1, <1>2, <1>3 DEF DocumentInv, KeyIsHeld, Newest

\* A step of an upload changes its stage, and whether it is at work.
LEMMA OneUploadMoves ==
    ASSUME IngestionTypeOK, NEW u \in Uploads, NEW s, stage' = [stage EXCEPT ![u] = s]
    PROVE  /\ stage'[u] = s /\ \A v \in Uploads \ {u} : stage'[v] = stage[v]
           /\ \A k : k # DocumentKey[u] => InProgress(k)' = InProgress(k)
           /\ InProgress(DocumentKey[u])' =
                  IF s \in AtWork THEN InProgress(DocumentKey[u]) \cup {u}
                  ELSE InProgress(DocumentKey[u]) \ {u}
<1>1. stage'[u] = s /\ \A v \in Uploads \ {u} : stage'[v] = stage[v]
  BY DEF IngestionTypeOK
<1> QED BY <1>1 DEF InProgress, AtWork

\* Keys that the step of an upload is not about.
LEMMA OtherKeysHeld ==
    ASSUME DocumentInv, NEW u \in Uploads, NEW s, stage' = [stage EXCEPT ![u] = s],
           NEW k \in DocumentKeys, k # DocumentKey[u],
           accepted'[k] = accepted[k], copy'[k] = copy[k],
           k \in disturbed => k \in disturbed',
           \A v \in Uploads \ {u} : replaced'[v] = replaced[v]
    PROVE  KeyIsHeld(k)'
<1>1. InProgress(k)' = InProgress(k) /\ \A v \in Uploads \ {u} : stage'[v] = stage[v]
  BY OneUploadMoves DEF DocumentInv
<1>2. \A v \in InProgress(k) : v \in Uploads \ {u}
  BY DEF InProgress
<1>3. KeyIsHeld(k) /\ Newest(k)' = Newest(k)
  BY DEF DocumentInv, Newest
<1> QED BY <1>1, <1>2, <1>3 DEF KeyIsHeld

\* A step that accepts nothing.
LEMMA UploadStepKeeps ==
    ASSUME DocumentInv, NEW u \in Uploads, NEW s, stage' = [stage EXCEPT ![u] = s],
           UNCHANGED accepted, artifacts \subseteq artifacts', IngestionTypeOK',
           \A v \in Uploads \ {u} : number'[v] = number[v] /\ replaced'[v] = replaced[v],
           \/ stage[u] \notin {"Accepted", "Over"} /\ s # "Accepted"
           \/ stage[u] = "Accepted" /\ s = "Over" /\ UNCHANGED number,
           s \in HasPlaced => u \in artifacts',
           \A k \in DocumentKeys \ {DocumentKey[u]} :
               copy'[k] = copy[k] /\ (k \in disturbed => k \in disturbed'),
           KeyIsHeld(DocumentKey[u])'
    PROVE  DocumentInv'
<1>1. stage'[u] = s /\ \A v \in Uploads \ {u} : stage'[v] = stage[v]
  BY OneUploadMoves DEF DocumentInv
<1>2. ASSUME NEW k \in DocumentKeys, NEW i \in 1..Len(accepted'[k]) PROVE VersionIsHeld(k, i)'
  <2>1. VersionIsHeld(k, i) /\ accepted[k][i] \in Uploads
    BY DEF DocumentInv, IngestionTypeOK
  <2> QED BY <1>1, <2>1 DEF VersionIsHeld
<1>3. ASSUME NEW v \in Uploads PROVE UploadIsHeld(v)'
  <2>1. UploadIsHeld(v)
    BY DEF DocumentInv
  <2>2. CASE v = u
    BY <1>1, <2>2, <2>1 DEF UploadIsHeld, HasPlaced
  <2>3. CASE v # u
    BY <1>1, <2>3, <2>1 DEF UploadIsHeld
  <2> QED BY <2>2, <2>3
<1>4. ASSUME NEW k \in DocumentKeys PROVE KeyIsHeld(k)'
  <2>1. CASE k = DocumentKey[u]
    BY <2>1
  <2>2. CASE k # DocumentKey[u]
    BY <2>2, OtherKeysHeld
  <2> QED BY <2>1, <2>2
<1> QED BY <1>2, <1>3, <1>4 DEF DocumentInv

LEMMA CheckKeeps ==
    ASSUME DocumentInv, NEW u \in Uploads, CheckStep(u)
    PROVE  DocumentInv'
<1> DEFINE k == DocumentKey[u]
<1>1. IngestionTypeOK /\ KeyIsHeld(k) /\ k \in DocumentKeys
  BY DEF DocumentInv, DocumentKeys
<1>2. CASE RefuseDocument(u)
  <2>1. /\ stage[u] = "None" /\ stage' = [stage EXCEPT ![u] = "Over"]
        /\ UNCHANGED <<accepted, artifacts, copy, replaced, number, audited, disturbed>>
    BY <1>2 DEF RefuseDocument
  <2>2. IngestionTypeOK'
    BY <1>1, <2>1 DEF IngestionTypeOK
  <2>3. InProgress(k)' = InProgress(k) \ {u} /\ u \notin InProgress(k)
    BY <1>1, <2>1, OneUploadMoves DEF AtWork, InProgress
  <2>4. \A v \in InProgress(k) : stage'[v] = stage[v]
    BY <1>1, <2>1, <2>3 DEF IngestionTypeOK, InProgress
  <2>5. KeyIsHeld(k)'
    BY <1>1, <2>1, <2>3, <2>4 DEF KeyIsHeld, Newest
  <2> QED BY <2>1, <2>2, <2>5, UploadStepKeeps DEF HasPlaced
<1>3. CASE FindProperty(u)
  <2>1. /\ stage[u] = "None" /\ stage' = [stage EXCEPT ![u] = "Found"]
        /\ number' = [number EXCEPT ![u] = IF k \in Inventory THEN 0 ELSE 1]
        /\ disturbed' = IF InProgress(k) # {} THEN disturbed \cup {k} ELSE disturbed
        /\ UNCHANGED <<accepted, artifacts, copy, replaced, audited>>
    BY <1>3 DEF FindProperty
  <2>2. IngestionTypeOK'
    BY <1>1, <2>1 DEF IngestionTypeOK
  <2>3. InProgress(k)' = InProgress(k) \cup {u} /\ stage'[u] = "Found"
    BY <1>1, <2>1, OneUploadMoves DEF AtWork
  <2>4. KeyIsHeld(k)'
    <3>1. CASE InProgress(k) # {}
      BY <2>1, <3>1 DEF KeyIsHeld
    <3>2. CASE InProgress(k) = {}
      BY <1>1, <2>1, <2>3, <3>2 DEF KeyIsHeld, Newest, HasPlaced
    <3> QED BY <3>1, <3>2
  <2>5. \A v \in Uploads \ {u} : number'[v] = number[v]
    BY <1>1, <2>1 DEF IngestionTypeOK
  <2>6. disturbed \subseteq disturbed'
    BY <2>1
  <2> QED BY <2>1, <2>2, <2>4, <2>5, <2>6, UploadStepKeeps DEF HasPlaced
<1> QED BY <1>2, <1>3 DEF CheckStep

LEMMA PreparingKeeps ==
    ASSUME DocumentInv, NEW u \in Uploads, PlaceFiles(u) \/ ReadLatestVersion(u)
    PROVE  DocumentInv'
<1> DEFINE k == DocumentKey[u]
<1>1. /\ IngestionTypeOK /\ KeyIsHeld(k) /\ k \in DocumentKeys /\ UploadIsHeld(u)
      /\ accepted[k] \in Seq(Uploads)
  BY DEF DocumentInv, DocumentKeys, IngestionTypeOK
<1>2. CASE PlaceFiles(u)
  <2>1. PICK s \in {"Numbered", "Placed"} : stage' = [stage EXCEPT ![u] = s]
    BY <1>2 DEF PlaceFiles
  <2>2. /\ stage[u] = "Found" /\ artifacts' = artifacts \cup {u}
        /\ replaced' = [replaced EXCEPT ![u] = copy[k]]
        /\ copy' = [copy EXCEPT ![k] = u]
        /\ UNCHANGED <<accepted, number, audited, disturbed>>
    BY <1>2 DEF PlaceFiles
  <2>3. IngestionTypeOK'
    BY <1>1, <2>1, <2>2 DEF IngestionTypeOK
  <2>4. InProgress(k)' = InProgress(k) \cup {u} /\ u \in InProgress(k)
    BY <1>1, <2>1, <2>2, OneUploadMoves DEF AtWork, InProgress
  <2>5. replaced'[u] = copy[k] /\ copy'[k] = u /\ Newest(k)' = Newest(k) /\ stage'[u] = s
    BY <1>1, <2>1, <2>2 DEF IngestionTypeOK, Newest
  <2>6. KeyIsHeld(k)'
    BY <1>1, <2>2, <2>4, <2>5 DEF KeyIsHeld, HasPlaced
  <2>7. /\ \A v \in Uploads \ {u} : replaced'[v] = replaced[v]
        /\ \A j \in DocumentKeys \ {k} : copy'[j] = copy[j]
    BY <1>1, <2>2 DEF IngestionTypeOK
  <2> QED BY <2>1, <2>2, <2>3, <2>6, <2>7, UploadStepKeeps DEF HasPlaced
<1>3. CASE ReadLatestVersion(u)
  <2>1. /\ stage[u] = "Placed" /\ stage' = [stage EXCEPT ![u] = "Numbered"]
        /\ number' = [number EXCEPT ![u] = Len(accepted[k]) + 1]
        /\ UNCHANGED <<accepted, artifacts, copy, replaced, audited, disturbed>>
    BY <1>3 DEF ReadLatestVersion
  <2>2. IngestionTypeOK'
    BY <1>1, <2>1 DEF IngestionTypeOK
  <2>3. InProgress(k)' = InProgress(k) \cup {u} /\ u \in InProgress(k) /\ stage'[u] = "Numbered"
    BY <1>1, <2>1, OneUploadMoves DEF AtWork, InProgress
  <2>4. KeyIsHeld(k)'
    BY <1>1, <2>1, <2>3 DEF KeyIsHeld, Newest, HasPlaced
  <2>5. (\A v \in Uploads \ {u} : number'[v] = number[v]) /\ u \in artifacts
    BY <1>1, <2>1 DEF IngestionTypeOK, UploadIsHeld, HasPlaced
  <2> QED BY <2>1, <2>2, <2>4, <2>5, UploadStepKeeps DEF HasPlaced
<1> QED BY <1>2, <1>3

LEMMA AcceptKeeps ==
    ASSUME DocumentInv, NEW u \in Uploads, AcceptDocument(u)
    PROVE  DocumentInv'
<1> DEFINE k == DocumentKey[u]
<1>1. /\ IngestionTypeOK /\ KeyIsHeld(k) /\ k \in DocumentKeys /\ UploadIsHeld(u)
      /\ accepted[k] \in Seq(Uploads)
  BY DEF DocumentInv, DocumentKeys, IngestionTypeOK
<1>2. /\ stage[u] = "Numbered" /\ number[u] = Len(accepted[k]) + 1
      /\ accepted' = [accepted EXCEPT ![k] = Append(accepted[k], u)]
      /\ stage' = [stage EXCEPT ![u] = "Accepted"]
      /\ UNCHANGED <<artifacts, copy, replaced, number, audited, disturbed>>
  BY DEF AcceptDocument
<1>3. /\ accepted'[k] = Append(accepted[k], u)
      /\ \A j \in DocumentKeys \ {k} : accepted'[j] = accepted[j]
      /\ Append(accepted[k], u) \in Seq(Uploads)
  BY <1>1, <1>2 DEF IngestionTypeOK
<1>4. /\ Len(accepted'[k]) = Len(accepted[k]) + 1 /\ accepted'[k][Len(accepted[k]) + 1] = u
      /\ \A i \in 1..Len(accepted[k]) : accepted'[k][i] = accepted[k][i]
      /\ Len(accepted[k]) \in Nat /\ accepted'[k] # <<>>
  BY <1>1, <1>3
<1>5. IngestionTypeOK'
  BY <1>1, <1>2, <1>3 DEF IngestionTypeOK
<1>6. stage'[u] = "Accepted" /\ \A v \in Uploads \ {u} : stage'[v] = stage[v]
  BY <1>1, <1>2 DEF IngestionTypeOK
<1>7. ASSUME NEW j \in DocumentKeys, NEW i \in 1..Len(accepted'[j]) PROVE VersionIsHeld(j, i)'
  <2>1. CASE j = k /\ i = Len(accepted[k]) + 1
    BY <1>1, <1>2, <1>4, <1>6, <2>1 DEF VersionIsHeld, UploadIsHeld, HasPlaced
  <2>2. CASE ~(j = k /\ i = Len(accepted[k]) + 1)
    <3>1. i \in 1..Len(accepted[j]) /\ accepted'[j][i] = accepted[j][i]
      BY <1>3, <1>4, <2>2
    <3>2. VersionIsHeld(j, i) /\ accepted[j][i] \in Uploads
      BY <1>1, <3>1 DEF DocumentInv, IngestionTypeOK
    <3> QED BY <1>2, <1>6, <3>1, <3>2 DEF VersionIsHeld
  <2> QED BY <2>1, <2>2
<1>8. ASSUME NEW v \in Uploads PROVE UploadIsHeld(v)'
  <2>1. CASE v = u
    BY <1>2, <1>4, <1>6, <2>1 DEF UploadIsHeld, HasPlaced
  <2>2. CASE v # u
    <3>1. UploadIsHeld(v) /\ DocumentKey[v] \in DocumentKeys /\ stage'[v] = stage[v]
      BY <1>6, <2>2 DEF DocumentInv, DocumentKeys
    <3>2. CASE stage[v] = "Accepted"
      BY <1>2, <1>3, <1>4, <3>1, <3>2 DEF UploadIsHeld, HasPlaced
    <3>3. CASE stage[v] # "Accepted"
      BY <1>2, <3>1, <3>3 DEF UploadIsHeld
    <3> QED BY <3>2, <3>3
  <2> QED BY <2>1, <2>2
<1>9. ASSUME NEW j \in DocumentKeys PROVE KeyIsHeld(j)'
  <2>1. CASE j # k
    BY <1>2, <1>3, <2>1, OtherKeysHeld
  <2>2. CASE j = k
    <3>1. InProgress(k)' = InProgress(k) \ {u} /\ u \in InProgress(k)
      BY <1>1, <1>2, OneUploadMoves DEF AtWork, InProgress
    <3>2. Newest(k)' = u
      BY <1>4 DEF Newest
    <3> QED BY <1>1, <1>2, <2>2, <3>1, <3>2 DEF KeyIsHeld, HasPlaced
  <2> QED BY <2>1, <2>2
<1> QED BY <1>5, <1>7, <1>8, <1>9 DEF DocumentInv

LEMMA FailureKeeps ==
    ASSUME DocumentInv, NEW u \in Uploads, FailureStep(u) \/ AuditUpload(u)
    PROVE  DocumentInv'
<1> DEFINE k == DocumentKey[u]
<1>1. /\ IngestionTypeOK /\ KeyIsHeld(k) /\ k \in DocumentKeys /\ UploadIsHeld(u)
  BY DEF DocumentInv, DocumentKeys
<1>2. CASE Collide(u)
  <2>1. /\ stage[u] = "Numbered" /\ stage' = [stage EXCEPT ![u] = "Colliding"]
        /\ UNCHANGED <<accepted, artifacts, copy, replaced, number, audited, disturbed>>
    BY <1>2 DEF Collide
  <2>2. IngestionTypeOK' /\ u \in artifacts
    BY <1>1, <2>1 DEF IngestionTypeOK, UploadIsHeld, HasPlaced
  <2>3. InProgress(k)' = InProgress(k) \cup {u} /\ u \in InProgress(k) /\ stage'[u] = "Colliding"
    BY <1>1, <2>1, OneUploadMoves DEF AtWork, InProgress
  <2>4. KeyIsHeld(k)'
    BY <1>1, <2>1, <2>3 DEF KeyIsHeld, Newest, HasPlaced
  <2> QED BY <2>1, <2>2, <2>4, UploadStepKeeps DEF HasPlaced
<1>3. CASE RestoreCopy(u)
  <2>1. /\ stage[u] \in HasPlaced /\ stage' = [stage EXCEPT ![u] = "Over"]
        /\ copy' = [copy EXCEPT ![k] = replaced[u]]
        /\ UNCHANGED <<accepted, artifacts, replaced, number, audited, disturbed>>
    BY <1>3 DEF RestoreCopy, HasPlaced
  <2>2. IngestionTypeOK'
    BY <1>1, <2>1 DEF IngestionTypeOK
  <2>3. InProgress(k)' = InProgress(k) \ {u} /\ u \in InProgress(k)
    BY <1>1, <2>1, OneUploadMoves DEF AtWork, InProgress, HasPlaced
  <2>4. copy'[k] = replaced[u] /\ \A j \in DocumentKeys \ {k} : copy'[j] = copy[j]
    BY <1>1, <2>1 DEF IngestionTypeOK
  <2>5. KeyIsHeld(k)'
    BY <1>1, <2>1, <2>3, <2>4 DEF KeyIsHeld, Newest
  <2> QED BY <2>1, <2>2, <2>4, <2>5, UploadStepKeeps DEF HasPlaced
<1>4. CASE AbandonDocument(u)
  <2>1. /\ stage[u] \in AtWork \cup {"Accepted"} /\ stage' = [stage EXCEPT ![u] = "Over"]
        /\ disturbed' = IF stage[u] \in HasPlaced THEN disturbed \cup {k} ELSE disturbed
        /\ UNCHANGED <<accepted, artifacts, copy, replaced, number, audited>>
    BY <1>4 DEF AbandonDocument, AtWork, HasPlaced
  <2>2. IngestionTypeOK'
    BY <1>1, <2>1 DEF IngestionTypeOK
  <2>3. InProgress(k)' = InProgress(k) \ {u}
    BY <1>1, <2>1, OneUploadMoves DEF AtWork
  <2>4. \A v \in InProgress(k)' : stage'[v] = stage[v]
    BY <1>1, <2>1, <2>3 DEF IngestionTypeOK, InProgress
  <2>5. KeyIsHeld(k)'
    <3>1. CASE stage[u] \in HasPlaced
      BY <2>1, <3>1 DEF KeyIsHeld
    <3>2. CASE stage[u] = "Found"
      <4>1. u \in InProgress(k)
        BY <3>2 DEF InProgress
      <4> QED BY <1>1, <2>1, <2>3, <3>2, <4>1 DEF KeyIsHeld, Newest
    <3>3. CASE stage[u] = "Accepted"
      <4>1. InProgress(k)' = InProgress(k)
        BY <2>3, <3>3 DEF InProgress
      <4> QED BY <1>1, <2>1, <2>4, <4>1, <3>3 DEF KeyIsHeld, Newest, HasPlaced
    <3> QED BY <2>1, <3>1, <3>2, <3>3 DEF AtWork, HasPlaced
  <2>6. disturbed \subseteq disturbed'
    BY <2>1
  <2> QED BY <2>1, <2>2, <2>5, <2>6, UploadStepKeeps DEF HasPlaced, AtWork
<1>5. CASE AuditUpload(u)
  <2>1. /\ stage[u] = "Accepted" /\ stage' = [stage EXCEPT ![u] = "Over"]
        /\ audited' = audited \cup {u}
        /\ UNCHANGED <<accepted, artifacts, copy, replaced, number, disturbed>>
    BY <1>5 DEF AuditUpload
  <2>2. IngestionTypeOK'
    BY <1>1, <2>1 DEF IngestionTypeOK
  <2>3. InProgress(k)' = InProgress(k)
    BY <1>1, <2>1, OneUploadMoves DEF AtWork, InProgress
  <2>4. \A v \in InProgress(k)' : stage'[v] = stage[v]
    BY <1>1, <2>1, <2>3 DEF IngestionTypeOK, InProgress
  <2>5. KeyIsHeld(k)'
    BY <1>1, <2>1, <2>3, <2>4 DEF KeyIsHeld, Newest
  <2> QED BY <2>1, <2>2, <2>5, UploadStepKeeps DEF HasPlaced
<1> QED BY <1>2, <1>3, <1>4, <1>5 DEF FailureStep

LEMMA DocumentStep == DocumentInv /\ [IngestionNext]_ingestionVars => DocumentInv'
<1> SUFFICES ASSUME DocumentInv, [IngestionNext]_ingestionVars PROVE DocumentInv'
  OBVIOUS
<1>1. CASE UNCHANGED ingestionVars
  BY <1>1 DEF ingestionVars, DocumentInv, IngestionTypeOK, VersionIsHeld, UploadIsHeld, KeyIsHeld,
              InProgress, Newest
<1>2. ASSUME NEW u \in Uploads,
             CheckStep(u) \/ WriteStep(u) \/ FailureStep(u) \/ AuditUpload(u)
      PROVE  DocumentInv'
  BY <1>2, CheckKeeps, PreparingKeeps, AcceptKeeps, FailureKeeps DEF WriteStep
<1> QED BY <1>1, <1>2 DEF IngestionNext

LEMMA DocumentSafety == DocumentInv => DocumentsAreKept
<1> SUFFICES ASSUME DocumentInv, NEW k \in DocumentKeys
             PROVE  /\ \A i \in DOMAIN accepted[k] :
                           /\ accepted[k][i] \in artifacts
                           /\ stage[accepted[k][i]] \in {"Accepted", "Over"}
                           /\ number[accepted[k][i]] = i
                    /\ \A u \in Uploads : DocumentKey[u] = k /\ stage[u] = "Accepted" =>
                           \E i \in DOMAIN accepted[k] : accepted[k][i] = u
                    /\ k \notin disturbed /\ InProgress(k) = {} => copy[k] = Newest(k)
  BY DEF DocumentsAreKept
<1>1. DOMAIN accepted[k] = 1..Len(accepted[k])
  BY DEF DocumentInv, IngestionTypeOK
<1> QED BY <1>1 DEF DocumentInv, VersionIsHeld, UploadIsHeld, KeyIsHeld

\* However many uploads overlap, fail and die, an accepted document keeps its
\* number and its artifact, and where they follow one another the public copy
\* is the newest accepted one (accept_upload and its compensation).
THEOREM DocumentsStay == IngestionSpec => []DocumentsAreKept
BY DocumentsInitially, DocumentStep, DocumentSafety, PTL DEF IngestionSpec

-----------------------------------------------------------------------------
(***************************************************************************)
(* Reported numbers.                                                       *)
(***************************************************************************)

InProjection == {"Read", "Stored", "Counted"}

\* What a pass has counted is at most what there will be when it commits.
CountIsBounded(p) ==
    /\ fresh[p] \subseteq drawn[p]
    /\ phase[p] = "Idle" => fresh[p] = {}
    /\ phase[p] = "Counted" => \A d \in Touched(p) :
           counts[p][d] \in Nat /\ counts[p][d] <= Cardinality(EventsOf(version[p], d, fresh[p]))

\* A pass that has the tables to itself: what it read of them still holds.
PassIsAlone(p) ==
    /\ \A q \in Passes : phase[p] \in InProjection /\ phase[q] \in InProjection => q = p
    /\ phase[p] = "Counted" =>
           /\ stale[p] = cells
           /\ \A d \in Touched(p) : counts[p][d] = Cardinality(EventsOf(version[p], d, fresh[p]))

CellIsBounded(c) ==
    /\ c.count \in Nat
    /\ c.version \in Definitions
    /\ c.count <= Cardinality(EventsOf(c.version, c.day, {}))

MeasureInv ==
    /\ MeasureTypeOK /\ DOMAIN counts = Passes /\ DOMAIN stale = Passes
    /\ \A c \in cells : CellIsBounded(c)
    /\ \A p \in Passes : CountIsBounded(p)
    /\ ~overlapped => EveryDayAddsUp /\ \A p \in Passes : PassIsAlone(p)

LEMMA MeasureInitially == MeasureInit => MeasureInv
<1> SUFFICES ASSUME MeasureInit PROVE MeasureInv
  OBVIOUS
<1>1. MeasureTypeOK /\ DOMAIN counts = Passes /\ DOMAIN stale = Passes
  <2>1. facts \in 0..MaxFacts /\ version \in [Passes -> Definitions] /\ overlapped \in BOOLEAN
    <3>1. facts = 0 /\ MaxFacts \in Nat
      BY MeasurementAssumption DEF MeasureInit
    <3>2. version \in [Passes -> Definitions] /\ overlapped \in BOOLEAN
      BY MeasurementAssumption DEF MeasureInit
    <3> QED BY <3>1, <3>2
  <2>2. /\ drawn \in [Passes -> SUBSET Facts] /\ fresh \in [Passes -> SUBSET Facts]
        /\ DOMAIN counts = Passes /\ DOMAIN stale = Passes
    BY DEF MeasureInit
  <2>3. /\ outbox \in [Facts -> {"None", "Pending", "Projected"}]
        /\ phase \in [Passes -> {"Idle", "Read", "Stored", "Counted", "Over"}]
        /\ stored \in [Definitions -> SUBSET Facts]
    BY DEF MeasureInit
  <2> QED BY <2>1, <2>2, <2>3 DEF MeasureTypeOK
<1>2. \A p \in Passes : phase[p] = "Idle" /\ fresh[p] = {}
  BY DEF MeasureInit
<1>3. cells = {} /\ \A v \in Definitions : stored[v] = {}
  BY DEF MeasureInit
<1>4. \A p \in Passes : CountIsBounded(p) /\ PassIsAlone(p)
  BY <1>2 DEF CountIsBounded, PassIsAlone, InProjection
<1>5. EveryDayAddsUp
  BY <1>3 DEF EveryDayAddsUp
<1> QED BY <1>1, <1>3, <1>4, <1>5 DEF MeasureInv

\* More events count for as much or more.
LEMMA CountsGrow ==
    ASSUME NEW S, NEW T, S \subseteq T, T \subseteq Facts
    PROVE  Cardinality(S) \in Nat /\ Cardinality(T) \in Nat /\ Cardinality(S) <= Cardinality(T)
<1>1. IsFiniteSet(Facts)
  BY MeasurementAssumption, FS_Interval DEF Facts
<1>2. IsFiniteSet(T)
  BY <1>1, FS_Subset
<1> QED BY <1>2, FS_Subset, FS_CardinalityType

\* A step of a pass that reads, stores, or dies.
LEMMA PassKeeps ==
    ASSUME MeasureInv, NEW p \in Passes, NEW v \in Definitions,
           Drain(p, v) \/ Replay(p, v) \/ StoreEvents(p) \/ CountCells(p) \/ AbandonPass(p)
    PROVE  MeasureInv'
<1>0. \/ \E events : BeginPass(p, v, events)
      \/ StoreEvents(p) \/ CountCells(p) \/ AbandonPass(p)
  BY DEF Drain, Replay
<1>1. MeasureTypeOK /\ CountIsBounded(p) /\ DOMAIN counts = Passes /\ DOMAIN stale = Passes
  BY DEF MeasureInv
<1>2. /\ UNCHANGED <<facts, outbox, stored, cells>>
      /\ overlapped => overlapped'
  <2>1. UNCHANGED <<facts, outbox, stored, cells>>
    BY <1>0 DEF BeginPass, StoreEvents, CountCells, AbandonPass
  <2>2. CASE \E events : BeginPass(p, v, events)
    BY <2>2, Zenon DEF BeginPass
  <2>3. CASE StoreEvents(p) \/ CountCells(p) \/ AbandonPass(p)
    <3>1. overlapped' = overlapped
      BY <2>3 DEF StoreEvents, CountCells, AbandonPass
    <3> QED BY <2>1, <3>1, Zenon
  <2> QED BY <1>0, <2>2, <2>3
<1>3. EveryDayAddsUp' = EveryDayAddsUp /\ \A c \in cells : CellIsBounded(c)' = CellIsBounded(c)
  BY <1>2 DEF EveryDayAddsUp, CellIsBounded, CellsOf, EventsOf
<1>4. \A q \in Passes \ {p} : /\ phase'[q] = phase[q] /\ version'[q] = version[q]
                              /\ drawn'[q] = drawn[q] /\ fresh'[q] = fresh[q]
                              /\ counts'[q] = counts[q] /\ stale'[q] = stale[q]
  BY <1>0, <1>1 DEF MeasureTypeOK, BeginPass, StoreEvents, CountCells, AbandonPass
<1>5. ASSUME NEW q \in Passes \ {p} PROVE CountIsBounded(q)'
  <2>1. CountIsBounded(q)
    BY DEF MeasureInv
  <2> QED BY <1>2, <1>4, <2>1 DEF CountIsBounded, Touched, EventsOf
<1>6. ASSUME MeasureTypeOK', CountIsBounded(p)',
             ~overlapped' => \A q \in Passes : PassIsAlone(q)'
      PROVE  MeasureInv'
  <2>1. DOMAIN counts' = Passes /\ DOMAIN stale' = Passes
    BY <1>0, <1>1 DEF BeginPass, StoreEvents, CountCells, AbandonPass
  <2> QED BY <1>2, <1>3, <1>5, <1>6, <2>1 DEF MeasureInv
<1>7. ASSUME phase[p] \in InProjection, ~overlapped', PassIsAlone(p)' PROVE \A q \in Passes : PassIsAlone(q)'
  <2>1. \A q \in Passes : PassIsAlone(q)
    BY <1>2, <1>7 DEF MeasureInv
  <2>2. \A q \in Passes \ {p} : phase[q] \notin InProjection
    BY <1>7, <2>1 DEF PassIsAlone
  <2>3. \A q \in Passes \ {p} : phase'[q] \notin InProjection
    BY <1>4, <2>2
  <2> QED BY <1>7, <2>3 DEF PassIsAlone, InProjection
<1>8. ASSUME NEW events \in SUBSET Facts, BeginPass(p, v, events) PROVE MeasureInv'
  <2>1. /\ phase[p] = "Idle" /\ phase' = [phase EXCEPT ![p] = "Read"]
        /\ version' = [version EXCEPT ![p] = v] /\ drawn' = [drawn EXCEPT ![p] = events]
        /\ overlapped' = (overlapped \/ \E q \in Passes : phase[q] \in InProjection)
        /\ UNCHANGED <<fresh, counts, stale>>
    BY <1>8 DEF BeginPass, InProjection
  <2>2. MeasureTypeOK'
    BY <1>1, <1>2, <2>1 DEF MeasureTypeOK
  <2>3. phase'[p] = "Read" /\ drawn'[p] = events
    BY <1>1, <2>1 DEF MeasureTypeOK
  <2>4. \A q \in Passes : ~overlapped' => PassIsAlone(q)'
    <3> SUFFICES ASSUME NEW q \in Passes, ~overlapped' PROVE PassIsAlone(q)'
      OBVIOUS
    <3>1. \A r \in Passes : phase[r] \notin InProjection
      BY <2>1
    <3>2. \A r \in Passes \ {p} : phase'[r] \notin InProjection
      BY <1>4, <3>1
    <3> QED BY <2>3, <3>2 DEF PassIsAlone, InProjection
  <2>5. fresh[p] = {}
    BY <1>1, <2>1 DEF CountIsBounded
  <2> QED BY <1>6, <2>2, <2>3, <2>4, <2>5, <2>1 DEF CountIsBounded
<1>9. CASE Drain(p, v)
  <2>1. Undrained \in SUBSET Facts
    BY DEF Undrained
  <2> QED BY <1>8, <1>9, <2>1 DEF Drain
<1>10. CASE Replay(p, v)
  <2>1. First(BatchSize, Emitted) \in SUBSET Facts
    BY DEF First, Emitted
  <2> QED BY <1>8, <1>10, <2>1 DEF Replay
<1>11. CASE StoreEvents(p)
  <2>1. /\ phase[p] = "Read" /\ phase' = [phase EXCEPT ![p] = "Stored"]
        /\ fresh' = [fresh EXCEPT ![p] = drawn[p] \ stored[version[p]]]
        /\ UNCHANGED <<version, drawn, counts, stale, overlapped>>
    BY <1>11 DEF StoreEvents
  <2>2. MeasureTypeOK'
    BY <1>1, <1>2, <2>1 DEF MeasureTypeOK
  <2>3. phase'[p] = "Stored" /\ fresh'[p] \subseteq drawn'[p]
    BY <1>1, <2>1 DEF MeasureTypeOK
  <2>4. CountIsBounded(p)'
    BY <2>3 DEF CountIsBounded
  <2>5. ~overlapped' => PassIsAlone(p)'
    BY <1>4, <2>1, <2>3 DEF MeasureInv, PassIsAlone, InProjection
  <2> QED BY <1>6, <1>7, <2>1, <2>2, <2>4, <2>5 DEF InProjection
<1>12. CASE CountCells(p)
  <2>1. /\ phase[p] = "Stored" /\ phase' = [phase EXCEPT ![p] = "Counted"]
        /\ counts' = [counts EXCEPT ![p] = [d \in Touched(p) |-> Counted(p, d)]]
        /\ stale' = [stale EXCEPT ![p] = cells]
        /\ UNCHANGED <<version, drawn, fresh, overlapped>>
    BY <1>12 DEF CountCells
  <2>2. MeasureTypeOK'
    BY <1>1, <1>2, <2>1 DEF MeasureTypeOK
  <2>3. phase'[p] = "Counted"
    BY <1>1, <2>1 DEF MeasureTypeOK
  <2>4. DOMAIN counts = Passes /\ DOMAIN stale = Passes
    BY DEF MeasureInv
  <2>5. /\ stale'[p] = cells
        /\ \A d \in Touched(p) : counts'[p][d] = Cardinality(EventsOf(version[p], d, fresh[p]))
    BY <2>1, <2>4 DEF Counted
  <2>6. \A d \in Touched(p) : Cardinality(EventsOf(version[p], d, fresh[p])) \in Nat
    <3> SUFFICES ASSUME NEW d \in Touched(p)
                 PROVE  Cardinality(EventsOf(version[p], d, fresh[p])) \in Nat
      OBVIOUS
    <3>1. EventsOf(version[p], d, fresh[p]) \subseteq Facts
      BY <1>1 DEF EventsOf, MeasureTypeOK
    <3> QED BY <3>1, CountsGrow
  <2>7. /\ Touched(p)' = Touched(p)
        /\ \A d : EventsOf(version[p], d, fresh[p])' = EventsOf(version[p], d, fresh[p])
    BY <1>2, <2>1 DEF Touched, EventsOf
  <2>8. CountIsBounded(p)'
    BY <1>1, <2>1, <2>5, <2>6, <2>7 DEF CountIsBounded
  <2>9. ~overlapped' => PassIsAlone(p)'
    BY <1>2, <1>4, <2>1, <2>3, <2>5, <2>7 DEF MeasureInv, PassIsAlone, InProjection
  <2> QED BY <1>6, <1>7, <2>1, <2>2, <2>8, <2>9 DEF InProjection
<1>13. CASE AbandonPass(p)
  <2>1. /\ phase[p] \in InProjection /\ phase' = [phase EXCEPT ![p] = "Over"]
        /\ fresh' = [fresh EXCEPT ![p] = {}] /\ drawn' = [drawn EXCEPT ![p] = {}]
        /\ UNCHANGED <<version, overlapped>>
    BY <1>13 DEF AbandonPass, InProjection
  <2>2. MeasureTypeOK'
    BY <1>1, <1>2, <2>1 DEF MeasureTypeOK
  <2>3. phase'[p] = "Over" /\ fresh'[p] = {}
    BY <1>1, <2>1 DEF MeasureTypeOK
  <2>4. CountIsBounded(p)' /\ PassIsAlone(p)'
    BY <2>3 DEF CountIsBounded, PassIsAlone, InProjection
  <2> QED BY <1>6, <1>7, <2>1, <2>2, <2>4
<1> QED BY <1>9, <1>10, <1>11, <1>12, <1>13

LEMMA CommitKeeps ==
    ASSUME MeasureInv, NEW p \in Passes, NEW v \in Definitions, version[p] = v, CommitPass(p)
    PROVE  MeasureInv'
<1> DEFINE new == {[version |-> v, day |-> d, pass |-> p, count |-> counts[p][d]] : d \in Touched(p)}
<1>1. MeasureTypeOK /\ CountIsBounded(p)
  BY DEF MeasureInv
<1>2. /\ phase[p] = "Counted" /\ phase' = [phase EXCEPT ![p] = "Over"]
      /\ stored' = [stored EXCEPT ![v] = stored[v] \cup fresh[p]]
      /\ outbox' = [e \in Facts |-> IF e \in drawn[p] THEN "Projected" ELSE outbox[e]]
      /\ drawn' = [drawn EXCEPT ![p] = {}] /\ fresh' = [fresh EXCEPT ![p] = {}]
      /\ counts' = [counts EXCEPT ![p] = <<>>] /\ stale' = [stale EXCEPT ![p] = {}]
      /\ UNCHANGED <<facts, version, overlapped>>
  BY DEF CommitPass
<1>3. PICK seen \in {stale[p], cells} :
          cells' = {c \in cells : c \notin seen \/ c.version # v \/ c.day \notin Touched(p)} \cup new
  BY DEF CommitPass
<1>4. /\ stored'[v] = stored[v] \cup fresh[p]
      /\ \A w \in Definitions \ {v} : stored'[w] = stored[w]
      /\ \A w \in Definitions : stored[w] \subseteq stored'[w] /\ stored'[w] \subseteq Facts
  BY <1>1, <1>2 DEF MeasureTypeOK
<1>5. MeasureTypeOK'
  BY <1>1, <1>2 DEF MeasureTypeOK
<1>6. \A d : EventsOf(v, d, {})' = EventsOf(v, d, fresh[p])
  BY <1>4 DEF EventsOf
<1>7. ASSUME NEW c \in cells' PROVE CellIsBounded(c)'
  <2>1. CASE c \in cells
    <3>1. CellIsBounded(c) /\ c.version \in Definitions
      BY <2>1 DEF MeasureInv, CellIsBounded
    <3>2. /\ EventsOf(c.version, c.day, {}) \subseteq EventsOf(c.version, c.day, {})'
          /\ EventsOf(c.version, c.day, {})' \subseteq Facts
      BY <1>4, <3>1 DEF EventsOf
    <3>3. /\ Cardinality(EventsOf(c.version, c.day, {})) \in Nat
          /\ Cardinality(EventsOf(c.version, c.day, {})') \in Nat
          /\ Cardinality(EventsOf(c.version, c.day, {})) <= Cardinality(EventsOf(c.version, c.day, {})')
      BY <3>2, CountsGrow
    <3> QED BY <3>1, <3>3 DEF CellIsBounded
  <2>2. CASE c \in new
    <3>1. PICK d \in Touched(p) :
              c = [version |-> v, day |-> d, pass |-> p, count |-> counts[p][d]]
      BY <2>2
    <3>2. counts[p][d] \in Nat /\ counts[p][d] <= Cardinality(EventsOf(v, d, fresh[p]))
      BY <1>1, <1>2 DEF CountIsBounded
    <3>3. c.version = v /\ c.day = d /\ c.count = counts[p][d]
      BY <3>1
    <3> QED BY <1>1, <1>6, <3>2, <3>3 DEF CellIsBounded
  <2> QED BY <1>3, <2>1, <2>2
<1>8. ASSUME NEW q \in Passes PROVE CountIsBounded(q)'
  <2>1. CASE q = p
    <3>1. phase'[p] = "Over" /\ fresh'[p] = {}
      BY <1>1, <1>2 DEF MeasureTypeOK
    <3> QED BY <2>1, <3>1 DEF CountIsBounded
  <2>2. CASE q # p
    <3>1. /\ phase'[q] = phase[q] /\ drawn'[q] = drawn[q] /\ fresh'[q] = fresh[q]
          /\ counts'[q] = counts[q] /\ version'[q] = version[q]
      BY <1>1, <1>2, <2>2 DEF MeasureTypeOK
    <3>2. CountIsBounded(q) /\ version[q] \in Definitions /\ Touched(q)' = Touched(q)
      BY <1>1, <3>1 DEF MeasureInv, MeasureTypeOK, Touched
    <3>3. ASSUME phase[q] = "Counted", NEW d \in Touched(q)
          PROVE  counts[q][d] \in Nat
                 /\ counts[q][d] <= Cardinality(EventsOf(version[q], d, fresh[q])')
      <4>1. counts[q][d] \in Nat /\ counts[q][d] <= Cardinality(EventsOf(version[q], d, fresh[q]))
        BY <3>2, <3>3 DEF CountIsBounded
      <4>2. /\ EventsOf(version[q], d, fresh[q]) \subseteq EventsOf(version[q], d, fresh[q])'
            /\ EventsOf(version[q], d, fresh[q])' \subseteq Facts
        BY <1>1, <1>4, <3>1, <3>2 DEF EventsOf, MeasureTypeOK
      <4>3. /\ Cardinality(EventsOf(version[q], d, fresh[q])) \in Nat
            /\ Cardinality(EventsOf(version[q], d, fresh[q])') \in Nat
            /\ Cardinality(EventsOf(version[q], d, fresh[q]))
                   <= Cardinality(EventsOf(version[q], d, fresh[q])')
        BY <4>2, CountsGrow
      <4> QED BY <4>1, <4>3
    <3> QED BY <3>1, <3>2, <3>3 DEF CountIsBounded
  <2> QED BY <2>1, <2>2
<1>9. ASSUME ~overlapped' PROVE EveryDayAddsUp' /\ \A q \in Passes : PassIsAlone(q)'
  <2>1. EveryDayAddsUp /\ \A q \in Passes : PassIsAlone(q)
    BY <1>2, <1>9 DEF MeasureInv
  <2>2. /\ stale[p] = cells
        /\ \A d \in Touched(p) : counts[p][d] = Cardinality(EventsOf(v, d, fresh[p]))
    BY <1>2, <2>1 DEF PassIsAlone
  <2>3. cells' = {c \in cells : c.version # v \/ c.day \notin Touched(p)} \cup new
    BY <1>3, <2>2
  <2>4. \A c \in new : c.version = v /\ c.day \in Touched(p) /\ c.count = counts[p][c.day]
    OBVIOUS
  <2>5. ASSUME NEW w \in Definitions, NEW e \in stored'[w]
        PROVE  {c.count : c \in CellsOf(w, DayOf[e])'} = {Cardinality(EventsOf(w, DayOf[e], {})')}
    <3> DEFINE d == DayOf[e]
    <3>1. CASE w # v
      <4>1. CellsOf(w, d)' = CellsOf(w, d) /\ EventsOf(w, d, {})' = EventsOf(w, d, {}) /\ e \in stored[w]
        BY <1>4, <2>3, <2>4, <3>1 DEF CellsOf, EventsOf
      <4> QED BY <2>1, <4>1 DEF EveryDayAddsUp
    <3>2. CASE w = v /\ d \in Touched(p)
      <4>1. /\ [version |-> v, day |-> d, pass |-> p, count |-> counts[p][d]] \in CellsOf(v, d)'
            /\ \A c \in CellsOf(v, d)' : c.count = counts[p][d]
        BY <2>3, <2>4, <3>2 DEF CellsOf
      <4>2. {c.count : c \in CellsOf(v, d)'} = {counts[p][d]}
        BY <4>1
      <4> QED BY <1>6, <2>2, <3>2, <4>2
    <3>3. CASE w = v /\ d \notin Touched(p)
      <4>1. \A f \in fresh[p] : DayOf[f] \in Touched(p)
        BY <1>1 DEF CountIsBounded, Touched
      <4>2. CellsOf(v, d)' = CellsOf(v, d) /\ EventsOf(v, d, {})' = EventsOf(v, d, {})
        BY <1>4, <2>3, <2>4, <3>3, <4>1 DEF CellsOf, EventsOf
      <4>3. e \in stored[v]
        BY <1>4, <3>3, <4>1
      <4> QED BY <2>1, <1>1, <3>3, <4>2, <4>3 DEF EveryDayAddsUp
    <3> QED BY <3>1, <3>2, <3>3
  <2>6. \A q \in Passes : phase'[q] \notin InProjection
    BY <1>1, <1>2, <2>1 DEF MeasureTypeOK, PassIsAlone, InProjection
  <2>7. EveryDayAddsUp'
    BY <2>5 DEF EveryDayAddsUp
  <2>8. \A q \in Passes : PassIsAlone(q)'
    BY <2>6 DEF PassIsAlone, InProjection
  <2> QED BY <2>7, <2>8
<1>10. DOMAIN counts' = Passes /\ DOMAIN stale' = Passes
  BY <1>2 DEF MeasureInv
<1> QED BY <1>5, <1>7, <1>8, <1>9, <1>10 DEF MeasureInv

LEMMA MeasureStep == MeasureInv /\ [MeasureNext]_measureVars => MeasureInv'
<1> SUFFICES ASSUME MeasureInv, [MeasureNext]_measureVars PROVE MeasureInv'
  OBVIOUS
<1>1. MeasureTypeOK
  BY DEF MeasureInv
<1>2. ASSUME UNCHANGED <<phase, version, drawn, fresh, counts, stale, stored, cells, overlapped>>,
             MeasureTypeOK'
      PROVE  MeasureInv'
  BY <1>2 DEF MeasureInv, CellIsBounded, CountIsBounded, PassIsAlone, EveryDayAddsUp, CellsOf,
              EventsOf, Touched
<1>3. CASE UNCHANGED measureVars
  <2>1. MeasureTypeOK'
    BY <1>1, <1>3 DEF measureVars, MeasureTypeOK
  <2> QED BY <1>2, <1>3, <2>1 DEF measureVars
<1>4. CASE RecordFact
  <2>1. MeasureTypeOK'
    BY <1>1, <1>4, MeasurementAssumption DEF RecordFact, MeasureTypeOK, passVars
  <2> QED BY <1>2, <1>4, <2>1 DEF RecordFact, passVars
<1>5. CASE EmitOperational
  <2>1. MeasureTypeOK'
    BY <1>1, <1>5 DEF EmitOperational, MeasureTypeOK, passVars
  <2> QED BY <1>2, <1>5, <2>1 DEF EmitOperational, passVars
<1>6. ASSUME NEW p \in Passes, ProjectionStep(p) PROVE MeasureInv'
  <2>1. CASE CommitPass(p)
    <3>1. version[p] \in Definitions
      BY <1>1 DEF MeasureTypeOK
    <3> QED BY <2>1, <3>1, CommitKeeps
  <2>2. CASE ~CommitPass(p)
    BY <1>6, <2>2, PassKeeps, MeasurementAssumption DEF ProjectionStep
  <2> QED BY <2>1, <2>2
<1> QED BY <1>3, <1>4, <1>5, <1>6 DEF MeasureNext

\* However many passes overlap, repeat one another or die, no cell counts an
\* event twice, and where they follow one another every day has one number,
\* of all its events (refresh and its delete-then-insert of the cells).
THEOREM NumbersAreRecomputed == MeasureSpec => []CellsAreRecomputed
<1>1. MeasureInv => CellsAreRecomputed
  BY DEF MeasureInv, CellIsBounded, CellsAreRecomputed
<1> QED BY <1>1, MeasureInitially, MeasureStep, PTL DEF MeasureSpec

-----------------------------------------------------------------------------
(***************************************************************************)
(* The Contact and what is known of them.                                  *)
(***************************************************************************)

CriterionRows ==
    [value : {ValueOf[t] : t \in Statements} \cup {NoValue},
     state : {"None", "Pending", "Confirmed"},
     source : {"None", "ContactStated", "ModelInferred", "AdvisorRecorded"},
     evidence : Messages \cup {NoValue}]
CriterionEntries == [row : CriterionRows, by : Statements, day : 0..MaxDay]

KnownOK ==
    /\ day \in 0..MaxDay /\ bound \in BOOLEAN
    /\ heardOn \in [Messages -> 0..MaxDay] /\ expiredOn \in [Messages -> 0..MaxDay]
    /\ criteria \in [CriterionNames -> Seq(CriterionEntries)]
    /\ need \in NeedTypes
    /\ step \in [Statements -> {"None", "Loaded", "Over"}]
    /\ loaded \in [Statements -> [day : 0..MaxDay, seen : Nat, need : NeedTypes,
                                  saying : CriterionRows]]
    /\ \A m \in Messages : heardOn[m] <= day

\* The message had arrived on the day and its body had not expired before.
WasReadable(m, d) == heardOn[m] \in 1..d /\ expiredOn[m] \notin 1..(d - 1)

WasPending(n, value, last) ==
    \E j \in 1..last : criteria[n][j].row.state = "Pending" /\ criteria[n][j].row.value = value

\* What makes "said", recorded by t on day d after the first "last" rows, Confirmed.
Founded(t, said, d, last) ==
    said.state = "Confirmed" =>
        /\ KindOf[t] # "Inferred"
        /\ KindOf[t] = "Recorded" => said.value = ValueOf[t]
        /\ KindOf[t] = "Claimed" => WasReadable(ExcerptOf[t], d)
        /\ KindOf[t] = "Confirm" => WasPending(NameOf[t], said.value, last)

EntryIsFounded(n, i) ==
    LET c == criteria[n][i] IN
    NameOf[c.by] = n /\ c.day <= day /\ Founded(c.by, c.row, c.day, i - 1)

StatementIsFounded(t) ==
    step[t] = "Loaded" =>
        /\ loaded[t].day <= day /\ loaded[t].seen <= Len(criteria[NameOf[t]])
        /\ \A i \in 1..loaded[t].seen : criteria[NameOf[t]][i].day <= loaded[t].day
        /\ Founded(t, loaded[t].saying, loaded[t].day, Len(criteria[NameOf[t]]))

ConfirmationIsFounded ==
    need.confirmedOn > 0 =>
        \E n \in CriterionNames : \E i \in 1..Len(criteria[n]) :
            criteria[n][i].row.state = "Confirmed" /\ criteria[n][i].day <= need.confirmedOn

IntentIsFounded ==
    need.intent # NoValue =>
        /\ IntentName \in CriterionNames
        /\ \E i \in 1..Len(criteria[IntentName]) :
              /\ criteria[IntentName][i].row.state = "Confirmed"
              /\ criteria[IntentName][i].row.value = need.intent

KnownInv ==
    /\ KnownOK
    /\ \A n \in CriterionNames : \A i \in 1..Len(criteria[n]) : EntryIsFounded(n, i)
    /\ \A t \in Statements : StatementIsFounded(t)
    /\ ConfirmationIsFounded
    /\ IntentIsFounded
    /\ bound => Readable # {}

LEMMA KnownInitially == NeedsInit => KnownInv
<1> SUFFICES ASSUME NeedsInit PROVE KnownInv
  OBVIOUS
<1>1. NoLoad.need \in NeedTypes /\ NoLoad.need.confirmedOn = 0 /\ NoLoad.need.intent = NoValue
  BY NeedsAssumption DEF NoLoad, NeedTypes
<1>2. NoLoad \in [day : 0..MaxDay, seen : Nat, need : NeedTypes, saying : CriterionRows]
  BY <1>1, NeedsAssumption DEF NoLoad, NoRow, Row, CriterionRows
<1>3. /\ day \in 0..MaxDay /\ bound = FALSE /\ need = NoLoad.need
      /\ heardOn \in [Messages -> 0..MaxDay] /\ expiredOn \in [Messages -> 0..MaxDay]
      /\ \A m \in Messages : heardOn[m] <= day
  BY NeedsAssumption DEF NeedsInit
<1>4. /\ criteria \in [CriterionNames -> Seq(CriterionEntries)]
      /\ \A n \in CriterionNames : criteria[n] = <<>>
      /\ step \in [Statements -> {"None", "Loaded", "Over"}]
      /\ \A t \in Statements : step[t] = "None"
  BY DEF NeedsInit
<1>5. KnownOK
  BY <1>1, <1>2, <1>3, <1>4 DEF KnownOK, NeedsInit
<1>6. \A n \in CriterionNames : 1..Len(criteria[n]) = {}
  BY <1>4
<1>7. \A t \in Statements : StatementIsFounded(t)
  BY <1>4 DEF StatementIsFounded
<1>8. ConfirmationIsFounded /\ IntentIsFounded
  BY <1>1, <1>3 DEF ConfirmationIsFounded, IntentIsFounded
<1> QED BY <1>3, <1>5, <1>6, <1>7, <1>8 DEF KnownInv

\* Messages arrive and expire, and days pass: what had been read that day had.
LEMMA ReadableStays ==
    ASSUME KnownOK, NEW m \in Messages, NEW d \in 0..MaxDay, d <= day, WasReadable(m, d),
           heardOn[m] = 0 \/ heardOn'[m] = heardOn[m],
           expiredOn'[m] = expiredOn[m] \/ expiredOn'[m] = day
    PROVE  WasReadable(m, d)'
BY NeedsAssumption DEF KnownOK, WasReadable

LEMMA TalkKeeps ==
    ASSUME KnownInv, UNCHANGED <<criteria, step, loaded>>,
           need' = need \/ need' = [need EXCEPT !.status = "Stale"],
           day <= day', KnownOK',
           \A m \in Messages : /\ heardOn[m] = 0 \/ heardOn'[m] = heardOn[m]
                               /\ expiredOn'[m] = expiredOn[m] \/ expiredOn'[m] = day,
           bound' => (Readable # {})'
    PROVE  KnownInv'
<1>1. KnownOK
  BY DEF KnownInv
<1>2. ASSUME NEW t \in Statements, NEW said, NEW d \in 0..MaxDay, d <= day, NEW last,
             Founded(t, said, d, last)
      PROVE  Founded(t, said, d, last)'
  <2>1. ExcerptOf[t] \in Messages
    BY NeedsAssumption
  <2>2. WasReadable(ExcerptOf[t], d) => WasReadable(ExcerptOf[t], d)'
    BY <1>1, <1>2, <2>1, ReadableStays
  <2>3. WasPending(NameOf[t], said.value, last)' = WasPending(NameOf[t], said.value, last)
    BY DEF WasPending
  <2> QED BY <1>2, <2>2, <2>3 DEF Founded
<1>3. ASSUME NEW n \in CriterionNames, NEW i \in 1..Len(criteria[n]) PROVE EntryIsFounded(n, i)'
  <2>1. EntryIsFounded(n, i) /\ criteria[n][i] \in CriterionEntries
    BY <1>1 DEF KnownInv, KnownOK
  <2>2. criteria[n][i].by \in Statements /\ criteria[n][i].day \in 0..MaxDay
    BY <2>1 DEF CriterionEntries
  <2>3. criteria[n][i].day <= day
    BY <2>1 DEF EntryIsFounded
  <2>4. Founded(criteria[n][i].by, criteria[n][i].row, criteria[n][i].day, i - 1)'
    BY <1>2, <2>1, <2>2, <2>3 DEF EntryIsFounded
  <2>5. criteria[n][i].day <= day'
    BY <1>1, <2>2, <2>3, NeedsAssumption DEF KnownOK
  <2> QED BY <2>1, <2>4, <2>5 DEF EntryIsFounded
<1>4. ASSUME NEW t \in Statements PROVE StatementIsFounded(t)'
  <2> SUFFICES ASSUME step[t] = "Loaded" PROVE StatementIsFounded(t)'
    BY DEF StatementIsFounded
  <2>1. StatementIsFounded(t) /\ loaded[t].day \in 0..MaxDay
    BY <1>1 DEF KnownInv, KnownOK
  <2>2. loaded[t].day <= day
    BY <2>1 DEF StatementIsFounded
  <2>3. Founded(t, loaded[t].saying, loaded[t].day, Len(criteria[NameOf[t]]))'
    BY <1>2, <2>1, <2>2 DEF StatementIsFounded
  <2>4. loaded[t].day <= day'
    BY <1>1, <2>1, <2>2, NeedsAssumption DEF KnownOK
  <2> QED BY <2>1, <2>3, <2>4 DEF StatementIsFounded
<1>5. need'.confirmedOn = need.confirmedOn /\ need'.intent = need.intent
  BY <1>1 DEF KnownOK, NeedTypes
<1>6. ConfirmationIsFounded' /\ IntentIsFounded'
  BY <1>5 DEF KnownInv, ConfirmationIsFounded, IntentIsFounded
<1> QED BY <1>3, <1>4, <1>6 DEF KnownInv

LEMMA ConversationKeeps ==
    ASSUME KnownInv, TalkStep \/ UpkeepPass \/ NewDay
    PROVE  KnownInv'
<1>1. KnownOK /\ (bound => Readable # {})
  BY DEF KnownInv
<1>2. ASSUME NEW m \in Messages, HearMessage(m) PROVE KnownInv'
  <2>1. /\ heardOn[m] = 0 /\ heardOn' = [heardOn EXCEPT ![m] = day]
        /\ UNCHANGED <<day, expiredOn, bound, criteria, need, step, loaded>>
    BY <1>2 DEF HearMessage
  <2>2. KnownOK'
    BY <1>1, <2>1 DEF KnownOK
  <2>3. \A k \in Messages : heardOn[k] = 0 \/ heardOn'[k] = heardOn[k]
    BY <1>1, <2>1 DEF KnownOK
  <2>4. Readable \subseteq Readable'
    BY <1>1, <2>1, <2>3 DEF KnownOK, Readable
  <2> QED BY <1>1, <2>1, <2>2, <2>3, <2>4, TalkKeeps DEF KnownOK
<1>3. CASE Answer \/ FindInactive
  <2>1. /\ UNCHANGED <<day, heardOn, expiredOn, criteria, need, step, loaded>>
        /\ bound' = bound \/ (bound' = TRUE /\ Readable # {})
    BY <1>3 DEF Answer, FindInactive
  <2>2. KnownOK'
    BY <1>1, <2>1 DEF KnownOK
  <2>3. Readable' = Readable
    BY <2>1 DEF Readable
  <2>4. bound' => (Readable # {})'
    BY <1>1, <2>1, <2>3
  <2> QED BY <1>1, <2>1, <2>2, <2>4, TalkKeeps DEF KnownOK
<1>4. CASE ExpireContent
  <2>1. /\ expiredOn' = [m \in Messages |-> IF m \in Readable THEN day ELSE expiredOn[m]]
        /\ bound' = FALSE
        /\ UNCHANGED <<day, heardOn, criteria, need, step, loaded>>
    BY <1>4 DEF ExpireContent
  <2>2. KnownOK'
    BY <1>1, <2>1 DEF KnownOK
  <2>3. \A m \in Messages : expiredOn'[m] = expiredOn[m] \/ expiredOn'[m] = day
    BY <2>1
  <2> QED BY <1>1, <2>1, <2>2, <2>3, TalkKeeps DEF KnownOK
<1>5. CASE MarkStale
  <2>1. /\ need' = [need EXCEPT !.status = "Stale"]
        /\ UNCHANGED <<day, heardOn, expiredOn, bound, criteria, step, loaded>>
    BY <1>5 DEF MarkStale
  <2>2. KnownOK'
    BY <1>1, <2>1 DEF KnownOK, NeedTypes
  <2>3. Readable' = Readable
    BY <2>1 DEF Readable
  <2> QED BY <1>1, <2>1, <2>2, <2>3, TalkKeeps DEF KnownOK
<1>6. CASE NewDay
  <2>1. /\ day < MaxDay /\ day' = day + 1
        /\ UNCHANGED <<heardOn, expiredOn, bound, criteria, need, step, loaded>>
    BY <1>6 DEF NewDay
  <2>2. KnownOK' /\ day <= day'
    BY <1>1, <2>1, NeedsAssumption DEF KnownOK
  <2>3. Readable' = Readable
    BY <2>1 DEF Readable
  <2> QED BY <1>1, <2>1, <2>2, <2>3, TalkKeeps
<1> QED BY <1>2, <1>3, <1>4, <1>5, <1>6 DEF TalkStep, UpkeepPass

LEMMA LatestIsARow ==
    ASSUME KnownOK, NEW n \in CriterionNames
    PROVE  /\ LatestRow(n) \in CriterionRows
           /\ LatestRow(n).state = "Pending" =>
                  WasPending(n, LatestRow(n).value, Len(criteria[n]))
<1>1. criteria[n] \in Seq(CriterionEntries)
  BY DEF KnownOK
<1>2. CASE Len(criteria[n]) = 0
  BY <1>2 DEF LatestRow, RowAt, NoRow, Row, CriterionRows
<1>3. CASE Len(criteria[n]) # 0
  <2>1. Len(criteria[n]) \in 1..Len(criteria[n])
    BY <1>1, <1>3
  <2>2. criteria[n][Len(criteria[n])] \in CriterionEntries
    BY <1>1, <2>1
  <2>3. LatestRow(n) = criteria[n][Len(criteria[n])].row
    BY <1>3 DEF LatestRow, RowAt
  <2> QED BY <2>1, <2>2, <2>3 DEF CriterionEntries, WasPending
<1> QED BY <1>2, <1>3

\* What somebody is about to say is founded when they read.
LEMMA SayingIsFounded ==
    ASSUME KnownOK, NEW t \in Statements,
           KindOf[t] = "Confirm" => LatestRow(NameOf[t]).state = "Pending"
    PROVE  /\ Saying(t) \in CriterionRows
           /\ Founded(t, Saying(t), day, Len(criteria[NameOf[t]]))
<1>1. NameOf[t] \in CriterionNames
  BY DEF CriterionNames
<1>2. ExcerptOf[t] \in Messages /\ KindOf[t] \in {"Claimed", "Inferred", "Recorded", "Confirm"}
  BY NeedsAssumption
<1>3. LatestRow(NameOf[t]) \in CriterionRows
  BY <1>1, LatestIsARow
<1>4. CASE KindOf[t] = "Claimed" /\ ExcerptOf[t] \in Readable
  <2>1. Saying(t) = Row(ValueOf[t], "Confirmed", "ContactStated", ExcerptOf[t])
    BY <1>4 DEF Saying
  <2>2. WasReadable(ExcerptOf[t], day)
    BY <1>2, <1>4, NeedsAssumption DEF KnownOK, Readable, WasReadable
  <2> QED BY <1>2, <1>4, <2>1, <2>2 DEF Row, CriterionRows, Founded
<1>5. CASE KindOf[t] = "Inferred" \/ (KindOf[t] = "Claimed" /\ ExcerptOf[t] \notin Readable)
  <2>1. Saying(t) = Row(ValueOf[t], "Pending", "ModelInferred", ExcerptOf[t])
    BY <1>5 DEF Saying
  <2> QED BY <1>2, <2>1 DEF Row, CriterionRows, Founded
<1>6. CASE KindOf[t] = "Recorded"
  <2>1. Saying(t) = Row(ValueOf[t], "Confirmed", "AdvisorRecorded", ExcerptOf[t])
    BY <1>6 DEF Saying
  <2> QED BY <1>2, <1>6, <2>1 DEF Row, CriterionRows, Founded
<1>7. CASE KindOf[t] = "Confirm"
  <2>1. Saying(t) = Row(LatestRow(NameOf[t]).value, "Confirmed", "ContactStated",
                        LatestRow(NameOf[t]).evidence)
    BY <1>7 DEF Saying
  <2>2. WasPending(NameOf[t], LatestRow(NameOf[t]).value, Len(criteria[NameOf[t]]))
    BY <1>1, <1>7, LatestIsARow
  <2> QED BY <1>2, <1>3, <1>7, <2>1, <2>2 DEF Row, CriterionRows, Founded
<1> QED BY <1>2, <1>4, <1>5, <1>6, <1>7

LEMMA ReadingKeeps ==
    ASSUME KnownInv, NEW t \in Statements,
           LoadNeed(t) \/ RefuseConfirmation(t) \/ CollideStatement(t)
    PROVE  KnownInv'
<1>1. KnownOK /\ NameOf[t] \in CriterionNames
  BY DEF KnownInv, CriterionNames
<1>2. UNCHANGED <<day, heardOn, expiredOn, bound, criteria, need>>
  BY DEF LoadNeed, RefuseConfirmation, CollideStatement
<1>3. ASSUME KnownOK', StatementIsFounded(t)',
             \A u \in Statements \ {t} : step'[u] = step[u] /\ loaded'[u] = loaded[u]
      PROVE  KnownInv'
  <2>1. \A said, d, last, u : Founded(u, said, d, last)' = Founded(u, said, d, last)
    BY <1>2 DEF Founded, WasReadable, WasPending
  <2>2. \A n \in CriterionNames : \A i \in 1..Len(criteria[n]) : EntryIsFounded(n, i)'
    BY <1>2, <2>1 DEF KnownInv, EntryIsFounded
  <2>3. ASSUME NEW u \in Statements \ {t} PROVE StatementIsFounded(u)'
    <3>1. StatementIsFounded(u)
      BY DEF KnownInv
    <3> QED BY <1>2, <1>3, <2>1, <3>1 DEF StatementIsFounded
  <2>4. ConfirmationIsFounded' /\ IntentIsFounded' /\ (bound => Readable # {})'
    BY <1>2 DEF KnownInv, ConfirmationIsFounded, IntentIsFounded, Readable
  <2> QED BY <1>2, <1>3, <2>2, <2>3, <2>4 DEF KnownInv
<1>4. CASE LoadNeed(t)
  <2> DEFINE l == [day |-> day, seen |-> Len(criteria[NameOf[t]]), need |-> need, saying |-> Saying(t)]
  <2>1. loaded' = [loaded EXCEPT ![t] = l] /\ step' = [step EXCEPT ![t] = "Loaded"]
    BY <1>4 DEF LoadNeed
  <2>2. Saying(t) \in CriterionRows /\ Founded(t, Saying(t), day, Len(criteria[NameOf[t]]))
    BY <1>1, <1>4, SayingIsFounded DEF LoadNeed
  <2>3. Len(criteria[NameOf[t]]) \in Nat
    BY <1>1 DEF KnownOK
  <2>4. l \in [day : 0..MaxDay, seen : Nat, need : NeedTypes, saying : CriterionRows]
    BY <1>1, <2>2, <2>3 DEF KnownOK
  <2>5. KnownOK'
    BY <1>1, <1>2, <2>1, <2>4 DEF KnownOK
  <2>6. loaded'[t] = l /\ \A u \in Statements \ {t} : step'[u] = step[u] /\ loaded'[u] = loaded[u]
    BY <1>1, <2>1 DEF KnownOK
  <2>7. \A i \in 1..Len(criteria[NameOf[t]]) : criteria[NameOf[t]][i].day <= day
    BY <1>1 DEF KnownInv, EntryIsFounded
  <2>8. PICK saying, d, last : saying = Saying(t) /\ d = day /\ last = Len(criteria[NameOf[t]])
    OBVIOUS
  <2>9. StatementIsFounded(t)'
    <3>1. Founded(t, saying, d, last)'
      BY <1>2, <2>2, <2>8 DEF Founded, WasReadable, WasPending
    <3>2. /\ loaded'[t].saying = saying /\ loaded'[t].day = d /\ loaded'[t].seen = last
          /\ Len(criteria'[NameOf[t]]) = last /\ d = day' /\ d \in 0..MaxDay
      BY <1>1, <1>2, <2>6, <2>8 DEF KnownOK
    <3>3. \A i \in 1..last : criteria'[NameOf[t]][i].day <= d
      BY <1>2, <2>7, <2>8
    <3> QED BY <2>3, <2>8, <3>1, <3>2, <3>3, NeedsAssumption DEF StatementIsFounded
  <2> QED BY <1>3, <2>5, <2>6, <2>9
<1>5. CASE RefuseConfirmation(t) \/ CollideStatement(t)
  <2>1. /\ step' = [step EXCEPT ![t] = "Over"]
        /\ loaded' = loaded \/ loaded' = [loaded EXCEPT ![t] = NoLoad]
    BY <1>5 DEF RefuseConfirmation, CollideStatement
  <2>2. NoLoad \in [day : 0..MaxDay, seen : Nat, need : NeedTypes, saying : CriterionRows]
    BY NeedsAssumption DEF NoLoad, NoRow, Row, CriterionRows, NeedTypes
  <2>3. KnownOK'
    BY <1>1, <1>2, <2>1, <2>2 DEF KnownOK
  <2>4. step'[t] = "Over" /\ \A u \in Statements \ {t} : step'[u] = step[u] /\ loaded'[u] = loaded[u]
    BY <1>1, <2>1 DEF KnownOK
  <2>5. StatementIsFounded(t)'
    BY <2>4 DEF StatementIsFounded
  <2> QED BY <1>3, <2>3, <2>4, <2>5
<1> QED BY <1>4, <1>5

\* Rows are only added.
LEMMA RecordKeeps ==
    ASSUME KnownInv, NEW t \in Statements, Record(t)
    PROVE  KnownInv'
<1>0. PICK l : l = loaded[t]
  OBVIOUS
<1> DEFINE n == NameOf[t]
           entry == [row |-> l.saying, by |-> t, day |-> l.day]
<1>1. /\ KnownOK /\ n \in CriterionNames /\ StatementIsFounded(t) /\ step[t] = "Loaded"
      /\ criteria[n] \in Seq(CriterionEntries)
      /\ l \in [day : 0..MaxDay, seen : Nat, need : NeedTypes, saying : CriterionRows]
  BY <1>0 DEF KnownInv, KnownOK, CriterionNames, Record
<1>2. /\ criteria' = IF AlreadyCurrent(t) THEN criteria
                     ELSE [criteria EXCEPT ![n] = Append(criteria[n], entry)]
      /\ need' = NeedAfter(t)
      /\ step' = [step EXCEPT ![t] = "Over"] /\ loaded' = [loaded EXCEPT ![t] = NoLoad]
      /\ UNCHANGED <<day, heardOn, expiredOn, bound>>
  BY <1>0 DEF Record
<1>3. /\ l.day \in 0..MaxDay /\ l.seen \in 0..Len(criteria[n]) /\ l.saying \in CriterionRows
      /\ l.need \in NeedTypes /\ l.day <= day
      /\ Founded(t, l.saying, l.day, Len(criteria[n]))
      /\ \A i \in 1..l.seen : criteria[n][i].day <= l.day
  BY <1>0, <1>1 DEF StatementIsFounded
<1>4. entry \in CriterionEntries
  BY <1>3 DEF CriterionEntries
<1>5. /\ criteria' \in [CriterionNames -> Seq(CriterionEntries)]
      /\ \A k \in CriterionNames \ {n} : criteria'[k] = criteria[k]
      /\ criteria'[n] = criteria[n] \/ criteria'[n] = Append(criteria[n], entry)
      /\ ~AlreadyCurrent(t) => criteria'[n] = Append(criteria[n], entry)
  BY <1>1, <1>2, <1>4 DEF KnownOK
<1>6. \A k \in CriterionNames :
          /\ Len(criteria[k]) \in Nat /\ Len(criteria'[k]) \in Nat
          /\ Len(criteria[k]) <= Len(criteria'[k])
          /\ \A i \in 1..Len(criteria[k]) : criteria'[k][i] = criteria[k][i]
          /\ \A i \in 1..Len(criteria'[k]) : i \in 1..Len(criteria[k])
                 \/ (k = n /\ i = Len(criteria[n]) + 1 /\ criteria'[k][i] = entry)
  <2> SUFFICES ASSUME NEW k \in CriterionNames
               PROVE  /\ Len(criteria[k]) \in Nat /\ Len(criteria'[k]) \in Nat
                      /\ Len(criteria[k]) <= Len(criteria'[k])
                      /\ \A i \in 1..Len(criteria[k]) : criteria'[k][i] = criteria[k][i]
                      /\ \A i \in 1..Len(criteria'[k]) : i \in 1..Len(criteria[k])
                             \/ (k = n /\ i = Len(criteria[n]) + 1 /\ criteria'[k][i] = entry)
    OBVIOUS
  <2>1. criteria[k] \in Seq(CriterionEntries)
    BY <1>1 DEF KnownOK
  <2>2. CASE criteria'[k] = criteria[k]
    BY <2>1, <2>2
  <2>3. CASE k = n /\ criteria'[k] = Append(criteria[k], entry)
    BY <1>4, <2>1, <2>3
  <2> QED BY <1>5, <2>2, <2>3
<1>7. ~AlreadyCurrent(t) =>
          /\ Len(criteria[n]) + 1 \in 1..Len(criteria'[n])
          /\ criteria'[n][Len(criteria[n]) + 1] = entry
  BY <1>1, <1>4, <1>5
<1>8. AlreadyCurrent(t) /\ l.saying.state = "Confirmed" =>
          l.seen \in 1..Len(criteria[n]) /\ criteria[n][l.seen].row = l.saying
  BY <1>0, <1>1, <1>3 DEF AlreadyCurrent, RowAt, NoRow, Row
<1> HIDE DEF n, entry
<1>9. ASSUME NEW u \in Statements, NEW said, NEW d, NEW last, NEW more \in Nat, last \in Nat,
             last <= more, last <= Len(criteria[NameOf[u]]), Founded(u, said, d, last)
      PROVE  Founded(u, said, d, more)'
  <2>1. NameOf[u] \in CriterionNames
    BY DEF CriterionNames
  <2>2. WasReadable(ExcerptOf[u], d)' = WasReadable(ExcerptOf[u], d)
    BY <1>2 DEF WasReadable
  <2>3. WasPending(NameOf[u], said.value, last) => WasPending(NameOf[u], said.value, more)'
    <3> SUFFICES ASSUME NEW j \in 1..last, criteria[NameOf[u]][j].row.state = "Pending",
                        criteria[NameOf[u]][j].row.value = said.value
                 PROVE  WasPending(NameOf[u], said.value, more)'
      BY DEF WasPending
    <3>1. criteria'[NameOf[u]][j] = criteria[NameOf[u]][j] /\ j \in 1..more
      BY <1>6, <1>9, <2>1
    <3> QED BY <3>1 DEF WasPending
  <2> QED BY <1>9, <2>2, <2>3 DEF Founded
<1>10. ASSUME NEW k \in CriterionNames, NEW i \in 1..Len(criteria'[k]) PROVE EntryIsFounded(k, i)'
  <2>1. CASE i \in 1..Len(criteria[k])
    <3>0. PICK c : c = criteria[k][i]
      OBVIOUS
    <3>1. EntryIsFounded(k, i) /\ criteria'[k][i] = c /\ c \in CriterionEntries
      BY <1>1, <1>6, <2>1, <3>0 DEF KnownInv, KnownOK
    <3>2. /\ c.by \in Statements /\ NameOf[c.by] = k
          /\ Founded(c.by, c.row, c.day, i - 1) /\ c.day <= day
      BY <3>0, <3>1 DEF EntryIsFounded, CriterionEntries
    <3>3. i - 1 \in Nat /\ i - 1 <= Len(criteria[k])
      BY <1>6, <2>1
    <3>4. Founded(c.by, c.row, c.day, i - 1)'
      BY <1>9, <3>2, <3>3
    <3> QED BY <1>2, <3>1, <3>2, <3>4 DEF EntryIsFounded
  <2>2. CASE k = n /\ i = Len(criteria[n]) + 1 /\ criteria'[k][i] = entry
    <3>1. entry.by = t /\ entry.row = l.saying /\ entry.day = l.day /\ NameOf[t] = n
      BY DEF entry, n
    <3>2. i - 1 = Len(criteria[n]) /\ i - 1 \in Nat
      BY <1>1, <1>6, <2>2
    <3>3. Founded(t, l.saying, l.day, i - 1)
      BY <1>3, <3>2
    <3>4. Founded(t, l.saying, l.day, i - 1)'
      BY <1>9, <3>1, <3>2, <3>3
    <3> QED BY <1>2, <1>3, <2>2, <3>1, <3>4 DEF EntryIsFounded
  <2> QED BY <1>6, <2>1, <2>2
<1>11. step'[t] = "Over" /\ \A u \in Statements \ {t} : step'[u] = step[u] /\ loaded'[u] = loaded[u]
  BY <1>1, <1>2 DEF KnownOK
<1>12. ASSUME NEW u \in Statements PROVE StatementIsFounded(u)'
  <2>1. CASE u = t
    BY <1>11, <2>1 DEF StatementIsFounded
  <2>2. CASE u # t /\ step[u] = "Loaded"
    <3>1. StatementIsFounded(u) /\ NameOf[u] \in CriterionNames
      BY DEF KnownInv, CriterionNames
    <3>0. PICK saying, d, last, more : /\ saying = loaded[u].saying /\ d = loaded[u].day
                                       /\ last = Len(criteria[NameOf[u]])
                                       /\ more = Len(criteria'[NameOf[u]])
      OBVIOUS
    <3>6. last \in Nat /\ more \in Nat /\ last <= more /\ Founded(u, saying, d, last)
      BY <1>6, <2>2, <3>0, <3>1 DEF StatementIsFounded
    <3>2. Founded(u, saying, d, more)'
      BY <1>9, <3>0, <3>6
    <3>3. loaded[u].seen \in Nat
      BY <1>1 DEF KnownOK
    <3>4. /\ loaded[u].seen <= Len(criteria[NameOf[u]]) /\ loaded[u].day <= day
          /\ \A i \in 1..loaded[u].seen : criteria[NameOf[u]][i].day <= loaded[u].day
      BY <2>2, <3>1 DEF StatementIsFounded
    <3>5. /\ loaded[u].seen <= Len(criteria'[NameOf[u]])
          /\ \A i \in 1..loaded[u].seen : criteria'[NameOf[u]][i].day <= loaded[u].day
      BY <1>6, <3>1, <3>3, <3>4
    <3> QED BY <1>2, <1>11, <2>2, <3>0, <3>2, <3>4, <3>5 DEF StatementIsFounded
  <2>3. CASE u # t /\ step[u] # "Loaded"
    BY <1>11, <2>3 DEF StatementIsFounded
  <2> QED BY <2>1, <2>2, <2>3
<1>13. need' \in NeedTypes
       /\ (need'.confirmedOn = need.confirmedOn
           \/ (need'.confirmedOn = l.day /\ l.saying.state = "Confirmed"))
       /\ (need'.intent = need.intent
           \/ (/\ need'.intent = l.saying.value /\ l.saying.state = "Confirmed"
               /\ n = IntentName /\ ~AlreadyCurrent(t)))
  <2>1. need' = [status |-> IF l.saying.state = "Confirmed" /\ l.need.status = "Stale"
                            THEN "Active" ELSE need.status,
                 confirmedOn |-> IF l.saying.state = "Confirmed" THEN l.day ELSE need.confirmedOn,
                 intent |-> IF /\ l.saying.state = "Confirmed" /\ n = IntentName /\ ~AlreadyCurrent(t)
                               /\ l.need.intent # l.saying.value
                            THEN l.saying.value ELSE need.intent]
    BY <1>0, <1>2 DEF NeedAfter, n
  <2>2. need \in NeedTypes /\ l.saying.value \in {ValueOf[u] : u \in Statements} \cup {NoValue}
    BY <1>1, <1>3 DEF KnownOK, CriterionRows
  <2>3. need' \in NeedTypes
    BY <1>3, <2>1, <2>2 DEF NeedTypes
  <2> QED BY <2>1, <2>3
<1>14. NoLoad \in [day : 0..MaxDay, seen : Nat, need : NeedTypes, saying : CriterionRows]
  BY NeedsAssumption DEF NoLoad, NoRow, Row, CriterionRows, NeedTypes
<1>15. KnownOK'
  BY <1>1, <1>2, <1>5, <1>13, <1>14 DEF KnownOK
<1>16. ConfirmationIsFounded'
  <2>1. CASE need'.confirmedOn = need.confirmedOn
    <3> SUFFICES ASSUME need.confirmedOn > 0 PROVE ConfirmationIsFounded'
      BY <2>1 DEF ConfirmationIsFounded
    <3>1. PICK k \in CriterionNames : \E i \in 1..Len(criteria[k]) :
              criteria[k][i].row.state = "Confirmed" /\ criteria[k][i].day <= need.confirmedOn
      BY DEF KnownInv, ConfirmationIsFounded
    <3>2. PICK i \in 1..Len(criteria[k]) :
              criteria[k][i].row.state = "Confirmed" /\ criteria[k][i].day <= need.confirmedOn
      BY <3>1
    <3>3. i \in 1..Len(criteria'[k]) /\ criteria'[k][i] = criteria[k][i]
      BY <1>6
    <3> QED BY <2>1, <3>2, <3>3 DEF ConfirmationIsFounded
  <2>2. CASE need'.confirmedOn = l.day /\ l.saying.state = "Confirmed"
    <3>1. CASE AlreadyCurrent(t)
      <4>1. /\ l.seen \in 1..Len(criteria[n]) /\ criteria[n][l.seen].row = l.saying
            /\ criteria[n][l.seen].day <= l.day
        BY <1>3, <1>8, <2>2, <3>1
      <4>2. l.seen \in 1..Len(criteria'[n]) /\ criteria'[n][l.seen] = criteria[n][l.seen]
        BY <1>1, <1>6, <4>1
      <4> QED BY <1>1, <2>2, <4>1, <4>2 DEF ConfirmationIsFounded
    <3>2. CASE ~AlreadyCurrent(t)
      <4>1. entry.row = l.saying /\ entry.day = l.day /\ l.day <= l.day
        BY <1>3 DEF entry
      <4> QED BY <1>1, <1>7, <2>2, <3>2, <4>1 DEF ConfirmationIsFounded
    <3> QED BY <3>1, <3>2
  <2> QED BY <1>13, <2>1, <2>2
<1>17. IntentIsFounded'
  <2>1. CASE need'.intent = need.intent
    <3> SUFFICES ASSUME need.intent # NoValue PROVE IntentIsFounded'
      BY <2>1 DEF IntentIsFounded
    <3>1. IntentName \in CriterionNames
      BY DEF KnownInv, IntentIsFounded
    <3>2. PICK i \in 1..Len(criteria[IntentName]) :
              /\ criteria[IntentName][i].row.state = "Confirmed"
              /\ criteria[IntentName][i].row.value = need.intent
      BY DEF KnownInv, IntentIsFounded
    <3>3. i \in 1..Len(criteria'[IntentName])
          /\ criteria'[IntentName][i] = criteria[IntentName][i]
      BY <1>6, <3>1
    <3> QED BY <2>1, <3>1, <3>2, <3>3 DEF IntentIsFounded
  <2>2. CASE /\ need'.intent = l.saying.value /\ l.saying.state = "Confirmed"
             /\ n = IntentName /\ ~AlreadyCurrent(t)
    <3>1. entry.row = l.saying
      BY DEF entry
    <3> QED BY <1>1, <1>7, <2>2, <3>1 DEF IntentIsFounded
  <2> QED BY <1>13, <2>1, <2>2
<1>18. (bound => Readable # {})'
  BY <1>2 DEF KnownInv, Readable
<1> QED BY <1>10, <1>12, <1>15, <1>16, <1>17, <1>18 DEF KnownInv

LEMMA KnownStep == KnownInv /\ [NeedsNext]_needVars => KnownInv'
<1> SUFFICES ASSUME KnownInv, [NeedsNext]_needVars PROVE KnownInv'
  OBVIOUS
<1>1. CASE UNCHANGED needVars
  <2>1. UNCHANGED <<day, heardOn, expiredOn, bound, criteria, need, step, loaded>>
    BY <1>1 DEF needVars, identityVars, criteriaVars
  <2>2. KnownOK' /\ Readable' = Readable
    BY <2>1 DEF KnownInv, KnownOK, Readable
  <2> QED BY <2>1, <2>2, TalkKeeps DEF KnownInv, KnownOK
<1>2. CASE TalkStep \/ UpkeepPass \/ NewDay
  BY <1>2, ConversationKeeps
<1>3. ASSUME NEW t \in Statements, StatementStep(t) PROVE KnownInv'
  BY <1>3, ReadingKeeps, RecordKeeps DEF StatementStep
<1> QED BY <1>1, <1>2, <1>3 DEF NeedsNext

LEMMA KnownSafety == KnownInv => ConfirmedIsEvidenced
<1> SUFFICES ASSUME KnownInv PROVE ConfirmedIsEvidenced
  OBVIOUS
<1>1. \A n \in CriterionNames : DOMAIN criteria[n] = 1..Len(criteria[n])
  BY DEF KnownInv, KnownOK
<1>2. ASSUME NEW n \in CriterionNames, NEW i \in DOMAIN criteria[n],
             criteria[n][i].row.state = "Confirmed"
      PROVE  CASE KindOf[criteria[n][i].by] = "Recorded" ->
                      criteria[n][i].row.value = ValueOf[criteria[n][i].by]
               [] KindOf[criteria[n][i].by] = "Claimed" ->
                      LET m == ExcerptOf[criteria[n][i].by] IN
                      /\ heardOn[m] \in 1..criteria[n][i].day
                      /\ expiredOn[m] \notin 1..(criteria[n][i].day - 1)
               [] KindOf[criteria[n][i].by] = "Confirm" ->
                      \E j \in 1..(i - 1) : /\ criteria[n][j].row.state = "Pending"
                                            /\ criteria[n][j].row.value = criteria[n][i].row.value
               [] OTHER -> FALSE
  <2>1. EntryIsFounded(n, i) /\ criteria[n][i] \in CriterionEntries
    BY <1>1, <1>2 DEF KnownInv, KnownOK
  <2>2. KindOf[criteria[n][i].by] \in {"Claimed", "Inferred", "Recorded", "Confirm"}
    BY <2>1, NeedsAssumption DEF CriterionEntries
  <2> QED BY <1>2, <2>1, <2>2 DEF EntryIsFounded, Founded, WasReadable, WasPending
<1>3. need.confirmedOn > 0 =>
          \E n \in CriterionNames : \E i \in DOMAIN criteria[n] :
              criteria[n][i].row.state = "Confirmed" /\ criteria[n][i].day <= need.confirmedOn
  BY <1>1 DEF KnownInv, ConfirmationIsFounded
<1>4. need.intent # NoValue =>
          \E i \in DOMAIN criteria[IntentName] :
              /\ criteria[IntentName][i].row.state = "Confirmed"
              /\ criteria[IntentName][i].row.value = need.intent
  BY <1>1 DEF KnownInv, IntentIsFounded
<1> QED BY <1>2, <1>3, <1>4 DEF KnownInv, ConfirmedIsEvidenced

\* Whoever overtakes whom, what is Confirmed was recorded by a person, quotes a
\* message that could be read that day, or promotes an earlier Pending row
\* (record_criterion, confirm_criterion and the expiry of content).
THEOREM ConfirmationsAreFounded == NeedsSpec => []ConfirmedIsEvidenced
BY KnownInitially, KnownStep, KnownSafety, PTL DEF NeedsSpec
=============================================================================
