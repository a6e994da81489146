----------------------------- MODULE Provisioning -----------------------------
(***************************************************************************)
(* Bringing Organizations into service and taking them out again           *)
(* (domain/platform/provisioning.py), with the channel bindings of         *)
(* routing.py, the references of credentials.py and the team of            *)
(* commercial/organization.py as far as a run touches them.                *)
(*                                                                         *)
(* A call serves a run.  It commits after every step and holds no lock in  *)
(* between, so other runs, other calls of the same command key and the     *)
(* commands of an operator come between its steps: a call reads whether a  *)
(* step is completed, acts, and writes what came of it over whatever the   *)
(* row says by then.  The team step commits on its own before the call     *)
(* records it.  A call may fail at any step or be interrupted, and a later *)
(* one resumes the run.  The configuration and the entitlements are        *)
(* histories that nothing undoes, so their steps only come and go.         *)
(*                                                                         *)
(* A definition named Slip... is the one below it with a plausible bug.    *)
(***************************************************************************)
EXTENDS Naturals, FiniteSets

CONSTANTS
    Organizations,
    Runs,           \* command keys of provisioning runs
    RunOf,          \* the Organization of a run
    Channels,       \* external identifiers
    ChannelOf,      \* the channel the plan of a run assigns
    NoOrganization,
    NoRun,
    Calls           \* of provision, numbered in the order they come

ASSUME ProvisioningAssumption ==
    /\ RunOf \in [Runs -> Organizations]
    /\ ChannelOf \in [Runs -> Channels]
    /\ NoOrganization \notin Organizations
    /\ NoRun \notin Runs
    /\ Calls \subseteq Nat

VARIABLES
    orgStatus,   \* organizations.status; "None" before there is a row
    owner,       \* the Organization with the Active binding of a channel
    staffed,     \* Organizations whose founding members are active
    trusted,     \* Organizations with an Active secret reference
    runState,    \* organization_provisioning_runs.state
    stepState,   \* organization_provisioning_steps by run and position
    serving,     \* the run of a call; NoRun before it comes
    loadedState, \* the state of the run as the call loaded it
    position,    \* the step a call is at; 0 if it is over
    phase,       \* it has yet to read the row of the step, is acting, or failed
    overwritten  \* steps that failed last after an overlapping call passed them

orgVars == <<orgStatus, owner, staffed, trusted>>
callVars == <<serving, loadedState, position, phase>>
provisioningVars == <<orgVars, runState, stepState, callVars, overwritten>>

\* STEP_ORDER.
Organization == 1
Configuration == 2
Entitlement == 3
Team == 4
Binding == 5
Credentials == 6
Activation == 7
Steps == Organization .. Activation

RunStates == {"None", "Pending", "Failed", "Completed", "RolledBack"}

StepStates == {"None", "Failed", "Completed", "RolledBack"}

OrgStates == {"None", "Provisioning", "Active", "Suspended", "Deprovisioning", "Deprovisioned"}

StepOver == {"Completed", "RolledBack"}

Org(r) == RunOf[r]

\* routing.bind: the channel is not held by somebody else.
MayBind(r) == owner[ChannelOf[r]] \in {NoOrganization, Org(r)}

-----------------------------------------------------------------------------
(***************************************************************************)
(* provision.                                                              *)
(***************************************************************************)

AtStep(c, where) == position[c] \in Steps /\ phase[c] = where

CallEnds(c) == position' = [position EXCEPT ![c] = 0] /\ phase' = [phase EXCEPT ![c] = "Reading"]

NextStep(c) ==
    position' = [position EXCEPT ![c] = @ + 1] /\ phase' = [phase EXCEPT ![c] = "Reading"]

\* A new run, or the one of this key again whatever its state, also while
\* another call serves it: the lock on the run ends with this commit.
Provision(c, r) ==
    /\ serving[c] = NoRun
    /\ \A earlier \in Calls : earlier < c => serving[earlier] # NoRun
    /\ serving' = [serving EXCEPT ![c] = r]
    /\ runState' = [runState EXCEPT ![r] = IF @ = "None" THEN "Pending" ELSE @]
    /\ loadedState' = [loadedState EXCEPT ![c] = runState'[r]]
    /\ position' = [position EXCEPT ![c] = Organization]
    /\ UNCHANGED <<orgVars, stepState, phase, overwritten>>

Done(r, s) == stepState[r][s] = "Completed"

SkipStep(c) ==
    /\ AtStep(c, "Reading")
    /\ Done(serving[c], position[c])
    /\ NextStep(c)
    /\ UNCHANGED <<orgVars, runState, stepState, serving, loadedState, overwritten>>

TryStep(c) ==
    /\ AtStep(c, "Reading")
    /\ ~Done(serving[c], position[c])
    /\ phase' = [phase EXCEPT ![c] = "Acting"]
    /\ UNCHANGED <<orgVars, runState, stepState, serving, loadedState, position, overwritten>>

\* What a step does to the Organization, in the commit that records it.
Effect(r, s) ==
    /\ orgStatus' = CASE s = Organization /\ orgStatus[Org(r)] = "None" ->
                            [orgStatus EXCEPT ![Org(r)] = "Provisioning"]
                      [] s = Activation -> [orgStatus EXCEPT ![Org(r)] = "Active"]
                      [] OTHER -> orgStatus
    /\ owner' = IF s = Binding THEN [owner EXCEPT ![ChannelOf[r]] = Org(r)] ELSE owner
    /\ staffed' = IF s = Team THEN staffed \cup {Org(r)} ELSE staffed
    /\ trusted' = IF s = Credentials THEN trusted \cup {Org(r)} ELSE trusted

CompleteStep(c) ==
    LET r == serving[c] IN
    /\ AtStep(c, "Acting")
    /\ position[c] = Organization => orgStatus[Org(r)] # "Active"
    /\ position[c] = Binding => MayBind(r)
    /\ Effect(r, position[c])
    /\ stepState' = [stepState EXCEPT ![r][position[c]] = "Completed"]
    /\ overwritten' = overwritten \ {<<r, position[c]>>}
    /\ NextStep(c)
    /\ UNCHANGED <<runState, serving, loadedState>>

\* OrganizationDirectory.reconcile commits before the step is recorded.
TeamBeforeItsStep(c) ==
    /\ AtStep(c, "Acting")
    /\ position[c] = Team
    /\ Org(serving[c]) \notin staffed
    /\ staffed' = staffed \cup {Org(serving[c])}
    /\ UNCHANGED <<orgStatus, owner, trusted, runState, stepState, callVars, overwritten>>

\* Another call of the run that is under way has the step behind it.
PassedByAnother(c) ==
    \E other \in Calls : serving[other] = serving[c] /\ position[other] > position[c]

\* Whatever the step did is rolled back; Failed is written, also over what
\* another call completed meanwhile.
FailStep(c) ==
    LET r == serving[c] IN
    /\ AtStep(c, "Acting")
    /\ stepState' = [stepState EXCEPT ![r][position[c]] = "Failed"]
    /\ overwritten' = IF PassedByAnother(c) THEN overwritten \cup {<<r, position[c]>>} ELSE overwritten
    /\ phase' = [phase EXCEPT ![c] = "Failed"]
    /\ UNCHANGED <<orgVars, runState, serving, loadedState, position>>

\* The loop over the steps is left, and what comes after it is done.
SlipFailRun(c) ==
    /\ AtStep(c, "Failed")
    /\ runState' = [runState EXCEPT ![serving[c]] = "Completed"]
    /\ CallEnds(c)
    /\ UNCHANGED <<orgVars, stepState, serving, loadedState, overwritten>>

FailRun(c) ==
    /\ AtStep(c, "Failed")
    /\ runState' = [runState EXCEPT ![serving[c]] = "Failed"]
    /\ CallEnds(c)
    /\ UNCHANGED <<orgVars, stepState, serving, loadedState, overwritten>>

\* The row of the run is not read again: what was Completed when the call
\* loaded it is not written.
FinishRun(c) ==
    LET r == serving[c] IN
    /\ position[c] = Activation + 1
    /\ runState' = [runState EXCEPT ![r] = IF loadedState[c] = "Completed" THEN @ ELSE "Completed"]
    /\ CallEnds(c)
    /\ UNCHANGED <<orgVars, stepState, serving, loadedState, overwritten>>

\* The process dies between two commits, or the row of a step that was not
\* there when it was read is there when it is written.
InterruptRun(c) ==
    /\ position[c] # 0
    /\ CallEnds(c)
    /\ UNCHANGED <<orgVars, runState, stepState, serving, loadedState, overwritten>>

-----------------------------------------------------------------------------
(***************************************************************************)
(* The other commands of an operator, one commit each.                     *)
(***************************************************************************)

\* _undo of the channels, the credentials and the team: everything the
\* Organization has, whichever run brought it.
Undo(o, undone) ==
    /\ owner' = IF Binding \in undone
                THEN [c \in Channels |-> IF owner[c] = o THEN NoOrganization ELSE owner[c]]
                ELSE owner
    /\ trusted' = IF Credentials \in undone THEN trusted \ {o} ELSE trusted
    /\ staffed' = IF Team \in undone THEN staffed \ {o} ELSE staffed

Rollback(r) ==
    LET undone == {s \in Steps : Done(r, s)} IN
    /\ runState[r] # "None"
    /\ Undo(Org(r), undone)
    /\ orgStatus' = IF Activation \in undone /\ orgStatus[Org(r)] = "Active"
                    THEN [orgStatus EXCEPT ![Org(r)] = "Deprovisioning"]
                    ELSE orgStatus
    /\ stepState' = [stepState EXCEPT ![r] =
                        [s \in Steps |-> IF s \in undone THEN "RolledBack" ELSE stepState[r][s]]]
    /\ runState' = [runState EXCEPT ![r] = "RolledBack"]
    /\ UNCHANGED <<callVars, overwritten>>

Deprovision(o) ==
    /\ orgStatus[o] # "None"
    /\ Undo(o, Steps)
    /\ orgStatus' = [orgStatus EXCEPT ![o] = "Deprovisioned"]
    /\ UNCHANGED <<runState, stepState, callVars, overwritten>>

Suspend(o) ==
    /\ orgStatus[o] # "None"
    /\ orgStatus' = [orgStatus EXCEPT ![o] = "Suspended"]
    /\ UNCHANGED <<owner, staffed, trusted, runState, stepState, callVars, overwritten>>

Resume(o) ==
    /\ orgStatus[o] \notin {"None", "Deprovisioned"}
    /\ orgStatus' = [orgStatus EXCEPT ![o] = "Active"]
    /\ UNCHANGED <<owner, staffed, trusted, runState, stepState, callVars, overwritten>>

-----------------------------------------------------------------------------
ProvisioningInit ==
    /\ orgStatus = [o \in Organizations |-> "None"]
    /\ owner = [c \in Channels |-> NoOrganization]
    /\ staffed = {}
    /\ trusted = {}
    /\ runState = [r \in Runs |-> "None"]
    /\ stepState = [r \in Runs |-> [s \in Steps |-> "None"]]
    /\ serving = [c \in Calls |-> NoRun]
    /\ loadedState = [c \in Calls |-> "None"]
    /\ position = [c \in Calls |-> 0]
    /\ phase = [c \in Calls |-> "Reading"]
    /\ overwritten = {}

ProvisioningNext ==
    \/ \E c \in Calls, r \in Runs : Provision(c, r)
    \/ \E c \in Calls :
          \/ SkipStep(c) \/ TryStep(c)
          \/ CompleteStep(c)
          \/ TeamBeforeItsStep(c)
          \/ FailStep(c) \/ FailRun(c)
          \/ FinishRun(c)
          \/ InterruptRun(c)
    \/ \E r \in Runs : Rollback(r)
    \/ \E o \in Organizations :
          \/ Deprovision(o)
          \/ Suspend(o)
          \/ Resume(o)

ProvisioningSpec == ProvisioningInit /\ [][ProvisioningNext]_provisioningVars

-----------------------------------------------------------------------------
(***************************************************************************)
(* Properties.                                                             *)
(***************************************************************************)

\* The variables have the shape of the rows they stand for.
ProvisioningTypeOK ==
    /\ orgStatus \in [Organizations -> OrgStates]
    /\ owner \in [Channels -> Organizations \cup {NoOrganization}]
    /\ staffed \subseteq Organizations
    /\ trusted \subseteq Organizations
    /\ runState \in [Runs -> RunStates]
    /\ stepState \in [Runs -> [Steps -> StepStates]]
    /\ serving \in [Calls -> Runs \cup {NoRun}]
    /\ loadedState \in [Calls -> RunStates]
    /\ position \in [Calls -> 0 .. Activation + 1]
    /\ phase \in [Calls -> {"Reading", "Acting", "Failed"}]
    /\ overwritten \subseteq Runs \X Steps

\* However often a run failed, was interrupted, resumed, rolled back on the way
\* or served by several calls at once: when it is declared Completed, none of
\* its steps was left out.  A step that is not finished then was, and an
\* overlapping call wrote its failure over that. (provisioning.py:329-373)
CompletedRunsAreWhole ==
    [][\A r \in Runs : runState'[r] = "Completed" /\ runState[r] # "Completed" =>
            \A s \in Steps :
                stepState[r][s] \in StepOver \/ <<r, s>> \in overwritten]_provisioningVars

\* The same without the exception.
CompletedRunsSayCompleted ==
    [][\A r \in Runs : runState'[r] = "Completed" /\ runState[r] # "Completed" =>
            \A s \in Steps : stepState[r][s] \in StepOver]_provisioningVars

\* What provisioning.py says of itself: an Organization is not operable until
\* the last step of a run is finished.
NotOperableUntilFinished ==
    \A o \in Organizations : orgStatus[o] = "Active" =>
        \E r \in Runs : RunOf[r] = o /\ stepState[r][Activation] = "Completed"
=============================================================================
