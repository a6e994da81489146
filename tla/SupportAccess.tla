--------------------------- MODULE SupportAccess ---------------------------
(***************************************************************************)
(* Temporary access of Maia's own engineers to an Organization             *)
(* (domain/platform/support.py): a grant that is explained and runs out,   *)
(* and the member row it activates.  This is one engineer in one           *)
(* Organization; the grants follow one another under that one login.       *)
(*                                                                         *)
(* Three things end a grant: an operator revokes it, the sweep of the      *)
(* platform worker finds it lapsed, or the next grant closes it.  All lock *)
(* its row.  The first two deactivate the member, the last one activates   *)
(* it.  An Administrator of the Organization sees the member on the team   *)
(* surface, and may switch it off and on as any other.                     *)
(*                                                                         *)
(* A definition named Slip... is the one below it with a plausible bug.    *)
(***************************************************************************)
CONSTANT Grants   \* command keys

VARIABLES
    grant,       \* each grant: None, Running, Lapsed (expires_at has passed) or Ended
    engineer,    \* organization_members.active of the support login, "None" before
    switched,    \* an Administrator was the last to set it
    closing,     \* grants the sweep has locked and will end
    admitted     \* grants on which the login was ever resolved

supportVars == <<grant, engineer, switched, closing, admitted>>

\* revoked_at is not set; the index on the login allows one such grant.
Unrevoked == {g \in Grants : grant[g] \in {"Running", "Lapsed"}}

-----------------------------------------------------------------------------
\* A grant that has lapsed is left to the sweep.
SlipGrantAccess(g) ==
    /\ grant[g] = "None"
    /\ \A other \in Grants : grant[other] # "Running"
    /\ closing = {}
    /\ grant' = [grant EXCEPT ![g] = "Running"]
    /\ engineer' = "Active"
    /\ switched' = FALSE
    /\ UNCHANGED <<closing, admitted>>

\* A command that is repeated changes nothing.  The grant that is still on
\* record is locked: one the sweep holds is waited for.
GrantAccess(g) ==
    /\ grant[g] = "None"
    /\ \A other \in Grants : grant[other] # "Running"
    /\ closing = {}
    /\ grant' = [other \in Grants |-> IF other = g THEN "Running"
                                      ELSE IF other \in Unrevoked THEN "Ended"
                                      ELSE grant[other]]
    /\ engineer' = "Active"
    /\ switched' = FALSE
    /\ UNCHANGED <<closing, admitted>>

RevokeAccess(g) ==
    /\ g \in Unrevoked \ closing
    /\ grant' = [grant EXCEPT ![g] = "Ended"]
    /\ engineer' = "Inactive"
    /\ switched' = FALSE
    /\ UNCHANGED <<closing, admitted>>

AccessLapses(g) ==
    /\ grant[g] = "Running"
    /\ grant' = [grant EXCEPT ![g] = "Lapsed"]
    /\ UNCHANGED <<engineer, switched, closing, admitted>>

\* expire_due takes the rows nobody else holds.
FindLapsed ==
    /\ closing = {}
    /\ \E g \in Grants : grant[g] = "Lapsed"
    /\ closing' = {g \in Grants : grant[g] = "Lapsed"}
    /\ UNCHANGED <<grant, engineer, switched, admitted>>

ExpireDue ==
    /\ closing # {}
    /\ grant' = [g \in Grants |-> IF g \in closing THEN "Ended" ELSE grant[g]]
    /\ engineer' = "Inactive"
    /\ switched' = FALSE
    /\ closing' = {}
    /\ UNCHANGED admitted

\* The platform worker dies before its commit.
AbandonSweep ==
    /\ closing # {}
    /\ closing' = {}
    /\ UNCHANGED <<grant, engineer, switched, admitted>>

\* SetMemberActive of the team surface.
SwitchEngineer ==
    /\ engineer \in {"Active", "Inactive"}
    /\ engineer' = IF engineer = "Active" THEN "Inactive" ELSE "Active"
    /\ switched' = TRUE
    /\ UNCHANGED <<grant, closing, admitted>>

\* resolve_actor with live_for_login: the newest grant decides.
ResolveEngineer(g) ==
    /\ engineer = "Active"
    /\ g \in Unrevoked
    /\ grant[g] = "Running"
    /\ admitted' = admitted \cup {g}
    /\ UNCHANGED <<grant, engineer, switched, closing>>

-----------------------------------------------------------------------------
SupportInit ==
    /\ grant = [g \in Grants |-> "None"]
    /\ engineer = "None"
    /\ switched = FALSE
    /\ closing = {}
    /\ admitted = {}

UpkeepStep == FindLapsed \/ ExpireDue \/ AbandonSweep

SupportNext ==
    \/ \E g \in Grants : GrantAccess(g) \/ RevokeAccess(g) \/ AccessLapses(g) \/ ResolveEngineer(g)
    \/ UpkeepStep
    \/ SwitchEngineer

SupportSpec == SupportInit /\ [][SupportNext]_supportVars

-----------------------------------------------------------------------------
(***************************************************************************)
(* Properties.                                                             *)
(***************************************************************************)

SupportTypeOK ==
    /\ grant \in [Grants -> {"None", "Running", "Lapsed", "Ended"}]
    /\ engineer \in {"None", "Active", "Inactive"}
    /\ switched \in BOOLEAN
    /\ closing \subseteq Grants
    /\ admitted \subseteq Grants

\* However grants lapse, are revoked and follow one another: the end of one
\* never takes away the access that the next has given, and no access is left
\* without a grant on record.  Only an Administrator makes a difference.
AccessFollowsTheGrant ==
    ~switched => (engineer = "Active" <=> Unrevoked # {})
=============================================================================
