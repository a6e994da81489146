---------------------------- MODULE Entitlements ----------------------------
(***************************************************************************)
(* What an Organization may use and what it uses: one bounded capability   *)
(* (domain/platform/entitlements.py), the Advisor seats it bounds          *)
(* (domain/commercial/team.py), and the measured month that the platform   *)
(* worker writes (domain/platform/usage.py).                               *)
(*                                                                         *)
(* A grant reads the row in force without a lock and supersedes it; a      *)
(* seat is counted without a lock before it is taken; a refresh counts     *)
(* before it locks the row it will assign.                                 *)
(*                                                                         *)
(* A definition named Slip... is the one below it with a plausible bug.    *)
(***************************************************************************)
EXTENDS Naturals, Sequences, FiniteSets

CONSTANTS
    Grantings,    \* operator commands, each once
    LimitOf,      \* the ceiling each of them asks for; none of them a number: disabled
    Seats,        \* logins of Advisors
    Refreshes,    \* passes of the platform worker over one month
    None

ASSUME EntitlementAssumption ==
    /\ LimitOf \in [Grantings -> Nat \cup {None}]
    /\ None \notin Nat

VARIABLES
    history,     \* limits of the rows of the capability, oldest first
    inForce,     \* rows whose superseded_at is not set
    granting,    \* the row each grant in progress has read as the one in force, 0 if none
    granted,     \* grants that are over
    member,      \* each login: None, Active or Inactive
    advises,     \* members that may receive Opportunities
    seating,     \* logins whose addition has passed the check
    counted,     \* what each pass in progress has counted
    usage,       \* quantity of the month, None without a row
    passed       \* passes that are over

entitlementVars == <<history, inForce, granting, granted, member, advises, seating,
                     counted, usage, passed>>

planVars == <<history, inForce, granting, granted>>
seatVars == <<member, advises, seating>>
usageVars == <<counted, usage, passed>>

CurrentRow == IF inForce = {} THEN 0 ELSE CHOOSE i \in inForce : TRUE

Seated == {m \in Seats : member[m] = "Active" /\ m \in advises}

\* The capability is recorded, enabled and not used up.
Permitted ==
    /\ CurrentRow # 0
    /\ history[CurrentRow] # None
    /\ Cardinality(Seated) < history[CurrentRow]

-----------------------------------------------------------------------------
\* A grant that repeats what is in force is over at once.
ReadCurrent(g) ==
    /\ g \notin granted /\ g \notin DOMAIN granting
    /\ IF CurrentRow # 0 /\ history[CurrentRow] = LimitOf[g]
       THEN granted' = granted \cup {g} /\ granting' = granting
       ELSE /\ granting' = [h \in DOMAIN granting \cup {g} |->
                                IF h = g THEN CurrentRow ELSE granting[h]]
            /\ granted' = granted
    /\ UNCHANGED <<history, inForce, seatVars, usageVars>>

\* The row that was read is stamped, whatever is in force by now.
SlipSupersede(g) ==
    /\ g \in DOMAIN granting
    /\ history' = Append(history, LimitOf[g])
    /\ inForce' = (inForce \ {granting[g]}) \cup {Len(history) + 1}
    /\ granted' = granted \cup {g}
    /\ granting' = [h \in DOMAIN granting \ {g} |-> granting[h]]
    /\ UNCHANGED <<seatVars, usageVars>>

\* The index on the row in force refuses the insert when another grant has
\* come first; the command fails and may be sent again.
Supersede(g) ==
    /\ g \in DOMAIN granting
    /\ IF inForce \subseteq {granting[g]}
       THEN /\ history' = Append(history, LimitOf[g])
            /\ inForce' = {Len(history) + 1}
            /\ granted' = granted \cup {g}
       ELSE UNCHANGED <<history, inForce, granted>>
    /\ granting' = [h \in DOMAIN granting \ {g} |-> granting[h]]
    /\ UNCHANGED <<seatVars, usageVars>>

-----------------------------------------------------------------------------
RequireSeat(m) ==
    /\ member[m] = "None"
    /\ m \notin seating
    /\ Permitted
    /\ seating' = seating \cup {m}
    /\ UNCHANGED <<planVars, member, advises, usageVars>>

AddMember(m) ==
    /\ m \in seating
    /\ seating' = seating \ {m}
    /\ member' = [member EXCEPT ![m] = "Active"]
    /\ advises' = advises \cup {m}
    /\ UNCHANGED <<planVars, usageVars>>

\* A member without a seat, such as an Administrator.
AddColleague(m) ==
    /\ member[m] = "None"
    /\ m \notin seating
    /\ member' = [member EXCEPT ![m] = "Active"]
    /\ UNCHANGED <<planVars, advises, seating, usageVars>>

\* Neither of these two asks for a seat.
SetMemberActive(m) ==
    /\ member[m] # "None"
    /\ member' = [member EXCEPT ![m] = IF @ = "Active" THEN "Inactive" ELSE "Active"]
    /\ UNCHANGED <<planVars, advises, seating, usageVars>>

UpdateMember(m) ==
    /\ member[m] # "None"
    /\ m \notin advises
    /\ advises' = advises \cup {m}
    /\ UNCHANGED <<planVars, member, seating, usageVars>>

-----------------------------------------------------------------------------
Measure(p) ==
    /\ p \notin passed /\ p \notin DOMAIN counted
    /\ counted' = [q \in DOMAIN counted \cup {p} |->
                      IF q = p THEN Cardinality(Seated) ELSE counted[q]]
    /\ UNCHANGED <<planVars, seatVars, usage, passed>>

\* The lock is taken after the counting; the quantity is assigned.
StoreUsage(p) ==
    /\ p \in DOMAIN counted
    /\ usage' = counted[p]
    /\ passed' = passed \cup {p}
    /\ counted' = [q \in DOMAIN counted \ {p} |-> counted[q]]
    /\ UNCHANGED <<planVars, seatVars>>

\* The worker dies, or another pass has inserted the first row of the month
\* meanwhile.
AbandonRefresh(p) ==
    /\ p \in DOMAIN counted
    /\ passed' = passed \cup {p}
    /\ counted' = [q \in DOMAIN counted \ {p} |-> counted[q]]
    /\ UNCHANGED <<planVars, seatVars, usage>>

-----------------------------------------------------------------------------
EntitlementInit ==
    /\ history = <<>> /\ inForce = {} /\ granting = <<>> /\ granted = {}
    /\ member = [m \in Seats |-> "None"] /\ advises = {} /\ seating = {}
    /\ counted = <<>> /\ usage = None /\ passed = {}

GrantStep(g) == ReadCurrent(g) \/ Supersede(g)

SeatStep(m) ==
    RequireSeat(m) \/ AddMember(m) \/ AddColleague(m) \/ SetMemberActive(m) \/ UpdateMember(m)

PassStep(p) == Measure(p) \/ StoreUsage(p) \/ AbandonRefresh(p)

EntitlementNext ==
    \/ \E g \in Grantings : GrantStep(g)
    \/ \E m \in Seats : SeatStep(m)
    \/ \E p \in Refreshes : PassStep(p)

EntitlementSpec == EntitlementInit /\ [][EntitlementNext]_entitlementVars

-----------------------------------------------------------------------------
(***************************************************************************)
(* Properties.                                                             *)
(***************************************************************************)

EntitlementTypeOK ==
    /\ history \in Seq(Nat \cup {None})
    /\ inForce \subseteq DOMAIN history
    /\ DOMAIN granting \subseteq Grantings
    /\ member \in [Seats -> {"None", "Active", "Inactive"}]
    /\ advises \subseteq Seats /\ seating \subseteq Seats
    /\ usage \in Nat \cup {None}

\* However grants overlap: what is in force is one row, it is the newest, and
\* no row repeats the one it superseded.
HistoryIsALine ==
    /\ inForce = (IF history = <<>> THEN {} ELSE {Len(history)})
    /\ \A i \in 1..(Len(history) - 1) : history[i] # history[i + 1]

\* What usage.py says of its lock: it stops two overlapping refreshes from
\* interleaving a stale quantity.  The counting comes before the lock.
UsageIsNeverStale ==
    [][usage' # usage => usage' = Cardinality(Seated)]_entitlementVars

\* What _add_member says: an Organization over its tier is told, rather than
\* having one more Advisor land and be discovered later.
SeatsStayWithinThePlan ==
    [][Cardinality(Seated') > Cardinality(Seated) => Permitted]_entitlementVars
=============================================================================
