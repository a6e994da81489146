---------------------------- MODULE VisitPromise ----------------------------
(***************************************************************************)
(* What booking promises about visits and the Advisor's calendar, however  *)
(* many requests are at work, whatever the calendar answers and wherever a *)
(* process dies.  A visit is attempted in a slot that nothing else has; it *)
(* comes onto the calendar while it is attempted, stands once it is there  *)
(* and takes, in the same step, the place of the visit it replaces.  It    *)
(* leaves the calendar only because its cancellation was asked for or its  *)
(* successor is there already.                                             *)
(*                                                                         *)
(* There are no requests, locks and lost answers here.  Two things booking *)
(* does not promise to survive: that an attempt is recovered while its     *)
(* request is still at work on it, and that a move takes up a visit that   *)
(* was closed.  After either, nothing more is promised about any visit of  *)
(* that Conversation and Property.                                         *)
(***************************************************************************)
CONSTANTS
    Visits,
    LeadOf,         \* the Conversation and Property of a visit
    SlotOf,         \* the interval of a visit
    NoVisit         \* replaces nothing

VARIABLES
    fate,           \* what is on record about a visit
    replaces,       \* the visit it is to take the place of
    entered,        \* visits on the calendar
    leaving         \* visits whose cancellation was asked for

visitPromise == <<fate, replaces, entered, leaving>>

\* "Tried": attempted, and not known to stand or to have come to nothing.
Fates == {"Open", "Tried", "Stands", "Refused", "Gone", "Disclaimed"}

Taken(v) == fate[v] \in {"Tried", "Stands"} \/ v \in entered

VisitPromiseInit ==
    /\ fate = [v \in Visits |-> "Open"]
    /\ replaces = [v \in Visits |-> NoVisit]
    /\ entered = {}
    /\ leaving = {}

\* The slot is free, and the visit to be replaced stands without a successor.
Attempt(v, o) ==
    /\ fate[v] = "Open"
    /\ \A w \in Visits \ {v} : SlotOf[w] = SlotOf[v] => ~Taken(w)
    /\ o # NoVisit =>
          /\ fate[o] = "Stands" /\ LeadOf[o] = LeadOf[v]
          /\ \A w \in Visits : replaces[w] = o => fate[w] = "Refused"
    /\ fate' = [fate EXCEPT ![v] = "Tried"]
    /\ replaces' = [replaces EXCEPT ![v] = o]
    /\ UNCHANGED <<entered, leaving>>

Enter(v) ==
    /\ fate[v] = "Tried"
    /\ v \notin entered
    /\ entered' = entered \cup {v}
    /\ UNCHANGED <<fate, replaces, leaving>>

\* It stands, and what it replaces is gone.
Establish(v) ==
    /\ fate[v] = "Tried"
    /\ v \in entered
    /\ replaces[v] # NoVisit => fate[replaces[v]] = "Stands"
    /\ fate' = [w \in Visits |-> IF w = v THEN "Stands"
                                 ELSE IF w = replaces[v] THEN "Gone" ELSE fate[w]]
    /\ UNCHANGED <<replaces, entered, leaving>>

\* It came to nothing.
Refuse(v) ==
    /\ fate[v] = "Tried"
    /\ v \notin entered
    /\ fate' = [fate EXCEPT ![v] = "Refused"]
    /\ UNCHANGED <<replaces, entered, leaving>>

AskToCancel(v) ==
    /\ fate[v] = "Stands"
    /\ \A w \in Visits : replaces[w] = v => fate[w] = "Refused"
    /\ leaving' = leaving \cup {v}
    /\ UNCHANGED <<fate, replaces, entered>>

\* Its event is removed: it was asked to leave, or its successor is there.
Withdraw(v) ==
    /\ fate[v] = "Stands"
    /\ v \in entered
    /\ \/ v \in leaving
       \/ \E w \in entered : replaces[w] = v /\ fate[w] = "Tried"
    /\ entered' = entered \ {v}
    /\ UNCHANGED <<fate, replaces, leaving>>

Cancel(v) ==
    /\ fate[v] = "Stands"
    /\ v \in leaving /\ v \notin entered
    /\ \A w \in Visits : replaces[w] = v => fate[w] = "Refused"
    /\ fate' = [fate EXCEPT ![v] = "Gone"]
    /\ UNCHANGED <<replaces, entered, leaving>>

\* Nothing more is promised about the visits of these Conversations.
Disclaim(leads) ==
    LET rest == {v \in Visits : LeadOf[v] \notin leads} IN
    /\ fate' = [v \in Visits |-> IF v \in rest THEN fate[v] ELSE "Disclaimed"]
    /\ replaces' = [v \in Visits |-> IF v \in rest THEN replaces[v] ELSE NoVisit]
    /\ entered' = entered \cap rest
    /\ leaving' = leaving \cap rest

\* Attempts were taken from requests that may still be at work on them.
Overtake(lost) ==
    /\ \A v \in lost : fate[v] = "Tried"
    /\ Disclaim({LeadOf[v] : v \in lost})

\* A move takes up a visit that was closed.
TakeUpAgain(o, v) ==
    /\ LeadOf[o] = LeadOf[v]
    /\ fate[o] = "Stands"
    /\ fate[v] \in {"Refused", "Gone"}
    /\ Disclaim({LeadOf[v]})

VisitPromiseNext ==
    \/ \E v \in Visits :
          \/ \E o \in (Visits \ {v}) \cup {NoVisit} : Attempt(v, o)
          \/ Enter(v) \/ Establish(v) \/ Refuse(v)
          \/ AskToCancel(v) \/ Withdraw(v) \/ Cancel(v)
    \/ \E lost \in SUBSET Visits : Overtake(lost)
    \/ \E o, v \in Visits : TakeUpAgain(o, v)

VisitPromiseSpec == VisitPromiseInit /\ [][VisitPromiseNext]_visitPromise
=============================================================================
