-------------------------- MODULE ScheduledContact --------------------------
(***************************************************************************)
(* Messages the operation owes on a schedule: the follow-ups of a Lead's   *)
(* 30-day cycle (domain/followups.py, worker/followups.py) and the         *)
(* reminders of a confirmed visit (domain/scheduling/reminders.py), which  *)
(* are created and settled but never sent while their policy is off.       *)
(*                                                                         *)
(* A pass of either worker reads what is due without a lock.  The          *)
(* follow-ups it found are attempted one transaction each; the reminders   *)
(* are all settled in one.                                                 *)
(*                                                                         *)
(* A definition named Slip... is the one below it with a plausible bug.    *)
(***************************************************************************)
EXTENDS Naturals

CONSTANTS
    Cycles,     \* engagement cycles, one Conversation each
    LastDay,    \* number of days in the cadence
    Workers,    \* processes that run the two workers
    Visits      \* appointments

ASSUME ScheduleAssumption == LastDay \in Nat \ {0}

VARIABLES
    age,          \* cadence days of the cycle that have come due
    expired,      \* cycles whose thirty days are over
    suppressed,   \* cycles whose Lead has replied or opted out
    picked,       \* attempts that a pass still has to make
    attempt,      \* status of the lead_followups row of a cycle and day
    queued,       \* attempts with an Outbox row
    decided,      \* outbound_decisions rows for a cycle and day
    visit,        \* status of the appointment, and Begun once it has started
    reminder,     \* outcome of each appointment_reminders row, None without one
    settling      \* outcomes that a pass has decided on and not committed

contactVars == <<age, expired, suppressed, picked, attempt, queued, decided>>
visitVars == <<visit, reminder, settling>>
scheduleVars == <<contactVars, visitVars>>

Attempts == Cycles \X (1..LastDay)
ReminderKinds == {"DayBefore", "DayOf"}
Reminders == Visits \X ReminderKinds

DueAttempts == {a \in Attempts : a[2] <= age[a[1]] /\ a[1] \notin expired /\ attempt[a] = "None"}

-----------------------------------------------------------------------------
DayComesDue(c) ==
    /\ age[c] < LastDay
    /\ age' = [age EXCEPT ![c] = @ + 1]
    /\ UNCHANGED <<expired, suppressed, picked, attempt, queued, decided, visitVars>>

CycleExpires(c) ==
    /\ c \notin expired
    /\ expired' = expired \cup {c}
    /\ UNCHANGED <<age, suppressed, picked, attempt, queued, decided, visitVars>>

ContactStops(c) ==
    /\ c \notin suppressed
    /\ suppressed' = suppressed \cup {c}
    /\ UNCHANGED <<age, expired, picked, attempt, queued, decided, visitVars>>

\* One query for the cycles and one for the rows there are.
PickDue(w) ==
    /\ picked[w] = {}
    /\ DueAttempts # {}
    /\ picked' = [picked EXCEPT ![w] = DueAttempts]
    /\ UNCHANGED <<age, expired, suppressed, attempt, queued, decided, visitVars>>

\* The gate's answer; it refuses for other reasons too.
Verdicts(c) == IF c \in suppressed THEN {"Blocked"} ELSE {"Blocked", "Enqueued"}

\* The decision and the message are there before the row that may collide.
SlipAttempt(w, a, verdict) ==
    /\ attempt' = [attempt EXCEPT ![a] = IF @ = "None" THEN verdict ELSE @]
    /\ queued' = IF verdict = "Enqueued" THEN queued \cup {a} ELSE queued
    /\ decided' = [decided EXCEPT ![a] = @ + 1]

\* Decision, message and row commit together.  The loser of a race for the row
\* rolls all three back.
Attempt(w, a, verdict) ==
    IF attempt[a] = "None"
    THEN /\ attempt' = [attempt EXCEPT ![a] = verdict]
         /\ queued' = IF verdict = "Enqueued" THEN queued \cup {a} ELSE queued
         /\ decided' = [decided EXCEPT ![a] = @ + 1]
    ELSE UNCHANGED <<attempt, queued, decided>>

AttemptOne(w) ==
    \E a \in picked[w] :
        /\ \E verdict \in Verdicts(a[1]) : Attempt(w, a, verdict)
        /\ picked' = [picked EXCEPT ![w] = @ \ {a}]
        /\ UNCHANGED <<age, expired, suppressed, visitVars>>

\* The worker stops; what it committed stays.
InterruptFollowUps(w) ==
    /\ picked[w] # {}
    /\ picked' = [picked EXCEPT ![w] = {}]
    /\ UNCHANGED <<age, expired, suppressed, attempt, queued, decided, visitVars>>

-----------------------------------------------------------------------------
\* AppointmentHandoff.complete, in the transaction of the confirmation.
ScheduleReminders(v) ==
    /\ visit[v] = "None"
    /\ visit' = [visit EXCEPT ![v] = "Confirmed"]
    /\ reminder' = [r \in Reminders |-> IF r[1] = v THEN "Owed" ELSE reminder[r]]
    /\ UNCHANGED <<contactVars, settling>>

VisitChanges(v) ==
    /\ visit[v] = "Confirmed"
    /\ \E s \in {"Cancelled", "Begun"} : visit' = [visit EXCEPT ![v] = s]
    /\ UNCHANGED <<contactVars, reminder, settling>>

ReminderComesDue(r) ==
    /\ reminder[r] = "Owed"
    /\ reminder' = [reminder EXCEPT ![r] = "Due"]
    /\ UNCHANGED <<contactVars, visit, settling>>

\* The status of the visit was read with the reminder.
Outcome(r) ==
    CASE visit[r[1]] = "Cancelled" -> "AppointmentNotConfirmed"
      [] visit[r[1]] = "Begun" -> "VisitAlreadyStarted"
      [] OTHER -> "PolicyNotValidated"

ReadReminders(w) ==
    LET found == {r \in Reminders : reminder[r] = "Due"} IN
    /\ settling[w] = <<>>
    /\ found # {}
    /\ settling' = [settling EXCEPT ![w] = [r \in found |-> Outcome(r)]]
    /\ UNCHANGED <<contactVars, visit, reminder>>

SettleReminders(w) ==
    /\ settling[w] # <<>>
    /\ reminder' = [r \in Reminders |->
                       IF r \in DOMAIN settling[w] THEN settling[w][r] ELSE reminder[r]]
    /\ settling' = [settling EXCEPT ![w] = <<>>]
    /\ UNCHANGED <<contactVars, visit>>

InterruptReminders(w) ==
    /\ settling[w] # <<>>
    /\ settling' = [settling EXCEPT ![w] = <<>>]
    /\ UNCHANGED <<contactVars, visit, reminder>>

-----------------------------------------------------------------------------
ScheduleInit ==
    /\ age = [c \in Cycles |-> 0] /\ expired = {} /\ suppressed = {}
    /\ picked = [w \in Workers |-> {}]
    /\ attempt = [a \in Attempts |-> "None"]
    /\ queued = {}
    /\ decided = [a \in Attempts |-> 0]
    /\ visit = [v \in Visits |-> "None"]
    /\ reminder = [r \in Reminders |-> "None"]
    /\ settling = [w \in Workers |-> <<>>]

CycleStep(c) == DayComesDue(c) \/ CycleExpires(c) \/ ContactStops(c)
FollowUpStep(w) == PickDue(w) \/ AttemptOne(w) \/ InterruptFollowUps(w)
ReminderStep(w) == ReadReminders(w) \/ SettleReminders(w) \/ InterruptReminders(w)

ScheduleNext ==
    \/ \E c \in Cycles : CycleStep(c)
    \/ \E w \in Workers : FollowUpStep(w) \/ ReminderStep(w)
    \/ \E v \in Visits : ScheduleReminders(v) \/ VisitChanges(v)
    \/ \E r \in Reminders : ReminderComesDue(r)

ScheduleSpec == ScheduleInit /\ [][ScheduleNext]_scheduleVars

-----------------------------------------------------------------------------
(***************************************************************************)
(* Properties.                                                             *)
(***************************************************************************)

AttemptStates == {"None", "Blocked", "Enqueued"}
ReminderStates == {"None", "Owed", "Due", "AppointmentNotConfirmed", "VisitAlreadyStarted",
                   "PolicyNotValidated"}

ScheduleTypeOK ==
    /\ age \in [Cycles -> 0..LastDay]
    /\ expired \subseteq Cycles /\ suppressed \subseteq Cycles
    /\ picked \in [Workers -> SUBSET Attempts]
    /\ attempt \in [Attempts -> AttemptStates]
    /\ queued \subseteq Attempts
    /\ decided \in [Attempts -> Nat]
    /\ visit \in [Visits -> {"None", "Confirmed", "Cancelled", "Begun"}]
    /\ reminder \in [Reminders -> ReminderStates]

\* Whatever two workers find due at once and wherever one stops: a follow-up
\* has a message exactly when its row says so, and one decision stands behind
\* every row, none without.
AttemptsAreWhole ==
    \A a \in Attempts :
        /\ a \in queued <=> attempt[a] = "Enqueued"
        /\ decided[a] = (IF attempt[a] = "None" THEN 0 ELSE 1)

\* What settle_due says: every due reminder is settled exactly once.  Two
\* processes settle it twice, with different outcomes when the visit has
\* changed in between.
RemindersSettleOnce ==
    [][\A r \in Reminders : reminder[r] \notin {"None", "Owed", "Due"} => reminder'[r] = reminder[r]]_scheduleVars
=============================================================================
