----------------------------- MODULE VisitDesk -----------------------------
(***************************************************************************)
(* One Contact's visits as the tools of Maia and the agenda see them: the  *)
(* times a Conversation was shown (domain/appointments.py), who would be   *)
(* responsible and who is (domain/commercial/assignment.py, scheduling/    *)
(* advisors.py), the visit that puts both in force, and the follow-up it   *)
(* leaves on the Opportunity (scheduling/appointments.py,                  *)
(* appointment_handoff.py).  AppointmentBooking has the calendar's side    *)
(* of the same calls: unknown outcomes, evidence, replays and notices.     *)
(*                                                                         *)
(* A call awaits the calendar twice, to read and to write, and keeps the   *)
(* Opportunity it loaded first; commits expire nothing and the locking     *)
(* queries return the loaded object.                                       *)
(*                                                                         *)
(* A definition named Slip... is the one below it with a plausible bug.    *)
(***************************************************************************)
EXTENDS Naturals, FiniteSets

CONSTANTS
    Advisors,
    NoAdvisor,
    Starts,      \* times of the grid
    Calls,       \* bookings and reschedules, each naming one row it may write
    NoCall,
    StartOf,     \* the time each asks for
    Moves,       \* the visit a reschedule moves, or NoCall for a booking
    MaxTurns     \* bound: changes of the team, the calendars and the next action

ASSUME VisitAssumption ==
    /\ NoAdvisor \notin Advisors
    /\ NoCall \notin Calls
    /\ {"None", "Other"} \cap Calls = {}
    /\ StartOf \in [Calls -> Starts]
    /\ Moves \in [Calls -> Calls \cup {NoCall}]
    /\ MaxTurns \in Nat

VARIABLES
    rule,      \* whom the assignment rule would choose now
    owner,     \* the open assignment of the Opportunity
    pursuit,   \* its stage: Open, Qualified, Visiting, Closed
    taken,     \* what the calendars and the declared absences block
    quoted,    \* the snapshot's times, and whether its horizon is still ahead
    shown,     \* every time the Conversation was ever shown
    past,      \* times that have begun
    call,      \* each call: None, Checked, Found, Persisted, TakenUp, Over
    kept,      \* what it loaded: the stage, the owner, and who would attend
    row,       \* the appointments row of each call
    takenUp,   \* the row of another call a move writes, and its status then
    onCalendar,\* calls whose event is on the calendar
    pending,   \* the Pending next action: None, Other, or one visit's follow-up
    applied,   \* the booking that assigned the Opportunity, or NoCall
    turns      \* changes so far

agendaVars == <<rule, owner, pursuit, taken, quoted, shown, past, call, kept, row, takenUp,
               onCalendar, pending, applied, turns>>
crm == <<rule, owner, pursuit, pending, applied, turns>>

NoVisit == [state |-> "None", advisor |-> NoAdvisor, attending |-> NoAdvisor, attended |-> FALSE]
NoHold == [stage |-> "None", owner |-> NoAdvisor, attending |-> NoAdvisor]
NoRowThere == [of |-> NoCall, state |-> "None"]
IsBooking(c) == Moves[c] = NoCall

\* The rule keeps an owner before it chooses.
Rule(a) == IF a # NoAdvisor THEN a ELSE rule

\* Rows that block a time of the calendar they were written to.
Blocks(c) ==
    \/ row[c].state \in {"Pending", "Confirmed", "NeedsReview"}
    \/ row[c].state = "Rescheduled" /\ c \in onCalendar
FreeStarts(a) ==
    {s \in Starts \ past : /\ <<a, s>> \notin taken
                           /\ \A c \in Calls : row[c].attending = a /\ StartOf[c] = s => ~Blocks(c)}

-----------------------------------------------------------------------------
(* Times. *)

Requote(a) ==
    /\ quoted' = [usable |-> TRUE, starts |-> FreeStarts(a)]
    /\ shown' = shown \cup FreeStarts(a)

\* get_available_slots: a usable snapshot is answered as it is.
GetAvailableSlots ==
    /\ ~quoted.usable
    /\ pursuit # "Closed" /\ Rule(owner) # NoAdvisor
    /\ Requote(Rule(owner))
    /\ UNCHANGED <<crm, taken, past, call, kept, row, onCalendar, takenUp>>

\* Exact membership in the snapshot; the Property and the time must still do.
Offered(c) == quoted.usable /\ StartOf[c] \in quoted.starts

\* The row of another call for the same time: the idempotency key is the time.
OfTheSameTime(c) == {d \in Calls \ {c} : StartOf[d] = StartOf[c] /\ row[d].state # "None"}
KeyTaken(c) == OfTheSameTime(c) # {}

\* Who would own the visit is who must be free.
CheckBooking(c) ==
    /\ call[c] = "None" /\ IsBooking(c)
    /\ Offered(c) /\ ~KeyTaken(c)
    /\ pursuit # "Closed" /\ Rule(owner) # NoAdvisor
    /\ call' = [call EXCEPT ![c] = "Checked"]
    /\ kept' = [kept EXCEPT ![c] = [stage |-> pursuit, owner |-> owner, attending |-> Rule(owner)]]
    /\ UNCHANGED <<crm, taken, quoted, shown, past, row, onCalendar, takenUp>>

\* The Contact's own visit that is still to come.
IsToCome(c) == row[c].state = "Confirmed" /\ StartOf[c] \notin past

\* No reschedule of the visit has a row, other than a rejected one.
NoSuccessor(v) == \A d \in Calls : Moves[d] = v => row[d].state \in {"None", "Rejected"}

\* A reschedule locks the visit it moves until it commits.
Held(v) == \E c \in Calls : Moves[c] = v /\ call[c] \in {"Checked", "Found", "TakenUp"}

\* A reschedule asks nothing of the snapshot, and its Advisor is the visit's.
CheckMove(c) ==
    /\ call[c] = "None" /\ ~IsBooking(c)
    /\ IsToCome(Moves[c]) /\ ~Held(Moves[c]) /\ NoSuccessor(Moves[c])
    /\ StartOf[c] # StartOf[Moves[c]]
    /\ call' = [call EXCEPT ![c] = "Checked"]
    /\ kept' = [kept EXCEPT ![c] = [NoHold EXCEPT !.attending = row[Moves[c]].attending]]
    /\ UNCHANGED <<crm, taken, quoted, shown, past, row, onCalendar, takenUp>>

\* The live read.  A refusal replaces what the Conversation was shown, for the
\* Opportunity the session holds.
FindSlot(c) ==
    /\ call[c] = "Checked"
    /\ LET again == Rule(IF IsBooking(c) THEN kept[c].owner ELSE owner)
       IN \/ /\ StartOf[c] \in FreeStarts(kept[c].attending)
             /\ call' = [call EXCEPT ![c] = "Found"]
             /\ UNCHANGED <<quoted, shown>>
          \/ /\ StartOf[c] \notin FreeStarts(kept[c].attending)
             /\ call' = [call EXCEPT ![c] = "Over"]
             /\ IF pursuit # "Closed" /\ again # NoAdvisor
                  THEN Requote(again) ELSE UNCHANGED <<quoted, shown>>
    /\ UNCHANGED <<crm, taken, past, kept, row, onCalendar, takenUp>>

-----------------------------------------------------------------------------
(* The visit. *)

\* The time was taken while the call read: by a row of another Conversation,
\* which the table refuses, or only in the calendar.
MayCollide(c) == <<kept[c].attending, StartOf[c]>> \in taken
Writes(c) == IF KeyTaken(c) THEN {FALSE} ELSE IF MayCollide(c) THEN BOOLEAN ELSE {TRUE}

WriteRow(c, a) ==
    row' = [row EXCEPT ![c] = [state |-> "Pending", advisor |-> a,
                                   attending |-> kept[c].attending, attended |-> FALSE]]

SlipPersistBooking(c) ==
    /\ call[c] = "Found" /\ IsBooking(c)
    /\ \E stands \in Writes(c) :
         /\ call' = [call EXCEPT ![c] = IF stands THEN "Persisted" ELSE "Over"]
         /\ owner' = Rule(owner)
         /\ applied' = IF owner = NoAdvisor /\ Rule(owner) # NoAdvisor THEN c ELSE applied
         /\ IF stands /\ Rule(owner) # NoAdvisor THEN WriteRow(c, Rule(owner)) ELSE UNCHANGED row
    /\ UNCHANGED <<turns, rule, pursuit, taken, quoted, shown, past, kept, onCalendar, pending, takenUp>>

\* The rule is applied for real and the attempt committed with it.  A queued
\* Opportunity, and a time somebody else claimed, leave neither.
PersistBooking(c) ==
    /\ call[c] = "Found" /\ IsBooking(c)
    /\ \E stands \in Writes(c) :
         IF stands /\ Rule(owner) # NoAdvisor
           THEN /\ call' = [call EXCEPT ![c] = "Persisted"]
                /\ WriteRow(c, Rule(owner))
                /\ owner' = Rule(owner)
                /\ applied' = IF owner = NoAdvisor THEN c ELSE applied
           ELSE /\ call' = [call EXCEPT ![c] = "Over"]
                /\ UNCHANGED <<row, owner, applied>>
    /\ UNCHANGED <<turns, rule, pursuit, taken, quoted, shown, past, kept, onCalendar, pending, takenUp>>

\* The table has one successor of a visit, and one row of a time: a row written
\* since the call looked ends it.
PersistMove(c) ==
    /\ call[c] = "Found" /\ ~IsBooking(c)
    /\ \E stands \in Writes(c) :
         IF stands /\ NoSuccessor(Moves[c])
           THEN call' = [call EXCEPT ![c] = "Persisted"] /\ WriteRow(c, row[Moves[c]].advisor)
           ELSE call' = [call EXCEPT ![c] = "Over"] /\ UNCHANGED row
    /\ UNCHANGED <<crm, taken, quoted, shown, past, kept, onCalendar, takenUp>>

\* The row that is there is taken up as it is: nothing is committed.  One that
\* is Confirmed is the answer.
TakeUpRow(c) ==
    /\ call[c] = "Found" /\ ~IsBooking(c)
    /\ \E d \in OfTheSameTime(c) :
         IF row[d].state = "Confirmed"
           THEN call' = [call EXCEPT ![c] = "Over"] /\ UNCHANGED takenUp
           ELSE /\ call' = [call EXCEPT ![c] = "TakenUp"]
                /\ takenUp' = [takenUp EXCEPT ![c] = [of |-> d, state |-> row[d].state]]
    /\ UNCHANGED <<crm, taken, quoted, shown, past, kept, row, onCalendar>>

\* AppointmentHandoff.complete for an Opportunity at "stage" as this session
\* has it: the follow-up supersedes what was owed.
HandOff(c, stage) ==
    /\ pending' = c
    /\ pursuit' = IF stage = "Qualified" THEN "Visiting" ELSE pursuit

\* A row that was closed may be refused by the table when it is to stand again:
\* its visit has another successor by then, or somebody else the time.
Stands(c) ==
    IF \E d \in Calls \ {c} : /\ ~IsBooking(c) /\ Moves[d] = Moves[c]
                               /\ row[d].state \notin {"None", "Rejected"}
      THEN {FALSE}
      ELSE IF ~Blocks(c) /\ <<row[c].attending, StartOf[c]>> \in taken THEN BOOLEAN ELSE {TRUE}

\* The write ended with no conclusive answer; the event may be there.  A status
\* that is the one the call read is not written.
Inconclusive(c, read) ==
    /\ \E stands \in Stands(c) :
         row' = [row EXCEPT ![c].state = IF read = "NeedsReview" \/ ~stands THEN @ ELSE "NeedsReview"]
    /\ onCalendar' \in {onCalendar, onCalendar \cup {c}}
    /\ UNCHANGED <<pending, pursuit>>

RecordBooking(c) ==
    /\ call[c] = "Persisted" /\ IsBooking(c)
    /\ call' = [call EXCEPT ![c] = "Over"]
    /\ \/ /\ onCalendar' = onCalendar \cup {c}
          /\ \E stands \in Stands(c) :
               IF stands THEN row' = [row EXCEPT ![c].state = "Confirmed"] /\ HandOff(c, kept[c].stage)
                         ELSE UNCHANGED <<row, pending, pursuit>>
       \/ Inconclusive(c, "Pending")
    /\ UNCHANGED <<turns, rule, owner, applied, taken, quoted, shown, past, kept, takenUp>>

\* The new event, then the release of the old one, then the row and the handoff:
\* for an Opportunity closed meanwhile it raises, as the table may, and only the
\* rows are rolled back.
Replace(v, c, keeps) ==
    /\ onCalendar' = IF keeps THEN onCalendar \cup {c} ELSE (onCalendar \cup {c}) \ {v}
    /\ \E stands \in Stands(c) :
         IF pursuit = "Closed" \/ ~stands
           THEN UNCHANGED <<row, pending, pursuit>>
           ELSE /\ row' = [row EXCEPT ![c].state = "Confirmed", ![v].state = "Rescheduled"]
                /\ HandOff(c, pursuit)

RecordMove(c) ==
    /\ call[c] = "Persisted" /\ ~IsBooking(c)
    /\ call' = [call EXCEPT ![c] = "Over"]
    /\ (\E keeps \in BOOLEAN : Replace(Moves[c], c, keeps)) \/ Inconclusive(c, "Pending")
    /\ UNCHANGED <<turns, rule, owner, applied, taken, quoted, shown, past, kept, takenUp>>

\* The same for a row that was there.
RecordTakenUp(c) ==
    /\ call[c] = "TakenUp"
    /\ call' = [call EXCEPT ![c] = "Over"]
    /\ LET d == takenUp[c].of
       IN (\E keeps \in BOOLEAN : Replace(Moves[c], d, keeps)) \/ Inconclusive(d, takenUp[c].state)
    /\ UNCHANGED <<turns, rule, owner, applied, taken, quoted, shown, past, kept, takenUp>>

\* The worker finds an attempt nobody finished.
RecoverAttempt(c) ==
    /\ row[c].state = "Pending"
    /\ row' = [row EXCEPT ![c].state = "NeedsReview"]
    /\ UNCHANGED <<crm, taken, quoted, shown, past, call, kept, onCalendar, takenUp>>

\* ConfirmBooking and RejectBooking, each with the calendar's evidence.
ResolveAttempt(c) ==
    /\ row[c].state = "NeedsReview"
    /\ \/ /\ c \notin onCalendar
          /\ row' = [row EXCEPT ![c].state = "Rejected"]
          /\ UNCHANGED <<pursuit, pending, onCalendar>>
       \/ /\ c \in onCalendar /\ IsBooking(c) /\ pursuit # "Closed"
          /\ row' = [row EXCEPT ![c].state = "Confirmed"]
          /\ HandOff(c, pursuit)
          /\ UNCHANGED onCalendar
       \/ /\ c \in onCalendar /\ ~IsBooking(c)
          /\ row[Moves[c]].state = "Confirmed" /\ ~Held(Moves[c])
          /\ \E keeps \in BOOLEAN : Replace(Moves[c], c, keeps)
    /\ UNCHANGED <<turns, rule, owner, applied, taken, quoted, shown, past, call, kept, takenUp>>

\* Says nothing about the Opportunity, its follow-up included.
CancelVisit(c) ==
    /\ row[c].state = "Confirmed" /\ ~Held(c) /\ NoSuccessor(c)
    /\ row' = [row EXCEPT ![c].state = "Cancelled"]
    /\ onCalendar' = onCalendar \ {c}
    /\ UNCHANGED <<crm, taken, quoted, shown, past, call, kept, takenUp>>

HasBegun(c) == StartOf[c] \in past

\* The follow-up that is pending is completed, whichever visit it was for, and
\* another action may be scheduled.
SettleFollowUp ==
    \/ pending' = IF pending \in Calls THEN "None" ELSE pending
    \/ pursuit # "Closed" /\ pending' = "Other"

\* A person records it.
RecordOutcome(c) ==
    /\ row[c].state \in {"Confirmed", "NeedsReview"}
    /\ HasBegun(c) /\ ~row[c].attended /\ ~Held(c)
    /\ row' = [row EXCEPT ![c].attended = TRUE]
    /\ SettleFollowUp
    /\ UNCHANGED <<turns, rule, owner, pursuit, applied, taken, quoted, shown, past, call, kept, onCalendar, takenUp>>

-----------------------------------------------------------------------------
(* The team, the clock and the CRM. *)

\* Experts, absences, deactivations: the rule answers somebody else.
Turn == turns < MaxTurns /\ turns' = turns + 1

TeamChanges ==
    /\ Turn
    /\ \E a \in Advisors \cup {NoAdvisor} : a # rule /\ rule' = a
    /\ UNCHANGED <<owner, pursuit, pending, applied, taken, quoted, shown, past, call, kept, row,
                   onCalendar, takenUp>>

AssignManually ==
    /\ Turn
    /\ \E a \in Advisors : a # owner /\ owner' = a
    /\ applied' = NoCall
    /\ UNCHANGED <<rule, pursuit, pending, taken, quoted, shown, past, call, kept, row, onCalendar, takenUp>>

\* Events, other Conversations' visits and absences come and go.
CalendarChanges ==
    /\ Turn
    /\ \E at \in Advisors \X Starts : taken' = (taken \ {at}) \cup ({at} \ taken)
    /\ UNCHANGED <<rule, owner, pursuit, pending, applied, quoted, shown, past, call, kept, row,
                   onCalendar, takenUp>>

StartPasses ==
    /\ \E s \in Starts \ past : past' = past \cup {s}
    /\ UNCHANGED <<crm, taken, quoted, shown, call, kept, row, onCalendar, takenUp>>

HorizonPasses ==
    /\ Turn
    /\ quoted.usable
    /\ quoted' = [quoted EXCEPT !.usable = FALSE]
    /\ UNCHANGED <<rule, owner, pursuit, pending, applied, taken, shown, past, call, kept, row, onCalendar, takenUp>>

Qualify ==
    /\ pursuit = "Open"
    /\ pursuit' = "Qualified"
    /\ UNCHANGED <<turns, rule, owner, pending, applied, taken, quoted, shown, past, call, kept, row,
                   onCalendar, takenUp>>

\* Won, Lost or Dormant: what was owed is no longer, and no visit is looked at.
ClosePursuit ==
    /\ pursuit # "Closed"
    /\ pursuit' = "Closed"
    /\ pending' = "None"
    /\ UNCHANGED <<turns, rule, owner, applied, taken, quoted, shown, past, call, kept, row, onCalendar, takenUp>>

ScheduleAction ==
    /\ Turn
    /\ pursuit # "Closed" /\ pending # "Other"
    /\ pending' = "Other"
    /\ UNCHANGED <<rule, owner, pursuit, applied, taken, quoted, shown, past, call, kept, row,
                   onCalendar, takenUp>>

VisitInit ==
    /\ rule \in Advisors \cup {NoAdvisor} /\ owner = NoAdvisor /\ pursuit = "Open"
    /\ taken = {} /\ past = {} /\ shown = {} /\ onCalendar = {}
    /\ quoted = [usable |-> FALSE, starts |-> {}]
    /\ call = [c \in Calls |-> "None"] /\ kept = [c \in Calls |-> NoHold]
    /\ row = [c \in Calls |-> NoVisit] /\ takenUp = [c \in Calls |-> NoRowThere]
    /\ pending = "None" /\ applied = NoCall /\ turns = 0

BookingStep(c) == CheckBooking(c) \/ PersistBooking(c) \/ RecordBooking(c)
MoveStep(c) ==
    CheckMove(c) \/ PersistMove(c) \/ RecordMove(c) \/ TakeUpRow(c) \/ RecordTakenUp(c)
ReviewStep(c) == RecoverAttempt(c) \/ ResolveAttempt(c)
AgendaStep(c) == CancelVisit(c) \/ RecordOutcome(c)
WorldStep == TeamChanges \/ AssignManually \/ CalendarChanges \/ StartPasses \/ HorizonPasses
PursuitStep == Qualify \/ ClosePursuit \/ ScheduleAction

VisitNext ==
    \/ GetAvailableSlots \/ WorldStep \/ PursuitStep
    \/ \E c \in Calls : FindSlot(c) \/ BookingStep(c) \/ MoveStep(c) \/ ReviewStep(c) \/ AgendaStep(c)

VisitSpec == VisitInit /\ [][VisitNext]_agendaVars

-----------------------------------------------------------------------------
VisitTypeOK ==
    /\ rule \in Advisors \cup {NoAdvisor} /\ owner \in Advisors \cup {NoAdvisor}
    /\ pursuit \in {"Open", "Qualified", "Visiting", "Closed"}
    /\ taken \subseteq Advisors \X Starts /\ past \subseteq Starts /\ shown \subseteq Starts
    /\ quoted \in [usable : BOOLEAN, starts : SUBSET Starts]
    /\ call \in [Calls -> {"None", "Checked", "Found", "Persisted", "TakenUp", "Over"}]
    /\ kept \in [Calls -> [stage : {"None", "Open", "Qualified", "Visiting"},
                           owner : Advisors \cup {NoAdvisor},
                           attending : Advisors \cup {NoAdvisor}]]
    /\ row \in [Calls -> [state : {"None", "Pending", "Confirmed", "NeedsReview", "Rejected",
                                     "Cancelled", "Rescheduled"},
                            advisor : Advisors \cup {NoAdvisor},
                            attending : Advisors \cup {NoAdvisor}, attended : BOOLEAN]]
    /\ takenUp \in [Calls -> [of : Calls \cup {NoCall},
                              state : {"None", "Pending", "NeedsReview", "Rejected", "Cancelled",
                                        "Rescheduled"}]]
    /\ onCalendar \subseteq Calls
    /\ pending \in Calls \cup {"None", "Other"}
    /\ applied \in Calls \cup {NoCall} /\ turns \in 0..MaxTurns

\* Rows that a move has taken up.
TakenUpRows == {takenUp[c].of : c \in Calls} \ {NoCall}

\* Nobody is made responsible by a booking that left no visit, every visit has
\* an Advisor, a booked one begins at a time the Conversation was shown, and an
\* outcome or a follow-up belongs to a visit that came about: a row that a move
\* takes up may be rejected after all, with what it had left still owed.
VisitsAreAnswerable ==
    /\ applied # NoCall => row[applied].state # "None" /\ row[applied].advisor = owner
    /\ \A c \in Calls :
         /\ row[c].state # "None" => row[c].advisor # NoAdvisor /\ row[c].attending # NoAdvisor
         /\ row[c].state # "None" /\ IsBooking(c) => StartOf[c] \in shown
         /\ row[c].attended => StartOf[c] \in past
         /\ pending = c /\ c \notin TakenUpRows => row[c].state \notin {"None", "Pending", "Rejected"}

-----------------------------------------------------------------------------
(* What the code does not keep. *)

\* The person who receives a visit is the one responsible for it.
AttendedByTheOwner == \A c \in Calls : row[c].state = "Confirmed" => row[c].advisor = row[c].attending

\* Whatever fails, a visit that stays Confirmed stays on its calendar.
OriginalStaysAsItWas == \A c \in Calls : row[c].state = "Confirmed" => c \in onCalendar

\* A closed pursuit is not put back to Visiting.
ClosedIsLeftAlone == [][pursuit = "Closed" => pursuit' = "Closed"]_agendaVars

\* A follow-up is owed for a visit that came about, whatever took its row up.
FollowUpsHaveVisits == \A c \in Calls : pending = c => row[c].state \notin {"Pending", "Rejected"}

\* Recording a visit settles the follow-up of that visit.
OutcomeSettlesItsVisit == \A c \in Calls : row[c].attended => pending # c

\* Every visit held is recorded by its own follow-up.
OwnFollowUpIsKept ==
    [][\A c \in Calls : pending = c /\ pending' = "None" => row'[c].attended \/ pursuit' = "Closed"]_agendaVars
=============================================================================
