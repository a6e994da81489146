------------------------- MODULE AppointmentBooking -------------------------
(***************************************************************************)
(* Visits between the database and an Advisor's calendar: booking, moving  *)
(* and cancelling (domain/scheduling/appointments.py), the recovery of     *)
(* interrupted attempts and an Administrator's resolution of ambiguous     *)
(* ones (domain/admin_work.py), and the notice the Contact is owed         *)
(* (domain/appointments.py).                                               *)
(*                                                                         *)
(* The calendar is an external service (channels/google/calendar.py): a    *)
(* request may take effect although its answer is lost.  An operation is a *)
(* handler that alternates transactions and calendar calls; other handlers *)
(* and the background loop run in between.  Whatever an unknown answer did *)
(* to the calendar, it did before the answer was given up.                 *)
(*                                                                         *)
(* The rows modelled belong to one calendar and lie in the future.  A      *)
(* visit is one idempotency key: Conversation, Property and start.         *)
(*                                                                         *)
(* A definition named Slip... is the one below it with a plausible bug;    *)
(* each is there to show that a property notices that bug.                 *)
(***************************************************************************)
EXTENDS Naturals, FiniteSets

CONSTANTS
    Visits,       \* idempotency keys
    LeadOf,       \* the Conversation and Property of a visit
    SlotOf,       \* the interval of a visit; distinct slots do not overlap
    NoVisit,      \* a NULL rescheduled_from_id
    Handlers,     \* requests served at the same time
    NoHandler,    \* no transaction holds the row
    Followed,     \* bound: the visits whose notices the model follows
    MaxEvents     \* bound: events ever inserted for one visit

ASSUME BookingAssumption ==
    /\ NoVisit \notin Visits
    /\ NoHandler \notin Handlers
    /\ Followed \subseteq Visits
    /\ MaxEvents \in Nat

VARIABLES
    status,       \* appointments.status; "Absent" before the row
    origin,       \* appointments.rescheduled_from_id
    stored,       \* appointments.calendar_event_id; 0 is NULL
    noticed,      \* visits whose lead_notice_at is set
    told,         \* how the Contact learned that a visit is confirmed
    events,       \* live calendar events that carry the visit's reference
    made,         \* events inserted so far
    holder,       \* the handler whose transaction holds the row's lock
    notice        \* the notice the lead worker has read and not yet marked

VARIABLES
    pc,           \* where a handler is
    op,           \* what it does
    visit,        \* the row it works on
    replaced,     \* the visit it moves or that a confirmed one replaces
    event,        \* the event the calendar answered with; 0 if none
    released      \* the calendar confirmed the removal of the old event

\* History.
VARIABLES
    overtaken,    \* attempts recovered while their handler was still at work
    revived,      \* closed rows that a reschedule took up again
    asked         \* visits whose cancellation was asked for

rows     == <<status, origin, stored>>
contact  == <<noticed, told, notice>>
calendar == <<events, made>>
handler  == <<pc, op, visit, replaced, event, released>>
history  == <<overtaken, revived, asked>>
vars     == <<rows, contact, calendar, holder, handler, history>>

Statuses == {"Absent", "Pending", "Confirmed", "Rejected", "NeedsReview",
             "Cancelled", "Rescheduled"}

\* "byHand": the gate refused the message and a person has to tell.
Tellings == {"confirmed", "byHand"}

Operations == {"none", "book", "move", "cancel", "confirm", "reject"}

-----------------------------------------------------------------------------
(***************************************************************************)
(* What the statements and the constraints of the table see.               *)
(***************************************************************************)

\* An attempt whose outcome is unknown does not hold its slot.
SlipReviewFreesSlot(st, sto, v) ==
    \/ st[v] \in {"Pending", "Confirmed"}
    \/ st[v] = "Rescheduled" /\ sto[v] # 0

\* The predicate of ex_appointments_calendar_overlap, and of availability.
Claims(st, sto, v) ==
    \/ st[v] \in {"Pending", "Confirmed", "NeedsReview"}
    \/ st[v] = "Rescheduled" /\ sto[v] # 0

\* ex_appointments_calendar_overlap and uq_appointments_active_reschedule.
Consistent(st, sto, org) ==
    \A v, w \in Visits : v # w =>
        /\ SlotOf[v] = SlotOf[w] => ~Claims(st, sto, v) \/ ~Claims(st, sto, w)
        /\ org[v] = org[w] /\ org[v] # NoVisit =>
              "Rejected" \in {st[v], st[w]}

\* find_slots: neither the calendar nor the table has anything in the slot.
SlotFree(v) ==
    \A w \in Visits : SlotOf[w] = SlotOf[v] =>
        /\ events[w] = {}
        /\ ~Claims(status, stored, w)

ActiveSuccessor(v) ==
    \E w \in Visits : origin[w] = v /\ status[w] # "Rejected"

Unlocked(v) == holder[v] = NoHandler

\* Which locks are left when a handler's transaction ends.
Freed(h) == [v \in Visits |-> IF holder[v] = h THEN NoHandler ELSE holder[v]]

\* The rows a handler may be creating an event for.
InFlight ==
    {visit[h] : h \in {g \in Handlers :
        pc[g] \in {"creating", "releasing", "recording"} /\ op[g] \in {"book", "move"}}}

\* The handler returns its answer and forgets.
Finish(h) ==
    /\ pc' = [pc EXCEPT ![h] = "idle"]
    /\ op' = [op EXCEPT ![h] = "none"]
    /\ visit' = [visit EXCEPT ![h] = NoVisit]
    /\ replaced' = [replaced EXCEPT ![h] = NoVisit]
    /\ event' = [event EXCEPT ![h] = 0]
    /\ released' = [released EXCEPT ![h] = FALSE]
    /\ holder' = Freed(h)

\* The handler takes on an operation; event is what it knows already.
Begin(h, operation, v, old, e, place) ==
    /\ pc[h] = "idle"
    /\ pc' = [pc EXCEPT ![h] = place]
    /\ op' = [op EXCEPT ![h] = operation]
    /\ visit' = [visit EXCEPT ![h] = v]
    /\ replaced' = [replaced EXCEPT ![h] = old]
    /\ event' = [event EXCEPT ![h] = e]
    /\ UNCHANGED released

-----------------------------------------------------------------------------
(***************************************************************************)
(* Booking and moving.                                                     *)
(***************************************************************************)

\* A key that exists is answered from its row and changes nothing.
BeginBook(h, v) ==
    /\ status[v] = "Absent"
    /\ SlotFree(v)
    /\ Begin(h, "book", v, NoVisit, 0, "persisting")
    /\ UNCHANGED <<rows, contact, calendar, holder, history>>

\* The original is locked and checked.  A key that exists is a row whose slot
\* is free again; it is taken up as it is, and the lock is kept.
BeginReschedule(h, o, v) ==
    /\ o # v
    /\ LeadOf[o] = LeadOf[v]
    /\ Unlocked(o)
    /\ status[o] = "Confirmed"
    /\ ~ActiveSuccessor(o)
    /\ SlotFree(v)
    /\ IF status[v] = "Absent"
         THEN /\ Begin(h, "move", v, o, 0, "persisting")
              /\ UNCHANGED revived
         ELSE /\ Begin(h, "move", v, o, 0, "creating")
              /\ revived' = revived \cup {v}
    /\ holder' = [holder EXCEPT ![o] = h]
    /\ UNCHANGED <<rows, contact, calendar, overtaken, asked>>

\* The attempt is committed, or a constraint refuses it; both end the
\* transaction and its locks.
PersistAttempt(h) ==
    LET v   == visit[h]
        st  == [status EXCEPT ![v] = "Pending"]
        org == [origin EXCEPT ![v] = replaced[h]]
    IN
    /\ pc[h] = "persisting"
    /\ IF status[v] = "Absent" /\ Consistent(st, stored, org)
         THEN /\ status' = st
              /\ origin' = org
              /\ pc' = [pc EXCEPT ![h] = "creating"]
              /\ holder' = Freed(h)
              /\ UNCHANGED <<op, visit, replaced, event, released>>
         ELSE Finish(h) /\ UNCHANGED <<status, origin>>
    /\ UNCHANGED <<stored, contact, calendar, history>>

\* create_event: anything but a clear answer is recorded as unknown.
CreateEvent(h) ==
    LET v == visit[h]
        n == made[v] + 1
    IN
    /\ pc[h] = "creating"
    /\ \/ /\ n <= MaxEvents
          /\ events' = [events EXCEPT ![v] = @ \cup {n}]
          /\ made' = [made EXCEPT ![v] = n]
          /\ event' = [event EXCEPT ![h] = n]
          /\ pc' = [pc EXCEPT ![h] = IF op[h] = "book" THEN "recording" ELSE "releasing"]
       \/ /\ n <= MaxEvents
          /\ events' = [events EXCEPT ![v] = @ \cup {n}]
          /\ made' = [made EXCEPT ![v] = n]
          /\ pc' = [pc EXCEPT ![h] = "recording"]
          /\ UNCHANGED event
       \/ /\ pc' = [pc EXCEPT ![h] = "recording"]
          /\ UNCHANGED <<events, made, event>>
    /\ UNCHANGED <<rows, contact, holder, op, visit, replaced, released, history>>

\* The event whose removal frees the old slot.  Only an Administrator's
\* confirmation does not look for an event it has no id of.
ToRemove(h, o) ==
    IF stored[o] # 0 THEN {stored[o]}
    ELSE IF op[h] = "confirm" THEN {} ELSE events[o]

\* _release: several events under one reference are not an answer.
ReleaseEvent(h) ==
    LET o == IF op[h] = "cancel" THEN visit[h] ELSE replaced[h]
        gone == [events EXCEPT ![o] = @ \ ToRemove(h, o)]
    IN
    /\ pc[h] = "releasing"
    /\ \/ /\ Cardinality(ToRemove(h, o)) <= 1
          /\ events' = gone
          /\ released' = [released EXCEPT ![h] = TRUE]
          /\ pc' = [pc EXCEPT ![h] = "recording"]
          /\ UNCHANGED <<op, visit, replaced, event, holder>>
       \/ /\ events' \in {events, gone}
          /\ ToRemove(h, o) = {} => stored[o] = 0 /\ op[h] # "confirm"
          /\ Cardinality(ToRemove(h, o)) > 1 => events' = events
          /\ IF op[h] = "cancel"
               THEN Finish(h)
               ELSE /\ pc' = [pc EXCEPT ![h] = "recording"]
                    /\ UNCHANGED <<op, visit, replaced, event, released, holder>>
    /\ UNCHANGED <<made, rows, contact, history>>

-----------------------------------------------------------------------------
(***************************************************************************)
(* Recording the outcome: one transaction, refused as a whole when it      *)
(* violates a constraint.                                                  *)
(***************************************************************************)

SlipUnknownIsConfirmed(h) == "Confirmed"

\* What a calendar answer makes of the attempt.
Outcome(h) == IF event[h] # 0 THEN "Confirmed" ELSE "NeedsReview"

RecordBooking(h) ==
    LET v == visit[h] IN
    /\ pc[h] = "recording" /\ op[h] = "book"
    /\ Unlocked(v)
    /\ LET st == [status EXCEPT ![v] = Outcome(h)]
       IN  IF Consistent(st, stored, origin)
           THEN /\ status' = st
                /\ stored' = [stored EXCEPT ![v] = IF event[h] # 0 THEN event[h] ELSE @]
           ELSE UNCHANGED <<status, stored>>
    /\ Finish(h)
    /\ UNCHANGED <<origin, contact, calendar, history>>

\* The new visit is confirmed and the original left as it is.
SlipOriginalKept(st, o) == st

Replace(st, o) == [st EXCEPT ![o] = "Rescheduled"]

\* Only a clear answer releases the original, in the transaction that
\* confirms its successor.
RecordMove(h) ==
    LET v  == visit[h]
        o  == replaced[h]
        st == IF event[h] # 0 THEN Replace([status EXCEPT ![v] = "Confirmed"], o)
                              ELSE [status EXCEPT ![v] = "NeedsReview"]
        sto == IF event[h] # 0
               THEN [stored EXCEPT ![v] = event[h], ![o] = IF released[h] THEN 0 ELSE @]
               ELSE stored
    IN
    /\ pc[h] = "recording" /\ op[h] = "move"
    /\ Unlocked(v)
    /\ holder[o] \in {NoHandler, h}
    /\ IF Consistent(st, sto, origin)
         THEN status' = st /\ stored' = sto
         ELSE UNCHANGED <<status, stored>>
    /\ Finish(h)
    /\ UNCHANGED <<origin, contact, calendar, history>>

-----------------------------------------------------------------------------
(***************************************************************************)
(* Cancelling.                                                             *)
(***************************************************************************)

BeginCancel(h, v) ==
    /\ Unlocked(v)
    /\ status[v] = "Confirmed"
    /\ ~ActiveSuccessor(v)
    /\ Begin(h, "cancel", v, NoVisit, 0, "releasing")
    /\ holder' = [holder EXCEPT ![v] = h]
    /\ asked' = asked \cup {v}
    /\ UNCHANGED <<rows, contact, calendar, overtaken, revived>>

RecordCancellation(h) ==
    LET v == visit[h] IN
    /\ pc[h] = "recording" /\ op[h] = "cancel"
    /\ status' = [status EXCEPT ![v] = "Cancelled"]
    /\ stored' = [stored EXCEPT ![v] = 0]
    /\ Finish(h)
    /\ UNCHANGED <<origin, contact, calendar, history>>

-----------------------------------------------------------------------------
(***************************************************************************)
(* Recovery, and the Administrator's resolution.                           *)
(***************************************************************************)

\* Every tick takes every Pending row for stranded.  The Contact is told
\* unless the gate refuses.
RecoverPendingAttempts ==
    LET stranded == {v \in Visits : status[v] = "Pending" /\ Unlocked(v)} IN
    /\ stranded # {}
    /\ status' = [v \in Visits |-> IF v \in stranded THEN "NeedsReview" ELSE status[v]]
    /\ \E informed \in SUBSET (stranded \cap Followed) : noticed' = noticed \cup informed
    /\ overtaken' = overtaken \cup (stranded \cap InFlight)
    /\ UNCHANGED <<origin, stored, told, notice, calendar, holder, handler, revived,
                   asked>>

\* The Administrator's word is taken for it.
SlipNoEvidence(v, decision) == TRUE

\* find_by_reference supports the decision.
Evidence(v, decision) ==
    IF decision = "confirm" THEN Cardinality(events[v]) = 1 ELSE events[v] = {}

\* Confirming a successor also locks the visit it replaces.
BeginResolve(h, v, decision) ==
    LET o == IF decision = "confirm" THEN origin[v] ELSE NoVisit IN
    /\ Unlocked(v)
    /\ status[v] = "NeedsReview"
    /\ Evidence(v, decision)
    /\ o # NoVisit => Unlocked(o) /\ status[o] = "Confirmed"
    /\ \E e \in IF events[v] = {} THEN {0} ELSE events[v] :
          Begin(h, decision, v, o, e, IF o # NoVisit THEN "releasing" ELSE "recording")
    /\ holder' = [w \in Visits |-> IF w \in {v, o} THEN h ELSE holder[w]]
    /\ UNCHANGED <<rows, contact, calendar, history>>

RecordResolution(h) ==
    LET v == visit[h]
        o == replaced[h]
        outcome == IF op[h] = "confirm" THEN "Confirmed" ELSE "Rejected"
    IN
    /\ pc[h] = "recording" /\ op[h] \in {"confirm", "reject"}
    /\ status' = [w \in Visits |-> IF w = v THEN outcome
                                   ELSE IF w = o THEN "Rescheduled" ELSE status[w]]
    /\ stored' = [w \in Visits |-> IF w = v THEN event[h]
                                   ELSE IF w = o /\ released[h] THEN 0 ELSE stored[w]]
    /\ IF op[h] = "confirm" /\ v \in Followed
         THEN \E how \in Tellings : told' = [told EXCEPT ![v] = @ \cup {how}]
         ELSE UNCHANGED told
    /\ Finish(h)
    /\ UNCHANGED <<origin, noticed, notice, calendar, history>>

-----------------------------------------------------------------------------
(***************************************************************************)
(* The lead worker's notice: read, sent with its reply, marked.            *)
(***************************************************************************)

NoNotice == [visit |-> NoVisit, says |-> "none", sent |-> FALSE]

\* The code takes the oldest of the Conversation; here any may be first.
ReadNotice(v) ==
    /\ notice = NoNotice
    /\ v \in Followed \ noticed
    /\ status[v] \in {"Confirmed", "NeedsReview"}
    /\ notice' = [visit |-> v, sent |-> FALSE,
                  says |-> IF status[v] = "Confirmed" THEN "confirmed" ELSE "review"]
    /\ UNCHANGED <<rows, noticed, told, calendar, holder, handler, history>>

\* A refused notice is marked like a sent one.
SlipRefusedIsSent ==
    /\ notice.visit # NoVisit /\ ~notice.sent
    /\ notice' = [notice EXCEPT !.sent = TRUE]
    /\ UNCHANGED <<rows, noticed, told, calendar, holder, handler, history>>

\* Queued with the reply, or refused and owed again later.
SendNotice ==
    /\ notice.visit # NoVisit /\ ~notice.sent
    /\ \/ /\ told' = [told EXCEPT ![notice.visit] =
                      IF notice.says = "confirmed" THEN @ \cup {"confirmed"} ELSE @]
          /\ notice' = [notice EXCEPT !.sent = TRUE]
       \/ /\ notice' = NoNotice
          /\ UNCHANGED told
    /\ UNCHANGED <<rows, noticed, calendar, holder, handler, history>>

MarkLeadNotified ==
    /\ notice.sent
    /\ noticed' = noticed \cup {notice.visit}
    /\ notice' = NoNotice
    /\ UNCHANGED <<rows, told, calendar, holder, handler, history>>

\* The handler's process dies or its transaction fails.
Interrupt(h) ==
    /\ pc[h] # "idle"
    /\ Finish(h)
    /\ UNCHANGED <<rows, contact, calendar, history>>

WorkerInterrupted ==
    /\ notice # NoNotice
    /\ notice' = NoNotice
    /\ UNCHANGED <<rows, noticed, told, calendar, holder, handler, history>>

-----------------------------------------------------------------------------
Init ==
    /\ status = [v \in Visits |-> "Absent"]
    /\ origin = [v \in Visits |-> NoVisit]
    /\ stored = [v \in Visits |-> 0]
    /\ noticed = {}
    /\ told = [v \in Visits |-> {}]
    /\ events = [v \in Visits |-> {}]
    /\ made = [v \in Visits |-> 0]
    /\ holder = [v \in Visits |-> NoHandler]
    /\ notice = NoNotice
    /\ pc = [h \in Handlers |-> "idle"]
    /\ op = [h \in Handlers |-> "none"]
    /\ visit = [h \in Handlers |-> NoVisit]
    /\ replaced = [h \in Handlers |-> NoVisit]
    /\ event = [h \in Handlers |-> 0]
    /\ released = [h \in Handlers |-> FALSE]
    /\ overtaken = {}
    /\ revived = {}
    /\ asked = {}

HandlerStep(h) ==
    \/ \E v \in Visits : BeginBook(h, v) \/ BeginCancel(h, v)
    \/ \E o, v \in Visits : BeginReschedule(h, o, v)
    \/ \E v \in Visits, d \in {"confirm", "reject"} : BeginResolve(h, v, d)
    \/ PersistAttempt(h) \/ CreateEvent(h) \/ ReleaseEvent(h)
    \/ RecordBooking(h) \/ RecordMove(h)
    \/ RecordCancellation(h) \/ RecordResolution(h)
    \/ Interrupt(h)

LoopStep ==
    \/ RecoverPendingAttempts
    \/ \E v \in Visits : ReadNotice(v)
    \/ SendNotice \/ MarkLeadNotified \/ WorkerInterrupted

Next == LoopStep \/ \E h \in Handlers : HandlerStep(h)

Spec == Init /\ [][Next]_vars

-----------------------------------------------------------------------------
(***************************************************************************)
(* Properties.                                                             *)
(***************************************************************************)

\* Nothing of the visit's Conversation and Property was recovered under its
\* handler's feet, nor taken up again after it was closed.
Ordinary(v) ==
    \A w \in overtaken \cup revived : LeadOf[w] # LeadOf[v]

\* Every variable keeps its range.
TypeOK ==
    /\ status \in [Visits -> Statuses]
    /\ origin \in [Visits -> Visits \cup {NoVisit}]
    /\ stored \in [Visits -> 0 .. MaxEvents]
    /\ noticed \subseteq Visits
    /\ told \in [Visits -> SUBSET Tellings]
    /\ events \in [Visits -> SUBSET (1 .. MaxEvents)]
    /\ made \in [Visits -> 0 .. MaxEvents]
    /\ holder \in [Visits -> Handlers \cup {NoHandler}]
    /\ notice \in [visit : Visits \cup {NoVisit},
                   says : {"none", "review", "confirmed"}, sent : BOOLEAN]
    /\ notice.visit = NoVisit => notice = NoNotice
    /\ pc \in [Handlers -> {"idle", "persisting", "creating", "releasing", "recording"}]
    /\ op \in [Handlers -> Operations]
    /\ visit \in [Handlers -> Visits \cup {NoVisit}]
    /\ \A h \in Handlers : visit[h] = NoVisit <=> pc[h] = "idle"
    /\ replaced \in [Handlers -> Visits \cup {NoVisit}]
    /\ event \in [Handlers -> 0 .. MaxEvents]
    /\ released \in [Handlers -> BOOLEAN]
    /\ overtaken \subseteq Visits
    /\ revived \subseteq Visits
    /\ asked \subseteq Visits

\* No event is forgotten: what is on the calendar belongs to a row that still
\* holds its slot. (appointments.py:18, admin_work.py:309)
EventsAreAccountedFor ==
    \A v \in Visits : Ordinary(v) /\ events[v] # {} => Claims(status, stored, v)

\* The Advisor is never expected at two visits at once. (models.py:1739)
CalendarIsNotDoubleBooked ==
    \A v, w \in Visits :
        /\ Ordinary(v) /\ Ordinary(w)
        /\ SlotOf[v] = SlotOf[w] /\ events[v] # {} /\ events[w] # {}
        => v = w

\* A Confirmed visit is on the calendar, unless its cancellation was asked
\* for, or it is being replaced by a visit that is. (appointments.py:13, 23)
OnTheCalendar(v) ==
    status[v] = "Confirmed" /\ v \notin asked =>
        \/ events[v] # {}
        \/ \E w \in Visits : /\ origin[w] = v
                             /\ status[w] \in {"Pending", "NeedsReview"}
                             /\ events[w] # {}

ConfirmedIsOnTheCalendar == \A v \in Visits : Ordinary(v) => OnTheCalendar(v)

\* A confirmed successor has taken the place of its original.
\* (appointments.py:23, admin_work.py:324)
SuccessorReplaces ==
    \A v \in Visits :
        status[v] = "Confirmed" /\ origin[v] # NoVisit /\ Ordinary(v) =>
            status[origin[v]] = "Rescheduled"

\* What was cancelled or moved away stays so: a cancellation and a move of the
\* same visit never both succeed. (appointments.py:557, 780)
ClosedStaysClosed ==
    [][\A v \in Visits :
          status[v] \in {"Cancelled", "Rescheduled"} /\ Ordinary(v)' =>
              status'[v] = status[v]]_vars

\* Nobody is told that a visit is confirmed before the calendar said so.
\* (appointments.py:519)
NothingConfirmedTooSoon ==
    \A v \in Visits :
        "confirmed" \in told[v] /\ Ordinary(v) =>
            status[v] \in {"Confirmed", "Rescheduled", "Cancelled"}

\* A Confirmed visit whose notice is settled was announced as confirmed, or a
\* person has been asked to. (models.py:1589, domain/appointments.py:762)
Announced(v) ==
    status[v] = "Confirmed" /\ v \in noticed => told[v] # {}

ConfirmationIsAnnounced == \A v \in Visits : Ordinary(v) => Announced(v)

\* The two without the condition, as the code's comments state them.
EveryConfirmationIsAnnounced == \A v \in Visits : Announced(v)

EveryConfirmedIsOnTheCalendar == \A v \in Visits : OnTheCalendar(v)

\* What the rows and the calendar say to somebody who sees no requests.
Fate(v) ==
    IF ~Ordinary(v) THEN "Disclaimed"
    ELSE CASE status[v] = "Absent" -> "Open"
           [] status[v] \in {"Pending", "NeedsReview"} -> "Tried"
           [] status[v] = "Confirmed" -> "Stands"
           [] status[v] = "Rejected" -> "Refused"
           [] status[v] \in {"Cancelled", "Rescheduled"} -> "Gone"

Promise == INSTANCE VisitPromise WITH
             fate <- [v \in Visits |-> Fate(v)],
             replaces <- [v \in Visits |-> IF Ordinary(v) THEN origin[v] ELSE NoVisit],
             entered <- {v \in Visits : Ordinary(v) /\ events[v] # {}},
             leaving <- {v \in Visits : Ordinary(v) /\ v \in asked}

\* Attempts, lost answers, releases, recovery and resolutions together are a
\* calendar whose visits come, stand and make place as promised.
\* (appointments.py:13-23, admin_work.py:309-324)
KeepsTheVisitPromise == Promise!VisitPromiseSpec
=============================================================================
