---------------------- MODULE AppointmentBookingProofs ----------------------
(***************************************************************************)
(* Proofs about booking, for any visits, slots, Conversations and number   *)
(* of requests at the same time.                                           *)
(***************************************************************************)
EXTENDS AppointmentBooking, FiniteSetTheorems, TLAPS

USE DEF Statuses, Tellings, Operations

-----------------------------------------------------------------------------
(***************************************************************************)
(* The type of the handler's own variables.                                *)
(***************************************************************************)

Places == {"idle", "persisting", "creating", "releasing", "recording"}

HandlerTypeOK ==
    /\ pc \in [Handlers -> Places]
    /\ op \in [Handlers -> Operations]
    /\ visit \in [Handlers -> Visits \cup {NoVisit}]
    /\ \A h \in Handlers : visit[h] = NoVisit <=> pc[h] = "idle"
    /\ replaced \in [Handlers -> Visits \cup {NoVisit}]
    /\ event \in [Handlers -> 0 .. MaxEvents]
    /\ released \in [Handlers -> BOOLEAN]

\* Returning an answer keeps the handler's variables in their ranges and
\* leaves nobody else's locks changed.
LEMMA FinishTypes ==
    ASSUME HandlerTypeOK, holder \in [Visits -> Handlers \cup {NoHandler}],
           NEW h \in Handlers, Finish(h)
    PROVE  HandlerTypeOK' /\ holder' \in [Visits -> Handlers \cup {NoHandler}]
BY BookingAssumption DEF HandlerTypeOK, Finish, Freed, Places

\* Taking on an operation keeps the handler's variables in their ranges.
LEMMA BeginTypes ==
    ASSUME HandlerTypeOK, NEW h \in Handlers,
           NEW operation \in Operations, NEW v \in Visits,
           NEW old \in Visits \cup {NoVisit}, NEW e \in 0 .. MaxEvents,
           NEW place \in Places \ {"idle"},
           Begin(h, operation, v, old, e, place)
    PROVE  HandlerTypeOK'
BY BookingAssumption DEF HandlerTypeOK, Begin, Places

-----------------------------------------------------------------------------
LEMMA InitTypes == Init => TypeOK
BY BookingAssumption DEF Init, TypeOK, NoNotice

\* Every step keeps every variable in its range.
LEMMA StepTypes == TypeOK /\ [Next]_vars => TypeOK'
<1> SUFFICES ASSUME TypeOK, [Next]_vars PROVE TypeOK'
  OBVIOUS
<1> USE BookingAssumption
<1>0. HandlerTypeOK /\ holder \in [Visits -> Handlers \cup {NoHandler}]
  BY DEF HandlerTypeOK, TypeOK, Places
<1>1. CASE UNCHANGED vars
  BY <1>1 DEF vars, rows, contact, calendar, handler, history, TypeOK
<1>2. CASE LoopStep
  <2>1. CASE RecoverPendingAttempts
    BY <2>1 DEF RecoverPendingAttempts, TypeOK, handler, calendar
  <2>2. ASSUME NEW v \in Visits, ReadNotice(v)
        PROVE  TypeOK'
    BY <2>2 DEF ReadNotice, TypeOK, NoNotice, rows, calendar, handler, history
  <2>3. CASE SendNotice
    <3>1. /\ notice \in [visit : Visits \cup {NoVisit},
                         says : {"none", "review", "confirmed"}, sent : BOOLEAN]
          /\ notice.visit \in Visits
      BY <2>3 DEF SendNotice, TypeOK
    <3>2. told' \in [Visits -> SUBSET Tellings]
      BY <2>3, <3>1 DEF SendNotice, TypeOK
    <3>3. /\ notice' \in [visit : Visits \cup {NoVisit},
                          says : {"none", "review", "confirmed"}, sent : BOOLEAN]
          /\ notice'.visit = NoVisit => notice' = NoNotice
      <4>1. CASE notice' = [notice EXCEPT !.sent = TRUE]
        <5>1. notice'.visit # NoVisit
          BY <3>1, <4>1
        <5> QED BY <3>1, <4>1, <5>1
      <4>2. CASE notice' = NoNotice
        BY <4>2 DEF NoNotice
      <4> QED BY <2>3, <4>1, <4>2 DEF SendNotice
    <3> QED
      <4>1. UNCHANGED <<rows, noticed, calendar, holder, handler, history>>
        BY <2>3 DEF SendNotice
      <4> QED
        BY <3>2, <3>3, <4>1
        DEF TypeOK, NoNotice, rows, calendar, handler, history
  <2>4. CASE MarkLeadNotified
    BY <2>4 DEF MarkLeadNotified, TypeOK, NoNotice, rows, calendar, handler, history
  <2>5. CASE WorkerInterrupted
    BY <2>5 DEF WorkerInterrupted, TypeOK, NoNotice, rows, calendar, handler, history
  <2> QED BY <1>2, <2>1, <2>2, <2>3, <2>4, <2>5 DEF LoopStep
<1>3. ASSUME NEW h \in Handlers, HandlerStep(h)
      PROVE  TypeOK'
  <2>1. ASSUME NEW v \in Visits, BeginBook(h, v)
        PROVE  TypeOK'
    <3>1. HandlerTypeOK'
      BY <2>1, <1>0, BeginTypes DEF BeginBook, Places
    <3> QED
      BY <2>1, <3>1
      DEF BeginBook, TypeOK, HandlerTypeOK, Places, rows, contact, calendar, history
  <2>2. ASSUME NEW v \in Visits, BeginCancel(h, v)
        PROVE  TypeOK'
    <3>1. HandlerTypeOK'
      BY <2>2, <1>0, BeginTypes DEF BeginCancel, Places
    <3> QED
      BY <2>2, <3>1
      DEF BeginCancel, TypeOK, HandlerTypeOK, Places, rows, contact, calendar
  <2>3. ASSUME NEW o \in Visits, NEW v \in Visits, BeginReschedule(h, o, v)
        PROVE  TypeOK'
    <3>1. HandlerTypeOK'
      BY <2>3, <1>0, BeginTypes DEF BeginReschedule, Places
    <3> QED
      BY <2>3, <3>1
      DEF BeginReschedule, TypeOK, HandlerTypeOK, Places, rows, contact, calendar
  <2>4. ASSUME NEW v \in Visits, NEW d \in {"confirm", "reject"}, BeginResolve(h, v, d)
        PROVE  TypeOK'
    <3>1. PICK o \in Visits \cup {NoVisit}, e \in 0 .. MaxEvents,
               place \in {"releasing", "recording"} :
             /\ Begin(h, d, v, o, e, place)
             /\ holder' = [w \in Visits |-> IF w \in {v, o} THEN h ELSE holder[w]]
      <4> DEFINE o == IF d = "confirm" THEN origin[v] ELSE NoVisit
      <4>1. o \in Visits \cup {NoVisit}
        BY DEF TypeOK
      <4>2. PICK e \in IF events[v] = {} THEN {0} ELSE events[v] :
               Begin(h, d, v, o, e, IF o # NoVisit THEN "releasing" ELSE "recording")
        BY <2>4 DEF BeginResolve
      <4>3. e \in 0 .. MaxEvents
        BY <4>2 DEF TypeOK
      <4>4. holder' = [w \in Visits |-> IF w \in {v, o} THEN h ELSE holder[w]]
        BY <2>4 DEF BeginResolve
      <4> QED BY <4>1, <4>2, <4>3, <4>4
    <3>2. HandlerTypeOK'
      BY <3>1, <1>0, BeginTypes DEF Places
    <3> QED
      BY <2>4, <3>1, <3>2
      DEF BeginResolve, TypeOK, HandlerTypeOK, Places, rows, contact, calendar, history
  <2>5. CASE PersistAttempt(h)
    <3>1. visit[h] \in Visits
      BY <2>5, <1>0 DEF PersistAttempt, HandlerTypeOK
    <3>2. HandlerTypeOK' /\ holder' \in [Visits -> Handlers \cup {NoHandler}]
      <4>1. CASE Finish(h)
        BY <4>1, <1>0, FinishTypes
      <4>2. CASE ~Finish(h)
        BY <2>5, <4>2, <1>0 DEF PersistAttempt, HandlerTypeOK, Freed, Places
      <4> QED BY <4>1, <4>2
    <3>3. status' \in [Visits -> Statuses] /\ origin' \in [Visits -> Visits \cup {NoVisit}]
      BY <2>5, <3>1, <1>0 DEF PersistAttempt, TypeOK
    <3> QED
      BY <2>5, <3>2, <3>3
      DEF PersistAttempt, TypeOK, HandlerTypeOK, Places, contact, calendar, history
  <2>6. CASE CreateEvent(h)
    <3>1. visit[h] \in Visits
      BY <2>6, <1>0 DEF CreateEvent, HandlerTypeOK
    <3>2. HandlerTypeOK'
      BY <2>6, <3>1, <1>0 DEF CreateEvent, HandlerTypeOK, TypeOK, Places
    <3>3. events' \in [Visits -> SUBSET (1 .. MaxEvents)] /\ made' \in [Visits -> 0 .. MaxEvents]
      BY <2>6, <3>1 DEF CreateEvent, TypeOK
    <3> QED
      BY <2>6, <3>2, <3>3
      DEF CreateEvent, TypeOK, HandlerTypeOK, Places, rows, contact, history
  <2>7. CASE ReleaseEvent(h)
    <3>1. HandlerTypeOK' /\ holder' \in [Visits -> Handlers \cup {NoHandler}]
      <4>1. CASE Finish(h)
        BY <4>1, <1>0, FinishTypes
      <4>2. CASE ~Finish(h)
        BY <2>7, <4>2, <1>0 DEF ReleaseEvent, HandlerTypeOK, Places
      <4> QED BY <4>1, <4>2
    <3>2. events' \in [Visits -> SUBSET (1 .. MaxEvents)]
      BY <2>7 DEF ReleaseEvent, TypeOK
    <3> QED
      BY <2>7, <3>1, <3>2
      DEF ReleaseEvent, TypeOK, HandlerTypeOK, Places, rows, contact, history
  <2>8. CASE RecordBooking(h)
    <3>1. HandlerTypeOK' /\ holder' \in [Visits -> Handlers \cup {NoHandler}]
      BY <2>8, <1>0, FinishTypes DEF RecordBooking
    <3>2. status' \in [Visits -> Statuses] /\ stored' \in [Visits -> 0 .. MaxEvents]
      BY <2>8 DEF RecordBooking, Outcome, TypeOK
    <3> QED
      BY <2>8, <3>1, <3>2
      DEF RecordBooking, TypeOK, HandlerTypeOK, Places, contact, calendar, history
  <2>9. CASE RecordMove(h)
    <3>1. HandlerTypeOK' /\ holder' \in [Visits -> Handlers \cup {NoHandler}]
      BY <2>9, <1>0, FinishTypes DEF RecordMove
    <3>2. status' \in [Visits -> Statuses] /\ stored' \in [Visits -> 0 .. MaxEvents]
      BY <2>9 DEF RecordMove, Replace, TypeOK
    <3> QED
      BY <2>9, <3>1, <3>2
      DEF RecordMove, TypeOK, HandlerTypeOK, Places, contact, calendar, history
  <2>10. CASE RecordCancellation(h)
    <3>1. HandlerTypeOK' /\ holder' \in [Visits -> Handlers \cup {NoHandler}]
      BY <2>10, <1>0, FinishTypes DEF RecordCancellation
    <3>2. status' \in [Visits -> Statuses] /\ stored' \in [Visits -> 0 .. MaxEvents]
      BY <2>10 DEF RecordCancellation, TypeOK
    <3> QED
      BY <2>10, <3>1, <3>2
      DEF RecordCancellation, TypeOK, HandlerTypeOK, Places, contact, calendar, history
  <2>11. CASE RecordResolution(h)
    <3>1. HandlerTypeOK' /\ holder' \in [Visits -> Handlers \cup {NoHandler}]
      BY <2>11, <1>0, FinishTypes DEF RecordResolution
    <3>2. status' \in [Visits -> Statuses] /\ stored' \in [Visits -> 0 .. MaxEvents]
      BY <2>11 DEF RecordResolution, TypeOK
    <3>3. told' \in [Visits -> SUBSET Tellings]
      BY <2>11 DEF RecordResolution, TypeOK
    <3> QED
      BY <2>11, <3>1, <3>2, <3>3
      DEF RecordResolution, TypeOK, HandlerTypeOK, Places, calendar, history
  <2>12. CASE Interrupt(h)
    <3>1. HandlerTypeOK' /\ holder' \in [Visits -> Handlers \cup {NoHandler}]
      BY <2>12, <1>0, FinishTypes DEF Interrupt
    <3> QED
      BY <2>12, <3>1
      DEF Interrupt, TypeOK, HandlerTypeOK, Places, rows, contact, calendar, history
  <2> QED
    BY <1>3, <2>1, <2>2, <2>3, <2>4, <2>5, <2>6, <2>7, <2>8, <2>9, <2>10, <2>11, <2>12
    DEF HandlerStep
<1> QED BY <1>1, <1>2, <1>3 DEF Next

\* Every variable keeps its range.
THEOREM TypeCorrect == Spec => []TypeOK
BY InitTypes, StepTypes, PTL DEF Spec
=============================================================================
