---------------------- MODULE AppointmentSafetyProofs ----------------------
(***************************************************************************)
(* The safety of booking, for any visits, slots, Conversations and number  *)
(* of requests at the same time.                                           *)
(*                                                                         *)
(* The code locks rows but not calendars, and a move gives up its lock     *)
(* before it asks the calendar.  What keeps an attempt its request's own   *)
(* is its status: nobody but the loop's recovery touches a Pending row,    *)
(* and the partial unique index leaves an original one successor.  So the  *)
(* invariant says, of the visits recovery has not disturbed, what every    *)
(* request in flight may rely on, and what each status says about the      *)
(* calendar and about what the Contact was told.                           *)
(***************************************************************************)
EXTENDS AppointmentBookingProofs

USE DEF Statuses, Tellings, Operations

\* The visits the properties speak about, as a set.
OrdinaryVisits == {v \in Visits : Ordinary(v)}

\* A request that may be asking the calendar for an event.
Attempting(h) ==
    pc[h] \in {"creating", "releasing", "recording"} /\ op[h] \in {"book", "move"}

\* Where an operation can be, what it works on, and the locks that keep the
\* rows it has read as they were.
HoldsItsRows(h) ==
    /\ op[h] = "none" <=> pc[h] = "idle"
    /\ pc[h] \in {"persisting", "creating"} =>
          op[h] \in {"book", "move"} /\ event[h] = 0
    /\ op[h] \in {"none", "book", "cancel", "reject"} => replaced[h] = NoVisit
    /\ op[h] \in {"book", "reject"} => pc[h] # "releasing"
    /\ op[h] = "cancel" =>
          /\ holder[visit[h]] = h
          /\ status[visit[h]] = "Confirmed"
          /\ visit[h] \in asked
          /\ pc[h] = "recording" => released[h]
    /\ op[h] \in {"confirm", "reject"} =>
          holder[visit[h]] = h /\ status[visit[h]] = "NeedsReview"
    /\ op[h] = "confirm" =>
          /\ replaced[h] = origin[visit[h]]
          /\ pc[h] = "releasing" => replaced[h] # NoVisit
    /\ op[h] = "confirm" /\ replaced[h] # NoVisit =>
          holder[replaced[h]] = h /\ status[replaced[h]] = "Confirmed"
    /\ op[h] = "move" =>
          /\ replaced[h] \in Visits \ {visit[h]}
          /\ LeadOf[replaced[h]] = LeadOf[visit[h]]
    /\ op[h] = "move" /\ pc[h] = "persisting" =>
          holder[replaced[h]] = h /\ status[replaced[h]] = "Confirmed"

\* An ordinary attempt in flight is its request's alone: the row is still
\* Pending, the original still Confirmed, and the event the one remembered.
AttemptIsUndisturbed(h) ==
    Attempting(h) /\ visit[h] \in OrdinaryVisits =>
        /\ status[visit[h]] = "Pending"
        /\ origin[visit[h]] = replaced[h]
        /\ op[h] = "move" => status[replaced[h]] = "Confirmed"
        /\ pc[h] = "creating" => events[visit[h]] = {}
        /\ pc[h] = "releasing" => event[h] # 0
        /\ event[h] # 0 => events[visit[h]] = {event[h]}

OneAttemptPerVisit ==
    \A g, h \in Handlers :
        /\ Attempting(g) /\ Attempting(h)
        /\ visit[g] = visit[h] /\ visit[h] \in OrdinaryVisits
        => g = h

\* While a request holds a visit it found without a successor, none appears.
NoSuccessorMeanwhile(h) ==
    \A v \in OrdinaryVisits, w \in Visits :
        /\ \/ op[h] = "move" /\ pc[h] = "persisting" /\ replaced[h] = v
           \/ op[h] = "cancel" /\ visit[h] = v
        /\ origin[w] = v
        => status[w] = "Rejected"

\* What a resolution has looked up stays so.
EvidenceStands(h) ==
    visit[h] \in OrdinaryVisits =>
        /\ op[h] = "confirm" => event[h] # 0 /\ events[visit[h]] = {event[h]}
        /\ op[h] = "reject" => event[h] = 0 /\ events[visit[h]] = {}

\* The visit whose event a request removes.
Target(h) == IF op[h] = "cancel" THEN visit[h] ELSE replaced[h]

\* What was reported as removed is gone.
ReleasedIsGone(h) ==
    released[h] =>
        /\ pc[h] = "recording" /\ op[h] \in {"cancel", "move", "confirm"}
        /\ op[h] = "confirm" => replaced[h] # NoVisit
        /\ Target(h) \in OrdinaryVisits => events[Target(h)] = {}

\* The visits a move or a cancellation touches belong to one Conversation.
OriginsAreSiblings ==
    \A v \in Visits : origin[v] # NoVisit =>
        LeadOf[origin[v]] = LeadOf[v] /\ status[v] # "Absent"

\* What each status says about the calendar.
RowsMatchTheCalendar ==
    \A v \in OrdinaryVisits :
        /\ status[v] \in {"Absent", "Rejected", "Cancelled"} => events[v] = {}
        /\ status[v] = "Confirmed" => stored[v] # 0 /\ events[v] \subseteq {stored[v]}
        /\ status[v] = "Rescheduled" => stored[v] # 0 \/ events[v] = {}

\* What the Contact was told, is about to be told, or need not be told.
ContactHearsTheTruth ==
    /\ noticed \subseteq Followed
    /\ notice.visit \in Followed \cup {NoVisit}
    /\ \A v \in OrdinaryVisits :
          /\ \/ "confirmed" \in told[v]
             \/ notice.visit = v /\ notice.says = "confirmed"
             => status[v] \in {"Confirmed", "Rescheduled", "Cancelled"}
          /\ notice.visit = v /\ notice.says = "confirmed" /\ notice.sent => told[v] # {}
          /\ \/ v \in noticed
             \/ notice.visit = v /\ notice.says # "confirmed"
             => told[v] # {} \/ status[v] \in {"NeedsReview", "Rejected"}

\* The table's constraints hold.
TableIsConsistent == Consistent(status, stored, origin)

\* SuccessorReplaces and ConfirmedIsOnTheCalendar, of the set.
SuccessorsHaveReplaced ==
    \A v \in OrdinaryVisits, o \in Visits :
        status[v] = "Confirmed" /\ origin[v] = o => status[o] = "Rescheduled"

ConfirmedAreOnTheCalendar ==
    \A v \in OrdinaryVisits : status[v] = "Confirmed" /\ v \notin asked =>
        \/ events[v] # {}
        \/ \E w \in Visits : /\ origin[w] = v
                             /\ status[w] \in {"Pending", "NeedsReview"}
                             /\ events[w] # {}

\* What a request relies on.
RequestInv(h) ==
    /\ HoldsItsRows(h)
    /\ AttemptIsUndisturbed(h)
    /\ NoSuccessorMeanwhile(h)
    /\ EvidenceStands(h)
    /\ ReleasedIsGone(h)

RequestsInv == OneAttemptPerVisit /\ \A h \in Handlers : RequestInv(h)

\* What the rows say.
RowsInv ==
    /\ OriginsAreSiblings
    /\ RowsMatchTheCalendar
    /\ TableIsConsistent
    /\ SuccessorsHaveReplaced
    /\ ConfirmedAreOnTheCalendar

BookingInv == TypeOK /\ RequestsInv /\ RowsInv /\ ContactHearsTheTruth

-----------------------------------------------------------------------------
(***************************************************************************)
(* Facts every step uses.                                                  *)
(***************************************************************************)

\* A Conversation's visits are ordinary together.
LEMMA SiblingsAreOrdinary ==
    ASSUME NEW v \in OrdinaryVisits, NEW w \in Visits, LeadOf[w] = LeadOf[v]
    PROVE  w \in OrdinaryVisits
BY DEF OrdinaryVisits, Ordinary

\* No visit becomes ordinary.
LEMMA OrdinaryShrinks ==
    ASSUME overtaken \subseteq overtaken', revived \subseteq revived'
    PROVE  OrdinaryVisits' \subseteq OrdinaryVisits
BY DEF OrdinaryVisits, Ordinary

LEMMA OrdinaryKept ==
    ASSUME UNCHANGED <<overtaken, revived>>
    PROVE  OrdinaryVisits' = OrdinaryVisits
BY DEF OrdinaryVisits, Ordinary

\* A request leaves the others' variables alone.
OthersKeep(h) ==
    \A g \in Handlers \ {h} :
        /\ pc'[g] = pc[g] /\ op'[g] = op[g] /\ visit'[g] = visit[g]
        /\ replaced'[g] = replaced[g] /\ event'[g] = event[g]
        /\ released'[g] = released[g]

\* A finished request holds nothing and remembers nothing.
LEMMA FinishFacts ==
    ASSUME HandlerTypeOK, holder \in [Visits -> Handlers \cup {NoHandler}],
           NEW h \in Handlers, Finish(h)
    PROVE  /\ pc'[h] = "idle" /\ op'[h] = "none" /\ visit'[h] = NoVisit
           /\ replaced'[h] = NoVisit /\ event'[h] = 0 /\ released'[h] = FALSE
           /\ OthersKeep(h)
           /\ \A v \in Visits : holder'[v] = IF holder[v] = h THEN NoHandler ELSE holder[v]
BY DEF HandlerTypeOK, Finish, Freed, OthersKeep

\* A request that begins knows what it was given.
LEMMA BeginFacts ==
    ASSUME HandlerTypeOK, NEW h \in Handlers,
           NEW operation, NEW v, NEW old, NEW e, NEW place,
           Begin(h, operation, v, old, e, place)
    PROVE  /\ pc[h] = "idle"
           /\ pc'[h] = place /\ op'[h] = operation /\ visit'[h] = v
           /\ replaced'[h] = old /\ event'[h] = e /\ released'[h] = released[h]
           /\ OthersKeep(h)
BY DEF HandlerTypeOK, Begin, OthersKeep

\* The part of the type invariant the proofs below use.
LEMMA TypeFacts ==
    ASSUME TypeOK
    PROVE  /\ HandlerTypeOK
           /\ holder \in [Visits -> Handlers \cup {NoHandler}]
           /\ status \in [Visits -> Statuses]
           /\ origin \in [Visits -> Visits \cup {NoVisit}]
           /\ stored \in [Visits -> 0 .. MaxEvents]
           /\ events \in [Visits -> SUBSET (1 .. MaxEvents)]
BY DEF TypeOK, HandlerTypeOK, Places

-----------------------------------------------------------------------------
(***************************************************************************)
(* What a request may rely on, whatever the others do.                     *)
(***************************************************************************)

Untouched(v) ==
    status'[v] = status[v] /\ origin'[v] = origin[v] /\ events'[v] = events[v]

\* What one step of a request may change, depending on where it is.
StepOf(h) ==
    /\ OthersKeep(h)
    /\ OrdinaryVisits' \subseteq OrdinaryVisits
    /\ asked \subseteq asked'
    /\ \A v \in Visits : holder[v] \in Handlers \ {h} => holder'[v] = holder[v]
    /\ \A v \in Visits : Untouched(v) \/ v \in {visit[h], replaced[h]}
    /\ pc[h] = "persisting" =>
          \A v \in Visits :
              \/ Untouched(v)
              \/ /\ v = visit[h] /\ status[v] = "Absent"
                 /\ origin'[v] = replaced[h] /\ events'[v] = events[v]
    /\ pc[h] \in {"creating", "releasing"} =>
          \A v \in Visits : status'[v] = status[v] /\ origin'[v] = origin[v]
    /\ pc[h] = "creating" =>
          \A v \in Visits : events'[v] = events[v] \/ v = visit[h]
    /\ pc[h] = "releasing" =>
          \A v \in Visits :
              \/ events'[v] = events[v]
              \/ v = Target(h) /\ events'[v] \subseteq events[v]
    /\ pc[h] = "recording" =>
          \A v \in Visits :
              /\ origin'[v] = origin[v] /\ events'[v] = events[v]
              /\ holder[v] \in Handlers \ {h} => status'[v] = status[v]

\* An attempt in flight shares neither its row nor its original with another
\* request that may change them.
LEMMA AttemptsKeepApart ==
    ASSUME TypeOK, RequestsInv, OriginsAreSiblings, TableIsConsistent,
           NEW g \in Handlers, NEW h \in Handlers \ {g},
           Attempting(g), visit[g] \in OrdinaryVisits
    PROVE  /\ replaced[h] # visit[g]
           /\ visit[h] = visit[g] => pc[h] = "persisting"
           /\ op[g] = "move" => /\ replaced[h] # replaced[g]
                                /\ visit[h] = replaced[g] => pc[h] = "persisting"
<1> USE BookingAssumption
<1> DEFINE v == visit[g]
           o == replaced[g]
<1>1. /\ RequestInv(g) /\ RequestInv(h)
      /\ v \in Visits /\ v # NoVisit
      /\ status[v] = "Pending" /\ origin[v] = o
  BY DEF RequestsInv, RequestInv, AttemptIsUndisturbed, OrdinaryVisits
<1>2. ASSUME NEW w \in OrdinaryVisits, visit[h] = w, pc[h] # "persisting"
      PROVE  /\ Attempting(h) => status[w] = "Pending"
             /\ op[h] = "cancel" => status[w] = "Confirmed"
             /\ op[h] \in {"confirm", "reject"} => status[w] = "NeedsReview"
             /\ Attempting(h) \/ op[h] \in {"cancel", "confirm", "reject"}
  BY <1>1, <1>2, TypeFacts
  DEF RequestInv, HoldsItsRows, AttemptIsUndisturbed, Attempting, HandlerTypeOK, Places,
      OrdinaryVisits
<1>3. ASSUME NEW w \in OrdinaryVisits, replaced[h] = w
      PROVE  status[w] = "Confirmed" /\ op[h] \in {"move", "confirm"}
  <2>1. w \in Visits /\ w # NoVisit
    BY DEF OrdinaryVisits
  <2>2. CASE op[h] = "move"
    <3>1. visit[h] \in OrdinaryVisits
      BY <1>1, <1>3, <2>2, TypeFacts, SiblingsAreOrdinary
      DEF RequestInv, HoldsItsRows, HandlerTypeOK
    <3> QED
      BY <1>1, <1>3, <2>2, <3>1, TypeFacts
      DEF RequestInv, HoldsItsRows, AttemptIsUndisturbed, Attempting, HandlerTypeOK, Places
  <2>3. CASE op[h] = "confirm"
    BY <1>1, <1>3, <2>1, <2>3 DEF RequestInv, HoldsItsRows
  <2> QED
    BY <1>1, <1>3, <2>1, <2>2, <2>3, TypeFacts
    DEF RequestInv, HoldsItsRows, HandlerTypeOK
<1>4. replaced[h] # v
  BY <1>1, <1>3
<1>5. visit[h] = v => pc[h] = "persisting"
  BY <1>1, <1>2 DEF RequestsInv, OneAttemptPerVisit
<1>6. ASSUME op[g] = "move"
      PROVE  /\ replaced[h] # o
             /\ visit[h] = o => pc[h] = "persisting"
  <2>1. /\ o \in Visits /\ o # v /\ LeadOf[o] = LeadOf[v]
        /\ status[o] = "Confirmed" /\ o \in OrdinaryVisits
    <3>1. /\ o \in Visits /\ o # v /\ LeadOf[o] = LeadOf[v]
          /\ status[o] = "Confirmed"
      BY <1>1, <1>6 DEF RequestInv, HoldsItsRows, AttemptIsUndisturbed
    <3> QED BY <3>1, SiblingsAreOrdinary
  <2>2. ASSUME visit[h] = o PROVE pc[h] = "persisting"
    <3>1. SUFFICES ASSUME pc[h] # "persisting", op[h] = "cancel" PROVE FALSE
      BY <1>2, <2>1, <2>2
    <3> QED
      BY <1>1, <2>1, <2>2, <3>1 DEF RequestInv, NoSuccessorMeanwhile
  <2>3. ASSUME replaced[h] = o PROVE FALSE
    <3>1. status[o] = "Confirmed" /\ op[h] \in {"move", "confirm"}
      BY <1>3, <2>1, <2>3
    <3>2. visit[h] \in Visits
      BY <1>1, <3>1, TypeFacts DEF RequestInv, HoldsItsRows, HandlerTypeOK
    <3>3. ~(origin[visit[h]] = o /\ visit[h] # v /\ status[visit[h]] # "Rejected")
      BY <1>1, <2>1, <3>2, BookingAssumption DEF TableIsConsistent, Consistent
    <3>4. CASE op[h] = "confirm"
      BY <1>1, <2>3, <3>3, <3>4 DEF RequestInv, HoldsItsRows
    <3>5. CASE op[h] = "move" /\ pc[h] = "persisting"
      BY <1>1, <2>1, <2>3, <3>5 DEF RequestInv, NoSuccessorMeanwhile
    <3>6. CASE op[h] = "move" /\ pc[h] # "persisting"
      <4>1. visit[h] \in OrdinaryVisits
        BY <1>1, <2>1, <2>3, <3>2, <3>6, SiblingsAreOrdinary DEF RequestInv, HoldsItsRows
      <4>2. Attempting(h)
        BY <1>1, <3>6, TypeFacts DEF RequestInv, HoldsItsRows, Attempting, HandlerTypeOK, Places
      <4>3. status[visit[h]] = "Pending" /\ origin[visit[h]] = o
        BY <1>1, <2>3, <4>1, <4>2 DEF RequestInv, AttemptIsUndisturbed
      <4>4. visit[h] # v
        BY <1>5, <3>6
      <4> QED BY <3>3, <4>3, <4>4
    <3> QED BY <3>1, <3>4, <3>5, <3>6
  <2> QED BY <2>2, <2>3
<1> QED BY <1>4, <1>5, <1>6

\* Whatever one request does, the others may go on relying on what they did.
LEMMA OthersUndisturbed ==
    ASSUME TypeOK, RequestsInv, OriginsAreSiblings, TableIsConsistent,
           NEW h \in Handlers, StepOf(h), NEW g \in Handlers \ {h}
    PROVE  RequestInv(g)'
<1> USE BookingAssumption
<1>1. /\ RequestInv(g) /\ RequestInv(h)
      /\ pc'[g] = pc[g] /\ op'[g] = op[g] /\ visit'[g] = visit[g]
      /\ replaced'[g] = replaced[g] /\ event'[g] = event[g] /\ released'[g] = released[g]
      /\ Attempting(g)' = Attempting(g)
      /\ Target(g)' = Target(g)
  BY DEF RequestsInv, StepOf, OthersKeep, Attempting, Target
<1>2. /\ pc[h] \in Places /\ op[h] \in Operations /\ op[g] \in Operations
      /\ visit[h] = NoVisit <=> pc[h] = "idle"
      /\ visit[g] = NoVisit <=> pc[g] = "idle"
      /\ visit[h] \in Visits \cup {NoVisit} /\ replaced[h] \in Visits \cup {NoVisit}
      /\ visit[g] \in Visits \cup {NoVisit} /\ replaced[g] \in Visits \cup {NoVisit}
      /\ OrdinaryVisits \subseteq Visits
      /\ NoHandler # g
  BY TypeFacts DEF HandlerTypeOK, OrdinaryVisits
\* What locks protect.
<1>3. ASSUME NEW v \in Visits, holder[v] = g, status[v] # "Absent"
      PROVE  holder'[v] = g /\ status'[v] = status[v] /\ origin'[v] = origin[v]
  <2>1. holder'[v] = g
    BY <1>3 DEF StepOf
  <2>2. CASE pc[h] \in {"creating", "releasing"}
    BY <2>1, <2>2 DEF StepOf
  <2>3. CASE pc[h] = "persisting"
    BY <1>3, <2>1, <2>3 DEF StepOf, Untouched
  <2>4. CASE pc[h] = "recording"
    BY <1>3, <2>1, <2>4 DEF StepOf
  <2>5. CASE pc[h] = "idle"
    <3>1. visit[h] = NoVisit /\ replaced[h] = NoVisit
      BY <1>1, <1>2, <2>5 DEF RequestInv, HoldsItsRows
    <3> QED BY <2>1, <3>1 DEF StepOf, Untouched
  <2> QED BY <1>2, <2>2, <2>3, <2>4, <2>5 DEF Places
<1>4. HoldsItsRows(g)'
  <2>1. HoldsItsRows(g)
    BY <1>1 DEF RequestInv
  <2>2. op[g] \in {"cancel", "confirm", "reject"} =>
           /\ visit[g] \in Visits
           /\ holder'[visit[g]] = g /\ status'[visit[g]] = status[visit[g]]
           /\ origin'[visit[g]] = origin[visit[g]]
    BY <1>2, <1>3, <2>1 DEF HoldsItsRows
  <2>3. \/ op[g] = "confirm" /\ replaced[g] # NoVisit
        \/ op[g] = "move" /\ pc[g] = "persisting"
        => holder'[replaced[g]] = g /\ status'[replaced[g]] = "Confirmed"
    BY <1>2, <1>3, <2>1 DEF HoldsItsRows
  <2>4. asked \subseteq asked'
    BY DEF StepOf
  <2> QED BY <1>1, <2>1, <2>2, <2>3, <2>4 DEF HoldsItsRows
\* What its status protects.
<1>5. ASSUME Attempting(g), visit[g] \in OrdinaryVisits
      PROVE  Untouched(visit[g]) /\ (op[g] = "move" => Untouched(replaced[g]))
  <2>1. /\ status[visit[g]] = "Pending"
        /\ op[g] = "move" => status[replaced[g]] = "Confirmed" /\ replaced[g] \in Visits
    BY <1>1, <1>5 DEF RequestInv, AttemptIsUndisturbed, HoldsItsRows
  <2>2. /\ replaced[h] # visit[g]
        /\ visit[h] = visit[g] => pc[h] = "persisting"
        /\ op[g] = "move" => /\ replaced[h] # replaced[g]
                             /\ visit[h] = replaced[g] => pc[h] = "persisting"
    BY <1>5, AttemptsKeepApart
  <2> QED BY <1>2, <1>5, <2>1, <2>2 DEF StepOf
<1>6. AttemptIsUndisturbed(g)'
  <2>1. ASSUME Attempting(g), visit[g] \in OrdinaryVisits
        PROVE  AttemptIsUndisturbed(g)'
    BY <1>1, <1>5, <2>1 DEF RequestInv, AttemptIsUndisturbed, Untouched
  <2>2. visit'[g] \in OrdinaryVisits' => visit[g] \in OrdinaryVisits
    BY <1>1 DEF StepOf
  <2> QED BY <1>1, <2>1, <2>2 DEF AttemptIsUndisturbed
\* What the status of the other request's rows can be.
<1>7. ASSUME NEW v \in OrdinaryVisits, v \in {visit[h], replaced[h]}, pc[h] # "persisting"
      PROVE  /\ status[v] \in {"Pending", "NeedsReview", "Confirmed"}
             /\ pc[h] = "creating" /\ v = visit[h] => status[v] = "Pending"
             /\ pc[h] = "releasing" /\ v = Target(h) => status[v] = "Confirmed"
  <2>1. CASE op[h] \in {"cancel", "confirm", "reject"}
    BY <1>1, <1>2, <1>7, <2>1 DEF RequestInv, HoldsItsRows, Target
  <2>2. CASE op[h] \in {"book", "move"}
    <3>1. Attempting(h)
      BY <1>1, <1>2, <1>7, <2>2 DEF RequestInv, HoldsItsRows, Attempting, Places
    <3>2. visit[h] \in OrdinaryVisits
      <4>1. CASE v = visit[h]
        BY <4>1
      <4>2. CASE v = replaced[h] /\ op[h] = "move"
        BY <1>1, <1>2, <4>2, <3>1, SiblingsAreOrdinary
        DEF RequestInv, HoldsItsRows, Attempting
      <4> QED BY <1>1, <1>2, <1>7, <2>2, <4>1, <4>2 DEF RequestInv, HoldsItsRows
    <3> QED
      BY <1>1, <1>2, <1>7, <2>2, <3>1, <3>2
      DEF RequestInv, HoldsItsRows, AttemptIsUndisturbed, Target
  <2>3. CASE op[h] = "none"
    BY <1>1, <1>2, <1>7, <2>3 DEF RequestInv, HoldsItsRows
  <2> QED BY <1>2, <2>1, <2>2, <2>3
<1>8. NoSuccessorMeanwhile(g)'
  <2> SUFFICES ASSUME NEW v \in OrdinaryVisits', NEW w \in Visits,
                      \/ op[g] = "move" /\ pc[g] = "persisting" /\ replaced[g] = v
                      \/ op[g] = "cancel" /\ visit[g] = v,
                      origin'[w] = v
               PROVE  status'[w] = "Rejected"
    BY <1>1 DEF NoSuccessorMeanwhile
  <2>1. v \in OrdinaryVisits /\ v \in Visits /\ v # NoVisit /\ holder[v] = g
    BY <1>1, <1>2 DEF StepOf, RequestInv, HoldsItsRows
  <2>2. origin[w] = v
    <3>1. SUFFICES ASSUME origin'[w] # origin[w] PROVE FALSE
      OBVIOUS
    <3>2. pc[h] = "persisting" /\ replaced[h] = v
      <4>1. pc[h] # "idle"
        BY <1>1, <1>2, <3>1 DEF RequestInv, HoldsItsRows, StepOf, Untouched
      <4> QED BY <1>2, <3>1, <4>1 DEF StepOf, Untouched, Places
    <3>3. holder[v] = h
      BY <1>1, <1>2, <2>1, <3>2 DEF RequestInv, HoldsItsRows
    <3> QED BY <2>1, <3>3
  <2>3. status[w] = "Rejected" /\ w \in OrdinaryVisits
    <3>1. LeadOf[w] = LeadOf[v]
      BY <2>1, <2>2 DEF OriginsAreSiblings
    <3>2. w \in OrdinaryVisits
      BY <2>1, <3>1, SiblingsAreOrdinary
    <3> QED BY <1>1, <2>1, <2>2, <3>2 DEF RequestInv, NoSuccessorMeanwhile
  <2> QED BY <1>7, <2>3 DEF StepOf, Untouched
\* Events come only to a Pending visit and go only from a Confirmed one.
<1>9. ASSUME NEW v \in OrdinaryVisits
      PROVE  /\ status[v] = "NeedsReview" => events'[v] = events[v]
             /\ status[v] = "Confirmed" => events'[v] \subseteq events[v]
  <2>1. CASE pc[h] \in {"idle", "persisting", "recording"}
    <3>1. pc[h] = "idle" => visit[h] = NoVisit /\ replaced[h] = NoVisit
      BY <1>1, <1>2 DEF RequestInv, HoldsItsRows
    <3> QED BY <1>2, <2>1, <3>1 DEF StepOf, Untouched
  <2>2. CASE pc[h] = "creating"
    BY <1>2, <1>7, <2>2 DEF StepOf
  <2>3. CASE pc[h] = "releasing"
    <3>1. Target(h) \in {visit[h], replaced[h]}
      BY DEF Target
    <3> QED BY <1>2, <1>7, <2>3, <3>1 DEF StepOf
  <2> QED BY <1>2, <2>1, <2>2, <2>3 DEF Places
<1>10. EvidenceStands(g)'
  <2>1. op[g] \in {"confirm", "reject"} /\ visit[g] \in OrdinaryVisits =>
           events'[visit[g]] = events[visit[g]]
    BY <1>1, <1>9 DEF RequestInv, HoldsItsRows
  <2> QED BY <1>1, <2>1 DEF StepOf, RequestInv, EvidenceStands
<1>11. ReleasedIsGone(g)'
  <2>1. ASSUME released[g], Target(g) \in OrdinaryVisits
        PROVE  events'[Target(g)] \subseteq events[Target(g)]
    <3>1. CASE op[g] = "move"
      <4>1. visit[g] \in OrdinaryVisits
        BY <1>1, <1>2, <2>1, <3>1, SiblingsAreOrdinary
        DEF RequestInv, ReleasedIsGone, HoldsItsRows, Target
      <4> QED
        BY <1>1, <1>5, <2>1, <3>1, <4>1
        DEF RequestInv, ReleasedIsGone, Attempting, Untouched, Target
    <3>2. CASE op[g] \in {"cancel", "confirm"}
      BY <1>1, <1>9, <2>1, <3>2 DEF RequestInv, HoldsItsRows, ReleasedIsGone, Target
    <3> QED BY <1>1, <2>1, <3>1, <3>2 DEF RequestInv, ReleasedIsGone
  <2>2. Target(g) \in OrdinaryVisits' => Target(g) \in OrdinaryVisits
    BY DEF StepOf
  <2> QED BY <1>1, <2>1, <2>2 DEF RequestInv, ReleasedIsGone
<1> QED BY <1>4, <1>6, <1>8, <1>10, <1>11 DEF RequestInv

-----------------------------------------------------------------------------
(***************************************************************************)
(* Frames: what has to be looked at, action by action.                     *)
(***************************************************************************)

\* Of the requests, the one that took the step.
LEMMA RequestsKept ==
    ASSUME TypeOK, RequestsInv, OriginsAreSiblings, TableIsConsistent,
           NEW h \in Handlers, StepOf(h), RequestInv(h)',
           \/ ~Attempting(h)'
           \/ visit'[h] \notin OrdinaryVisits'
           \/ Attempting(h) /\ visit'[h] = visit[h]
           \/ status[visit'[h]] = "Absent"
    PROVE  RequestsInv'
<1>1. \A g \in Handlers : RequestInv(g)'
  BY OthersUndisturbed
<1>2. OneAttemptPerVisit'
  <2> SUFFICES ASSUME NEW f \in Handlers, NEW g \in Handlers,
                      Attempting(f)', Attempting(g)',
                      visit'[f] = visit'[g], visit'[g] \in OrdinaryVisits'
               PROVE  f = g
    BY DEF OneAttemptPerVisit
  <2>1. OrdinaryVisits' \subseteq OrdinaryVisits
    BY DEF StepOf
  <2>2. \A k \in Handlers \ {h} :
           (Attempting(k)' <=> Attempting(k)) /\ visit'[k] = visit[k]
    BY DEF StepOf, OthersKeep, Attempting
  <2>3. \A k \in Handlers :
           Attempting(k) /\ visit[k] \in OrdinaryVisits => status[visit[k]] = "Pending"
    BY DEF RequestsInv, RequestInv, AttemptIsUndisturbed
  <2> QED BY <2>1, <2>2, <2>3 DEF RequestsInv, OneAttemptPerVisit
<1> QED BY <1>1, <1>2 DEF RequestsInv

\* A request that has answered relies on nothing.
LEMMA FinishedRequest ==
    ASSUME TypeOK, NEW h \in Handlers, Finish(h)
    PROVE  /\ RequestInv(h)' /\ ~Attempting(h)'
           /\ OthersKeep(h)
           /\ \A v \in Visits : holder[v] \in Handlers \ {h} => holder'[v] = holder[v]
<1>1. /\ pc'[h] = "idle" /\ op'[h] = "none" /\ visit'[h] = NoVisit
      /\ replaced'[h] = NoVisit /\ event'[h] = 0 /\ released'[h] = FALSE
      /\ OthersKeep(h)
      /\ \A v \in Visits : holder'[v] = IF holder[v] = h THEN NoHandler ELSE holder[v]
  BY TypeFacts, FinishFacts
<1>2. HoldsItsRows(h)' /\ ReleasedIsGone(h)'
  BY <1>1 DEF HoldsItsRows, ReleasedIsGone
<1>3. ~Attempting(h)' /\ AttemptIsUndisturbed(h)'
  BY <1>1 DEF AttemptIsUndisturbed, Attempting
<1>4. NoSuccessorMeanwhile(h)' /\ EvidenceStands(h)'
  BY <1>1 DEF NoSuccessorMeanwhile, EvidenceStands
<1> QED BY <1>1, <1>2, <1>3, <1>4 DEF RequestInv

\* A request that starts found its rows as they are.
LEMMA BegunRequest ==
    ASSUME TypeOK, RequestsInv, NEW h \in Handlers,
           NEW operation, NEW v, NEW old, NEW e, NEW place,
           Begin(h, operation, v, old, e, place)
    PROVE  /\ pc[h] = "idle" /\ visit[h] = NoVisit /\ replaced[h] = NoVisit
           /\ pc'[h] = place /\ op'[h] = operation /\ visit'[h] = v
           /\ replaced'[h] = old /\ event'[h] = e /\ released'[h] = FALSE
           /\ OthersKeep(h)
<1>1. pc[h] = "idle" /\ released'[h] = released[h]
  BY TypeFacts, BeginFacts
<1>2. released[h] = FALSE /\ visit[h] = NoVisit /\ replaced[h] = NoVisit
  BY <1>1, TypeFacts
  DEF RequestsInv, RequestInv, HoldsItsRows, ReleasedIsGone, HandlerTypeOK
<1> QED BY <1>1, <1>2, TypeFacts, BeginFacts

\* Where nothing happens to a row or an event, the rows say what they said.
LEMMA RowsKept ==
    ASSUME TypeOK, RowsInv, UNCHANGED <<rows, events>>,
           OrdinaryVisits' \subseteq OrdinaryVisits, asked \subseteq asked'
    PROVE  RowsInv'
<1>1. OriginsAreSiblings' /\ TableIsConsistent'
  BY DEF RowsInv, OriginsAreSiblings, TableIsConsistent, Consistent, Claims, rows
<1>2. RowsMatchTheCalendar' /\ SuccessorsHaveReplaced'
  BY DEF RowsInv, RowsMatchTheCalendar, SuccessorsHaveReplaced, rows
<1>3. ConfirmedAreOnTheCalendar'
  BY DEF RowsInv, ConfirmedAreOnTheCalendar, rows
<1> QED BY <1>1, <1>2, <1>3 DEF RowsInv

\* The changes of a status that make nothing false of what was said.
Harmless(v) ==
    \/ status'[v] = status[v]
    \/ status[v] = "Absent" /\ status'[v] = "Pending"
    \/ status[v] = "Pending" /\ status'[v] \in {"Confirmed", "NeedsReview"}
    \/ status[v] = "Confirmed" /\ status'[v] \in {"Rescheduled", "Cancelled"}
    \/ status[v] = "NeedsReview" /\ status'[v] = "Rejected"

\* What ClosedStaysClosed says of one step.
ClosedKept ==
    \A v \in OrdinaryVisits' :
        status[v] \in {"Cancelled", "Rescheduled"} => status'[v] = status[v]

LEMMA ContactKept ==
    ASSUME ContactHearsTheTruth, UNCHANGED contact,
           OrdinaryVisits' \subseteq OrdinaryVisits,
           \A v \in OrdinaryVisits' : Harmless(v)
    PROVE  ContactHearsTheTruth' /\ ClosedKept
BY DEF ContactHearsTheTruth, contact, Harmless, ClosedKept

-----------------------------------------------------------------------------
(***************************************************************************)
(* Requests that begin.                                                    *)
(***************************************************************************)

LEMMA BeginBookKeeps ==
    ASSUME BookingInv, NEW h \in Handlers, NEW v \in Visits, BeginBook(h, v)
    PROVE  RequestsInv' /\ RowsInv' /\ ContactHearsTheTruth' /\ ClosedKept
<1> USE BookingAssumption
<1>1. TypeOK /\ RequestsInv /\ RowsInv /\ ContactHearsTheTruth
  BY DEF BookingInv
<1>2. /\ pc[h] = "idle" /\ visit[h] = NoVisit /\ replaced[h] = NoVisit
      /\ pc'[h] = "persisting" /\ op'[h] = "book" /\ visit'[h] = v
      /\ replaced'[h] = NoVisit /\ event'[h] = 0 /\ released'[h] = FALSE
      /\ OthersKeep(h)
  BY <1>1, BegunRequest DEF BeginBook
<1>3. UNCHANGED <<rows, contact, calendar, holder, history>>
  BY DEF BeginBook
<1>4. OrdinaryVisits' = OrdinaryVisits
  BY <1>3, OrdinaryKept DEF history
<1>5. StepOf(h)
  BY <1>2, <1>3, <1>4 DEF StepOf, Untouched, rows, calendar, history
<1>6. RequestInv(h)' /\ ~Attempting(h)'
  BY <1>2
  DEF RequestInv, HoldsItsRows, AttemptIsUndisturbed, NoSuccessorMeanwhile, EvidenceStands,
      ReleasedIsGone, Attempting
<1>7. RequestsInv'
  BY <1>1, <1>5, <1>6, RequestsKept DEF RowsInv
<1>8. RowsInv'
  BY <1>1, <1>3, <1>4, RowsKept DEF rows, calendar, history
<1>9. ContactHearsTheTruth' /\ ClosedKept
  BY <1>1, <1>3, <1>4, ContactKept DEF Harmless, rows
<1> QED BY <1>7, <1>8, <1>9

LEMMA BeginCancelKeeps ==
    ASSUME BookingInv, NEW h \in Handlers, NEW v \in Visits, BeginCancel(h, v)
    PROVE  RequestsInv' /\ RowsInv' /\ ContactHearsTheTruth' /\ ClosedKept
<1> USE BookingAssumption
<1>1. TypeOK /\ RequestsInv /\ RowsInv /\ ContactHearsTheTruth
  BY DEF BookingInv
<1>2. /\ pc[h] = "idle" /\ visit[h] = NoVisit /\ replaced[h] = NoVisit
      /\ pc'[h] = "releasing" /\ op'[h] = "cancel" /\ visit'[h] = v
      /\ replaced'[h] = NoVisit /\ event'[h] = 0 /\ released'[h] = FALSE
      /\ OthersKeep(h)
  BY <1>1, BegunRequest DEF BeginCancel
<1>3. /\ UNCHANGED <<rows, contact, calendar, overtaken, revived>>
      /\ asked' = asked \cup {v}
      /\ holder[v] = NoHandler
      /\ holder'[v] = h /\ \A w \in Visits \ {v} : holder'[w] = holder[w]
      /\ status[v] = "Confirmed"
      /\ \A w \in Visits : origin[w] = v => status[w] = "Rejected"
  BY <1>1, TypeFacts DEF BeginCancel, Unlocked, ActiveSuccessor
<1>4. OrdinaryVisits' = OrdinaryVisits
  BY <1>3, OrdinaryKept
<1>5. StepOf(h)
  BY <1>2, <1>3, <1>4 DEF StepOf, Untouched, rows, calendar
<1>6. RequestInv(h)' /\ ~Attempting(h)'
  <2>1. HoldsItsRows(h)'
    BY <1>2, <1>3 DEF HoldsItsRows, rows
  <2>2. NoSuccessorMeanwhile(h)'
    BY <1>2, <1>3 DEF NoSuccessorMeanwhile, rows
  <2> QED
    BY <1>2, <2>1, <2>2
    DEF RequestInv, AttemptIsUndisturbed, EvidenceStands, ReleasedIsGone, Attempting
<1>7. RequestsInv'
  BY <1>1, <1>5, <1>6, RequestsKept DEF RowsInv
<1>8. RowsInv'
  BY <1>1, <1>3, <1>4, RowsKept DEF rows, calendar
<1>9. ContactHearsTheTruth' /\ ClosedKept
  BY <1>1, <1>3, <1>4, ContactKept DEF Harmless, rows
<1> QED BY <1>7, <1>8, <1>9

LEMMA BeginRescheduleKeeps ==
    ASSUME BookingInv, NEW h \in Handlers, NEW o \in Visits, NEW v \in Visits,
           BeginReschedule(h, o, v)
    PROVE  RequestsInv' /\ RowsInv' /\ ContactHearsTheTruth' /\ ClosedKept
<1> USE BookingAssumption
<1>1. TypeOK /\ RequestsInv /\ RowsInv /\ ContactHearsTheTruth
  BY DEF BookingInv
<1> DEFINE place == IF status[v] = "Absent" THEN "persisting" ELSE "creating"
<1>2. /\ pc[h] = "idle" /\ visit[h] = NoVisit /\ replaced[h] = NoVisit
      /\ pc'[h] = place /\ op'[h] = "move" /\ visit'[h] = v
      /\ replaced'[h] = o /\ event'[h] = 0 /\ released'[h] = FALSE
      /\ OthersKeep(h)
  <2>1. Begin(h, "move", v, o, 0, place)
    BY DEF BeginReschedule
  <2> HIDE DEF place
  <2> QED BY <1>1, <2>1, BegunRequest
<1>3. /\ UNCHANGED <<rows, contact, calendar, overtaken, asked>>
      /\ revived \subseteq revived'
      /\ status[v] # "Absent" => v \in revived'
      /\ holder[o] = NoHandler
      /\ holder'[o] = h /\ \A w \in Visits \ {o} : holder'[w] = holder[w]
      /\ o # v /\ LeadOf[o] = LeadOf[v]
      /\ status[o] = "Confirmed"
      /\ \A w \in Visits : origin[w] = o => status[w] = "Rejected"
  BY <1>1, TypeFacts DEF BeginReschedule, Unlocked, ActiveSuccessor
<1>4. OrdinaryVisits' \subseteq OrdinaryVisits
  BY <1>3, OrdinaryShrinks
<1>5. StepOf(h)
  BY <1>2, <1>3, <1>4 DEF StepOf, Untouched, rows, calendar
<1>6. Attempting(h)' => visit'[h] \notin OrdinaryVisits'
  <2>1. status[v] # "Absent" => v \notin OrdinaryVisits'
    BY <1>3 DEF OrdinaryVisits, Ordinary
  <2> QED BY <1>2, <2>1 DEF Attempting
<1>7. RequestInv(h)'
  <2>1. HoldsItsRows(h)'
    BY <1>2, <1>3 DEF HoldsItsRows, rows
  <2>2. NoSuccessorMeanwhile(h)'
    BY <1>2, <1>3 DEF NoSuccessorMeanwhile, rows
  <2> QED
    BY <1>2, <1>6, <2>1, <2>2
    DEF RequestInv, AttemptIsUndisturbed, EvidenceStands, ReleasedIsGone
<1>8. RequestsInv'
  BY <1>1, <1>5, <1>6, <1>7, RequestsKept DEF RowsInv
<1>9. RowsInv'
  BY <1>1, <1>3, <1>4, RowsKept DEF rows, calendar
<1>10. ContactHearsTheTruth' /\ ClosedKept
  BY <1>1, <1>3, <1>4, ContactKept DEF Harmless, rows
<1> QED BY <1>8, <1>9, <1>10

\* A set of events with one element has no other.
LEMMA OneEvent ==
    ASSUME NEW S \in SUBSET (1 .. MaxEvents), Cardinality(S) = 1, NEW e \in S
    PROVE  S = {e}
<1>1. IsFiniteSet(1 .. MaxEvents)
  BY BookingAssumption, FS_Interval
<1>2. IsFiniteSet(S)
  BY <1>1, FS_Subset
<1> QED BY <1>2, FS_Singleton

LEMMA BeginResolveKeeps ==
    ASSUME BookingInv, NEW h \in Handlers, NEW v \in Visits,
           NEW d \in {"confirm", "reject"}, BeginResolve(h, v, d)
    PROVE  RequestsInv' /\ RowsInv' /\ ContactHearsTheTruth' /\ ClosedKept
<1> USE BookingAssumption
<1>1. TypeOK /\ RequestsInv /\ RowsInv /\ ContactHearsTheTruth
  BY DEF BookingInv
<1> DEFINE o == IF d = "confirm" THEN origin[v] ELSE NoVisit
           place == IF o # NoVisit THEN "releasing" ELSE "recording"
<1>2. PICK e \in IF events[v] = {} THEN {0} ELSE events[v] : Begin(h, d, v, o, e, place)
  BY DEF BeginResolve
<1>3. /\ pc[h] = "idle" /\ visit[h] = NoVisit /\ replaced[h] = NoVisit
      /\ pc'[h] = place /\ op'[h] = d /\ visit'[h] = v
      /\ replaced'[h] = o /\ event'[h] = e /\ released'[h] = FALSE
      /\ OthersKeep(h)
  <2> HIDE DEF o, place
  <2> QED BY <1>1, <1>2, BegunRequest
<1>4. /\ UNCHANGED <<rows, contact, calendar, history>>
      /\ holder[v] = NoHandler /\ status[v] = "NeedsReview"
      /\ o # NoVisit => holder[o] = NoHandler /\ status[o] = "Confirmed"
      /\ \A w \in Visits : holder'[w] = IF w \in {v, o} THEN h ELSE holder[w]
      /\ o \in Visits \cup {NoVisit}
  BY <1>1, TypeFacts DEF BeginResolve, Unlocked
<1>5. /\ d = "confirm" => e # 0 /\ events[v] = {e}
      /\ d = "reject" => e = 0 /\ events[v] = {}
  <2>1. CASE d = "confirm"
    <3>1. Cardinality(events[v]) = 1 /\ events[v] \in SUBSET (1 .. MaxEvents)
      BY <1>1, <2>1, TypeFacts DEF BeginResolve, Evidence
    <3>2. events[v] # {}
      BY <3>1, FS_EmptySet
    <3> QED BY <1>2, <2>1, <3>1, <3>2, OneEvent
  <2>2. CASE d = "reject"
    BY <1>2, <2>2 DEF BeginResolve, Evidence
  <2> QED BY <2>1, <2>2
<1>6. OrdinaryVisits' = OrdinaryVisits
  BY <1>4, OrdinaryKept DEF history
<1>7. StepOf(h)
  BY <1>3, <1>4, <1>6 DEF StepOf, Untouched, rows, calendar, history
<1>8. RequestInv(h)' /\ ~Attempting(h)'
  <2>1. HoldsItsRows(h)'
    BY <1>3, <1>4 DEF HoldsItsRows, rows
  <2>2. EvidenceStands(h)'
    BY <1>3, <1>4, <1>5 DEF EvidenceStands, calendar
  <2> QED
    BY <1>3, <2>1, <2>2
    DEF RequestInv, AttemptIsUndisturbed, NoSuccessorMeanwhile, ReleasedIsGone, Attempting
<1>9. RequestsInv'
  BY <1>1, <1>7, <1>8, RequestsKept DEF RowsInv
<1>10. RowsInv'
  BY <1>1, <1>4, <1>6, RowsKept DEF rows, calendar, history
<1>11. ContactHearsTheTruth' /\ ClosedKept
  BY <1>1, <1>4, <1>6, ContactKept DEF Harmless, rows
<1> QED BY <1>9, <1>10, <1>11

-----------------------------------------------------------------------------
(***************************************************************************)
(* Requests that go on.                                                    *)
(***************************************************************************)

\* A request that ends without having written anything.
LEMMA GivingUpKeeps ==
    ASSUME BookingInv, NEW h \in Handlers, Finish(h),
           UNCHANGED <<rows, contact, calendar, history>>
    PROVE  RequestsInv' /\ RowsInv' /\ ContactHearsTheTruth' /\ ClosedKept
<1>1. TypeOK /\ RequestsInv /\ RowsInv /\ ContactHearsTheTruth
  BY DEF BookingInv
<1>2. /\ RequestInv(h)' /\ ~Attempting(h)' /\ OthersKeep(h)
      /\ \A v \in Visits : holder[v] \in Handlers \ {h} => holder'[v] = holder[v]
  BY <1>1, FinishedRequest
<1>3. OrdinaryVisits' = OrdinaryVisits
  BY OrdinaryKept DEF history
<1>4. StepOf(h)
  BY <1>2, <1>3 DEF StepOf, Untouched, rows, calendar, history
<1>5. RequestsInv'
  BY <1>1, <1>2, <1>4, RequestsKept DEF RowsInv
<1>6. RowsInv'
  BY <1>1, <1>3, RowsKept DEF rows, calendar, history
<1>7. ContactHearsTheTruth' /\ ClosedKept
  BY <1>1, <1>3, ContactKept DEF Harmless, rows
<1> QED BY <1>5, <1>6, <1>7

LEMMA PersistAttemptKeeps ==
    ASSUME BookingInv, NEW h \in Handlers, PersistAttempt(h)
    PROVE  RequestsInv' /\ RowsInv' /\ ContactHearsTheTruth' /\ ClosedKept
<1> USE BookingAssumption
<1>1. TypeOK /\ RequestsInv /\ RowsInv /\ ContactHearsTheTruth
  BY DEF BookingInv
<1>2. CASE Finish(h) /\ UNCHANGED <<status, origin>>
  BY <1>2, GivingUpKeeps DEF PersistAttempt, rows
<1>3. CASE ~(Finish(h) /\ UNCHANGED <<status, origin>>)
  <2> DEFINE v == visit[h]
  <2>1. /\ HandlerTypeOK /\ RequestInv(h) /\ HoldsItsRows(h)
        /\ pc[h] = "persisting" /\ op[h] \in {"book", "move"}
        /\ v \in Visits /\ v # NoVisit
        /\ replaced[h] \in Visits \cup {NoVisit}
    BY <1>1, TypeFacts DEF PersistAttempt, RequestsInv, RequestInv, HoldsItsRows, HandlerTypeOK
  <2>2. /\ status[v] = "Absent"
        /\ Consistent([status EXCEPT ![v] = "Pending"], stored,
                      [origin EXCEPT ![v] = replaced[h]])
        /\ status' = [status EXCEPT ![v] = "Pending"]
        /\ origin' = [origin EXCEPT ![v] = replaced[h]]
        /\ pc' = [pc EXCEPT ![h] = "creating"]
        /\ holder' = Freed(h)
        /\ UNCHANGED <<op, visit, replaced, event, released>>
        /\ UNCHANGED <<stored, contact, calendar, history>>
    BY <1>3 DEF PersistAttempt
  <2>3. /\ status'[v] = "Pending" /\ origin'[v] = replaced[h]
        /\ \A w \in Visits \ {v} : status'[w] = status[w] /\ origin'[w] = origin[w]
        /\ pc'[h] = "creating"
        /\ \A w \in Visits : holder[w] \in Handlers \ {h} => holder'[w] = holder[w]
        /\ OthersKeep(h)
    BY <1>1, <2>1, <2>2, TypeFacts DEF Freed, OthersKeep, HandlerTypeOK
  <2>4. OrdinaryVisits' = OrdinaryVisits /\ OrdinaryVisits \subseteq Visits
    BY <2>2, OrdinaryKept DEF history, OrdinaryVisits
  <2>5. StepOf(h)
    BY <2>1, <2>2, <2>3, <2>4 DEF StepOf, Untouched, calendar, history
  <2>6. RequestInv(h)'
    <3>1. HoldsItsRows(h)'
      BY <2>1, <2>2, <2>3 DEF HoldsItsRows
    <3>2. AttemptIsUndisturbed(h)'
      <4>1. v \in OrdinaryVisits => events[v] = {}
        BY <1>1, <2>2 DEF RowsInv, RowsMatchTheCalendar
      <4>2. op[h] = "move" => status'[replaced[h]] = "Confirmed"
        BY <2>1, <2>3 DEF HoldsItsRows
      <4>3. event[h] = 0
        BY <2>1 DEF HoldsItsRows
      <4> QED BY <2>2, <2>3, <2>4, <4>1, <4>2, <4>3 DEF AttemptIsUndisturbed, calendar
    <3>3. NoSuccessorMeanwhile(h)' /\ EvidenceStands(h)' /\ ReleasedIsGone(h)'
      BY <2>1, <2>2, <2>3 DEF RequestInv, NoSuccessorMeanwhile, EvidenceStands, ReleasedIsGone
    <3> QED BY <3>1, <3>2, <3>3 DEF RequestInv
  <2>7. RequestsInv'
    <3>1. status[visit'[h]] = "Absent"
      BY <2>2
    <3> QED BY <1>1, <2>5, <2>6, <3>1, RequestsKept DEF RowsInv
  <2>8. RowsInv'
    <3>1. OriginsAreSiblings'
      BY <1>1, <2>1, <2>3 DEF RowsInv, OriginsAreSiblings, HoldsItsRows
    <3>2. RowsMatchTheCalendar'
      BY <1>1, <2>2, <2>3, <2>4 DEF RowsInv, RowsMatchTheCalendar, calendar
    <3>3. TableIsConsistent'
      BY <2>2 DEF TableIsConsistent
    <3>4. SuccessorsHaveReplaced'
      BY <1>1, <2>2, <2>3, <2>4 DEF RowsInv, SuccessorsHaveReplaced
    <3>5. ConfirmedAreOnTheCalendar'
      BY <1>1, <2>2, <2>3, <2>4 DEF RowsInv, ConfirmedAreOnTheCalendar, calendar, history
    <3> QED BY <3>1, <3>2, <3>3, <3>4, <3>5 DEF RowsInv
  <2>9. ContactHearsTheTruth' /\ ClosedKept
    BY <1>1, <2>2, <2>3, <2>4, ContactKept DEF Harmless
  <2> QED BY <2>7, <2>8, <2>9
<1> QED BY <1>2, <1>3

\* The event belongs to the attempt that asked for it.
LEMMA CreateEventKeeps ==
    ASSUME BookingInv, NEW h \in Handlers, CreateEvent(h)
    PROVE  RequestsInv' /\ RowsInv' /\ ContactHearsTheTruth' /\ ClosedKept
<1> USE BookingAssumption
<1> DEFINE v == visit[h]
           n == made[v] + 1
<1>1. TypeOK /\ RequestsInv /\ RowsInv /\ ContactHearsTheTruth
  BY DEF BookingInv
<1>2. /\ HandlerTypeOK /\ RequestInv(h) /\ HoldsItsRows(h)
      /\ pc[h] = "creating" /\ op[h] \in {"book", "move"} /\ event[h] = 0
      /\ v \in Visits /\ v # NoVisit /\ Attempting(h)
  BY <1>1, TypeFacts
  DEF CreateEvent, RequestsInv, RequestInv, HoldsItsRows, HandlerTypeOK, Attempting
<1>3. UNCHANGED <<rows, contact, holder, op, visit, replaced, released, history>>
  BY DEF CreateEvent
<1>4. n # 0
  BY <1>1, <1>2 DEF TypeOK
<1>5. /\ pc'[h] \in {"releasing", "recording"}
      /\ pc'[h] = "releasing" => op[h] = "move" /\ event'[h] # 0
      /\ event'[h] # 0 => events'[v] = events[v] \cup {event'[h]}
      /\ OthersKeep(h)
      /\ \A w \in Visits \ {v} : events'[w] = events[w]
      /\ events[v] \subseteq events'[v]
  <2>1. /\ \/ /\ events' = [events EXCEPT ![v] = @ \cup {n}]
              /\ event' = [event EXCEPT ![h] = n]
              /\ pc' = [pc EXCEPT ![h] = IF op[h] = "book" THEN "recording" ELSE "releasing"]
           \/ /\ events' = [events EXCEPT ![v] = @ \cup {n}]
              /\ pc' = [pc EXCEPT ![h] = "recording"]
              /\ UNCHANGED event
           \/ /\ pc' = [pc EXCEPT ![h] = "recording"]
              /\ UNCHANGED <<events, made, event>>
    BY DEF CreateEvent
  <2> HIDE DEF n
  <2> QED BY <1>1, <1>2, <1>3, <1>4, <2>1, TypeFacts DEF HandlerTypeOK, OthersKeep
<1>6. OrdinaryVisits' = OrdinaryVisits /\ OrdinaryVisits \subseteq Visits
  BY <1>3, OrdinaryKept DEF history, OrdinaryVisits
<1>7. StepOf(h)
  BY <1>2, <1>3, <1>5, <1>6 DEF StepOf, Untouched, rows, history
<1>8. v \in OrdinaryVisits => status[v] = "Pending" /\ origin[v] = replaced[h] /\ events[v] = {}
  BY <1>2 DEF RequestInv, AttemptIsUndisturbed
<1>9. RequestInv(h)' /\ Attempting(h)'
  <2>1. HoldsItsRows(h)'
    BY <1>2, <1>3, <1>5 DEF HoldsItsRows, rows, history
  <2>2. Attempting(h)' /\ AttemptIsUndisturbed(h)'
    BY <1>2, <1>3, <1>5, <1>6, <1>8 DEF RequestInv, Attempting, AttemptIsUndisturbed, rows
  <2>3. NoSuccessorMeanwhile(h)' /\ EvidenceStands(h)' /\ ReleasedIsGone(h)'
    BY <1>2, <1>3, <1>5 DEF RequestInv, NoSuccessorMeanwhile, EvidenceStands, ReleasedIsGone
  <2> QED BY <2>1, <2>2, <2>3 DEF RequestInv
<1>10. RequestsInv'
  <2>1. visit'[h] = visit[h]
    BY <1>3
  <2> QED BY <1>1, <1>2, <1>7, <1>9, <2>1, RequestsKept DEF RowsInv
<1>11. RowsInv'
  <2>1. OriginsAreSiblings' /\ TableIsConsistent'
    BY <1>1, <1>3 DEF RowsInv, OriginsAreSiblings, TableIsConsistent, Consistent, Claims, rows
  <2>2. RowsMatchTheCalendar'
    BY <1>1, <1>3, <1>5, <1>6, <1>8 DEF RowsInv, RowsMatchTheCalendar, rows
  <2>3. SuccessorsHaveReplaced'
    BY <1>1, <1>3, <1>6 DEF RowsInv, SuccessorsHaveReplaced, rows
  <2>4. ConfirmedAreOnTheCalendar'
    <3>1. \A w \in Visits : events[w] \subseteq events'[w]
      BY <1>5
    <3> QED
      BY <1>1, <1>3, <1>6, <3>1 DEF RowsInv, ConfirmedAreOnTheCalendar, rows, history
  <2> QED BY <2>1, <2>2, <2>3, <2>4 DEF RowsInv
<1>12. ContactHearsTheTruth' /\ ClosedKept
  BY <1>1, <1>3, <1>6, ContactKept DEF Harmless, rows
<1> QED BY <1>10, <1>11, <1>12

LEMMA ReleaseEventKeeps ==
    ASSUME BookingInv, NEW h \in Handlers, ReleaseEvent(h)
    PROVE  RequestsInv' /\ RowsInv' /\ ContactHearsTheTruth' /\ ClosedKept
<1> USE BookingAssumption
<1> DEFINE v == visit[h]
           o == Target(h)
<1>1. TypeOK /\ RequestsInv /\ RowsInv /\ ContactHearsTheTruth
  BY DEF BookingInv
<1>2. /\ HandlerTypeOK /\ RequestInv(h) /\ HoldsItsRows(h)
      /\ pc[h] = "releasing" /\ op[h] \in {"cancel", "move", "confirm"}
      /\ v \in Visits /\ v # NoVisit
      /\ o \in Visits /\ o # NoVisit
  BY <1>1, TypeFacts
  DEF ReleaseEvent, RequestsInv, RequestInv, HoldsItsRows, HandlerTypeOK, Target
<1>3. /\ UNCHANGED <<made, rows, contact, history>>
      /\ \A w \in Visits \ {o} : events'[w] = events[w]
      /\ events'[o] \subseteq events[o]
  BY <1>1, <1>2, TypeFacts DEF ReleaseEvent, Target
<1>4. OrdinaryVisits' = OrdinaryVisits /\ OrdinaryVisits \subseteq Visits
  BY <1>3, OrdinaryKept DEF history, OrdinaryVisits
<1>5. \/ Finish(h)
      \/ /\ pc' = [pc EXCEPT ![h] = "recording"]
         /\ UNCHANGED <<op, visit, replaced, event, holder>>
         /\ \/ /\ released' = [released EXCEPT ![h] = TRUE]
               /\ events'[o] = events[o] \ ToRemove(h, o)
            \/ UNCHANGED released /\ op[h] # "cancel"
  BY <1>1, <1>2, TypeFacts DEF ReleaseEvent, Target
\* The visit that loses its event is Confirmed, and the one that takes its
\* place has one.
<1>6. ASSUME o \in OrdinaryVisits
      PROVE  /\ status[o] = "Confirmed"
             /\ events[o] \subseteq ToRemove(h, o)
             /\ op[h] = "cancel" => o = v /\ o \in asked
             /\ op[h] # "cancel" =>
                   /\ o # v /\ origin[v] = o /\ events[v] # {}
                   /\ status[v] \in {"Pending", "NeedsReview"}
  <2>1. v \in OrdinaryVisits
    <3>1. LeadOf[o] = LeadOf[v]
      BY <1>1, <1>2 DEF RowsInv, OriginsAreSiblings, HoldsItsRows, Target
    <3> QED BY <1>2, <1>6, <3>1, SiblingsAreOrdinary
  <2>2. /\ status[o] = "Confirmed"
        /\ op[h] = "cancel" => o = v /\ o \in asked
        /\ op[h] # "cancel" =>
              /\ o # v /\ origin[v] = o /\ events[v] # {}
              /\ status[v] \in {"Pending", "NeedsReview"}
    BY <1>2, <2>1
    DEF RequestInv, HoldsItsRows, AttemptIsUndisturbed, EvidenceStands, Attempting, Target
  <2>3. stored[o] # 0 /\ events[o] \subseteq {stored[o]}
    BY <1>1, <1>6, <2>2 DEF RowsInv, RowsMatchTheCalendar
  <2> QED BY <2>2, <2>3 DEF ToRemove
<1>7. /\ OthersKeep(h)
      /\ \A w \in Visits : holder[w] \in Handlers \ {h} => holder'[w] = holder[w]
  BY <1>1, <1>2, <1>5, FinishedRequest DEF OthersKeep, HandlerTypeOK
<1>8. StepOf(h)
  <2>1. o \in {visit[h], replaced[h]}
    BY DEF Target
  <2> QED BY <1>2, <1>3, <1>4, <1>7, <2>1 DEF StepOf, Untouched, rows, history
<1>9. RequestInv(h)' /\ (Attempting(h)' => Attempting(h) /\ visit'[h] = visit[h])
  <2>1. CASE Finish(h)
    BY <1>1, <2>1, FinishedRequest
  <2>2. CASE ~Finish(h)
    <3>1. /\ pc'[h] = "recording"
          /\ op'[h] = op[h] /\ visit'[h] = v /\ replaced'[h] = replaced[h]
          /\ event'[h] = event[h] /\ holder' = holder
          /\ Target(h)' = o
          /\ \/ released'[h] /\ events'[o] = events[o] \ ToRemove(h, o)
             \/ ~released'[h] /\ op[h] # "cancel"
      <4>1. ~released[h]
        BY <1>2 DEF RequestInv, ReleasedIsGone
      <4> QED BY <1>2, <1>5, <2>2, <4>1 DEF HandlerTypeOK, Target
    <3>2. HoldsItsRows(h)'
      BY <1>2, <1>3, <3>1 DEF HoldsItsRows, rows, history
    <3>3. Attempting(h)' => Attempting(h) /\ visit'[h] = visit[h]
      BY <1>2, <3>1 DEF Attempting
    <3>4. op[h] # "cancel" => o = replaced[h]
      BY DEF Target
    <3>5. AttemptIsUndisturbed(h)' /\ EvidenceStands(h)'
      <4>1. v \in OrdinaryVisits /\ op[h] # "cancel" => events'[v] = events[v]
        <5>1. v \in OrdinaryVisits /\ op[h] # "cancel" => v # o
          BY <1>6
        <5> QED BY <1>2, <1>3, <5>1
      <4> QED
        BY <1>2, <1>3, <1>4, <3>1, <4>1
        DEF RequestInv, AttemptIsUndisturbed, EvidenceStands, Attempting, rows
    <3>6. NoSuccessorMeanwhile(h)'
      BY <1>2, <1>3, <1>4, <3>1 DEF RequestInv, NoSuccessorMeanwhile, rows
    <3>7. ReleasedIsGone(h)'
      <4>1. op[h] = "confirm" => replaced[h] # NoVisit
        BY <1>2, <3>4
      <4>2. o \in OrdinaryVisits /\ released'[h] => events'[o] = {}
        BY <1>6, <3>1
      <4> QED BY <1>2, <1>4, <3>1, <4>1, <4>2 DEF ReleasedIsGone
    <3> QED BY <3>2, <3>3, <3>5, <3>6, <3>7 DEF RequestInv
  <2> QED BY <2>1, <2>2
<1>10. RequestsInv'
  BY <1>1, <1>8, <1>9, RequestsKept DEF RowsInv
<1>11. RowsInv'
  <2>1. OriginsAreSiblings' /\ TableIsConsistent'
    BY <1>1, <1>3 DEF RowsInv, OriginsAreSiblings, TableIsConsistent, Consistent, Claims, rows
  <2>2. RowsMatchTheCalendar'
    BY <1>1, <1>3, <1>4 DEF RowsInv, RowsMatchTheCalendar, rows
  <2>3. SuccessorsHaveReplaced'
    BY <1>1, <1>3, <1>4 DEF RowsInv, SuccessorsHaveReplaced, rows
  <2>4. ConfirmedAreOnTheCalendar'
    <3> SUFFICES ASSUME NEW u \in OrdinaryVisits, status[u] = "Confirmed", u \notin asked
                 PROVE  \/ events'[u] # {}
                        \/ \E w \in Visits : /\ origin[w] = u
                                             /\ status[w] \in {"Pending", "NeedsReview"}
                                             /\ events'[w] # {}
      BY <1>3, <1>4 DEF ConfirmedAreOnTheCalendar, rows, history
    <3>1. CASE u = o
      BY <1>2, <1>3, <1>6, <3>1
    <3>2. CASE u # o
      <4>1. \/ events[u] # {}
            \/ \E w \in Visits : /\ origin[w] = u
                                 /\ status[w] \in {"Pending", "NeedsReview"}
                                 /\ events[w] # {}
        BY <1>1 DEF RowsInv, ConfirmedAreOnTheCalendar
      <4>2. CASE events[u] # {}
        BY <1>3, <1>4, <3>2, <4>2
      <4>3. ASSUME NEW w \in Visits, origin[w] = u,
                   status[w] \in {"Pending", "NeedsReview"}, events[w] # {}
            PROVE  events'[w] # {}
        <5>1. w \in OrdinaryVisits
          <6>1. LeadOf[w] = LeadOf[u]
            BY <1>1, <1>4, <4>3 DEF RowsInv, OriginsAreSiblings
          <6> QED BY <6>1, SiblingsAreOrdinary
        <5>2. w # o
          BY <1>6, <4>3, <5>1
        <5> QED BY <1>3, <4>3, <5>2
      <4> QED BY <4>1, <4>2, <4>3
    <3> QED BY <3>1, <3>2
  <2> QED BY <2>1, <2>2, <2>3, <2>4 DEF RowsInv
<1>12. ContactHearsTheTruth' /\ ClosedKept
  BY <1>1, <1>3, <1>4, ContactKept DEF Harmless, rows
<1> QED BY <1>10, <1>11, <1>12

-----------------------------------------------------------------------------
(***************************************************************************)
(* Requests that record.                                                   *)
(***************************************************************************)

\* The others lose nothing by it: the rows they have locked stay.
LEMMA RecordingKeepsRequests ==
    ASSUME BookingInv, NEW h \in Handlers, pc[h] = "recording", Finish(h),
           UNCHANGED <<origin, calendar, history>>,
           \A w \in Visits : status'[w] = status[w] \/ w \in {visit[h], replaced[h]},
           \A w \in Visits : holder[w] \in Handlers \ {h} => status'[w] = status[w]
    PROVE  RequestsInv'
<1>1. TypeOK /\ RequestsInv /\ RowsInv
  BY DEF BookingInv
<1>2. /\ RequestInv(h)' /\ ~Attempting(h)' /\ OthersKeep(h)
      /\ \A w \in Visits : holder[w] \in Handlers \ {h} => holder'[w] = holder[w]
  BY <1>1, FinishedRequest
<1>3. OrdinaryVisits' = OrdinaryVisits
  BY OrdinaryKept DEF history
<1>4. StepOf(h)
  BY <1>2, <1>3 DEF StepOf, Untouched, calendar, history
<1> QED BY <1>1, <1>2, <1>4, RequestsKept DEF RowsInv

\* What a request knows when it records.
LEMMA RecordingKnows ==
    ASSUME BookingInv, NEW h \in Handlers, pc[h] = "recording"
    PROVE  /\ visit[h] \in Visits /\ visit[h] # NoVisit
           /\ replaced[h] \in Visits \cup {NoVisit}
           /\ HoldsItsRows(h)
           /\ visit[h] \in OrdinaryVisits =>
                /\ op[h] \in {"book", "move"} =>
                      /\ status[visit[h]] = "Pending"
                      /\ origin[visit[h]] = replaced[h]
                      /\ event[h] # 0 => events[visit[h]] = {event[h]}
                /\ op[h] = "move" => status[replaced[h]] = "Confirmed"
                /\ op[h] = "cancel" =>
                      /\ events[visit[h]] = {}
                      /\ \A w \in Visits : origin[w] = visit[h] => status[w] = "Rejected"
                /\ op[h] = "confirm" => event[h] # 0 /\ events[visit[h]] = {event[h]}
                /\ op[h] = "reject" => event[h] = 0 /\ events[visit[h]] = {}
           /\ op[h] \in {"move", "confirm"} /\ released[h] =>
                (replaced[h] \in OrdinaryVisits => events[replaced[h]] = {})
           /\ replaced[h] \in OrdinaryVisits => visit[h] \in OrdinaryVisits
<1>1. /\ TypeOK /\ RequestInv(h) /\ RowsInv /\ HandlerTypeOK
      /\ visit[h] \in Visits /\ visit[h] # NoVisit
      /\ replaced[h] \in Visits \cup {NoVisit}
  BY TypeFacts, BookingAssumption DEF BookingInv, RequestsInv, HandlerTypeOK
<1>2. HoldsItsRows(h)
  BY <1>1 DEF RequestInv
<1>3. op[h] \in {"book", "move"} => Attempting(h)
  BY DEF Attempting
<1>4. ASSUME visit[h] \in OrdinaryVisits, op[h] \in {"book", "move"}
      PROVE  /\ status[visit[h]] = "Pending"
             /\ origin[visit[h]] = replaced[h]
             /\ event[h] # 0 => events[visit[h]] = {event[h]}
             /\ op[h] = "move" => status[replaced[h]] = "Confirmed"
  BY <1>1, <1>3, <1>4 DEF RequestInv, AttemptIsUndisturbed
<1>5. ASSUME visit[h] \in OrdinaryVisits, op[h] = "cancel"
      PROVE  /\ events[visit[h]] = {}
             /\ \A w \in Visits : origin[w] = visit[h] => status[w] = "Rejected"
  BY <1>1, <1>2, <1>5
  DEF RequestInv, HoldsItsRows, ReleasedIsGone, NoSuccessorMeanwhile, Target
<1>6. ASSUME visit[h] \in OrdinaryVisits
      PROVE  /\ op[h] = "confirm" => event[h] # 0 /\ events[visit[h]] = {event[h]}
             /\ op[h] = "reject" => event[h] = 0 /\ events[visit[h]] = {}
  BY <1>1, <1>6 DEF RequestInv, EvidenceStands
<1>7. op[h] \in {"move", "confirm"} /\ released[h] =>
         (replaced[h] \in OrdinaryVisits => events[replaced[h]] = {})
  BY <1>1 DEF RequestInv, ReleasedIsGone, Target
<1>8. replaced[h] \in OrdinaryVisits => visit[h] \in OrdinaryVisits
  <2> SUFFICES ASSUME replaced[h] \in OrdinaryVisits
               PROVE  LeadOf[visit[h]] = LeadOf[replaced[h]]
    BY <1>1, SiblingsAreOrdinary
  <2>1. replaced[h] \in Visits /\ replaced[h] # NoVisit
    BY BookingAssumption DEF OrdinaryVisits
  <2>2. op[h] = "move" \/ op[h] = "confirm"
    BY <1>1, <1>2, <2>1 DEF HoldsItsRows, HandlerTypeOK
  <2> QED BY <1>1, <1>2, <2>1, <2>2 DEF HoldsItsRows, RowsInv, OriginsAreSiblings
<1> QED BY <1>1, <1>2, <1>4, <1>5, <1>6, <1>7, <1>8

\* A visit and the one that takes its place, both recorded.
LEMMA ReplacingKeepsRows ==
    ASSUME BookingInv, NEW v \in Visits, NEW o \in Visits \cup {NoVisit},
           UNCHANGED <<origin, events, history>>,
           v # o, origin[v] = o \/ v \notin OrdinaryVisits,
           status'[v] = "Confirmed",
           o \in Visits => status[o] = "Confirmed" \/ v \notin OrdinaryVisits,
           o \in Visits => status'[o] = "Rescheduled",
           o \in Visits => LeadOf[o] = LeadOf[v],
           \A w \in Visits \ {v, o} : status'[w] = status[w] /\ stored'[w] = stored[w],
           v \in OrdinaryVisits =>
              /\ status[v] \in {"Pending", "NeedsReview"}
              /\ stored'[v] # 0 /\ events[v] = {stored'[v]},
           o \in OrdinaryVisits => stored'[o] # 0 \/ events[o] = {},
           TableIsConsistent'
    PROVE  RowsInv'
<1> USE BookingAssumption
<1>1. TypeOK /\ RowsInv
  BY DEF BookingInv
<1>2. OrdinaryVisits' = OrdinaryVisits /\ OrdinaryVisits \subseteq Visits
  BY OrdinaryKept DEF history, OrdinaryVisits
<1>3. \A u, w \in Visits : origin[w] = u => (u \in OrdinaryVisits <=> w \in OrdinaryVisits)
  <2> SUFFICES ASSUME NEW u \in Visits, NEW w \in Visits, origin[w] = u
               PROVE  u \in OrdinaryVisits <=> w \in OrdinaryVisits
    OBVIOUS
  <2>1. LeadOf[u] = LeadOf[w]
    BY <1>1 DEF RowsInv, OriginsAreSiblings
  <2> QED BY <2>1, SiblingsAreOrdinary
<1>4. o \in Visits => (o \in OrdinaryVisits <=> v \in OrdinaryVisits)
  <2> SUFFICES ASSUME o \in Visits PROVE o \in OrdinaryVisits <=> v \in OrdinaryVisits
    OBVIOUS
  <2> QED BY SiblingsAreOrdinary
<1>5. OriginsAreSiblings'
  BY <1>1 DEF RowsInv, OriginsAreSiblings
<1>6. RowsMatchTheCalendar'
  BY <1>1, <1>2 DEF RowsInv, RowsMatchTheCalendar
<1>7. SuccessorsHaveReplaced'
  <2> SUFFICES ASSUME NEW u \in OrdinaryVisits, NEW p \in Visits,
                      status'[u] = "Confirmed", origin[u] = p
               PROVE  status'[p] = "Rescheduled"
    BY <1>2 DEF SuccessorsHaveReplaced
  <2>1. CASE u = v
    BY <2>1
  <2>2. CASE u # v
    <3>1. u # o /\ status[u] = "Confirmed"
      BY <1>2, <2>2
    <3>2. status[p] = "Rescheduled" /\ p \in OrdinaryVisits
      BY <1>1, <1>2, <1>3, <3>1 DEF RowsInv, SuccessorsHaveReplaced
    <3>3. p # v
      BY <3>2
    <3> QED BY <3>2, <3>3
  <2> QED BY <2>1, <2>2
<1>8. ConfirmedAreOnTheCalendar'
  <2> SUFFICES ASSUME NEW u \in OrdinaryVisits, status'[u] = "Confirmed", u \notin asked
               PROVE  \/ events[u] # {}
                      \/ \E w \in Visits : /\ origin[w] = u
                                           /\ status'[w] \in {"Pending", "NeedsReview"}
                                           /\ events[w] # {}
    BY <1>2 DEF ConfirmedAreOnTheCalendar, history
  <2>1. CASE u = v
    BY <2>1
  <2>2. CASE u # v
    <3>1. u # o /\ status[u] = "Confirmed"
      BY <1>2, <2>2
    <3>2. \/ events[u] # {}
          \/ \E w \in Visits : /\ origin[w] = u
                               /\ status[w] \in {"Pending", "NeedsReview"}
                               /\ events[w] # {}
      BY <1>1, <3>1 DEF RowsInv, ConfirmedAreOnTheCalendar
    <3>3. ASSUME NEW w \in Visits, origin[w] = u, status[w] \in {"Pending", "NeedsReview"}
          PROVE  status'[w] = status[w]
      <4>1. w \in OrdinaryVisits
        BY <1>2, <1>3, <3>3
      <4>2. w # v
        BY <3>1, <3>3, <4>1
      <4>3. w # o
        BY <1>4, <3>3, <4>1
      <4> QED BY <4>2, <4>3
    <3> QED BY <3>2, <3>3
  <2> QED BY <2>1, <2>2
<1> QED BY <1>5, <1>6, <1>7, <1>8 DEF RowsInv

\* Attempts that become a case for review, whoever finds out.
LEMMA ReviewKeepsRows ==
    ASSUME BookingInv, UNCHANGED <<origin, stored, events, asked>>,
           OrdinaryVisits' \subseteq OrdinaryVisits,
           \A w \in Visits : status'[w] \in {status[w], "NeedsReview"},
           \A w \in OrdinaryVisits : status'[w] # status[w] => status[w] = "Pending",
           TableIsConsistent'
    PROVE  RowsInv'
<1>1. TypeOK /\ RowsInv /\ OrdinaryVisits \subseteq Visits
  BY DEF BookingInv, OrdinaryVisits
<1>2. OriginsAreSiblings'
  BY <1>1 DEF RowsInv, OriginsAreSiblings
<1>3. RowsMatchTheCalendar'
  BY <1>1 DEF RowsInv, RowsMatchTheCalendar
<1>4. SuccessorsHaveReplaced'
  <2> SUFFICES ASSUME NEW u \in OrdinaryVisits, NEW p \in Visits,
                      status'[u] = "Confirmed", origin[u] = p
               PROVE  status'[p] = "Rescheduled"
    BY DEF SuccessorsHaveReplaced
  <2>1. status[p] = "Rescheduled"
    BY <1>1 DEF RowsInv, SuccessorsHaveReplaced
  <2>2. p \in OrdinaryVisits
    <3>1. LeadOf[p] = LeadOf[u]
      BY <1>1, BookingAssumption DEF RowsInv, OriginsAreSiblings
    <3> QED BY <3>1, SiblingsAreOrdinary
  <2> QED BY <2>1, <2>2
<1>5. ConfirmedAreOnTheCalendar'
  BY <1>1 DEF RowsInv, ConfirmedAreOnTheCalendar
<1> QED BY <1>2, <1>3, <1>4, <1>5 DEF RowsInv

\* A visit that is given up, with nothing of it left on the calendar.
LEMMA ClosingKeepsRows ==
    ASSUME BookingInv, NEW v \in Visits, UNCHANGED <<origin, events, history>>,
           \/ status[v] = "Confirmed" /\ status'[v] = "Cancelled"
           \/ status[v] = "NeedsReview" /\ status'[v] = "Rejected",
           \A w \in Visits \ {v} : status'[w] = status[w] /\ stored'[w] = stored[w],
           v \in OrdinaryVisits => events[v] = {}
    PROVE  RowsInv'
<1> USE BookingAssumption
<1>1. TypeOK /\ RowsInv
  BY DEF BookingInv
<1>2. OrdinaryVisits' = OrdinaryVisits /\ OrdinaryVisits \subseteq Visits
  BY OrdinaryKept DEF history, OrdinaryVisits
<1>3. OriginsAreSiblings' /\ RowsMatchTheCalendar'
  BY <1>1, <1>2 DEF RowsInv, OriginsAreSiblings, RowsMatchTheCalendar
<1>4. TableIsConsistent'
  <2>1. \A w \in Visits : Claims(status', stored', w) => Claims(status, stored, w)
    BY DEF Claims
  <2>2. \A w \in Visits : status[w] = "Rejected" => status'[w] = "Rejected"
    OBVIOUS
  <2> HIDE DEF Claims
  <2> QED BY <1>1, <2>1, <2>2 DEF RowsInv, TableIsConsistent, Consistent
<1>5. SuccessorsHaveReplaced'
  BY <1>1, <1>2 DEF RowsInv, SuccessorsHaveReplaced
<1>6. ConfirmedAreOnTheCalendar'
  <2> SUFFICES ASSUME NEW u \in OrdinaryVisits, status'[u] = "Confirmed", u \notin asked
               PROVE  \/ events[u] # {}
                      \/ \E w \in Visits : /\ origin[w] = u
                                           /\ status'[w] \in {"Pending", "NeedsReview"}
                                           /\ events[w] # {}
    BY <1>2 DEF ConfirmedAreOnTheCalendar, history
  <2>1. u # v /\ status[u] = "Confirmed"
    BY <1>2
  <2>2. \/ events[u] # {}
        \/ \E w \in Visits : /\ origin[w] = u
                             /\ status[w] \in {"Pending", "NeedsReview"}
                             /\ events[w] # {}
    BY <1>1, <2>1 DEF RowsInv, ConfirmedAreOnTheCalendar
  <2>3. ASSUME NEW w \in Visits, origin[w] = u, events[w] # {}
        PROVE  w # v
    <3>1. LeadOf[w] = LeadOf[u]
      BY <1>1, <1>2, <2>3 DEF RowsInv, OriginsAreSiblings
    <3>2. w \in OrdinaryVisits
      BY <3>1, SiblingsAreOrdinary
    <3> QED BY <2>3, <3>2
  <2> QED BY <2>2, <2>3
<1> QED BY <1>3, <1>4, <1>5, <1>6 DEF RowsInv

LEMMA RecordBookingKeeps ==
    ASSUME BookingInv, NEW h \in Handlers, RecordBooking(h)
    PROVE  RequestsInv' /\ RowsInv' /\ ContactHearsTheTruth' /\ ClosedKept
<1> USE BookingAssumption
<1> DEFINE v == visit[h]
<1>1. TypeOK /\ RequestsInv /\ RowsInv /\ ContactHearsTheTruth
  BY DEF BookingInv
<1>2. /\ pc[h] = "recording" /\ op[h] = "book" /\ Finish(h) /\ holder[v] = NoHandler
      /\ UNCHANGED <<origin, contact, calendar, history>>
  BY DEF RecordBooking, Unlocked
<1>3. /\ v \in Visits /\ replaced[h] = NoVisit
      /\ v \in OrdinaryVisits =>
           /\ status[v] = "Pending" /\ origin[v] = NoVisit
           /\ event[h] # 0 => events[v] = {event[h]}
  BY <1>2, RecordingKnows DEF HoldsItsRows
<1>4. CASE UNCHANGED <<status, stored>>
  BY <1>2, <1>4, GivingUpKeeps DEF rows
<1>5. CASE ~UNCHANGED <<status, stored>>
  <2>1. /\ status' = [status EXCEPT ![v] = Outcome(h)]
        /\ stored' = [stored EXCEPT ![v] = IF event[h] # 0 THEN event[h] ELSE @]
        /\ Consistent([status EXCEPT ![v] = Outcome(h)], stored, origin)
    BY <1>5 DEF RecordBooking
  <2>2. /\ status'[v] = IF event[h] # 0 THEN "Confirmed" ELSE "NeedsReview"
        /\ event[h] # 0 => stored'[v] = event[h]
        /\ event[h] = 0 => stored' = stored
        /\ \A w \in Visits \ {v} : status'[w] = status[w] /\ stored'[w] = stored[w]
    BY <1>1, <1>3, <2>1, TypeFacts DEF Outcome
  <2>3. OrdinaryVisits' = OrdinaryVisits /\ OrdinaryVisits \subseteq Visits
    BY <1>2, OrdinaryKept DEF history, OrdinaryVisits
  <2>4. RequestsInv'
    BY <1>2, <2>2, RecordingKeepsRequests
  <2>5. TableIsConsistent'
    <3>1. \A w \in Visits : Claims(status', stored', w) => Claims(status', stored, w)
      BY <2>2 DEF Claims
    <3> QED BY <1>2, <2>1, <3>1 DEF TableIsConsistent, Consistent
  <2>6. RowsInv'
    <3>1. CASE event[h] # 0
      BY <1>2, <1>3, <2>2, <2>3, <2>5, <3>1, ReplacingKeepsRows DEF calendar
    <3>2. CASE event[h] = 0
      BY <1>2, <1>3, <2>2, <2>3, <2>5, <3>2, ReviewKeepsRows DEF calendar, history
    <3> QED BY <3>1, <3>2
  <2>7. ContactHearsTheTruth' /\ ClosedKept
    <3>1. \A w \in OrdinaryVisits' : Harmless(w)
      BY <1>3, <2>2, <2>3 DEF Harmless
    <3> QED BY <1>1, <1>2, <2>3, <3>1, ContactKept
  <2> QED BY <2>4, <2>6, <2>7
<1> QED BY <1>4, <1>5

LEMMA RecordMoveKeeps ==
    ASSUME BookingInv, NEW h \in Handlers, RecordMove(h)
    PROVE  RequestsInv' /\ RowsInv' /\ ContactHearsTheTruth' /\ ClosedKept
<1> USE BookingAssumption
<1> DEFINE v == visit[h]
           o == replaced[h]
<1>1. TypeOK /\ RequestsInv /\ RowsInv /\ ContactHearsTheTruth
  BY DEF BookingInv
<1>2. /\ pc[h] = "recording" /\ op[h] = "move" /\ Finish(h)
      /\ holder[v] = NoHandler /\ holder[o] \in {NoHandler, h}
      /\ UNCHANGED <<origin, contact, calendar, history>>
  BY DEF RecordMove, Unlocked
<1>3. /\ v \in Visits /\ o \in Visits /\ o # v /\ LeadOf[o] = LeadOf[v]
      /\ v \in OrdinaryVisits =>
           /\ status[v] = "Pending" /\ origin[v] = o /\ status[o] = "Confirmed"
           /\ event[h] # 0 => events[v] = {event[h]}
      /\ o \in OrdinaryVisits => v \in OrdinaryVisits
      /\ o \in OrdinaryVisits /\ released[h] => events[o] = {}
  BY <1>2, RecordingKnows DEF HoldsItsRows
<1>4. CASE UNCHANGED <<status, stored>>
  BY <1>2, <1>4, GivingUpKeeps DEF rows
<1>5. CASE ~UNCHANGED <<status, stored>>
  <2>1. /\ status' = IF event[h] # 0
                     THEN Replace([status EXCEPT ![v] = "Confirmed"], o)
                     ELSE [status EXCEPT ![v] = "NeedsReview"]
        /\ stored' = IF event[h] # 0
                     THEN [stored EXCEPT ![v] = event[h],
                                         ![o] = IF released[h] THEN 0 ELSE @]
                     ELSE stored
        /\ Consistent(status', stored', origin)
    BY <1>5 DEF RecordMove
  <2>2. /\ event[h] # 0 =>
             /\ status'[v] = "Confirmed" /\ status'[o] = "Rescheduled"
             /\ stored'[v] = event[h]
             /\ stored'[o] = IF released[h] THEN 0 ELSE stored[o]
             /\ \A w \in Visits \ {v, o} : status'[w] = status[w] /\ stored'[w] = stored[w]
        /\ event[h] = 0 =>
             /\ status'[v] = "NeedsReview" /\ stored' = stored
             /\ \A w \in Visits \ {v} : status'[w] = status[w]
    BY <1>1, <1>3, <2>1, TypeFacts DEF Replace
  <2>3. OrdinaryVisits' = OrdinaryVisits /\ OrdinaryVisits \subseteq Visits
    BY <1>2, OrdinaryKept DEF history, OrdinaryVisits
  <2>4. RequestsInv'
    BY <1>2, <2>2, RecordingKeepsRequests
  <2>5. TableIsConsistent'
    BY <1>2, <2>1 DEF TableIsConsistent
  <2>6. RowsInv'
    <3>1. CASE event[h] # 0
      <4>1. o \in OrdinaryVisits => stored'[o] # 0 \/ events[o] = {}
        BY <1>1, <1>3, <2>2, <3>1 DEF RowsInv, RowsMatchTheCalendar
      <4> QED BY <1>2, <1>3, <2>2, <2>5, <3>1, <4>1, ReplacingKeepsRows DEF calendar
    <3>2. CASE event[h] = 0
      BY <1>2, <1>3, <2>2, <2>3, <2>5, <3>2, ReviewKeepsRows DEF calendar, history
    <3> QED BY <3>1, <3>2
  <2>7. ContactHearsTheTruth' /\ ClosedKept
    <3>1. \A w \in OrdinaryVisits' : Harmless(w)
      BY <1>3, <2>2, <2>3 DEF Harmless
    <3> QED BY <1>1, <1>2, <2>3, <3>1, ContactKept
  <2> QED BY <2>4, <2>6, <2>7
<1> QED BY <1>4, <1>5

LEMMA RecordCancellationKeeps ==
    ASSUME BookingInv, NEW h \in Handlers, RecordCancellation(h)
    PROVE  RequestsInv' /\ RowsInv' /\ ContactHearsTheTruth' /\ ClosedKept
<1> USE BookingAssumption
<1> DEFINE v == visit[h]
<1>1. TypeOK /\ RequestsInv /\ RowsInv /\ ContactHearsTheTruth
  BY DEF BookingInv
<1>2. /\ pc[h] = "recording" /\ op[h] = "cancel" /\ Finish(h)
      /\ UNCHANGED <<origin, contact, calendar, history>>
  BY DEF RecordCancellation
<1>3. /\ v \in Visits /\ holder[v] = h /\ status[v] = "Confirmed"
      /\ v \in OrdinaryVisits => events[v] = {}
  BY <1>2, RecordingKnows DEF HoldsItsRows
<1>4. /\ status'[v] = "Cancelled"
      /\ \A w \in Visits \ {v} : status'[w] = status[w] /\ stored'[w] = stored[w]
  BY <1>1, <1>3, TypeFacts DEF RecordCancellation
<1>5. OrdinaryVisits' = OrdinaryVisits /\ OrdinaryVisits \subseteq Visits
  BY <1>2, OrdinaryKept DEF history, OrdinaryVisits
<1>6. RequestsInv'
  BY <1>2, <1>3, <1>4, RecordingKeepsRequests
<1>7. RowsInv'
  BY <1>2, <1>3, <1>4, ClosingKeepsRows DEF calendar
<1>8. ContactHearsTheTruth' /\ ClosedKept
  <2>1. \A w \in OrdinaryVisits' : Harmless(w)
    BY <1>3, <1>4, <1>5 DEF Harmless
  <2> QED BY <1>1, <1>2, <1>5, <2>1, ContactKept
<1> QED BY <1>6, <1>7, <1>8

LEMMA RecordResolutionKeeps ==
    ASSUME BookingInv, NEW h \in Handlers, RecordResolution(h)
    PROVE  RequestsInv' /\ RowsInv' /\ ContactHearsTheTruth' /\ ClosedKept
<1> USE BookingAssumption
<1> DEFINE v == visit[h]
           o == replaced[h]
<1>1. TypeOK /\ RequestsInv /\ RowsInv /\ ContactHearsTheTruth
  BY DEF BookingInv
<1>2. /\ pc[h] = "recording" /\ op[h] \in {"confirm", "reject"} /\ Finish(h)
      /\ UNCHANGED <<origin, noticed, notice, calendar, history>>
  BY DEF RecordResolution
<1>3. /\ v \in Visits /\ o \in Visits \cup {NoVisit}
      /\ holder[v] = h /\ status[v] = "NeedsReview"
      /\ op[h] = "confirm" => origin[v] = o
      /\ op[h] = "reject" => o = NoVisit
      /\ o # NoVisit => holder[o] = h /\ status[o] = "Confirmed"
      /\ v # o
      /\ v \in OrdinaryVisits =>
           /\ op[h] = "confirm" => event[h] # 0 /\ events[v] = {event[h]}
           /\ op[h] = "reject" => event[h] = 0 /\ events[v] = {}
      /\ o \in OrdinaryVisits /\ released[h] => events[o] = {}
  BY <1>2, RecordingKnows DEF HoldsItsRows, OrdinaryVisits
<1>4. /\ status'[v] = IF op[h] = "confirm" THEN "Confirmed" ELSE "Rejected"
      /\ stored'[v] = event[h]
      /\ o \in Visits => /\ status'[o] = "Rescheduled"
                         /\ stored'[o] = IF released[h] THEN 0 ELSE stored[o]
      /\ \A w \in Visits \ {v, o} : status'[w] = status[w] /\ stored'[w] = stored[w]
  BY <1>3 DEF RecordResolution
<1>5. OrdinaryVisits' = OrdinaryVisits /\ OrdinaryVisits \subseteq Visits
  BY <1>2, OrdinaryKept DEF history, OrdinaryVisits
<1>6. RequestsInv'
  <2>1. \A w \in Visits : status'[w] = status[w] \/ w \in {v, o}
    BY <1>4
  <2>2. \A w \in Visits : holder[w] \in Handlers \ {h} => status'[w] = status[w]
    BY <1>3, <1>4
  <2> QED BY <1>2, <2>1, <2>2, RecordingKeepsRequests
<1>7. RowsInv'
  <2>1. CASE op[h] = "confirm"
    <3>1. TableIsConsistent'
      <4>1. \A w \in Visits : Claims(status', stored', w) => Claims(status, stored, w)
        BY <1>3, <1>4, <2>1 DEF Claims
      <4>2. \A w \in Visits : status[w] = "Rejected" => status'[w] = "Rejected"
        BY <1>3, <1>4
      <4> QED BY <1>1, <1>2, <4>1, <4>2 DEF RowsInv, TableIsConsistent, Consistent
    <3>2. o \in Visits => LeadOf[o] = LeadOf[v]
      BY <1>1, <1>3, <2>1 DEF RowsInv, OriginsAreSiblings
    <3>3. o \in OrdinaryVisits => stored'[o] # 0 \/ events[o] = {}
      BY <1>1, <1>3, <1>4, <1>5 DEF RowsInv, RowsMatchTheCalendar
    <3> QED
      BY <1>2, <1>3, <1>4, <2>1, <3>1, <3>2, <3>3, ReplacingKeepsRows DEF calendar
  <2>2. CASE op[h] = "reject"
    BY <1>2, <1>3, <1>4, <2>2, ClosingKeepsRows DEF calendar
  <2> QED BY <1>2, <2>1, <2>2
\* Whoever is owed word of the confirmation gets it from the resolution.
<1>8. ContactHearsTheTruth' /\ ClosedKept
  <2>1. /\ \A w \in Visits : told[w] \subseteq told'[w]
        /\ \A w \in Visits \ {v} : told'[w] = told[w]
        /\ op[h] = "reject" => told' = told
        /\ op[h] = "confirm" /\ v \in Followed => told'[v] # {}
    <3>1. told \in [Visits -> SUBSET Tellings]
      BY <1>1 DEF TypeOK
    <3> QED BY <1>2, <1>3, <3>1 DEF RecordResolution
  <2>2. \A w \in OrdinaryVisits \ {v} : Harmless(w)
    BY <1>3, <1>4, <1>5 DEF Harmless
  <2>3. ASSUME NEW w \in OrdinaryVisits
        PROVE  /\ \/ "confirmed" \in told'[w]
                  \/ notice.visit = w /\ notice.says = "confirmed"
                  => status'[w] \in {"Confirmed", "Rescheduled", "Cancelled"}
               /\ notice.visit = w /\ notice.says = "confirmed" /\ notice.sent =>
                     told'[w] # {}
               /\ \/ w \in noticed
                  \/ notice.visit = w /\ notice.says # "confirmed"
                  => told'[w] # {} \/ status'[w] \in {"NeedsReview", "Rejected"}
    <3>1. CASE w # v
      BY <1>1, <1>5, <2>1, <2>2, <3>1 DEF ContactHearsTheTruth, Harmless
    <3>2. CASE w = v /\ op[h] = "confirm"
      <4>1. w \in noticed \/ notice.visit = w => w \in Followed
        BY <1>1, <1>5 DEF ContactHearsTheTruth
      <4> QED BY <1>4, <2>1, <3>2, <4>1
    <3>3. CASE w = v /\ op[h] = "reject"
      BY <1>1, <1>3, <1>4, <2>1, <3>3 DEF ContactHearsTheTruth
    <3> QED BY <1>2, <3>1, <3>2, <3>3
  <2>4. ClosedKept
    BY <1>3, <1>5, <2>2 DEF ClosedKept, Harmless
  <2> QED BY <1>1, <1>2, <1>5, <2>3, <2>4 DEF ContactHearsTheTruth
<1> QED BY <1>6, <1>7, <1>8

-----------------------------------------------------------------------------
(***************************************************************************)
(* The background loop and the lead worker.                                *)
(***************************************************************************)

\* Recovery takes a Pending row from under the request that is at work on it,
\* and only such a visit stops being ordinary.
LEMMA RecoverKeeps ==
    ASSUME BookingInv, RecoverPendingAttempts
    PROVE  RequestsInv' /\ RowsInv' /\ ContactHearsTheTruth' /\ ClosedKept
<1> USE BookingAssumption
<1> DEFINE stranded == {v \in Visits : status[v] = "Pending" /\ Unlocked(v)}
<1>1. TypeOK /\ RequestsInv /\ RowsInv /\ ContactHearsTheTruth
  BY DEF BookingInv
<1>2. /\ UNCHANGED <<origin, stored, told, notice, calendar, holder, handler, revived, asked>>
      /\ overtaken' = overtaken \cup (stranded \cap InFlight)
      /\ \A v \in Visits : status'[v] = IF v \in stranded THEN "NeedsReview" ELSE status[v]
      /\ \E informed \in SUBSET (stranded \cap Followed) : noticed' = noticed \cup informed
  BY DEF RecoverPendingAttempts
<1>3. OrdinaryVisits' \subseteq OrdinaryVisits /\ OrdinaryVisits \subseteq Visits
  BY <1>2, OrdinaryShrinks DEF OrdinaryVisits
<1>4. \A v \in Visits : status[v] # "Pending" => status'[v] = status[v]
  BY <1>2
<1>5. ASSUME NEW h \in Handlers, Attempting(h), visit[h] \in OrdinaryVisits'
      PROVE  status'[visit[h]] = status[visit[h]]
  <2>1. visit[h] \in Visits /\ visit[h] \notin overtaken'
    BY <1>3, <1>5 DEF OrdinaryVisits, Ordinary
  <2>2. visit[h] \in InFlight
    BY <1>5 DEF Attempting, InFlight
  <2> QED BY <1>2, <2>1, <2>2
<1>6. ASSUME NEW h \in Handlers
      PROVE  RequestInv(h)'
  <2>1. RequestInv(h) /\ HandlerTypeOK
    BY <1>1, TypeFacts DEF RequestsInv
  <2>2. /\ pc'[h] = pc[h] /\ op'[h] = op[h] /\ visit'[h] = visit[h]
        /\ replaced'[h] = replaced[h] /\ event'[h] = event[h]
        /\ released'[h] = released[h] /\ holder' = holder
        /\ Attempting(h)' = Attempting(h) /\ Target(h)' = Target(h)
    BY <1>2 DEF handler, Attempting, Target
  <2>3. HoldsItsRows(h)'
    <3>1. /\ visit[h] \in Visits \cup {NoVisit} /\ replaced[h] \in Visits \cup {NoVisit}
          /\ visit[h] = NoVisit <=> pc[h] = "idle"
      BY <2>1 DEF HandlerTypeOK
    <3> QED BY <1>2, <1>4, <2>1, <2>2, <3>1 DEF RequestInv, HoldsItsRows
  <2>4. AttemptIsUndisturbed(h)'
    <3>1. op[h] = "move" => replaced[h] \in Visits
      BY <2>1 DEF RequestInv, HoldsItsRows
    <3> QED
      BY <1>2, <1>3, <1>4, <1>5, <2>1, <2>2, <3>1
      DEF RequestInv, AttemptIsUndisturbed, calendar
  <2>5. NoSuccessorMeanwhile(h)'
    BY <1>2, <1>3, <1>4, <2>1, <2>2 DEF RequestInv, NoSuccessorMeanwhile
  <2>6. EvidenceStands(h)' /\ ReleasedIsGone(h)'
    BY <1>2, <1>3, <2>1, <2>2 DEF RequestInv, EvidenceStands, ReleasedIsGone, calendar
  <2> QED BY <2>3, <2>4, <2>5, <2>6 DEF RequestInv
<1>7. OneAttemptPerVisit'
  BY <1>1, <1>2, <1>3 DEF RequestsInv, OneAttemptPerVisit, Attempting, handler
<1>8. TableIsConsistent'
  <2>1. \A v \in Visits : Claims(status', stored', v) => Claims(status, stored, v)
    BY <1>2 DEF Claims
  <2>2. \A v \in Visits : status[v] = "Rejected" => status'[v] = "Rejected"
    BY <1>4
  <2> QED BY <1>1, <1>2, <2>1, <2>2 DEF RowsInv, TableIsConsistent, Consistent
<1>9. RowsInv'
  BY <1>2, <1>3, <1>8, ReviewKeepsRows DEF calendar
<1>10. ContactHearsTheTruth'
  <2>1. noticed \subseteq noticed' /\ noticed' \subseteq noticed \cup (stranded \cap Followed)
    BY <1>2
  <2>2. \A v \in stranded : status[v] = "Pending" /\ status'[v] = "NeedsReview"
    BY <1>2
  <2>3. \A v \in Visits \ stranded : status'[v] = status[v]
    BY <1>2
  <2> HIDE DEF stranded
  <2> QED BY <1>1, <1>2, <1>3, <2>1, <2>2, <2>3 DEF ContactHearsTheTruth
<1>11. ClosedKept
  BY <1>3, <1>4 DEF ClosedKept
<1> QED BY <1>6, <1>7, <1>9, <1>10, <1>11 DEF RequestsInv

\* The notice touches no request and no row.
LEMMA NoticeKeepsTheRest ==
    ASSUME BookingInv, UNCHANGED <<rows, calendar, holder, handler, history>>
    PROVE  RequestsInv' /\ RowsInv' /\ ClosedKept /\ OrdinaryVisits' = OrdinaryVisits
<1>1. TypeOK /\ RequestsInv /\ RowsInv
  BY DEF BookingInv
<1>2. OrdinaryVisits' = OrdinaryVisits
  BY OrdinaryKept DEF history
<1>3. OneAttemptPerVisit'
  BY <1>1, <1>2 DEF RequestsInv, OneAttemptPerVisit, Attempting, handler
<1>4. ASSUME NEW h \in Handlers
      PROVE  RequestInv(h)'
  <2>1. RequestInv(h)
    BY <1>1 DEF RequestsInv
  <2>2. HoldsItsRows(h)' /\ NoSuccessorMeanwhile(h)'
    BY <1>2, <2>1
    DEF RequestInv, HoldsItsRows, NoSuccessorMeanwhile, rows, handler, history
  <2>3. AttemptIsUndisturbed(h)'
    BY <1>2, <2>1
    DEF RequestInv, AttemptIsUndisturbed, Attempting, rows, handler, calendar
  <2>4. EvidenceStands(h)' /\ ReleasedIsGone(h)'
    BY <1>2, <2>1
    DEF RequestInv, EvidenceStands, ReleasedIsGone, Target, handler, calendar
  <2> QED BY <2>2, <2>3, <2>4 DEF RequestInv
<1>5. RowsInv'
  BY <1>1, <1>2, RowsKept DEF calendar, history
<1>6. ClosedKept
  BY DEF ClosedKept, rows
<1> QED BY <1>2, <1>3, <1>4, <1>5, <1>6 DEF RequestsInv

\* A notice says what the row said; what was sent is remembered before it is
\* marked.
LEMMA NoticeIsTrue ==
    ASSUME BookingInv,
           \/ \E v \in Visits : ReadNotice(v)
           \/ SendNotice \/ MarkLeadNotified \/ WorkerInterrupted
    PROVE  ContactHearsTheTruth' /\ UNCHANGED <<rows, calendar, holder, handler, history>>
<1> USE BookingAssumption
<1>1. TypeOK /\ ContactHearsTheTruth
  BY DEF BookingInv
<1>2. UNCHANGED <<rows, calendar, holder, handler, history>>
  BY DEF ReadNotice, SendNotice, MarkLeadNotified, WorkerInterrupted
<1>3. OrdinaryVisits' = OrdinaryVisits /\ OrdinaryVisits \subseteq Visits /\ status' = status
  BY <1>2, OrdinaryKept DEF history, rows, OrdinaryVisits
<1>4. /\ told \in [Visits -> SUBSET Tellings]
      /\ notice \in [visit : Visits \cup {NoVisit},
                     says : {"none", "review", "confirmed"}, sent : BOOLEAN]
      /\ NoVisit \notin OrdinaryVisits
  BY <1>1, <1>3 DEF TypeOK
<1>5. ASSUME NEW v \in Visits, ReadNotice(v)
      PROVE  ContactHearsTheTruth'
  <2>1. /\ v \in Followed \ noticed /\ status[v] \in {"Confirmed", "NeedsReview"}
        /\ notice'.visit = v /\ notice'.sent = FALSE
        /\ notice'.says = IF status[v] = "Confirmed" THEN "confirmed" ELSE "review"
        /\ UNCHANGED <<noticed, told>>
    BY <1>5 DEF ReadNotice
  <2> QED BY <1>1, <1>3, <2>1 DEF ContactHearsTheTruth
<1>6. ASSUME SendNotice
      PROVE  ContactHearsTheTruth'
  <2>1. CASE notice' = NoNotice /\ UNCHANGED told
    BY <1>1, <1>3, <1>4, <1>6, <2>1 DEF SendNotice, NoNotice, ContactHearsTheTruth
  <2>2. CASE ~(notice' = NoNotice /\ UNCHANGED told)
    <3> DEFINE u == notice.visit
    <3>1. /\ u \in Visits
          /\ told' = [told EXCEPT ![u] =
                         IF notice.says = "confirmed" THEN @ \cup {"confirmed"} ELSE @]
          /\ notice' = [notice EXCEPT !.sent = TRUE]
          /\ UNCHANGED noticed
      BY <1>4, <1>6, <2>2 DEF SendNotice
    <3>2. notice'.visit = u /\ notice'.says = notice.says /\ notice'.sent
      BY <1>4, <3>1
    <3>3. /\ \A w \in Visits \ {u} : told'[w] = told[w]
          /\ notice.says = "confirmed" => told'[u] = told[u] \cup {"confirmed"}
          /\ notice.says # "confirmed" => told'[u] = told[u]
      BY <1>4, <3>1
    <3> HIDE DEF u
    <3>4. u = notice.visit
      BY DEF u
    <3>5. noticed' \subseteq Followed /\ notice'.visit \in Followed \cup {NoVisit}
      BY <1>1, <3>1, <3>2, <3>4 DEF ContactHearsTheTruth
    <3>6. ASSUME NEW v \in OrdinaryVisits
          PROVE  /\ \/ "confirmed" \in told'[v]
                    \/ notice'.visit = v /\ notice'.says = "confirmed"
                    => status[v] \in {"Confirmed", "Rescheduled", "Cancelled"}
                 /\ notice'.visit = v /\ notice'.says = "confirmed" /\ notice'.sent =>
                       told'[v] # {}
                 /\ \/ v \in noticed'
                    \/ notice'.visit = v /\ notice'.says # "confirmed"
                    => told'[v] # {} \/ status[v] \in {"NeedsReview", "Rejected"}
      <4>1. CASE v = u
        BY <1>1, <3>1, <3>2, <3>3, <3>4, <4>1 DEF ContactHearsTheTruth
      <4>2. CASE v # u
        BY <1>1, <1>3, <3>1, <3>2, <3>3, <3>4, <4>2 DEF ContactHearsTheTruth
      <4> QED BY <4>1, <4>2
    <3> QED BY <1>3, <3>5, <3>6 DEF ContactHearsTheTruth
  <2> QED BY <2>1, <2>2
<1>7. ASSUME MarkLeadNotified
      PROVE  ContactHearsTheTruth'
  <2>1. /\ notice.visit \in Visits /\ notice.visit \in Followed
        /\ noticed' = noticed \cup {notice.visit} /\ notice' = NoNotice /\ notice.sent
        /\ UNCHANGED told
    BY <1>1, <1>4, <1>7 DEF MarkLeadNotified, TypeOK, NoNotice, ContactHearsTheTruth
  <2> QED BY <1>1, <1>3, <1>4, <2>1 DEF ContactHearsTheTruth, NoNotice
<1>8. ASSUME WorkerInterrupted
      PROVE  ContactHearsTheTruth'
  BY <1>1, <1>3, <1>4, <1>8 DEF WorkerInterrupted, NoNotice, ContactHearsTheTruth
<1> QED BY <1>2, <1>5, <1>6, <1>7, <1>8

-----------------------------------------------------------------------------
(***************************************************************************)
(* The invariant and what follows from it.                                 *)
(***************************************************************************)

LEMMA InitBooking == Init => BookingInv
<1> SUFFICES ASSUME Init PROVE BookingInv
  OBVIOUS
<1> USE BookingAssumption
<1>1. TypeOK
  BY InitTypes
<1>2. RequestsInv
  <2>1. \A h \in Handlers : /\ pc[h] = "idle" /\ op[h] = "none" /\ visit[h] = NoVisit
                            /\ replaced[h] = NoVisit /\ event[h] = 0 /\ released[h] = FALSE
    BY DEF Init
  <2>2. OneAttemptPerVisit
    BY <2>1 DEF OneAttemptPerVisit, Attempting
  <2>3. ASSUME NEW h \in Handlers
        PROVE  RequestInv(h)
    BY <2>1
    DEF RequestInv, HoldsItsRows, AttemptIsUndisturbed, NoSuccessorMeanwhile, EvidenceStands,
        ReleasedIsGone, Attempting
  <2> QED BY <2>2, <2>3 DEF RequestsInv
<1>3. RowsInv
  <2>1. \A v \in Visits : /\ status[v] = "Absent" /\ origin[v] = NoVisit
                          /\ stored[v] = 0 /\ events[v] = {}
    BY DEF Init
  <2>2. OrdinaryVisits \subseteq Visits
    BY DEF OrdinaryVisits
  <2> QED
    BY <2>1, <2>2
    DEF RowsInv, OriginsAreSiblings, RowsMatchTheCalendar, TableIsConsistent, Consistent,
        Claims, SuccessorsHaveReplaced, ConfirmedAreOnTheCalendar
<1>4. ContactHearsTheTruth
  BY DEF Init, ContactHearsTheTruth, NoNotice, OrdinaryVisits
<1> QED BY <1>1, <1>2, <1>3, <1>4 DEF BookingInv

\* Every step keeps the invariant and reopens no ordinary closed visit.
LEMMA StepKeeps == BookingInv /\ [Next]_vars => BookingInv' /\ ClosedKept
<1> SUFFICES ASSUME BookingInv, [Next]_vars
             PROVE  BookingInv' /\ ClosedKept
  OBVIOUS
<1>1. TypeOK'
  BY StepTypes DEF BookingInv
<1>2. RequestsInv' /\ RowsInv' /\ ContactHearsTheTruth' /\ ClosedKept
  <2>1. CASE UNCHANGED vars
    <3>1. UNCHANGED <<rows, contact, calendar, holder, handler, history>>
      BY <2>1 DEF vars
    <3>2. RequestsInv' /\ RowsInv' /\ ClosedKept /\ OrdinaryVisits' = OrdinaryVisits
      BY <3>1, NoticeKeepsTheRest
    <3>3. ContactHearsTheTruth'
      BY <3>1, <3>2 DEF BookingInv, ContactHearsTheTruth, contact, rows
    <3> QED BY <3>2, <3>3
  <2>2. CASE RecoverPendingAttempts
    BY <2>2, RecoverKeeps
  <2>3. CASE \/ \E v \in Visits : ReadNotice(v)
             \/ SendNotice \/ MarkLeadNotified \/ WorkerInterrupted
    BY <2>3, NoticeIsTrue, NoticeKeepsTheRest
  <2>4. ASSUME NEW h \in Handlers, HandlerStep(h)
        PROVE  RequestsInv' /\ RowsInv' /\ ContactHearsTheTruth' /\ ClosedKept
    <3>1. ASSUME NEW v \in Visits, BeginBook(h, v) \/ BeginCancel(h, v)
          PROVE  RequestsInv' /\ RowsInv' /\ ContactHearsTheTruth' /\ ClosedKept
      BY <3>1, BeginBookKeeps, BeginCancelKeeps
    <3>2. ASSUME NEW o \in Visits, NEW v \in Visits, BeginReschedule(h, o, v)
          PROVE  RequestsInv' /\ RowsInv' /\ ContactHearsTheTruth' /\ ClosedKept
      BY <3>2, BeginRescheduleKeeps
    <3>3. ASSUME NEW v \in Visits, NEW d \in {"confirm", "reject"}, BeginResolve(h, v, d)
          PROVE  RequestsInv' /\ RowsInv' /\ ContactHearsTheTruth' /\ ClosedKept
      BY <3>3, BeginResolveKeeps
    <3>4. CASE PersistAttempt(h)
      BY <3>4, PersistAttemptKeeps
    <3>5. CASE CreateEvent(h)
      BY <3>5, CreateEventKeeps
    <3>6. CASE ReleaseEvent(h)
      BY <3>6, ReleaseEventKeeps
    <3>7. CASE RecordBooking(h)
      BY <3>7, RecordBookingKeeps
    <3>8. CASE RecordMove(h)
      BY <3>8, RecordMoveKeeps
    <3>9. CASE RecordCancellation(h)
      BY <3>9, RecordCancellationKeeps
    <3>10. CASE RecordResolution(h)
      BY <3>10, RecordResolutionKeeps
    <3>11. CASE Interrupt(h)
      BY <3>11, GivingUpKeeps DEF Interrupt
    <3> QED
      BY <2>4, <3>1, <3>2, <3>3, <3>4, <3>5, <3>6, <3>7, <3>8, <3>9, <3>10, <3>11
      DEF HandlerStep
  <2> QED BY <2>1, <2>2, <2>3, <2>4 DEF Next, LoopStep
<1> QED BY <1>1, <1>2 DEF BookingInv

\* The invariant of booking holds in every reachable state.
THEOREM BookingInvariant == Spec => []BookingInv
<1>1. BookingInv /\ [Next]_vars => BookingInv'
  BY StepKeeps
<1> QED BY InitBooking, <1>1, PTL DEF Spec

\* An event on the calendar belongs to a row that holds its slot
\* (appointments.py:18): a row without a claim has no event, by what its status
\* says about the calendar.
THEOREM EventsAccounted == Spec => []EventsAreAccountedFor
<1>1. BookingInv => EventsAreAccountedFor
  <2> SUFFICES ASSUME BookingInv, NEW v \in Visits, Ordinary(v), events[v] # {}
               PROVE  Claims(status, stored, v)
    BY DEF EventsAreAccountedFor
  <2>1. v \in OrdinaryVisits /\ status[v] \in Statuses
    BY TypeFacts DEF OrdinaryVisits, BookingInv
  <2> QED BY <2>1 DEF BookingInv, RowsInv, RowsMatchTheCalendar, Claims
<1> QED BY <1>1, BookingInvariant, PTL

\* The Advisor is never expected at two visits at once (models.py:1739): two
\* events claim their slots, and the exclusion constraint allows one claim.
THEOREM NeverDoubleBooked == Spec => []CalendarIsNotDoubleBooked
<1>1. BookingInv => CalendarIsNotDoubleBooked
  <2> SUFFICES ASSUME BookingInv, NEW v \in Visits, NEW w \in Visits,
                      Ordinary(v), Ordinary(w), SlotOf[v] = SlotOf[w],
                      events[v] # {}, events[w] # {}
               PROVE  v = w
    BY DEF CalendarIsNotDoubleBooked
  <2>1. v \in OrdinaryVisits /\ w \in OrdinaryVisits /\ status \in [Visits -> Statuses]
    BY TypeFacts DEF OrdinaryVisits, BookingInv
  <2>2. Claims(status, stored, v) /\ Claims(status, stored, w)
    BY <2>1 DEF BookingInv, RowsInv, RowsMatchTheCalendar, Claims
  <2> QED BY <2>2 DEF BookingInv, RowsInv, TableIsConsistent, Consistent
<1> QED BY <1>1, BookingInvariant, PTL

\* A Confirmed visit has an event, or the visit that replaces it has one
\* (appointments.py:13, 23).
THEOREM ConfirmedVisitsStand == Spec => []ConfirmedIsOnTheCalendar
<1>1. BookingInv => ConfirmedIsOnTheCalendar
  BY DEF BookingInv, RowsInv, ConfirmedAreOnTheCalendar, ConfirmedIsOnTheCalendar,
         OnTheCalendar, OrdinaryVisits
<1> QED BY <1>1, BookingInvariant, PTL

\* A confirmed successor has taken its original's place (appointments.py:23).
THEOREM SuccessorsReplace == Spec => []SuccessorReplaces
<1>1. BookingInv => SuccessorReplaces
  BY TypeFacts
  DEF BookingInv, RowsInv, SuccessorsHaveReplaced, SuccessorReplaces, OrdinaryVisits
<1> QED BY <1>1, BookingInvariant, PTL

\* Nobody hears "confirmed" of a visit the calendar has not taken
\* (appointments.py:519).
THEOREM NothingSaidTooSoon == Spec => []NothingConfirmedTooSoon
<1>1. BookingInv => NothingConfirmedTooSoon
  BY DEF BookingInv, ContactHearsTheTruth, NothingConfirmedTooSoon, OrdinaryVisits
<1> QED BY <1>1, BookingInvariant, PTL

\* A Confirmed visit whose notice is settled was announced (models.py:1589).
THEOREM ConfirmationsAnnounced == Spec => []ConfirmationIsAnnounced
<1>1. BookingInv => ConfirmationIsAnnounced
  BY DEF BookingInv, ContactHearsTheTruth, ConfirmationIsAnnounced, Announced, OrdinaryVisits
<1> QED BY <1>1, BookingInvariant, PTL

\* A cancelled or moved visit stays so (appointments.py:557, 780): what is
\* recorded of an ordinary visit was Pending, NeedsReview or Confirmed.
THEOREM ClosedForGood == Spec => ClosedStaysClosed
<1>1. BookingInv /\ [Next]_vars =>
        [\A v \in Visits :
            status[v] \in {"Cancelled", "Rescheduled"} /\ Ordinary(v)' =>
                status'[v] = status[v]]_vars
  BY StepKeeps DEF ClosedKept, OrdinaryVisits
<1> QED BY <1>1, BookingInvariant, PTL DEF Spec, ClosedStaysClosed
-----------------------------------------------------------------------------
(***************************************************************************)
(* The refinement.  What the promise sees of a visit depends on four       *)
(* columns of the visit alone, and on whether it is ordinary; so it is     *)
(* enough to say for each step which visits it does not leave alike.       *)
(***************************************************************************)
PromiseStep == [Promise!VisitPromiseNext]_(Promise!visitPromise)

\* The refinement mapping, as functions and sets with names.
FateFn == [v \in Visits |-> Fate(v)]
Replaced(v) == IF Ordinary(v) THEN origin[v] ELSE NoVisit
ReplacesFn == [v \in Visits |-> Replaced(v)]
EnteredSet == {v \in Visits : Ordinary(v) /\ events[v] # {}}
LeavingSet == {v \in Visits : Ordinary(v) /\ v \in asked}

\* The promise sees no difference in an ordinary visit.
Alike(v) ==
    /\ status'[v] = status[v] \/ {status[v], status'[v]} \subseteq {"Pending", "NeedsReview"}
    /\ origin'[v] = origin[v]
    /\ events'[v] = {} <=> events[v] = {}
    /\ v \in asked' <=> v \in asked

\* How an ordinary visit appears, before and after a step.
LEMMA Appearance ==
    ASSUME NEW v \in OrdinaryVisits
    PROVE  /\ status[v] = "Absent" => Fate(v) = "Open"
           /\ status[v] \in {"Pending", "NeedsReview"} => Fate(v) = "Tried"
           /\ status[v] = "Confirmed" => Fate(v) = "Stands"
           /\ status[v] = "Rejected" => Fate(v) = "Refused"
           /\ status[v] \in {"Cancelled", "Rescheduled"} => Fate(v) = "Gone"
           /\ Replaced(v) = origin[v]
           /\ v \in EnteredSet <=> events[v] # {}
           /\ v \in LeavingSet <=> v \in asked
BY DEF OrdinaryVisits, Fate, Replaced, EnteredSet, LeavingSet

LEMMA AppearanceThen ==
    ASSUME NEW v \in OrdinaryVisits'
    PROVE  /\ status'[v] = "Absent" => Fate(v)' = "Open"
           /\ status'[v] \in {"Pending", "NeedsReview"} => Fate(v)' = "Tried"
           /\ status'[v] = "Confirmed" => Fate(v)' = "Stands"
           /\ status'[v] = "Rejected" => Fate(v)' = "Refused"
           /\ status'[v] \in {"Cancelled", "Rescheduled"} => Fate(v)' = "Gone"
           /\ Replaced(v)' = origin'[v]
           /\ v \in EnteredSet' <=> events'[v] # {}
           /\ v \in LeavingSet' <=> v \in asked'
BY DEF OrdinaryVisits, Fate, Replaced, EnteredSet, LeavingSet

\* Nothing is seen of the others.
LEMMA NoAppearance ==
    ASSUME NEW v \in Visits
    PROVE  /\ v \notin OrdinaryVisits =>
                /\ Fate(v) = "Disclaimed" /\ Replaced(v) = NoVisit
                /\ v \notin EnteredSet /\ v \notin LeavingSet
           /\ v \notin OrdinaryVisits' =>
                /\ Fate(v)' = "Disclaimed" /\ Replaced(v)' = NoVisit
                /\ v \notin EnteredSet' /\ v \notin LeavingSet'
BY DEF OrdinaryVisits, Fate, Replaced, EnteredSet, LeavingSet

\* A visit left alike looks the same after the step.
LEMMA AlikeLooksTheSame ==
    ASSUME TypeOK, TypeOK', OrdinaryVisits' = OrdinaryVisits,
           NEW v \in Visits, v \in OrdinaryVisits => Alike(v)
    PROVE  /\ Fate(v)' = Fate(v) /\ Replaced(v)' = Replaced(v)
           /\ v \in EnteredSet' <=> v \in EnteredSet
           /\ v \in LeavingSet' <=> v \in LeavingSet
<1>1. CASE v \notin OrdinaryVisits
  BY <1>1, NoAppearance
<1>2. CASE v \in OrdinaryVisits
  <2>1. status[v] \in Statuses /\ status'[v] \in Statuses
    BY DEF TypeOK
  <2> QED BY <1>2, <2>1, Appearance, AppearanceThen DEF Alike
<1> QED BY <1>1, <1>2

\* A step that leaves every ordinary visit alike shows nothing.
LEMMA NothingToSee ==
    ASSUME TypeOK, TypeOK', OrdinaryVisits' = OrdinaryVisits,
           \A v \in OrdinaryVisits : Alike(v)
    PROVE  PromiseStep
<1>1. \A v \in Visits : /\ Fate(v)' = Fate(v) /\ Replaced(v)' = Replaced(v)
                        /\ v \in EnteredSet' <=> v \in EnteredSet
                        /\ v \in LeavingSet' <=> v \in LeavingSet
  BY AlikeLooksTheSame
<1>2. FateFn' = FateFn /\ ReplacesFn' = ReplacesFn
  BY <1>1 DEF FateFn, ReplacesFn
<1>3. EnteredSet' = EnteredSet /\ LeavingSet' = LeavingSet
  BY <1>1 DEF EnteredSet, LeavingSet
<1> QED
  BY <1>2, <1>3
  DEF PromiseStep, Promise!visitPromise, FateFn, ReplacesFn, Replaced, EnteredSet, LeavingSet

\* A step that leaves all but one alike.
LEMMA OneLooksDifferent ==
    ASSUME TypeOK, TypeOK', OrdinaryVisits' = OrdinaryVisits,
           NEW v \in OrdinaryVisits, \A w \in OrdinaryVisits \ {v} : Alike(w)
    PROVE  /\ FateFn' = [FateFn EXCEPT ![v] = Fate(v)']
           /\ ReplacesFn' = [ReplacesFn EXCEPT ![v] = Replaced(v)']
           /\ Fate(v)' = Fate(v) => FateFn' = FateFn
           /\ Replaced(v)' = Replaced(v) => ReplacesFn' = ReplacesFn
           /\ EnteredSet' = IF events'[v] = {} THEN EnteredSet \ {v} ELSE EnteredSet \cup {v}
           /\ LeavingSet' = IF v \in asked' THEN LeavingSet \cup {v} ELSE LeavingSet \ {v}
<1>1. \A w \in Visits \ {v} : /\ Fate(w)' = Fate(w) /\ Replaced(w)' = Replaced(w)
                              /\ w \in EnteredSet' <=> w \in EnteredSet
                              /\ w \in LeavingSet' <=> w \in LeavingSet
  BY AlikeLooksTheSame
<1>2. /\ v \in Visits
      /\ v \in EnteredSet' <=> events'[v] # {}
      /\ v \in LeavingSet' <=> v \in asked'
  BY AppearanceThen DEF OrdinaryVisits
<1>3. /\ EnteredSet \subseteq Visits /\ EnteredSet' \subseteq Visits
      /\ LeavingSet \subseteq Visits /\ LeavingSet' \subseteq Visits
  BY DEF EnteredSet, LeavingSet
<1>4. /\ FateFn' = [FateFn EXCEPT ![v] = Fate(v)']
      /\ ReplacesFn' = [ReplacesFn EXCEPT ![v] = Replaced(v)']
  BY <1>1, <1>2 DEF FateFn, ReplacesFn
<1>5. /\ Fate(v)' = Fate(v) => FateFn' = FateFn
      /\ Replaced(v)' = Replaced(v) => ReplacesFn' = ReplacesFn
  BY <1>1 DEF FateFn, ReplacesFn
<1>6. EnteredSet' = IF events'[v] = {} THEN EnteredSet \ {v} ELSE EnteredSet \cup {v}
  BY <1>1, <1>2, <1>3
<1>7. LeavingSet' = IF v \in asked' THEN LeavingSet \cup {v} ELSE LeavingSet \ {v}
  BY <1>1, <1>2, <1>3
<1> QED BY <1>4, <1>5, <1>6, <1>7

\* What occupies a slot for the promise, claims it in the table.
LEMMA TakenIsClaimed ==
    ASSUME BookingInv, NEW v \in Visits,
           Fate(v) \in {"Tried", "Stands"} \/ v \in EnteredSet
    PROVE  Claims(status, stored, v)
<1>1. v \in OrdinaryVisits
  BY NoAppearance
<1>2. status[v] \in Statuses
  BY TypeFacts DEF BookingInv
<1>3. CASE Fate(v) \in {"Tried", "Stands"}
  BY <1>1, <1>2, <1>3, Appearance DEF Claims
<1>4. CASE v \in EnteredSet
  <2>1. events[v] # {}
    BY <1>1, <1>4, Appearance
  <2>2. \/ status[v] \in {"Pending", "Confirmed", "NeedsReview"}
        \/ status[v] = "Rescheduled" /\ stored[v] # 0
    BY <1>1, <1>2, <2>1 DEF BookingInv, RowsInv, RowsMatchTheCalendar
  <2> QED BY <2>2 DEF Claims
<1> QED BY <1>3, <1>4

\* Who is seen to replace an ordinary visit is one of its successors.
LEMMA SuccessorsAreSeen ==
    ASSUME TypeOK, NEW o \in OrdinaryVisits, NEW w \in Visits, Replaced(w) = o
    PROVE  w \in OrdinaryVisits /\ origin[w] = o
<1>1. o # NoVisit
  BY BookingAssumption DEF OrdinaryVisits
<1> QED BY <1>1, NoAppearance, Appearance

LEMMA PersistAttemptIsPromised ==
    ASSUME BookingInv, TypeOK', NEW h \in Handlers, PersistAttempt(h)
    PROVE  PromiseStep
<1> USE BookingAssumption
<1>1. /\ TypeOK /\ RequestInv(h) /\ OriginsAreSiblings
      /\ pc[h] = "persisting"
      /\ UNCHANGED <<stored, contact, calendar, history>>
  BY DEF BookingInv, RequestsInv, RowsInv, PersistAttempt
<1>2. PICK v \in Visits, o \in Visits \cup {NoVisit} : v = visit[h] /\ o = replaced[h]
  BY <1>1, TypeFacts DEF HandlerTypeOK
<1> DEFINE st == [status EXCEPT ![v] = "Pending"]
           org == [origin EXCEPT ![v] = o]
<1>3. OrdinaryVisits' = OrdinaryVisits
  BY <1>1, OrdinaryKept DEF history
<1>4. \/ UNCHANGED <<status, origin>>
      \/ /\ status[v] = "Absent" /\ Consistent(st, stored, org)
         /\ status' = st /\ origin' = org
  BY <1>2 DEF PersistAttempt
<1>5. \A w \in Visits \ {v} : status'[w] = status[w] /\ origin'[w] = origin[w]
  BY <1>1, <1>4, TypeFacts
<1>6. \A w \in OrdinaryVisits \ {v} : Alike(w)
  BY <1>1, <1>5 DEF Alike, calendar, history, OrdinaryVisits
<1>7. CASE UNCHANGED <<status, origin>>
  <2>1. \A w \in OrdinaryVisits : Alike(w)
    BY <1>1, <1>7 DEF Alike, calendar, history
  <2> QED BY <1>1, <1>3, <2>1, NothingToSee
<1>8. CASE v \notin OrdinaryVisits
  <2>1. \A w \in OrdinaryVisits : Alike(w)
    BY <1>6, <1>8
  <2> QED BY <1>1, <1>3, <2>1, NothingToSee
<1>9. CASE v \in OrdinaryVisits /\ ~ UNCHANGED <<status, origin>>
  <2>1. /\ status[v] = "Absent" /\ Consistent(st, stored, org)
        /\ status' = st /\ origin' = org
    BY <1>4, <1>9
  <2>2. status'[v] = "Pending" /\ origin'[v] = o
    BY <1>1, <2>1, TypeFacts
  <2>3. Fate(v) = "Open" /\ Fate(v)' = "Tried" /\ Replaced(v)' = o
    BY <1>3, <1>9, <2>1, <2>2, Appearance, AppearanceThen
  <2>4. /\ FateFn' = [FateFn EXCEPT ![v] = "Tried"]
        /\ ReplacesFn' = [ReplacesFn EXCEPT ![v] = o]
    BY <1>1, <1>3, <1>6, <1>9, <2>3, OneLooksDifferent
  <2>5. EnteredSet' = EnteredSet /\ LeavingSet' = LeavingSet
    <3>1. \A w \in Visits : Ordinary(w)' = Ordinary(w)
      BY <1>1 DEF Ordinary, history
    <3> QED BY <1>1, <3>1 DEF EnteredSet, LeavingSet, calendar, history
  <2>6. ASSUME NEW w \in Visits \ {v}, SlotOf[w] = SlotOf[v]
        PROVE  ~(Fate(w) \in {"Tried", "Stands"} \/ w \in EnteredSet)
    <3>1. ~Claims(st, stored, w)
      <4>1. Claims(st, stored, v)
        BY <2>1, <2>2 DEF Claims
      <4> HIDE DEF st, org
      <4> QED BY <2>1, <2>6, <4>1 DEF Consistent
    <3>2. ~Claims(status, stored, w)
      BY <1>5, <2>1, <3>1 DEF Claims
    <3> QED BY <3>2, TakenIsClaimed
  <2>7. ASSUME o # NoVisit
        PROVE  /\ o \in Visits \ {v} /\ LeadOf[o] = LeadOf[v]
               /\ Fate(o) = "Stands"
               /\ \A w \in Visits : Replaced(w) = o => Fate(w) = "Refused"
    <3>1. op[h] = "move"
      BY <1>1, <1>2, <2>7, TypeFacts DEF RequestInv, HoldsItsRows, HandlerTypeOK
    <3>2. /\ o \in Visits \ {v} /\ LeadOf[o] = LeadOf[v] /\ status[o] = "Confirmed"
      BY <1>1, <1>2, <3>1 DEF RequestInv, HoldsItsRows
    <3>3. o \in OrdinaryVisits
      BY <1>9, <3>2, SiblingsAreOrdinary
    <3>4. ASSUME NEW w \in Visits, Replaced(w) = o PROVE Fate(w) = "Refused"
      <4>1. w \in OrdinaryVisits /\ origin[w] = o
        BY <1>1, <3>3, <3>4, SuccessorsAreSeen
      <4>2. w # v
        BY <1>1, <2>1, <2>7, <4>1 DEF OriginsAreSiblings
      <4>3. "Rejected" \in {status'[w], status'[v]}
        <5>1. origin'[w] = origin'[v] /\ origin'[w] # NoVisit
          BY <1>5, <2>2, <2>7, <4>1, <4>2
        <5>2. Consistent(status', stored, origin')
          BY <2>1
        <5> QED BY <4>2, <5>1, <5>2 DEF Consistent
      <4>4. status[w] = "Rejected"
        BY <1>5, <2>2, <4>2, <4>3
      <4> QED BY <4>1, <4>4, Appearance
    <3> QED BY <3>2, <3>3, <3>4, Appearance
  <2>8. Promise!Attempt(v, o)
    BY <2>3, <2>4, <2>5, <2>6, <2>7
    DEF Promise!Attempt, Promise!Taken, FateFn, ReplacesFn, Replaced, EnteredSet, LeavingSet
  <2>9. o \in (Visits \ {v}) \cup {NoVisit}
    BY <2>7
  <2> QED BY <2>8, <2>9 DEF PromiseStep, Promise!VisitPromiseNext
<1> QED BY <1>7, <1>8, <1>9

\* A request that begins shows nothing, unless it is a cancellation or takes
\* up a closed visit.
LEMMA BeginningIsPromised ==
    ASSUME BookingInv, TypeOK', NEW h \in Handlers, NEW v \in Visits,
           \/ BeginBook(h, v)
           \/ \E d \in {"confirm", "reject"} : BeginResolve(h, v, d)
           \/ BeginCancel(h, v)
           \/ \E o \in Visits : BeginReschedule(h, o, v)
    PROVE  PromiseStep
<1> USE BookingAssumption
<1>1. TypeOK /\ OriginsAreSiblings /\ UNCHANGED <<rows, calendar>>
  BY DEF BookingInv, RowsInv, BeginBook, BeginCancel, BeginReschedule, BeginResolve
<1>2. CASE UNCHANGED history
  <2>1. OrdinaryVisits' = OrdinaryVisits
    BY <1>2, OrdinaryKept DEF history
  <2>2. \A w \in OrdinaryVisits : Alike(w)
    BY <1>1, <1>2 DEF Alike, rows, calendar, history
  <2> QED BY <1>1, <2>1, <2>2, NothingToSee
<1>3. CASE BeginCancel(h, v)
  <2>1. /\ status[v] = "Confirmed" /\ ~ActiveSuccessor(v)
        /\ asked' = asked \cup {v} /\ UNCHANGED <<overtaken, revived>>
    BY <1>3 DEF BeginCancel
  <2>2. OrdinaryVisits' = OrdinaryVisits
    BY <2>1, OrdinaryKept
  <2>3. \A w \in OrdinaryVisits \ {v} : Alike(w)
    BY <1>1, <2>1 DEF Alike, rows, calendar
  <2>4. CASE v \notin OrdinaryVisits
    <3>1. \A w \in OrdinaryVisits : Alike(w)
      BY <2>3, <2>4
    <3> QED BY <1>1, <2>2, <3>1, NothingToSee
  <2>5. CASE v \in OrdinaryVisits
    <3>1. Fate(v) = "Stands" /\ Fate(v)' = "Stands" /\ Replaced(v)' = Replaced(v)
      BY <1>1, <2>1, <2>2, <2>5, Appearance, AppearanceThen DEF rows
    <3>2. /\ FateFn' = FateFn /\ ReplacesFn' = ReplacesFn
          /\ LeavingSet' = LeavingSet \cup {v}
      BY <1>1, <2>1, <2>2, <2>3, <2>5, <3>1, OneLooksDifferent
    <3>3. EnteredSet' = EnteredSet
      <4>1. \A w \in Visits : Ordinary(w)' = Ordinary(w)
        BY <2>1 DEF Ordinary
      <4> QED BY <1>1, <4>1 DEF EnteredSet, calendar
    <3>4. ASSUME NEW w \in Visits, Replaced(w) = v PROVE Fate(w) = "Refused"
      <4>1. w \in OrdinaryVisits /\ origin[w] = v
        BY <1>1, <2>5, <3>4, SuccessorsAreSeen
      <4>2. status[w] = "Rejected"
        BY <2>1, <4>1 DEF ActiveSuccessor
      <4> QED BY <4>1, <4>2, Appearance
    <3>5. Promise!AskToCancel(v)
      BY <3>1, <3>2, <3>3, <3>4
      DEF Promise!AskToCancel, FateFn, ReplacesFn, Replaced, EnteredSet, LeavingSet
    <3> QED BY <3>5 DEF PromiseStep, Promise!VisitPromiseNext
  <2> QED BY <2>4, <2>5
<1>4. ASSUME NEW o \in Visits, BeginReschedule(h, o, v), ~ UNCHANGED history
      PROVE  PromiseStep
  <2>1. /\ LeadOf[o] = LeadOf[v] /\ status[o] = "Confirmed" /\ SlotFree(v)
        /\ status[v] # "Absent"
        /\ revived' = revived \cup {v} /\ UNCHANGED <<overtaken, asked>>
    BY <1>4 DEF BeginReschedule, history
  <2>2. OrdinaryVisits' = {w \in OrdinaryVisits : LeadOf[w] # LeadOf[v]}
    BY <2>1 DEF OrdinaryVisits, Ordinary
  <2>3. CASE v \notin OrdinaryVisits
    <3>1. OrdinaryVisits' = OrdinaryVisits
      BY <2>2, <2>3, SiblingsAreOrdinary
    <3>2. \A w \in OrdinaryVisits : Alike(w)
      BY <1>1, <2>1 DEF Alike, rows, calendar
    <3> QED BY <1>1, <3>1, <3>2, NothingToSee
  <2>4. CASE v \in OrdinaryVisits
    <3>1. o \in OrdinaryVisits
      BY <2>1, <2>4, SiblingsAreOrdinary
    <3>2. Fate(o) = "Stands"
      BY <2>1, <3>1, Appearance
    <3>3. Fate(v) \in {"Refused", "Gone"}
      <4>1. ~Claims(status, stored, v) /\ status[v] \in Statuses
        BY <1>1, <2>1, TypeFacts DEF SlotFree
      <4>2. status[v] \in {"Rejected", "Cancelled", "Rescheduled"}
        BY <2>1, <4>1 DEF Claims
      <4> QED BY <2>4, <4>2, Appearance
    <3>4. ASSUME NEW w \in Visits
          PROVE  /\ LeadOf[w] = LeadOf[v] =>
                       /\ Fate(w)' = "Disclaimed" /\ Replaced(w)' = NoVisit
                       /\ w \notin EnteredSet' /\ w \notin LeavingSet'
                 /\ LeadOf[w] # LeadOf[v] =>
                       /\ Fate(w)' = Fate(w) /\ Replaced(w)' = Replaced(w)
                       /\ w \in EnteredSet' <=> w \in EnteredSet
                       /\ w \in LeavingSet' <=> w \in LeavingSet
      <4>1. CASE LeadOf[w] = LeadOf[v]
        BY <2>2, <4>1, NoAppearance
      <4>2. CASE LeadOf[w] # LeadOf[v]
        <5>1. Ordinary(w)' = Ordinary(w)
          BY <2>1, <4>2 DEF Ordinary
        <5>2. Fate(w)' = Fate(w) /\ Replaced(w)' = Replaced(w)
          BY <1>1, <5>1 DEF Fate, Replaced, rows
        <5> QED
          BY <1>1, <2>1, <4>2, <5>1, <5>2 DEF EnteredSet, LeavingSet, calendar
      <4> QED BY <4>1, <4>2
    <3>5. Promise!Disclaim({LeadOf[v]})
      <4> DEFINE rest == {w \in Visits : LeadOf[w] \notin {LeadOf[v]}}
      <4>1. /\ FateFn' = [w \in Visits |-> IF w \in rest THEN Fate(w) ELSE "Disclaimed"]
            /\ ReplacesFn' = [w \in Visits |-> IF w \in rest THEN Replaced(w) ELSE NoVisit]
        BY <3>4 DEF FateFn, ReplacesFn
      <4>2. EnteredSet' = EnteredSet \cap rest /\ LeavingSet' = LeavingSet \cap rest
        <5>1. /\ EnteredSet \subseteq Visits /\ EnteredSet' \subseteq Visits
              /\ LeavingSet \subseteq Visits /\ LeavingSet' \subseteq Visits
          BY DEF EnteredSet, LeavingSet
        <5> QED BY <3>4, <5>1
      <4> QED
        BY <4>1, <4>2
        DEF Promise!Disclaim, FateFn, ReplacesFn, Replaced, EnteredSet, LeavingSet
    <3>6. Promise!TakeUpAgain(o, v)
      BY <2>1, <3>2, <3>3, <3>5 DEF Promise!TakeUpAgain
    <3> QED BY <3>6 DEF PromiseStep, Promise!VisitPromiseNext
  <2> QED BY <2>3, <2>4
<1>5. UNCHANGED history \/ BeginCancel(h, v) \/ \E o \in Visits : BeginReschedule(h, o, v)
  BY DEF BeginBook, BeginResolve
<1> QED BY <1>2, <1>3, <1>4, <1>5

LEMMA CreateEventIsPromised ==
    ASSUME BookingInv, TypeOK', NEW h \in Handlers, CreateEvent(h)
    PROVE  PromiseStep
<1> USE BookingAssumption
<1>1. /\ TypeOK /\ RequestInv(h) /\ pc[h] = "creating"
      /\ UNCHANGED <<rows, history>>
  BY DEF BookingInv, RequestsInv, CreateEvent
<1>2. PICK v \in Visits : v = visit[h]
  BY <1>1, TypeFacts DEF HandlerTypeOK
<1>3. OrdinaryVisits' = OrdinaryVisits
  BY <1>1, OrdinaryKept DEF history
<1>4. \/ UNCHANGED events
      \/ \E n \in Nat : events' = [events EXCEPT ![v] = @ \cup {n}]
  <2>1. made[v] + 1 \in Nat
    BY <1>1 DEF TypeOK
  <2> QED BY <1>2, <2>1 DEF CreateEvent
<1>5. \A w \in OrdinaryVisits \ {v} : Alike(w)
  <2>1. \A w \in Visits \ {v} : events'[w] = events[w]
    BY <1>1, <1>4, TypeFacts
  <2> QED BY <1>1, <2>1 DEF Alike, rows, history, OrdinaryVisits
<1>6. CASE UNCHANGED events
  <2>1. \A w \in OrdinaryVisits : Alike(w)
    BY <1>1, <1>6 DEF Alike, rows, history
  <2> QED BY <1>1, <1>3, <2>1, NothingToSee
<1>7. CASE v \notin OrdinaryVisits
  <2>1. \A w \in OrdinaryVisits : Alike(w)
    BY <1>5, <1>7
  <2> QED BY <1>1, <1>3, <2>1, NothingToSee
<1>8. CASE v \in OrdinaryVisits /\ ~ UNCHANGED events
  <2>1. PICK n \in Nat : events' = [events EXCEPT ![v] = @ \cup {n}]
    BY <1>4, <1>8
  <2>2. events'[v] # {}
    <3>1. n \in events'[v]
      BY <1>1, <2>1, TypeFacts
    <3> QED BY <3>1
  <2>3. /\ status[v] = "Pending" /\ events[v] = {}
    <3>1. Attempting(h)
      BY <1>1 DEF RequestInv, HoldsItsRows, Attempting
    <3> QED BY <1>1, <1>2, <1>8, <3>1 DEF RequestInv, AttemptIsUndisturbed
  <2>4. /\ Fate(v) = "Tried" /\ Fate(v)' = Fate(v) /\ Replaced(v)' = Replaced(v)
        /\ v \notin EnteredSet
    BY <1>1, <1>3, <1>8, <2>3, Appearance, AppearanceThen DEF rows
  <2>5. /\ FateFn' = FateFn /\ ReplacesFn' = ReplacesFn
        /\ EnteredSet' = EnteredSet \cup {v}
    BY <1>1, <1>3, <1>5, <1>8, <2>2, <2>4, OneLooksDifferent
  <2>6. LeavingSet' = LeavingSet
    <3>1. \A w \in Visits : Ordinary(w)' = Ordinary(w)
      BY <1>1 DEF Ordinary, history
    <3> QED BY <1>1, <3>1 DEF LeavingSet, history
  <2>7. Promise!Enter(v)
    BY <2>4, <2>5, <2>6 DEF Promise!Enter, FateFn, ReplacesFn, Replaced, EnteredSet, LeavingSet
  <2> QED BY <2>7 DEF PromiseStep, Promise!VisitPromiseNext
<1> QED BY <1>6, <1>7, <1>8

LEMMA ReleaseEventIsPromised ==
    ASSUME BookingInv, TypeOK', NEW h \in Handlers, ReleaseEvent(h)
    PROVE  PromiseStep
<1> USE BookingAssumption
<1>1. /\ TypeOK /\ RequestInv(h) /\ OriginsAreSiblings /\ RowsMatchTheCalendar
      /\ pc[h] = "releasing"
      /\ UNCHANGED <<rows, history>>
  BY DEF BookingInv, RequestsInv, RowsInv, ReleaseEvent
<1>2. PICK v \in Visits : v = visit[h]
  BY <1>1, TypeFacts DEF HandlerTypeOK
<1>3. op[h] \in {"cancel", "move", "confirm"}
  BY <1>1, TypeFacts DEF RequestInv, HoldsItsRows, HandlerTypeOK
<1>4. PICK o \in Visits : o = Target(h) /\ (op[h] # "cancel" => o # v)
  <2>1. CASE op[h] = "cancel"
    BY <1>2, <2>1 DEF Target
  <2>2. CASE op[h] = "move"
    BY <1>1, <1>2, <2>2 DEF Target, RequestInv, HoldsItsRows
  <2>3. CASE op[h] = "confirm"
    <3>1. replaced[h] \in Visits
      BY <1>1, <2>3, TypeFacts DEF RequestInv, HoldsItsRows, HandlerTypeOK
    <3>2. status[replaced[h]] = "Confirmed" /\ status[v] = "NeedsReview"
      BY <1>1, <1>2, <2>3, <3>1 DEF RequestInv, HoldsItsRows
    <3> QED BY <2>3, <3>1, <3>2 DEF Target
  <2> QED BY <1>3, <2>1, <2>2, <2>3
<1>5. OrdinaryVisits' = OrdinaryVisits
  BY <1>1, OrdinaryKept DEF history
<1>6. events' = events \/ events' = [events EXCEPT ![o] = @ \ ToRemove(h, o)]
  BY <1>4 DEF ReleaseEvent, Target
<1>7. \A w \in OrdinaryVisits \ {o} : Alike(w)
  <2>1. \A w \in Visits \ {o} : events'[w] = events[w]
    BY <1>1, <1>6, TypeFacts
  <2> QED BY <1>1, <2>1 DEF Alike, rows, history, OrdinaryVisits
<1>8. CASE \/ o \notin OrdinaryVisits
           \/ events'[o] = {} <=> events[o] = {}
  <2>1. \A w \in OrdinaryVisits : Alike(w)
    BY <1>1, <1>7, <1>8 DEF Alike, rows, history
  <2> QED BY <1>1, <1>5, <2>1, NothingToSee
<1>9. CASE o \in OrdinaryVisits /\ ~(events'[o] = {} <=> events[o] = {})
  <2>1. events[o] # {} /\ events'[o] = {}
    <3>1. events'[o] \subseteq events[o]
      BY <1>1, <1>6, TypeFacts
    <3> QED BY <1>9, <3>1
  <2>2. /\ status[o] = "Confirmed"
        /\ \/ o \in asked
           \/ /\ v \in OrdinaryVisits /\ origin[v] = o
              /\ status[v] \in {"Pending", "NeedsReview"} /\ events[v] # {}
    <3>1. CASE op[h] = "cancel"
      BY <1>1, <1>4, <3>1 DEF Target, RequestInv, HoldsItsRows
    <3>2. CASE op[h] = "move"
      <4>1. o = replaced[h] /\ LeadOf[o] = LeadOf[v]
        BY <1>1, <1>2, <1>4, <3>2 DEF Target, RequestInv, HoldsItsRows
      <4>2. v \in OrdinaryVisits
        BY <1>9, <4>1, SiblingsAreOrdinary
      <4>3. /\ status[v] = "Pending" /\ origin[v] = o /\ status[o] = "Confirmed"
            /\ event[h] # 0 /\ events[v] = {event[h]}
        BY <1>1, <1>2, <3>2, <4>1, <4>2 DEF RequestInv, AttemptIsUndisturbed, Attempting
      <4> QED BY <4>2, <4>3
    <3>3. CASE op[h] = "confirm"
      <4>1. /\ o = replaced[h] /\ o = origin[v] /\ o # NoVisit
            /\ status[v] = "NeedsReview" /\ status[o] = "Confirmed"
        BY <1>1, <1>2, <1>4, <3>3 DEF Target, RequestInv, HoldsItsRows
      <4>2. v \in OrdinaryVisits
        BY <1>1, <1>9, <4>1, SiblingsAreOrdinary DEF OriginsAreSiblings
      <4>3. events[v] # {}
        BY <1>1, <1>2, <3>3, <4>2 DEF RequestInv, EvidenceStands
      <4> QED BY <4>1, <4>2, <4>3
    <3> QED BY <1>3, <3>1, <3>2, <3>3
  <2>3. /\ Fate(o) = "Stands" /\ Fate(o)' = Fate(o) /\ Replaced(o)' = Replaced(o)
        /\ o \in EnteredSet
        /\ \/ o \in LeavingSet
           \/ v \in EnteredSet /\ Replaced(v) = o /\ Fate(v) = "Tried"
    BY <1>1, <1>5, <1>9, <2>1, <2>2, Appearance, AppearanceThen DEF rows
  <2>4. /\ FateFn' = FateFn /\ ReplacesFn' = ReplacesFn
        /\ EnteredSet' = EnteredSet \ {o}
    BY <1>1, <1>5, <1>7, <1>9, <2>1, <2>3, OneLooksDifferent
  <2>5. LeavingSet' = LeavingSet
    <3>1. \A w \in Visits : Ordinary(w)' = Ordinary(w)
      BY <1>1 DEF Ordinary, history
    <3> QED BY <1>1, <3>1 DEF LeavingSet, history
  <2>6. Promise!Withdraw(o)
    BY <2>3, <2>4, <2>5
    DEF Promise!Withdraw, FateFn, ReplacesFn, Replaced, EnteredSet, LeavingSet
  <2> QED BY <2>6 DEF PromiseStep, Promise!VisitPromiseNext
<1> QED BY <1>8, <1>9

-----------------------------------------------------------------------------
(***************************************************************************)
(* Recording, which is where a visit comes to stand, to nothing or to its  *)
(* end.  Both a move and an Administrator's confirmation establish.        *)
(***************************************************************************)

\* Recording leaves the calendar and the cancellations asked for as they are.
LEMMA RecordingShows ==
    ASSUME UNCHANGED <<calendar, history>>
    PROVE  EnteredSet' = EnteredSet /\ LeavingSet' = LeavingSet
<1>1. \A w \in Visits : Ordinary(w)' = Ordinary(w)
  BY DEF Ordinary, history
<1> QED BY <1>1 DEF EnteredSet, LeavingSet, calendar, history

\* An ordinary attempt with its event is confirmed, together with what it
\* replaces.
LEMMA ConfirmingEstablishes ==
    ASSUME TypeOK, TypeOK', UNCHANGED <<origin, calendar, history>>,
           NEW v \in OrdinaryVisits, NEW o \in Visits \cup {NoVisit}, v # o,
           status[v] \in {"Pending", "NeedsReview"}, events[v] # {}, origin[v] = o,
           o # NoVisit => LeadOf[o] = LeadOf[v] /\ status[o] = "Confirmed",
           status'[v] = "Confirmed",
           o # NoVisit => status'[o] = "Rescheduled",
           \A w \in Visits \ {v, o} : status'[w] = status[w]
    PROVE  PromiseStep
<1> USE BookingAssumption
<1>1. OrdinaryVisits' = OrdinaryVisits
  BY OrdinaryKept DEF history
<1>2. v \in Visits /\ Fate(v) = "Tried" /\ Fate(v)' = "Stands" /\ v \in EnteredSet /\ Replaced(v) = o
  BY <1>1, Appearance, AppearanceThen DEF OrdinaryVisits
<1>3. ASSUME o # NoVisit PROVE o \in Visits /\ Fate(o) = "Stands" /\ Fate(o)' = "Gone"
  <2>1. o \in Visits /\ o \in OrdinaryVisits
    BY <1>3, SiblingsAreOrdinary
  <2> QED BY <1>1, <1>3, <2>1, Appearance, AppearanceThen
<1>4. \A w \in Visits \ {v, o} : Fate(w)' = Fate(w)
  <2>1. \A w \in Visits \ {v, o} : Alike(w)
    BY DEF Alike, calendar, history
  <2> QED BY <1>1, <2>1, AlikeLooksTheSame
<1>5. FateFn' = [w \in Visits |-> IF w = v THEN "Stands"
                                  ELSE IF w = Replaced(v) THEN "Gone" ELSE Fate(w)]
  BY <1>2, <1>3, <1>4 DEF FateFn
<1>6. ReplacesFn' = ReplacesFn
  <2>1. \A w \in Visits : Ordinary(w)' = Ordinary(w)
    BY DEF Ordinary, history
  <2> QED BY <2>1 DEF ReplacesFn, Replaced
<1>7. Promise!Establish(v)
  BY <1>2, <1>3, <1>5, <1>6, RecordingShows
  DEF Promise!Establish, FateFn, ReplacesFn, Replaced, EnteredSet, LeavingSet
<1> QED BY <1>2, <1>7 DEF PromiseStep, Promise!VisitPromiseNext

\* One ordinary visit ends; nothing else moves.
LEMMA ClosingEnds ==
    ASSUME TypeOK, TypeOK', UNCHANGED <<origin, calendar, history>>,
           NEW v \in OrdinaryVisits, events[v] = {},
           \/ /\ status[v] = "Confirmed" /\ status'[v] = "Cancelled" /\ v \in asked
              /\ \A w \in Visits : origin[w] = v => status[w] = "Rejected"
           \/ status[v] = "NeedsReview" /\ status'[v] = "Rejected",
           \A w \in Visits \ {v} : status'[w] = status[w]
    PROVE  PromiseStep
<1>1. OrdinaryVisits' = OrdinaryVisits
  BY OrdinaryKept DEF history
<1>2. \A w \in OrdinaryVisits \ {v} : Alike(w)
  BY DEF Alike, calendar, history, OrdinaryVisits
<1>3. v \in Visits /\ v \notin EnteredSet /\ Replaced(v)' = Replaced(v)
  BY <1>1, Appearance, AppearanceThen DEF OrdinaryVisits
<1>4. /\ FateFn' = [FateFn EXCEPT ![v] = Fate(v)'] /\ ReplacesFn' = ReplacesFn
  BY <1>1, <1>2, <1>3, OneLooksDifferent
<1>5. CASE status[v] = "Confirmed"
  <2>1. Fate(v) = "Stands" /\ Fate(v)' = "Gone" /\ v \in LeavingSet
    BY <1>1, <1>5, Appearance, AppearanceThen
  <2>2. ASSUME NEW w \in Visits, Replaced(w) = v PROVE Fate(w) = "Refused"
    <3>1. w \in OrdinaryVisits /\ origin[w] = v
      BY <2>2, SuccessorsAreSeen
    <3> QED BY <1>5, <3>1, Appearance
  <2>3. Promise!Cancel(v)
    BY <1>3, <1>4, <2>1, <2>2, RecordingShows
    DEF Promise!Cancel, FateFn, ReplacesFn, Replaced, EnteredSet, LeavingSet
  <2> QED BY <1>3, <2>3 DEF PromiseStep, Promise!VisitPromiseNext
<1>6. CASE status[v] = "NeedsReview"
  <2>1. Fate(v) = "Tried" /\ Fate(v)' = "Refused"
    BY <1>1, <1>6, Appearance, AppearanceThen
  <2>2. Promise!Refuse(v)
    BY <1>3, <1>4, <2>1, RecordingShows
    DEF Promise!Refuse, FateFn, ReplacesFn, Replaced, EnteredSet, LeavingSet
  <2> QED BY <1>3, <2>2 DEF PromiseStep, Promise!VisitPromiseNext
<1> QED BY <1>5, <1>6

\* A request that records touches what it works on and what that replaces.
LEMMA RecordingIsPromised ==
    ASSUME BookingInv, TypeOK', NEW h \in Handlers,
           \/ RecordBooking(h) \/ RecordMove(h)
           \/ RecordCancellation(h) \/ RecordResolution(h)
    PROVE  PromiseStep
<1> USE BookingAssumption
<1>1. /\ TypeOK /\ OriginsAreSiblings /\ pc[h] = "recording"
      /\ UNCHANGED <<origin, calendar, history>>
  BY DEF BookingInv, RowsInv, RecordBooking, RecordMove, RecordCancellation, RecordResolution
<1>2. PICK v \in Visits, o \in Visits \cup {NoVisit} : v = visit[h] /\ o = replaced[h]
  BY <1>1, RecordingKnows
<1>3. /\ HoldsItsRows(h)
      /\ v \in OrdinaryVisits =>
           /\ op[h] \in {"book", "move"} =>
                 /\ status[v] = "Pending" /\ origin[v] = o
                 /\ event[h] # 0 => events[v] = {event[h]}
           /\ op[h] = "move" => status[o] = "Confirmed"
           /\ op[h] = "cancel" =>
                 /\ events[v] = {}
                 /\ \A w \in Visits : origin[w] = v => status[w] = "Rejected"
           /\ op[h] = "confirm" => event[h] # 0 /\ events[v] = {event[h]}
           /\ op[h] = "reject" => event[h] = 0 /\ events[v] = {}
      /\ o \in OrdinaryVisits => v \in OrdinaryVisits
  BY <1>1, <1>2, RecordingKnows
<1>4. OrdinaryVisits' = OrdinaryVisits
  BY <1>1, OrdinaryKept DEF history
<1>5. CASE UNCHANGED status
  <2>1. \A w \in OrdinaryVisits : Alike(w)
    BY <1>1, <1>5 DEF Alike, calendar, history
  <2> QED BY <1>1, <1>4, <2>1, NothingToSee
<1>6. \A w \in Visits \ {v, o} : status'[w] = status[w]
  <2>1. \/ UNCHANGED status
        \/ status' = [status EXCEPT ![v] = Outcome(h)]
        \/ status' = Replace([status EXCEPT ![v] = "Confirmed"], o)
        \/ status' = [status EXCEPT ![v] = "NeedsReview"]
        \/ status' = [status EXCEPT ![v] = "Cancelled"]
        \/ \A w \in Visits \ {v, o} : status'[w] = status[w]
    BY <1>2 DEF RecordBooking, RecordMove, RecordCancellation, RecordResolution
  <2> QED BY <1>1, <2>1, TypeFacts DEF Replace
<1>7. CASE v \notin OrdinaryVisits
  <2>1. o \notin OrdinaryVisits
    BY <1>3, <1>7
  <2>2. \A w \in OrdinaryVisits : Alike(w)
    BY <1>1, <1>6, <1>7, <2>1 DEF Alike, calendar, history, OrdinaryVisits
  <2> QED BY <1>1, <1>4, <2>2, NothingToSee
<1>8. ASSUME v \in OrdinaryVisits, RecordBooking(h), ~ UNCHANGED status PROVE PromiseStep
  <2>1. op[h] = "book" /\ status' = [status EXCEPT ![v] = Outcome(h)] /\ o = NoVisit
    BY <1>2, <1>3, <1>8 DEF RecordBooking, HoldsItsRows
  <2>2. \A w \in Visits \ {v} : status'[w] = status[w]
    BY <1>1, <2>1, TypeFacts
  <2>3. CASE event[h] # 0
    <3>1. status'[v] = "Confirmed" /\ status[v] = "Pending" /\ events[v] # {} /\ origin[v] = o
      BY <1>1, <1>3, <1>8, <2>1, <2>3, TypeFacts DEF Outcome
    <3> QED BY <1>1, <1>8, <2>1, <2>2, <3>1, ConfirmingEstablishes
  <2>4. CASE event[h] = 0
    <3>1. status'[v] = "NeedsReview" /\ status[v] = "Pending"
      BY <1>1, <1>3, <1>8, <2>1, <2>4, TypeFacts DEF Outcome
    <3>2. \A w \in OrdinaryVisits : Alike(w)
      BY <1>1, <2>2, <3>1 DEF Alike, calendar, history, OrdinaryVisits
    <3> QED BY <1>1, <1>4, <3>2, NothingToSee
  <2> QED BY <2>3, <2>4
<1>9. ASSUME v \in OrdinaryVisits, RecordMove(h), ~ UNCHANGED status PROVE PromiseStep
  <2>1. /\ op[h] = "move" /\ o \in Visits \ {v} /\ LeadOf[o] = LeadOf[v]
        /\ status[v] = "Pending" /\ origin[v] = o /\ status[o] = "Confirmed"
    BY <1>2, <1>3, <1>9 DEF RecordMove, HoldsItsRows
  <2>2. CASE event[h] # 0
    <3>1. status' = Replace([status EXCEPT ![v] = "Confirmed"], o)
      BY <1>2, <1>9, <2>2 DEF RecordMove
    <3>2. status'[v] = "Confirmed" /\ status'[o] = "Rescheduled" /\ events[v] # {}
      BY <1>1, <1>3, <1>9, <2>1, <2>2, <3>1, TypeFacts DEF Replace
    <3> QED BY <1>1, <1>6, <1>9, <2>1, <3>2, ConfirmingEstablishes
  <2>3. CASE event[h] = 0
    <3>1. status' = [status EXCEPT ![v] = "NeedsReview"]
      BY <1>2, <1>9, <2>3 DEF RecordMove
    <3>2. status'[v] = "NeedsReview" /\ \A w \in Visits \ {v} : status'[w] = status[w]
      BY <1>1, <3>1, TypeFacts
    <3>3. \A w \in OrdinaryVisits : Alike(w)
      BY <1>1, <2>1, <3>2 DEF Alike, calendar, history, OrdinaryVisits
    <3> QED BY <1>1, <1>4, <3>3, NothingToSee
  <2> QED BY <2>2, <2>3
<1>10. ASSUME v \in OrdinaryVisits, RecordCancellation(h) PROVE PromiseStep
  <2>1. op[h] = "cancel" /\ o = NoVisit /\ status[v] = "Confirmed" /\ v \in asked
    BY <1>2, <1>3, <1>10 DEF RecordCancellation, HoldsItsRows
  <2>2. status' = [status EXCEPT ![v] = "Cancelled"]
    BY <1>2, <1>10 DEF RecordCancellation
  <2>3. status'[v] = "Cancelled" /\ \A w \in Visits \ {v} : status'[w] = status[w]
    BY <1>1, <2>2, TypeFacts
  <2>4. events[v] = {} /\ \A w \in Visits : origin[w] = v => status[w] = "Rejected"
    BY <1>3, <1>10, <2>1
  <2> QED BY <1>1, <1>10, <2>1, <2>3, <2>4, ClosingEnds
<1>11. ASSUME v \in OrdinaryVisits, RecordResolution(h) PROVE PromiseStep
  <2>1. /\ op[h] \in {"confirm", "reject"} /\ status[v] = "NeedsReview"
        /\ op[h] = "confirm" => o = origin[v]
        /\ op[h] = "confirm" /\ o # NoVisit => status[o] = "Confirmed"
        /\ op[h] = "reject" => o = NoVisit
    BY <1>2, <1>3, <1>11 DEF RecordResolution, HoldsItsRows
  <2>2. \A w \in Visits : status'[w] = IF w = v THEN IF op[h] = "confirm" THEN "Confirmed" ELSE "Rejected"
                                       ELSE IF w = o THEN "Rescheduled" ELSE status[w]
    BY <1>2, <1>11 DEF RecordResolution
  <2>3. CASE op[h] = "confirm"
    <3>1. o # v /\ (o # NoVisit => LeadOf[o] = LeadOf[v])
      BY <1>1, <2>1, <2>3 DEF OriginsAreSiblings
    <3>2. events[v] # {}
      BY <1>3, <1>11, <2>3
    <3> QED BY <1>1, <1>6, <1>11, <2>1, <2>2, <2>3, <3>1, <3>2, ConfirmingEstablishes
  <2>4. CASE op[h] = "reject"
    <3>1. events[v] = {}
      BY <1>3, <1>11, <2>4
    <3>2. \A w \in Visits \ {v} : status'[w] = status[w]
      BY <2>1, <2>2, <2>4
    <3> QED BY <1>1, <1>11, <2>1, <2>2, <2>4, <3>1, <3>2, ClosingEnds
  <2> QED BY <2>1, <2>3, <2>4
<1> QED BY <1>5, <1>7, <1>8, <1>9, <1>10, <1>11

\* Recovery shows nothing but the Conversations it disclaims.
LEMMA RecoveryIsPromised ==
    ASSUME BookingInv, TypeOK', RecoverPendingAttempts
    PROVE  PromiseStep
<1> USE BookingAssumption
<1>1. /\ TypeOK /\ UNCHANGED <<origin, calendar, revived, asked>>
  BY DEF BookingInv, RecoverPendingAttempts
<1>2. PICK stranded \in SUBSET Visits :
          /\ \A v \in stranded : status[v] = "Pending"
          /\ status' = [v \in Visits |-> IF v \in stranded THEN "NeedsReview" ELSE status[v]]
          /\ overtaken' = overtaken \cup (stranded \cap InFlight)
  BY DEF RecoverPendingAttempts
<1>3. PICK lost \in SUBSET Visits : lost = stranded \cap InFlight \cap OrdinaryVisits
  BY <1>2
<1> DEFINE leads == {LeadOf[v] : v \in lost}
<1>4. ASSUME NEW w \in Visits
      PROVE  w \in OrdinaryVisits' <=> w \in OrdinaryVisits /\ LeadOf[w] \notin leads
  <2>1. ASSUME w \in OrdinaryVisits, LeadOf[w] \in leads PROVE w \notin OrdinaryVisits'
    <3>1. PICK v \in lost : LeadOf[w] = LeadOf[v]
      BY <2>1
    <3>2. v \in overtaken'
      BY <1>2, <1>3
    <3> QED BY <3>1, <3>2 DEF OrdinaryVisits, Ordinary
  <2>2. ASSUME w \in OrdinaryVisits, LeadOf[w] \notin leads PROVE w \in OrdinaryVisits'
    <3> SUFFICES ASSUME NEW u \in overtaken' \cup revived', LeadOf[u] = LeadOf[w] PROVE FALSE
      BY DEF OrdinaryVisits, Ordinary
    <3>1. u \in stranded \cap InFlight
      BY <1>1, <1>2, <2>2 DEF OrdinaryVisits, Ordinary
    <3>2. u \in lost
      BY <1>2, <1>3, <2>2, <3>1, SiblingsAreOrdinary
    <3> QED BY <2>2, <3>2
  <2>3. OrdinaryVisits' \subseteq OrdinaryVisits
    BY <1>1, <1>2, OrdinaryShrinks
  <2> QED BY <2>1, <2>2, <2>3
<1>5. ASSUME NEW w \in Visits
      PROVE  /\ LeadOf[w] \in leads =>
                   /\ Fate(w)' = "Disclaimed" /\ Replaced(w)' = NoVisit
                   /\ w \notin EnteredSet' /\ w \notin LeavingSet'
             /\ LeadOf[w] \notin leads =>
                   /\ Fate(w)' = Fate(w) /\ Replaced(w)' = Replaced(w)
                   /\ w \in EnteredSet' <=> w \in EnteredSet
                   /\ w \in LeavingSet' <=> w \in LeavingSet
  <2>1. CASE w \notin OrdinaryVisits'
    BY <1>4, <2>1, NoAppearance
  <2>2. CASE w \in OrdinaryVisits'
    <3>1. w \in OrdinaryVisits /\ LeadOf[w] \notin leads
      BY <1>4, <2>2
    <3>2. /\ status[w] \in Statuses
          /\ \/ status'[w] = status[w]
             \/ status[w] = "Pending" /\ status'[w] = "NeedsReview"
      <4>1. status'[w] = IF w \in stranded THEN "NeedsReview" ELSE status[w]
        BY <1>2
      <4>2. w \in stranded => status[w] = "Pending"
        BY <1>2
      <4> QED BY <1>1, <4>1, <4>2, TypeFacts
    <3>3. Fate(w)' = Fate(w)
      BY <2>2, <3>1, <3>2, Appearance, AppearanceThen
    <3>4. Replaced(w)' = Replaced(w)
      BY <1>1, <2>2, <3>1, Appearance, AppearanceThen
    <3>5. /\ w \in EnteredSet' <=> w \in EnteredSet
          /\ w \in LeavingSet' <=> w \in LeavingSet
      BY <1>1, <2>2, <3>1, Appearance, AppearanceThen DEF calendar
    <3> QED BY <3>1, <3>3, <3>4, <3>5
  <2> QED BY <2>1, <2>2
<1>6. Promise!Disclaim(leads)
  <2> DEFINE rest == {w \in Visits : LeadOf[w] \notin leads}
  <2>1. /\ FateFn' = [w \in Visits |-> IF w \in rest THEN Fate(w) ELSE "Disclaimed"]
        /\ ReplacesFn' = [w \in Visits |-> IF w \in rest THEN Replaced(w) ELSE NoVisit]
    BY <1>5 DEF FateFn, ReplacesFn
  <2>2. EnteredSet' = EnteredSet \cap rest /\ LeavingSet' = LeavingSet \cap rest
    <3>1. /\ EnteredSet \subseteq Visits /\ EnteredSet' \subseteq Visits
          /\ LeavingSet \subseteq Visits /\ LeavingSet' \subseteq Visits
      BY DEF EnteredSet, LeavingSet
    <3> QED BY <1>5, <3>1
  <2> HIDE DEF leads
  <2> QED
    BY <2>1, <2>2
    DEF Promise!Disclaim, FateFn, ReplacesFn, Replaced, EnteredSet, LeavingSet
<1>7. \A v \in lost : Fate(v) = "Tried"
  BY <1>2, <1>3, Appearance
<1>8. Promise!Overtake(lost)
  BY <1>6, <1>7 DEF Promise!Overtake
<1> QED BY <1>8 DEF PromiseStep, Promise!VisitPromiseNext

\* The rest happens to requests and notices alone.
LEMMA TheRestIsNotSeen ==
    ASSUME BookingInv, TypeOK', UNCHANGED <<rows, calendar, history>>
    PROVE  PromiseStep
<1>1. TypeOK /\ OrdinaryVisits' = OrdinaryVisits
  BY OrdinaryKept DEF BookingInv, history
<1>2. \A w \in OrdinaryVisits : Alike(w)
  BY DEF Alike, rows, calendar, history
<1> QED BY <1>1, <1>2, NothingToSee

\* Requests that interleave, answers that are lost, recovery, resolutions and
\* notices together do no more than the promise allows.
THEOREM BookingKeepsItsPromise == Spec => KeepsTheVisitPromise
<1>1. Init => Promise!VisitPromiseInit
  <2> SUFFICES ASSUME Init PROVE Promise!VisitPromiseInit
    OBVIOUS
  <2>1. \A v \in Visits : /\ v \in OrdinaryVisits /\ status[v] = "Absent"
                          /\ origin[v] = NoVisit /\ events[v] = {} /\ v \notin asked
    BY DEF Init, OrdinaryVisits, Ordinary
  <2>2. \A v \in Visits : /\ Fate(v) = "Open" /\ Replaced(v) = NoVisit
                          /\ v \notin EnteredSet /\ v \notin LeavingSet
    BY <2>1, Appearance
  <2>3. EnteredSet = {} /\ LeavingSet = {}
    BY <2>2 DEF EnteredSet, LeavingSet
  <2> QED
    BY <2>2, <2>3 DEF Promise!VisitPromiseInit, Replaced, EnteredSet, LeavingSet
<1>2. BookingInv /\ [Next]_vars => PromiseStep
  <2> SUFFICES ASSUME BookingInv, [Next]_vars PROVE PromiseStep
    OBVIOUS
  <2>1. TypeOK'
    BY StepTypes DEF BookingInv
  <2>2. CASE \/ UNCHANGED vars
             \/ \E v \in Visits : ReadNotice(v)
             \/ SendNotice \/ MarkLeadNotified \/ WorkerInterrupted
             \/ \E h \in Handlers : Interrupt(h)
    <3>1. UNCHANGED <<rows, calendar, history>>
      BY <2>2 DEF vars, ReadNotice, SendNotice, MarkLeadNotified, WorkerInterrupted, Interrupt
    <3> QED BY <2>1, <3>1, TheRestIsNotSeen
  <2>3. CASE RecoverPendingAttempts
    BY <2>1, <2>3, RecoveryIsPromised
  <2>4. ASSUME NEW h \in Handlers, HandlerStep(h), ~ Interrupt(h) PROVE PromiseStep
    <3>1. ASSUME NEW v \in Visits,
                 \/ BeginBook(h, v)
                 \/ \E d \in {"confirm", "reject"} : BeginResolve(h, v, d)
                 \/ BeginCancel(h, v)
                 \/ \E o \in Visits : BeginReschedule(h, o, v)
          PROVE  PromiseStep
      BY <2>1, <3>1, BeginningIsPromised
    <3>2. CASE PersistAttempt(h)
      BY <2>1, <3>2, PersistAttemptIsPromised
    <3>3. CASE CreateEvent(h)
      BY <2>1, <3>3, CreateEventIsPromised
    <3>4. CASE ReleaseEvent(h)
      BY <2>1, <3>4, ReleaseEventIsPromised
    <3>5. CASE RecordBooking(h) \/ RecordMove(h) \/ RecordCancellation(h) \/ RecordResolution(h)
      BY <2>1, <3>5, RecordingIsPromised
    <3> QED BY <2>4, <3>1, <3>2, <3>3, <3>4, <3>5 DEF HandlerStep
  <2> QED BY <2>2, <2>3, <2>4 DEF Next, LoopStep
<1> QED
  BY <1>1, <1>2, BookingInvariant, PTL
  DEF Spec, KeepsTheVisitPromise, Promise!VisitPromiseSpec, PromiseStep
=============================================================================
