------------------------------ MODULE Catalog ------------------------------
(***************************************************************************)
(* The Listings of one physical Property, their Offers, the status of the  *)
(* Property and the review of its visits when it is withdrawn              *)
(* (domain/catalog, domain/administration.py, domain/admin_work.py, and    *)
(* domain/scheduling/appointments.py as far as it writes a visit).         *)
(*                                                                         *)
(* A command locks the Listings it changes before it reads their Offers,   *)
(* so each is one action.  A visit has several writers, and the calendar   *)
(* is asked between what they read and what they write.  Some hold the     *)
(* lock on its row meanwhile ("held"): an Administrator who resolves it or *)
(* completes its review, a cancellation, a move to a row that exists.      *)
(* Some do not: the call that books it ("handler"), and a move to a new    *)
(* row ("move"), which has committed that row and given the lock up.       *)
(*                                                                         *)
(* Price, terms, facts and photographs are left out: whether a Listing has *)
(* what publication asks for besides availability and authority is the     *)
(* single fact "ready".  The row a visit is moved to is its state only.    *)
(*                                                                         *)
(* A definition named Slip... is the one below it with a plausible bug.    *)
(***************************************************************************)
EXTENDS Naturals

CONSTANTS
    CatalogListings,   \* the Listings of the Property
    Visits,
    Handlers,              \* of each visit: calls that write its event
    Moves,                 \* of each visit: calls that move it to a new row;
                           \* both numbered in the order they come
    MAX_CATALOG_COMMANDS   \* bound on the commands of the Administrators

ASSUME CatalogBounds ==
    /\ Handlers \subseteq Nat /\ Moves \subseteq Nat
    /\ MAX_CATALOG_COMMANDS \in Nat

VARIABLES
    inactive,       \* inactive_reason of the Property, "None" while Active
    availability,   \* of each Listing
    authorized,     \* its authority is Authorized, with evidence
    ready,          \* Presentation Readiness of each Listing
    published,      \* its publication_state is Published
    offered,        \* availability of the Offer of each operation
    visit,          \* status of each visit
    reviewed,       \* its inactive_review_status
    event,          \* its event is on the calendar
    held,           \* what the transaction that has locked its row will write
    handler,        \* step of each of its handlers
    move,           \* step of each of its moves
    successor,      \* status of the row each of its moves has made
    overtaken,      \* visits another call worked on while or after the review was completed
    commands        \* commands given so far

listingVars == <<inactive, availability, authorized, ready, published, offered, commands>>
callsOnVisits == <<held, handler, move, successor, overtaken>>
visitVars == <<visit, reviewed, event, callsOnVisits>>
catalogVars == <<listingVars, visitVars>>

Operations == {"Sale", "Rental"}

ListingAvailabilities ==
    {"Available", "Reserved", "Sold", "Rented", "TemporarilyUnavailable", "Unknown"}

OfferAvailabilities ==
    {"None", "Available", "Reserved", "Completed", "TemporarilyUnavailable", "Withdrawn", "Unknown"}

InactiveReasons ==
    {"Sold", "Rented", "Reserved", "Withdrawn", "TemporarilyUnavailable", "Unspecified"}

\* What a reason means for the Listings of the Property.
ListingAfter(reason) ==
    CASE reason \in {"None"} -> "Available"
      [] reason \in {"Sold", "Rented", "Reserved"} -> reason
      [] reason \in {"Withdrawn", "TemporarilyUnavailable"} -> "TemporarilyUnavailable"
      [] OTHER -> "Unknown"

\* What it means for an Offer; a rented Property completes its rental only.
OfferAfter(reason, operation) ==
    CASE reason = "None" -> "Available"
      [] reason = "Sold" -> "Completed"
      [] reason = "Rented" -> IF operation = "Rental" THEN "Completed" ELSE "TemporarilyUnavailable"
      [] reason \in {"Reserved", "Withdrawn", "TemporarilyUnavailable"} -> reason
      [] OTHER -> "Unknown"

HasOffer(l) == \E operation \in Operations : offered[l][operation] = "Available"

\* ListingEligibility.evaluate for the purposes that need no publication.
Eligible(l) == authorized[l] /\ availability[l] = "Available" /\ HasOffer(l)

VisitStates == {"None", "Pending", "NeedsReview", "Confirmed", "Rejected", "Rescheduled", "Cancelled"}

Reviews == {"None", "Pending", "HandlingManually", "Complete"}

HeldFor == {"Confirmed", "Rejected", "Cancelled", "Rescheduled", "Successor", "Complete"}

\* No transaction has locked the row of the visit.
Free(v) == held[v] = "Nothing"

-----------------------------------------------------------------------------
Commanded ==
    /\ commands < MAX_CATALOG_COMMANDS
    /\ commands' = commands + 1

SetListingAvailability(l, to) ==
    /\ Commanded
    /\ availability' = [availability EXCEPT ![l] = to]
    /\ UNCHANGED <<inactive, authorized, ready, published, offered>>
    /\ UNCHANGED visitVars

SetListingAuthority(l, to) ==
    /\ Commanded
    /\ authorized' = [authorized EXCEPT ![l] = to]
    /\ UNCHANGED <<inactive, availability, ready, published, offered>>
    /\ UNCHANGED visitVars

\* The facts are reviewed, or a photograph is added, moved or revoked.
ReviewListing(l, to) ==
    /\ Commanded
    /\ ready' = [ready EXCEPT ![l] = to]
    /\ UNCHANGED <<inactive, availability, authorized, published, offered>>
    /\ UNCHANGED visitVars

SetPublicationState(l, to) ==
    /\ Commanded
    /\ to => Eligible(l) /\ ready[l]
    /\ published' = [published EXCEPT ![l] = to]
    /\ UNCHANGED <<inactive, availability, authorized, ready, offered>>
    /\ UNCHANGED visitVars

RecordOffer(l, operation, to) ==
    /\ Commanded
    /\ offered' = [offered EXCEPT ![l][operation] = to]
    /\ UNCHANGED <<inactive, availability, authorized, ready, published>>
    /\ UNCHANGED visitVars

\* CompleteOperation of a sale: every Offer of every Listing is completed.
CompleteSale(l) ==
    /\ Commanded
    /\ offered[l]["Sale"] # "None"
    /\ availability' = [other \in CatalogListings |-> "Sold"]
    /\ offered' = [other \in CatalogListings |-> [operation \in Operations |->
                      IF offered[other][operation] = "None" THEN "None" ELSE "Completed"]]
    /\ UNCHANGED <<inactive, authorized, ready, published>>
    /\ UNCHANGED visitVars

\* CompleteOperation of a rental: a Listing whose sale is still offered is
\* Available afterwards, the others are Rented, whatever they were before.
CompleteRental(l) ==
    /\ Commanded
    /\ offered[l]["Rental"] # "None"
    /\ availability' = [other \in CatalogListings |->
                           IF offered[other]["Sale"] = "Available" THEN "Available" ELSE "Rented"]
    /\ offered' = [other \in CatalogListings |->
                      [offered[other] EXCEPT !["Rental"] = IF @ = "None" THEN "None" ELSE "Completed"]]
    /\ UNCHANGED <<inactive, authorized, ready, published>>
    /\ UNCHANGED visitVars

\* set_property_status and SyncLegacyPropertyStatus.
SetPropertyStatus(reason) ==
    /\ Commanded
    /\ reason # inactive
    /\ inactive' = reason
    /\ availability' = [l \in CatalogListings |-> ListingAfter(reason)]
    /\ offered' = [l \in CatalogListings |-> [operation \in Operations |->
                      IF offered[l][operation] = "None" THEN "None"
                      ELSE OfferAfter(reason, operation)]]
    /\ reviewed' = [v \in Visits |->
                       IF reason # "None" /\ visit[v] = "Confirmed" /\ reviewed[v] = "None"
                       THEN "Pending" ELSE reviewed[v]]
    /\ \A v \in Visits : reason # "None" /\ visit[v] = "Confirmed" => Free(v)
    /\ UNCHANGED <<authorized, ready, published, visit, event, callsOnVisits>>

-----------------------------------------------------------------------------
(***************************************************************************)
(* The calls that write a visit without its lock.                          *)
(***************************************************************************)

Step(steps, v, call, to) == [steps EXCEPT ![v][call] = to]

\* The next call to begin.
IsNext(steps, call) ==
    steps[call] = "None" /\ \A other \in DOMAIN steps : other < call => steps[other] # "None"

\* A call that will write to the visit, or to the row it moves the visit to.
AtWork(v) ==
    \/ \E h \in Handlers : handler[v][h] \in {"Asking", "Made", "Unclear"}
    \/ \E m \in Moves : move[v][m] \in {"Asking", "Released"}

\* BookVisit: the attempt is committed before the calendar is asked.
BeginVisit(v, h) ==
    /\ visit[v] = "None"
    /\ IsNext(handler[v], h)
    /\ \E l \in CatalogListings : Eligible(l)
    /\ visit' = [visit EXCEPT ![v] = "Pending"]
    /\ handler' = Step(handler, v, h, "Asking")
    /\ UNCHANGED <<reviewed, event, held, move, successor, overtaken>>
    /\ UNCHANGED listingVars

\* Another visit is moved to the time of this one, of the same Contact: its
\* row is read without a lock and written again unless it is Confirmed.
TakeUpVisit(v, h) ==
    /\ inactive = "None"
    /\ visit[v] \notin {"None", "Confirmed"}
    /\ IsNext(handler[v], h)
    /\ handler' = Step(handler, v, h, "Asking")
    /\ overtaken' = IF reviewed[v] = "Complete" \/ held[v] = "Complete"
                    THEN overtaken \cup {v} ELSE overtaken
    /\ UNCHANGED <<visit, reviewed, event, held, move, successor>>
    /\ UNCHANGED listingVars

\* The calendar answers, or nobody knows whether it made the event.
WriteEvent(v, h) ==
    /\ handler[v][h] = "Asking"
    /\ \/ /\ event' = [event EXCEPT ![v] = TRUE]
          /\ \E known \in {"Made", "Unclear"} : handler' = Step(handler, v, h, known)
       \/ /\ event' = event
          /\ handler' = Step(handler, v, h, "Unclear")
    /\ UNCHANGED <<visit, reviewed, held, move, successor, overtaken>>
    /\ UNCHANGED listingVars

\* The status is written over whatever the row says by now.  What was
\* NeedsReview when a row was taken up is not written.
RecordVisit(v, h) ==
    /\ Free(v)
    /\ \/ handler[v][h] = "Made" /\ visit' = [visit EXCEPT ![v] = "Confirmed"]
       \/ handler[v][h] = "Unclear" /\ visit' = [visit EXCEPT ![v] = "NeedsReview"]
       \/ handler[v][h] = "Unclear" /\ visit[v] # "Pending" /\ visit' = visit
    /\ handler' = Step(handler, v, h, "Over")
    /\ UNCHANGED <<reviewed, event, held, move, successor, overtaken>>
    /\ UNCHANGED listingVars

NoActiveSuccessor(v) == \A m \in Moves : successor[v][m] \in {"None", "Rejected"}

\* RescheduleVisit to a new row.  Committing it gives up the lock on the
\* original.
StartMove(v, m) ==
    /\ inactive = "None"
    /\ Free(v)
    /\ visit[v] = "Confirmed"
    /\ NoActiveSuccessor(v)
    /\ IsNext(move[v], m)
    /\ move' = Step(move, v, m, "Asking")
    /\ successor' = Step(successor, v, m, "Pending")
    /\ UNCHANGED <<visit, reviewed, event, held, handler, overtaken>>
    /\ UNCHANGED listingVars

\* uq_appointments_active_reschedule: one row in force succeeds a visit.
OnlySuccessor(v, m) == \A other \in Moves \ {m} : successor[v][other] \in {"None", "Rejected"}

\* The new event was not made, as far as is known: the original stays.
FailMove(v, m) ==
    /\ move[v][m] = "Asking"
    /\ held[v] # "Successor"
    /\ OnlySuccessor(v, m)
    /\ move' = Step(move, v, m, "Over")
    /\ successor' = Step(successor, v, m, "NeedsReview")
    /\ UNCHANGED <<visit, reviewed, event, held, handler, overtaken>>
    /\ UNCHANGED listingVars

\* The new event was made and the calendar was asked to delete the old one.
ReleaseOriginal(v, m) ==
    /\ move[v][m] = "Asking"
    /\ move' = Step(move, v, m, "Released")
    /\ \E left \in {FALSE, event[v]} : event' = [event EXCEPT ![v] = left]
    /\ UNCHANGED <<visit, reviewed, held, handler, successor, overtaken>>
    /\ UNCHANGED listingVars

\* Both rows are written over whatever they say by now; the index on the
\* successors in force may still refuse it.
FinishMove(v, m) ==
    /\ move[v][m] = "Released"
    /\ Free(v)
    /\ OnlySuccessor(v, m)
    /\ move' = Step(move, v, m, "Over")
    /\ successor' = Step(successor, v, m, "Confirmed")
    /\ visit' = [visit EXCEPT ![v] = "Rescheduled"]
    /\ UNCHANGED <<reviewed, event, held, handler, overtaken>>
    /\ UNCHANGED listingVars

\* The process dies, or the commit is refused.
GiveUp(v) ==
    /\ \/ \E h \in Handlers : /\ handler[v][h] \in {"Asking", "Made", "Unclear"}
                              /\ handler' = Step(handler, v, h, "Over")
                              /\ move' = move
       \/ \E m \in Moves : /\ move[v][m] \in {"Asking", "Released"}
                           /\ move' = Step(move, v, m, "Over")
                           /\ handler' = handler
    /\ UNCHANGED <<visit, reviewed, event, held, successor, overtaken>>
    /\ UNCHANGED listingVars

-----------------------------------------------------------------------------
(***************************************************************************)
(* The transactions that lock the row, ask the calendar and then write.    *)
(***************************************************************************)

\* The Administrator is believed.
SlipMayHold(v, to) ==
    CASE to = "Confirmed" -> visit[v] = "NeedsReview" /\ event[v]
      [] to = "Rejected" -> visit[v] = "NeedsReview" /\ ~event[v]
      [] to \in {"Cancelled", "Rescheduled"} -> visit[v] = "Confirmed" /\ NoActiveSuccessor(v)
      [] to = "Successor" ->
            visit[v] = "Confirmed" /\ \E m \in Moves : successor[v][m] = "NeedsReview"
      [] OTHER -> reviewed[v] = "HandlingManually"

\* resolve confirms what is on the calendar, rejects what is not, and completes
\* a review when nothing is left there; a visit is cancelled or moved to a row
\* that exists while no other row succeeds it, or by confirming that row.
MayHold(v, to) ==
    CASE to = "Confirmed" -> visit[v] = "NeedsReview" /\ event[v]
      [] to = "Rejected" -> visit[v] = "NeedsReview" /\ ~event[v]
      [] to \in {"Cancelled", "Rescheduled"} -> visit[v] = "Confirmed" /\ NoActiveSuccessor(v)
      [] to = "Successor" ->
            visit[v] = "Confirmed" /\ \E m \in Moves : successor[v][m] = "NeedsReview"
      [] OTHER -> reviewed[v] = "HandlingManually" /\ ~event[v]

\* The row is locked and the calendar asked: to delete the event, or whether
\* there is one.  Only a cancellation insists on the deletion.
HoldVisit(v, to) ==
    /\ Free(v)
    /\ MayHold(v, to)
    /\ held' = [held EXCEPT ![v] = to]
    /\ \E left \in CASE to = "Cancelled" -> {FALSE}
                     [] to \in {"Rescheduled", "Successor"} -> {FALSE, event[v]}
                     [] OTHER -> {event[v]} :
          event' = [event EXCEPT ![v] = left]
    /\ overtaken' = IF to = "Complete" /\ AtWork(v) THEN overtaken \cup {v} ELSE overtaken
    /\ UNCHANGED <<visit, reviewed, handler, move, successor>>
    /\ UNCHANGED listingVars

StatusFor(to) ==
    CASE to = "Complete" -> "Cancelled" [] to = "Successor" -> "Rescheduled" [] OTHER -> to

WriteVisit(v) ==
    /\ ~Free(v)
    /\ visit' = [visit EXCEPT ![v] = StatusFor(held[v])]
    /\ reviewed' = [reviewed EXCEPT ![v] = IF held[v] = "Complete" THEN "Complete" ELSE @]
    /\ successor' = [successor EXCEPT ![v] = [m \in Moves |->
                        IF held[v] = "Successor" /\ @[m] = "NeedsReview" THEN "Confirmed" ELSE @[m]]]
    /\ held' = [held EXCEPT ![v] = "Nothing"]
    /\ UNCHANGED <<event, handler, move, overtaken>>
    /\ UNCHANGED listingVars

\* The process dies, the calendar has no clear answer, or a later step of the
\* transaction is refused.
LetGo(v) ==
    /\ ~Free(v)
    /\ held' = [held EXCEPT ![v] = "Nothing"]
    /\ UNCHANGED <<visit, reviewed, event, handler, move, successor, overtaken>>
    /\ UNCHANGED listingVars

-----------------------------------------------------------------------------
(***************************************************************************)
(* Recovery, the review and the calendar itself.                           *)
(***************************************************************************)

RecoverVisit(v) ==
    /\ Free(v)
    /\ visit[v] = "Pending"
    /\ visit' = [visit EXCEPT ![v] = "NeedsReview"]
    /\ UNCHANGED <<reviewed, event, callsOnVisits>>
    /\ UNCHANGED listingVars

\* The row a visit is moved to is recovered, or rejected by an Administrator.
SettleSuccessor(v, m) ==
    /\ held[v] # "Successor"
    /\ \/ successor[v][m] = "Pending" /\ successor' = Step(successor, v, m, "NeedsReview")
       \/ successor[v][m] = "NeedsReview" /\ successor' = Step(successor, v, m, "Rejected")
    /\ UNCHANGED <<visit, reviewed, event, held, handler, move, overtaken>>
    /\ UNCHANGED listingVars

\* The Advisor takes the event off the calendar by hand.
RemoveEvent(v) ==
    /\ event[v]
    /\ reviewed[v] = "HandlingManually"
    /\ event' = [event EXCEPT ![v] = FALSE]
    /\ UNCHANGED <<visit, reviewed, callsOnVisits>>
    /\ UNCHANGED listingVars

HandleManually(v) ==
    /\ Free(v)
    /\ reviewed[v] = "Pending"
    /\ reviewed' = [reviewed EXCEPT ![v] = "HandlingManually"]
    /\ UNCHANGED <<visit, event, callsOnVisits>>
    /\ UNCHANGED listingVars

-----------------------------------------------------------------------------
\* A Property imported from its document: a Draft Listing, authorized and
\* available; the second Listing is one of a collaborator.
CatalogInit ==
    /\ inactive = "None"
    /\ availability \in [CatalogListings -> {"Available", "Unknown"}]
    /\ authorized = [l \in CatalogListings |-> availability[l] = "Available"]
    /\ ready = [l \in CatalogListings |-> FALSE]
    /\ published = [l \in CatalogListings |-> FALSE]
    /\ offered = [l \in CatalogListings |-> [operation \in Operations |->
                     IF authorized[l] /\ operation = "Sale" THEN "Available" ELSE "None"]]
    /\ visit = [v \in Visits |-> "None"]
    /\ reviewed = [v \in Visits |-> "None"]
    /\ event = [v \in Visits |-> FALSE]
    /\ held = [v \in Visits |-> "Nothing"]
    /\ handler = [v \in Visits |-> [h \in Handlers |-> "None"]]
    /\ move = [v \in Visits |-> [m \in Moves |-> "None"]]
    /\ successor = [v \in Visits |-> [m \in Moves |-> "None"]]
    /\ overtaken = {}
    /\ commands = 0

CatalogCommand(l) ==
    \/ \E to \in ListingAvailabilities : SetListingAvailability(l, to)
    \/ \E to \in BOOLEAN : SetListingAuthority(l, to)
    \/ \E to \in BOOLEAN : ReviewListing(l, to)
    \/ \E to \in BOOLEAN : SetPublicationState(l, to)
    \/ \E operation \in Operations, to \in OfferAvailabilities \ {"None"} : RecordOffer(l, operation, to)
    \/ CompleteSale(l)
    \/ CompleteRental(l)

VisitStep(v) ==
    \/ \E h \in Handlers :
          BeginVisit(v, h) \/ TakeUpVisit(v, h) \/ WriteEvent(v, h) \/ RecordVisit(v, h)
    \/ \E m \in Moves :
          \/ StartMove(v, m)
          \/ FailMove(v, m)
          \/ ReleaseOriginal(v, m)
          \/ FinishMove(v, m)
          \/ SettleSuccessor(v, m)
    \/ GiveUp(v)
    \/ \E to \in HeldFor : HoldVisit(v, to)
    \/ WriteVisit(v)
    \/ LetGo(v)
    \/ RecoverVisit(v)
    \/ RemoveEvent(v)
    \/ HandleManually(v)

CatalogNext ==
    \/ \E l \in CatalogListings : CatalogCommand(l)
    \/ \E reason \in InactiveReasons \cup {"None"} : SetPropertyStatus(reason)
    \/ \E v \in Visits : VisitStep(v)

CatalogSpec == CatalogInit /\ [][CatalogNext]_catalogVars

-----------------------------------------------------------------------------
CatalogTypeOK ==
    /\ inactive \in InactiveReasons \cup {"None"}
    /\ availability \in [CatalogListings -> ListingAvailabilities]
    /\ authorized \in [CatalogListings -> BOOLEAN]
    /\ ready \in [CatalogListings -> BOOLEAN]
    /\ published \in [CatalogListings -> BOOLEAN]
    /\ offered \in [CatalogListings -> [Operations -> OfferAvailabilities]]
    /\ visit \in [Visits -> VisitStates]
    /\ reviewed \in [Visits -> Reviews]
    /\ event \in [Visits -> BOOLEAN]
    /\ held \in [Visits -> HeldFor \cup {"Nothing"}]
    /\ handler \in [Visits -> [Handlers -> {"None", "Asking", "Made", "Unclear", "Over"}]]
    /\ move \in [Visits -> [Moves -> {"None", "Asking", "Released", "Over"}]]
    /\ successor \in [Visits -> [Moves -> {"None", "Pending", "NeedsReview", "Confirmed", "Rejected"}]]
    /\ overtaken \subseteq Visits
    /\ commands \in 0..MAX_CATALOG_COMMANDS

\* A visit whose manual cancellation was completed is Cancelled, and nothing
\* of it is left on the calendar, whatever else happened to the visit and to
\* the Property before and after.  Not claimed of a visit on which another call
\* was at work while its review was completed, or whose row a later move takes
\* up again. (admin_work.py:454-472)
CompletedReviewsAreCancelled ==
    \A v \in Visits :
        reviewed[v] = "Complete" /\ v \notin overtaken => visit[v] = "Cancelled" /\ ~event[v]

\* The same without the exception.
CompletedReviewsStayCancelled ==
    \A v \in Visits : reviewed[v] = "Complete" => visit[v] = "Cancelled" /\ ~event[v]

\* What _open_inactive_reviews says it does: every Confirmed visit of a
\* Property that is Inactive is under review.
AffectedVisitsAreReviewed ==
    \A v \in Visits : inactive # "None" /\ visit[v] = "Confirmed" => reviewed[v] # "None"

\* What ADR-0025 says: a rental leaves the continuation of the sale to the
\* Administrator, so it puts no Listing back on the market.
RentalReopensNothing ==
    [][\A l \in CatalogListings :
          (CompleteRental(l) /\ availability[l] # "Available") =>
              availability'[l] # "Available"]_catalogVars
=============================================================================
