------------------------------ MODULE Sponsorship ------------------------------
(***************************************************************************)
(* Sponsored placements: quotes (domain/sponsorship/quoting.py), the       *)
(* capacity they reserve (capacity.py), the campaigns (campaigns.py) and   *)
(* the daily pass that counts what was delivered (worker/analytics.py).    *)
(*                                                                         *)
(* Every command locks its quote or its campaign, and accepting a quote    *)
(* locks the surfaces too, so each is one action.  The daily pass treats   *)
(* the live campaigns one by one and what it does with one depends on no   *)
(* other, so it is one action per campaign.  Whether the Listing may be    *)
(* shown (its authority, readiness, commercial clearance, a rival campaign *)
(* of the Property) is a free choice.  Prices and discounts are left out.  *)
(*                                                                         *)
(* A definition named Slip... is the one below it with a plausible bug.    *)
(***************************************************************************)
EXTENDS Naturals, FiniteSets

CONSTANTS
    SponsoredCampaigns,
    Surfaces,
    PackageSurfaces,    \* surfaces of the package of a campaign
    InitialLimit,       \* campaigns a surface may hold at a time, at first
    MaxLimit,           \* bound: the highest limit an Administrator sets
    Quotes,
    QuoteOf,            \* the campaign of a quote
    DurationDays,       \* the days a quote sells
    LastDay             \* bound: days that pass

ASSUME SponsorshipAssumption ==
    /\ PackageSurfaces \in [SponsoredCampaigns -> SUBSET Surfaces]
    /\ MaxLimit \in Nat
    /\ InitialLimit \in [Surfaces -> Nat]
    /\ QuoteOf \in [Quotes -> SponsoredCampaigns]
    /\ DurationDays \in [Quotes -> Nat \ {0}]
    /\ LastDay \in Nat
    /\ IsFiniteSet(SponsoredCampaigns)

VARIABLES
    campaign,      \* status of the campaign
    pausedBy,      \* who paused it (paused_reason)
    paidDays,
    deliveredDays,
    startsOn,      \* starts_on; 0 before it is scheduled
    window,        \* its reservation: from, to, held (released_at is NULL)
    serviceDay,    \* sponsorship_delivery_days by campaign and date
    quote,         \* status of the quote
    shown,         \* campaigns with an impression recorded today
    today,
    limit,         \* concurrent_campaigns of a surface
    ceiling        \* its highest limit since it was last free of reservations

limits == <<limit, ceiling>>
sponsorVars == <<campaign, pausedBy, paidDays, deliveredDays, startsOn,
                 window, serviceDay, quote, shown, today, limits>>

Days == 0 .. LastDay
LIVE_STATES == {"Scheduled", "Active", "Paused"}
CampaignStates == {"Draft", "Quoted", "Reserved", "Completed", "Cancelled"} \cup LIVE_STATES

Holds(c, s, d) ==
    /\ window[c].held
    /\ s \in PackageSurfaces[c]
    /\ window[c].from <= d /\ d < window[c].to

Reserved(s, d) == {c \in SponsoredCampaigns : Holds(c, s, d)}

\* Only the first day of the wanted window is looked at.
SlipRoomOnFirstDay(s, from, to) == Cardinality(Reserved(s, from)) < limit[s]

\* peak_reserved < limit: on no day of the wanted window is the surface full.
Room(s, from, to) == \A d \in from .. to - 1 : Cardinality(Reserved(s, d)) < limit[s]

Freed(c) == [window EXCEPT ![c].held = FALSE]

-----------------------------------------------------------------------------
(***************************************************************************)
(* Quotes.                                                                 *)
(***************************************************************************)

\* quote: no capacity is taken.
IssueQuote(q) ==
    LET c == QuoteOf[q] IN
    /\ quote[q] = "None"
    /\ campaign[c] \in {"Draft", "Quoted"}
    /\ quote' = [quote EXCEPT ![q] = "Issued"]
    /\ campaign' = [campaign EXCEPT ![c] = "Quoted"]
    /\ paidDays' = [paidDays EXCEPT ![c] = DurationDays[q]]
    /\ UNCHANGED <<pausedBy, deliveredDays, startsOn, window, serviceDay, shown, today, limits>>

\* accept and reserve: every surface of the package, or nothing.
AcceptQuote(q, from) ==
    LET c == QuoteOf[q]
        to == from + DurationDays[q] IN
    /\ quote[q] = "Issued"
    /\ \A s \in PackageSurfaces[c] : Room(s, from, to)
    /\ quote' = [quote EXCEPT ![q] = "Reserved"]
    /\ window' = [window EXCEPT ![c] = [from |-> from, to |-> to, held |-> TRUE]]
    /\ campaign' = [campaign EXCEPT ![c] = "Reserved"]
    /\ paidDays' = [paidDays EXCEPT ![c] = DurationDays[q]]
    /\ UNCHANGED <<pausedBy, deliveredDays, startsOn, serviceDay, shown, today, limits>>

\* expire_due, some time after the seventh day.
ExpireQuote(q) ==
    /\ quote[q] = "Issued"
    /\ quote' = [quote EXCEPT ![q] = "Expired"]
    /\ UNCHANGED <<campaign, pausedBy, paidDays, deliveredDays, startsOn, window, serviceDay, shown, today, limits>>

\* set_limit: it may fall below what was sold, which keeps its places.
SetLimit(s, to) ==
    /\ limit' = [limit EXCEPT ![s] = to]
    /\ ceiling' = [ceiling EXCEPT ![s] =
                      IF (\A c \in SponsoredCampaigns : s \in PackageSurfaces[c] => ~window[c].held)
                         \/ to > ceiling[s]
                      THEN to ELSE @]
    /\ UNCHANGED <<campaign, pausedBy, paidDays, deliveredDays, startsOn, window, serviceDay,
                   quote, shown, today>>

-----------------------------------------------------------------------------
(***************************************************************************)
(* Campaigns.                                                              *)
(***************************************************************************)

ScheduleCampaign(c, from) ==
    /\ campaign[c] = "Reserved"
    /\ from >= today
    /\ campaign' = [campaign EXCEPT ![c] = "Scheduled"]
    /\ startsOn' = [startsOn EXCEPT ![c] = from]
    /\ UNCHANGED <<pausedBy, paidDays, deliveredDays, window, serviceDay, quote, shown, today, limits>>

\* Does not wait for the start date.
ActivateCampaign(c) ==
    /\ campaign[c] \in {"Scheduled", "Paused"}
    /\ deliveredDays[c] < paidDays[c]
    /\ campaign' = [campaign EXCEPT ![c] = "Active"]
    /\ pausedBy' = [pausedBy EXCEPT ![c] = "Nobody"]
    /\ UNCHANGED <<paidDays, deliveredDays, startsOn, window, serviceDay, quote, shown, today, limits>>

PauseCampaign(c) ==
    /\ campaign[c] = "Active"
    /\ campaign' = [campaign EXCEPT ![c] = "Paused"]
    /\ pausedBy' = [pausedBy EXCEPT ![c] = "Administrator"]
    /\ UNCHANGED <<paidDays, deliveredDays, startsOn, window, serviceDay, quote, shown, today, limits>>

\* The open quotes of the campaign go with it.
CancelCampaign(c) ==
    /\ campaign[c] # "Cancelled"
    /\ campaign' = [campaign EXCEPT ![c] = "Cancelled"]
    /\ window' = Freed(c)
    /\ quote' = [q \in Quotes |-> IF QuoteOf[q] = c /\ quote[q] = "Issued"
                                  THEN "Cancelled" ELSE quote[q]]
    /\ UNCHANGED <<pausedBy, paidDays, deliveredDays, startsOn, serviceDay, shown, today, limits>>

\* A page shows the placement, which is recorded as an impression.
Show(c) ==
    /\ campaign[c] = "Active"
    /\ startsOn[c] <= today
    /\ deliveredDays[c] < paidDays[c]
    /\ c \notin shown
    /\ shown' = shown \cup {c}
    /\ UNCHANGED <<campaign, pausedBy, paidDays, deliveredDays, startsOn, window, serviceDay, quote, today, limits>>

-----------------------------------------------------------------------------
(***************************************************************************)
(* The daily pass, which runs many times a day.                            *)
(***************************************************************************)

Started(c) == startsOn[c] <= today

\* A day is counted once, and only if the placement was shown; a day that was
\* written off as not eligible stays so.
Counts(c) == c \in shown /\ serviceDay[c][today] \in {"None", "NoMeasuredDelivery"}

\* The campaign may not be shown: an active one is paused.
PassFindsIneligible(c) ==
    /\ campaign[c] \in LIVE_STATES
    /\ campaign' = [campaign EXCEPT ![c] = IF @ = "Active" /\ Started(c) THEN "Paused" ELSE @]
    /\ pausedBy' = [pausedBy EXCEPT ![c] = IF campaign[c] = "Active" /\ Started(c) THEN "Product" ELSE @]
    /\ serviceDay' = [serviceDay EXCEPT ![c][today] = IF @ = "None" THEN "NotEligible" ELSE @]
    /\ UNCHANGED <<paidDays, deliveredDays, startsOn, window, quote, shown, today, limits>>

\* The campaign may be shown: it is active from now on, today is counted if
\* it was shown, and the last paid day completes it.
PassDelivers(c) ==
    LET delivered == deliveredDays[c] + (IF Counts(c) THEN 1 ELSE 0) IN
    /\ campaign[c] \in LIVE_STATES
    /\ Started(c)
    /\ deliveredDays[c] < paidDays[c]
    /\ deliveredDays' = [deliveredDays EXCEPT ![c] = delivered]
    /\ serviceDay' = [serviceDay EXCEPT ![c][today] =
                         IF Counts(c) THEN "Counted" ELSE IF @ = "None" THEN "NoMeasuredDelivery" ELSE @]
    /\ campaign' = [campaign EXCEPT ![c] = IF delivered >= paidDays[c] THEN "Completed" ELSE "Active"]
    /\ pausedBy' = [pausedBy EXCEPT ![c] = IF campaign[c] = "Paused" THEN "Nobody" ELSE @]
    /\ window' = IF delivered >= paidDays[c] THEN Freed(c) ELSE window
    /\ UNCHANGED <<paidDays, startsOn, quote, shown, today, limits>>

DayPasses ==
    /\ today < LastDay
    /\ today' = today + 1
    /\ shown' = {}
    /\ UNCHANGED <<campaign, pausedBy, paidDays, deliveredDays, startsOn, window, serviceDay, quote, limits>>

-----------------------------------------------------------------------------
SponsorInit ==
    /\ campaign = [c \in SponsoredCampaigns |-> "Draft"]
    /\ pausedBy = [c \in SponsoredCampaigns |-> "Nobody"]
    /\ paidDays = [c \in SponsoredCampaigns |-> 1]
    /\ deliveredDays = [c \in SponsoredCampaigns |-> 0]
    /\ startsOn = [c \in SponsoredCampaigns |-> 0]
    /\ window = [c \in SponsoredCampaigns |-> [from |-> 0, to |-> 0, held |-> FALSE]]
    /\ serviceDay = [c \in SponsoredCampaigns |-> [d \in Days |-> "None"]]
    /\ quote = [q \in Quotes |-> "None"]
    /\ shown = {}
    /\ today = 0
    /\ limit = InitialLimit
    /\ ceiling = InitialLimit

SponsorNext ==
    \/ \E q \in Quotes :
          \/ IssueQuote(q)
          \/ \E from \in today .. LastDay : AcceptQuote(q, from)
          \/ ExpireQuote(q)
    \/ \E c \in SponsoredCampaigns :
          \/ \E from \in today .. LastDay : ScheduleCampaign(c, from)
          \/ ActivateCampaign(c)
          \/ PauseCampaign(c)
          \/ CancelCampaign(c)
          \/ Show(c)
          \/ PassFindsIneligible(c)
          \/ PassDelivers(c)
    \/ \E s \in Surfaces, to \in 0 .. MaxLimit : SetLimit(s, to)
    \/ DayPasses

SponsorSpec == SponsorInit /\ [][SponsorNext]_sponsorVars

-----------------------------------------------------------------------------
(***************************************************************************)
(* Properties.                                                             *)
(***************************************************************************)

Windows == [from : Nat, to : Nat, held : BOOLEAN]

\* The variables have the shape of the rows they stand for.
SponsorTypeOK ==
    /\ campaign \in [SponsoredCampaigns -> CampaignStates]
    /\ pausedBy \in [SponsoredCampaigns -> {"Nobody", "Administrator", "Product"}]
    /\ paidDays \in [SponsoredCampaigns -> Nat]
    /\ deliveredDays \in [SponsoredCampaigns -> Nat]
    /\ startsOn \in [SponsoredCampaigns -> Days]
    /\ window \in [SponsoredCampaigns -> Windows]
    /\ serviceDay \in [SponsoredCampaigns ->
                          [Days -> {"None", "Counted", "NoMeasuredDelivery", "NotEligible"}]]
    /\ quote \in [Quotes -> {"None", "Issued", "Reserved", "Expired", "Cancelled"}]
    /\ shown \subseteq SponsoredCampaigns
    /\ today \in Days
    /\ limit \in [Surfaces -> Nat]
    /\ ceiling \in [Surfaces -> Nat]

SoldDays(c) == window[c].from .. window[c].to - 1

\* On no day are more campaigns sold on a surface than a limit that was in
\* force since it was last free, whichever quotes are accepted, cancelled or
\* completed and whichever limits are set in whichever order.
\* (capacity.py:174-226)
ReservationsFit ==
    \A s \in Surfaces, d \in UNION {SoldDays(c) : c \in SponsoredCampaigns} :
        Cardinality(Reserved(s, d)) <= ceiling[s]

\* The same with the limit in force now, which may have been lowered.
ReservationsFitTheLimit ==
    \A s \in Surfaces, d \in UNION {SoldDays(c) : c \in SponsoredCampaigns} :
        Cardinality(Reserved(s, d)) <= limit[s]

\* A place is held exactly for the campaigns that still have days to deliver.
LiveCampaignsHoldTheirPlace ==
    \A c \in SponsoredCampaigns :
        window[c].held <=> campaign[c] \in {"Reserved"} \cup LIVE_STATES

\* What is charged against the paid days is what the delivery rows say, also
\* when the pass runs again on the same day or after a restart.
DaysAreCountedOnce ==
    \A c \in SponsoredCampaigns :
        deliveredDays[c] = Cardinality({d \in Days : serviceDay[c][d] = "Counted"})

\* What capacity.py promises of the sales ceiling: no more campaigns run on a
\* surface at a time than it may hold.
DeliveryFitsCapacity ==
    \A s \in Surfaces :
        Cardinality({c \in SponsoredCampaigns :
                        /\ s \in PackageSurfaces[c]
                        /\ campaign[c] = "Active"
                        /\ Started(c)}) <= ceiling[s]

\* What pause promises: a campaign that an Administrator paused does not run
\* again before somebody activates it.
PauseIsKept ==
    [][\A c \in SponsoredCampaigns :
          campaign[c] = "Paused" /\ pausedBy[c] = "Administrator" /\ campaign'[c] = "Active"
              => ActivateCampaign(c)]_sponsorVars
=============================================================================
