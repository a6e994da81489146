----------------------------- MODULE Engagement -----------------------------
(***************************************************************************)
(* Marketing work an Administrator reviews and the background loop sends:  *)
(* reactivation candidates (domain/engagement/reactivation.py) and         *)
(* Development campaigns (domain/engagement/campaigns.py, audience.py),    *)
(* dispatched one of each per tick by worker/engagement.py and limited by  *)
(* the touches a Contact has received (domain/engagement/frequency.py).    *)
(*                                                                         *)
(* Every operation is one transaction that locks the row it decides about, *)
(* so each is one action.  What the eligibility gate and the audience      *)
(* rules find out elsewhere (consent, suppression, a stale need, a lapsed  *)
(* template) is a free choice here: they may refuse anybody at any time.   *)
(* Activation of marketing is taken as approved.                           *)
(*                                                                         *)
(* A definition named Slip... is the one below it with a plausible bug;    *)
(* each is there to show that a property notices that bug.                 *)
(***************************************************************************)
EXTENDS Naturals, FiniteSets

CONSTANTS
    Contacts,
    Candidates,         \* (need, Listing) pairs worth proposing
    Campaigns,          \* numbered in the order they were created
    Members,            \* numbered in the order the needs were listed
    ContactOf,          \* the Contact of a candidate's or member's need
    CampaignOf,         \* the campaign that lists a member
    Cap,                \* frequency_cap of a campaign
    Window,             \* its frequency_window_days, in days or any longer unit
    REACTIVATION_WINDOW,
    LongestWindow,      \* bound: no window is longer
    MaxRecipients,      \* max_recipients of a campaign
    Hours,              \* bound: hours of the modelled day, 0 .. Hours - 1
    QuietHours,         \* when a campaign, in its time zone, may not send
    ReactivationQuiet   \* when candidates are not sent

ASSUME EngagementAssumption ==
    /\ Campaigns \subseteq Nat
    /\ Members \subseteq Nat
    /\ ContactOf \in [Candidates \cup Members -> Contacts]
    /\ CampaignOf \in [Members -> Campaigns]
    /\ Cap \in [Campaigns -> Nat \ {0}]
    /\ LongestWindow \in Nat
    /\ Window \in [Campaigns -> 1 .. LongestWindow]
    /\ REACTIVATION_WINDOW \in 1 .. LongestWindow
    /\ MaxRecipients \in [Campaigns -> Nat \ {0}]
    /\ Hours \in Nat \ {0}
    /\ QuietHours \in [Campaigns -> SUBSET (0 .. Hours - 1)]
    /\ ReactivationQuiet \subseteq 0 .. Hours - 1
    /\ Candidates \cap Members = {}
    /\ IsFiniteSet(Members)

VARIABLES
    candidate,     \* reactivation_candidates.status; "None" before discovery
    campaign,      \* development_campaigns.status; "None" before the plan
    member,        \* campaign_audience_members.status; "None" before the plan
    age,           \* since recorded_at of the touch of a source, while any window
                   \* may still hold it; LongestWindow without such a touch
    hour           \* the local hour

vars == <<candidate, campaign, member, age, hour>>

Sources == Candidates \cup Members

CandidateStatuses == {"None", "Pending", "Authorized", "Rejected", "Revoked",
                      "Queued", "Denied", "Responded"}

CampaignStatuses == {"None", "Draft", "Active", "Paused", "Cancelled", "Completed"}

MemberStatuses == {"None", "Included", "Excluded", "Queued", "Denied", "Responded"}

REACTIVATION_CAP == 1

-----------------------------------------------------------------------------
(***************************************************************************)
(* Frequency and audience.                                                 *)
(***************************************************************************)

\* marketing_touches_since, for every Contact at once
InWindow(window) == {t \in Sources : age[t] < window}

\* Touches that some window may still hold.
recent == InWindow(LongestWindow)

\* The window begins a unit too late.
SlipShortWindow(p, window, cap) ==
    Cardinality({t \in InWindow(window - 1) : ContactOf[t] = p}) >= cap

\* frequency_cap_reached: each caller brings its own window and its own cap.
CapReached(p, window, cap) ==
    Cardinality({t \in InWindow(window) : ContactOf[t] = p}) >= cap

CampaignCapReached(k, p) == CapReached(p, Window[k], Cap[k])

Listed(k) == {m \in Members : CampaignOf[m] = k}

\* seen_contacts is filled with the eligible needs only.
SlipDuplicateAmongIncluded(m) ==
    \E n \in Listed(CampaignOf[m]) :
        n < m /\ ContactOf[n] = ContactOf[m] /\ member[n] = "Included"

\* An earlier need of the same Contact was listed, whatever became of it.
Duplicate(m) ==
    \E n \in Listed(CampaignOf[m]) : n < m /\ ContactOf[n] = ContactOf[m]

\* Needs without a reason for exclusion; fit are those that pass every rule
\* that is not about frequency or duplicates.
Eligible(k, fit) ==
    {m \in Listed(k) \cap fit :
        ~Duplicate(m) /\ ~CampaignCapReached(k, ContactOf[m])}

\* The list is cut off at max_recipients.
Chosen(k, fit) ==
    {m \in Eligible(k, fit) :
        Cardinality({n \in Eligible(k, fit) : n < m}) < MaxRecipients[k]}

\* Who was included once keeps the place.
SlipPlacesAreKept(k, fit) ==
    [m \in Members |->
        IF m \in Listed(k) /\ member[m] \in {"None", "Excluded"}
        THEN IF m \in Chosen(k, fit) THEN "Included" ELSE "Excluded"
        ELSE member[m]]

\* resolve(persist=True): rows already decided by the worker are kept.
Resolved(k, fit) ==
    [m \in Members |->
        IF m \in Listed(k) /\ member[m] \in {"None", "Included", "Excluded"}
        THEN IF m \in Chosen(k, fit) THEN "Included" ELSE "Excluded"
        ELSE member[m]]

Waiting(k) == {m \in Listed(k) : member[m] = "Included"}

-----------------------------------------------------------------------------
(***************************************************************************)
(* Administrators.                                                         *)
(***************************************************************************)

\* A (need, Listing) pair is proposed once.
Discover(c) ==
    /\ candidate[c] = "None"
    /\ candidate' = [candidate EXCEPT ![c] = "Pending"]
    /\ UNCHANGED <<campaign, member, age, hour>>

\* Match, route, consent and template may deny; so does the frequency cap.
Authorize(c) ==
    /\ candidate[c] = "Pending"
    /\ \E verdict \in {"Authorized", "Denied"} :
          /\ CapReached(ContactOf[c], REACTIVATION_WINDOW, REACTIVATION_CAP) => verdict = "Denied"
          /\ candidate' = [candidate EXCEPT ![c] = verdict]
    /\ UNCHANGED <<campaign, member, age, hour>>

Reject(c) ==
    /\ candidate[c] = "Pending"
    /\ candidate' = [candidate EXCEPT ![c] = "Rejected"]
    /\ UNCHANGED <<campaign, member, age, hour>>

Revoke(c) ==
    /\ candidate[c] = "Authorized"
    /\ candidate' = [candidate EXCEPT ![c] = "Revoked"]
    /\ UNCHANGED <<campaign, member, age, hour>>

Plan(k) ==
    /\ campaign[k] = "None"
    /\ campaign' = [campaign EXCEPT ![k] = "Draft"]
    /\ \E fit \in SUBSET Listed(k) : member' = Resolved(k, fit)
    /\ UNCHANGED <<candidate, age, hour>>

\* From a draft, or again after a pause.  The audience is resolved anew and
\* must not be empty; members already queued count when they are eligible.
Activate(k) ==
    /\ campaign[k] \in {"Draft", "Paused"}
    /\ \E fit \in SUBSET Listed(k) :
          /\ Chosen(k, fit) # {}
          /\ member' = Resolved(k, fit)
    /\ campaign' = [campaign EXCEPT ![k] = "Active"]
    /\ UNCHANGED <<candidate, age, hour>>

Pause(k) ==
    /\ campaign[k] = "Active"
    /\ campaign' = [campaign EXCEPT ![k] = "Paused"]
    /\ UNCHANGED <<candidate, member, age, hour>>

Cancel(k) ==
    /\ campaign[k] \notin {"None", "Cancelled"}
    /\ campaign' = [campaign EXCEPT ![k] = "Cancelled"]
    /\ UNCHANGED <<candidate, member, age, hour>>

-----------------------------------------------------------------------------
(***************************************************************************)
(* The worker's tick.                                                      *)
(***************************************************************************)

\* The eligibility gate denies, or the message is queued and counted.  The
\* route the code looks for was found when the candidate was authorized.
DispatchCandidate(c) ==
    /\ candidate[c] = "Authorized"
    /\ hour \notin ReactivationQuiet
    /\ \/ /\ candidate' = [candidate EXCEPT ![c] = "Denied"]
          /\ UNCHANGED age
       \/ /\ candidate' = [candidate EXCEPT ![c] = "Queued"]
          /\ age' = [age EXCEPT ![c] = 0]
    /\ UNCHANGED <<campaign, member, hour>>

\* A paused campaign keeps the turn of the oldest.
SlipPausedKeepsTheTurn(k) ==
    /\ campaign[k] = "Active"
    /\ \A j \in Campaigns : campaign[j] \in {"Active", "Paused"} => k <= j
    /\ hour \notin QuietHours[k]

\* One campaign has the tick: the oldest active one, of all Organizations.
InTurn(k) ==
    /\ campaign[k] = "Active"
    /\ \A j \in Campaigns : campaign[j] = "Active" => k <= j
    /\ hour \notin QuietHours[k]

FindNobodyWaiting(k) ==
    /\ InTurn(k)
    /\ Waiting(k) = {}
    /\ campaign' = [campaign EXCEPT ![k] = "Completed"]
    /\ UNCHANGED <<candidate, member, age, hour>>

\* The cap is counted again before the gate is asked; this denial does not
\* complete the campaign, the next tick does.
DenyForFrequency(m) ==
    LET k == CampaignOf[m] IN
    /\ InTurn(k)
    /\ m \in Waiting(k)
    /\ CampaignCapReached(k, ContactOf[m])
    /\ member' = [member EXCEPT ![m] = "Denied"]
    /\ UNCHANGED <<candidate, campaign, age, hour>>

Finishes(k, m) == Waiting(k) = {m}

DispatchMember(m) ==
    LET k == CampaignOf[m] IN
    /\ InTurn(k)
    /\ m \in Waiting(k)
    /\ ~CampaignCapReached(k, ContactOf[m])
    /\ \/ /\ member' = [member EXCEPT ![m] = "Denied"]
          /\ UNCHANGED age
       \/ /\ member' = [member EXCEPT ![m] = "Queued"]
          /\ age' = [age EXCEPT ![m] = 0]
    /\ campaign' = IF Finishes(k, m) THEN [campaign EXCEPT ![k] = "Completed"]
                                     ELSE campaign
    /\ UNCHANGED <<candidate, hour>>

-----------------------------------------------------------------------------
(***************************************************************************)
(* Contacts and the clock.                                                 *)
(***************************************************************************)

\* record_engagement_reply, inside the acceptance of the Contact's message.
ContactReplies(p) ==
    /\ candidate' = [c \in Candidates |->
          IF candidate[c] = "Queued" /\ ContactOf[c] = p THEN "Responded"
                                                         ELSE candidate[c]]
    /\ member' = [m \in Members |->
          IF member[m] = "Queued" /\ ContactOf[m] = p THEN "Responded"
                                                      ELSE member[m]]
    /\ UNCHANGED <<campaign, age, hour>>

\* Every touch grows older; the hour of the day has a step of its own.
TouchesAge ==
    /\ recent # {}
    /\ age' = [t \in Sources |-> IF t \in recent THEN age[t] + 1 ELSE age[t]]
    /\ UNCHANGED <<candidate, campaign, member, hour>>

HourPasses ==
    /\ hour' = (hour + 1) % Hours
    /\ UNCHANGED <<candidate, campaign, member, age>>

-----------------------------------------------------------------------------
Init ==
    /\ candidate = [c \in Candidates |-> "None"]
    /\ campaign = [k \in Campaigns |-> "None"]
    /\ member = [m \in Members |-> "None"]
    /\ age = [t \in Sources |-> LongestWindow]
    /\ hour = 0

Review ==
    \/ \E c \in Candidates : Discover(c) \/ Authorize(c) \/ Reject(c) \/ Revoke(c)
    \/ \E k \in Campaigns : Plan(k) \/ Activate(k) \/ Pause(k) \/ Cancel(k)

Dispatch ==
    \/ \E c \in Candidates : DispatchCandidate(c)
    \/ \E k \in Campaigns : FindNobodyWaiting(k)
    \/ \E m \in Members : DenyForFrequency(m) \/ DispatchMember(m)

World ==
    \/ \E p \in Contacts : ContactReplies(p)
    \/ TouchesAge
    \/ HourPasses

Next == Review \/ Dispatch \/ World

Spec == Init /\ [][Next]_vars

\* The loop ticks every second, many times in every hour that is not quiet.
Fairness ==
    /\ WF_vars(HourPasses)
    /\ \A k \in Campaigns :
          SF_vars(\/ FindNobodyWaiting(k)
                  \/ \E m \in Listed(k) : DenyForFrequency(m) \/ DispatchMember(m))

FairSpec == Spec /\ Fairness

-----------------------------------------------------------------------------
(***************************************************************************)
(* Properties.                                                             *)
(***************************************************************************)

\* Messages that were queued, whatever the Contact did next.
Reached == {"Queued", "Responded"}

\* Every column keeps its range.
TypeOK ==
    /\ candidate \in [Candidates -> CandidateStatuses]
    /\ campaign \in [Campaigns -> CampaignStatuses]
    /\ member \in [Members -> MemberStatuses]
    /\ age \in [Sources -> 0 .. LongestWindow]
    /\ hour \in 0 .. Hours - 1

\* A message that may still be waiting in the Outbox or was answered is never
\* sent again: a queued row changes only when its Contact replies.
\* (audience.py:195, worker/engagement.py)
QueuedOnce ==
    [][/\ \A m \in Members : member[m] \in Reached => member'[m] \in Reached
       /\ \A c \in Candidates : candidate[c] \in Reached => candidate'[c] \in Reached]_vars

\* What counts against a Contact's cap was queued: a refused message costs
\* nothing. (worker/engagement.py:124, 215)
TouchesWereQueued ==
    /\ \A c \in recent \cap Candidates : candidate[c] \in Reached
    /\ \A m \in recent \cap Members : member[m] \in Reached

\* A campaign writes to a Contact at most once, however many of the Contact's
\* needs it lists and however often it is paused and resumed. (audience.py:133)
ContactOncePerCampaign ==
    \A m, n \in Members :
        /\ CampaignOf[m] = CampaignOf[n] /\ ContactOf[m] = ContactOf[n]
        /\ member[m] \in Reached /\ member[n] \in Reached
        => m = n

\* What campaigns whose window is at least this long sent the Contact in it.
SentWithin(p, window) ==
    {m \in InWindow(window) \cap Members :
        ContactOf[m] = p /\ Window[CampaignOf[m]] >= window}

\* Inside no window do the campaigns that look back that far together write to
\* a Contact more often than the largest of their caps, although each counts in
\* a window of its own. (frequency.py:30, worker/engagement.py:169)
CampaignsRespectTheCap ==
    \A p \in Contacts, window \in 1 .. LongestWindow :
        LET own == SentWithin(p, window)
        IN  own # {} => \E m \in own : Cardinality(own) <= Cap[CampaignOf[m]]

\* What a campaign may still send before somebody reviews it again is within its
\* limit of recipients: a resolution that finds others eligible takes the
\* places of those it included before. (audience.py:176, 207)
WaitingIsBounded ==
    \A k \in Campaigns : Cardinality(Waiting(k)) <= MaxRecipients[k]

\* A Completed campaign forgot nobody it had decided to include.
CompletedIsDone ==
    \A k \in Campaigns : campaign[k] = "Completed" => Waiting(k) = {}

\* A reactivation may touch one Contact once a month. (frequency.py:28)
ReactivationRespectsTheCap ==
    \A p \in Contacts :
        Cardinality({c \in InWindow(REACTIVATION_WINDOW) \cap Candidates : ContactOf[c] = p})
            <= REACTIVATION_CAP

\* The window of a campaign holds no more campaign messages to a Contact than
\* the largest cap allows, also those of campaigns that look back less far.
EveryWindowHoldsTheCap ==
    \A p \in Contacts, k \in Campaigns :
        LET own == {m \in InWindow(Window[k]) \cap Members : ContactOf[m] = p}
        IN  own # {} => \E m \in own : Cardinality(own) <= Cap[CampaignOf[m]]

\* A campaign writes to no more Contacts than its limit of recipients.
\* (api/engagement.py:356, campaigns.py:1)
RecipientsAreBounded ==
    \A k \in Campaigns :
        Cardinality({m \in Listed(k) : member[m] \in Reached}) <= MaxRecipients[k]

\* Whoever is included in an active campaign is decided about, unless an
\* Administrator stops the campaign.
EveryoneIsDecided ==
    \A m \in Members :
        member[m] = "Included" /\ campaign[CampaignOf[m]] = "Active" ~>
            member[m] # "Included" \/ campaign[CampaignOf[m]] # "Active"
=============================================================================
