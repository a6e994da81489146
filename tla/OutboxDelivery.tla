--------------------------- MODULE OutboxDelivery ---------------------------
(***************************************************************************)
(* The way of one Lead's outbound messages: the eligibility gate that      *)
(* stages them (domain/outbound.py, request), the drain that hands them to *)
(* the channel provider (worker/whatsapp.py, _drain_outbox, over           *)
(* domain/outbox.py), and what changes under its feet: the customer writes *)
(* or opts out, an Administrator stops the campaign, consent or a template *)
(* lapses, the service window closes, the process dies.                    *)
(*                                                                         *)
(* The drain holds the Lead's row lock from the delivery-time check to the *)
(* record of the provider's answer; inbox acceptance and the gate take the *)
(* same lock.  There is one drain, on the process's one background loop.   *)
(* The provider is external: what it does with a request is modelled from  *)
(* the outcomes channels/whatsapp/client.py tells apart.                   *)
(*                                                                         *)
(* A definition named Slip... is the one below it with a plausible bug;    *)
(* each is there to show that a property notices that bug.                 *)
(***************************************************************************)
EXTENDS Naturals, FiniteSets

CONSTANTS
    Reactive,        \* replies: a human's or Maia's, free-form text
    Reminders,       \* business-initiated, free-form text
    Marketing,       \* business-initiated members of one campaign, templates
    NoRow,           \* no row is being delivered
    MaxAttempts,     \* MAX_ATTEMPTS
    BatchLimit,      \* claim_due(limit)
    MaxClock,        \* bound: transactions that stamp a row
    MaxInterrupts    \* bound: crashes and exceptions of the drain

Rows == Reactive \cup Reminders \cup Marketing

BusinessInitiated == Reminders \cup Marketing

ASSUME KindsAssumption ==
    /\ Reactive \cap BusinessInitiated = {}
    /\ Reminders \cap Marketing = {}
    /\ NoRow \notin Rows
ASSUME MaxAttemptsAssumption == MaxAttempts \in Nat \ {0}
ASSUME BoundsAssumption ==
    /\ BatchLimit \in Nat \ {0}
    /\ MaxClock \in Nat
    /\ MaxInterrupts \in Nat

VARIABLES
    status,        \* outbox_messages.status; before that, the gate's verdict
    attempts,      \* outbox_messages.attempts
    due,           \* next_attempt_at has passed
    created,       \* outbox_messages.created_at; 0 before the row exists
    opened,        \* when the transaction that will stage the row began
    member         \* campaign_audience_members.status of a Marketing row

VARIABLES
    clock,         \* the instant of the latest transaction start
    arriving,      \* start of the open webhook transaction, or 0
    inbound,       \* latest inbox_messages.persisted_at, or 0
    suppressed,    \* an active SuppressionRecord exists
    evidence,      \* marketing consent and template approval are current
    window,        \* the 24-hour service window is open
    campaign       \* development_campaigns.status

VARIABLES
    pc,            \* where the drain is
    batch,         \* claimed rows the drain has still to deal with
    current,       \* the row whose delivery is under way
    answer,        \* the provider's answer, as the client classified it
    interrupts

VARIABLES          \* the provider's side of the story
    calls,         \* requests made for a row
    accepted       \* requests the provider took and showed the customer

row      == <<status, attempts, due>>
gate     == <<created, opened, member>>
contact  == <<arriving, inbound, suppressed, window>>
drain    == <<pc, batch, current, answer>>
provider == <<calls, accepted>>
vars == <<row, gate, clock, contact, evidence, campaign, drain, interrupts,
          provider>>

Statuses == {"Absent", "Denied", "Pending", "Sending", "Sent", "Failed",
             "DeliveryUnknown"}

Final == {"Sent", "Failed", "DeliveryUnknown"}

-----------------------------------------------------------------------------
(***************************************************************************)
(* What the statements read.                                               *)
(***************************************************************************)

Stopped == campaign \in {"Paused", "Cancelled"}

SlipLockFreedBeforeCall == pc = "recording"

\* _lead(...).with_for_update(), from prepare_delivery to record_result.
LeadLocked == pc \in {"calling", "recording"}

\* Requests whose transaction is open.
Open == {r \in Rows : opened[r] > 0 /\ status[r] = "Absent"}

SlipCampaignNotLocked == Open \cap Marketing # {}

\* The engagement worker locks the campaign while it stages a member;
\* _engagement_delivery_refusal locks it until the delivery is recorded.
CampaignLocked == Open \cap Marketing # {} \/ (LeadLocked /\ current \in Marketing)

Staged == {r \in Rows : created[r] > 0}

\* _contact_replied: the latest inbound is newer than every outbound row.
ContactReplied == inbound > 0 /\ \A r \in Staged : inbound > created[r]

\* _business_initiated_refusal
OutreachRefused(r) ==
    r \in BusinessInitiated /\
        \/ suppressed
        \/ r \in Marketing /\ (ContactReplied \/ ~evidence)

\* Free-form text needs the service window; a template does not.
WindowRefused(r) == r \notin Marketing /\ ~window

RequestDenied(r) == OutreachRefused(r) \/ WindowRefused(r)

DeliveryDenied(r) ==
    \/ r \in Marketing /\ Stopped      \* _engagement_delivery_refusal
    \/ OutreachRefused(r)
    \/ WindowRefused(r)

Due == {r \in Rows : status[r] = "Pending" /\ due[r]}

\* ORDER BY created_at LIMIT limit
Claimed == {r \in Due : Cardinality({q \in Due : created[q] < created[r]}) < BatchLimit}

SlipNothingAbandoned == {}

Abandoned == {r \in Rows : status[r] = "Sending"}

-----------------------------------------------------------------------------
(***************************************************************************)
(* The gate: a transaction begins, which fixes created_at, then locks the  *)
(* Lead and either stages the row or records the denial.                   *)
(***************************************************************************)

\* The engagement worker shares the drain's loop, so a campaign member is
\* never staged during a drain; replies and notices come from the API as well.
Begin(r) ==
    /\ status[r] = "Absent"
    /\ opened[r] = 0
    /\ r \in Marketing => pc = "idle" /\ campaign = "Active" /\ ~CampaignLocked
    /\ clock < MaxClock
    /\ clock' = clock + 1
    /\ opened' = [opened EXCEPT ![r] = clock + 1]
    /\ UNCHANGED <<row, created, member, contact, evidence, campaign, drain,
                   interrupts, provider>>

\* The tick that queues or denies the last member completes the campaign.
Completes(r) ==
    r \in Marketing /\ \A q \in Marketing \ {r} : status[q] # "Absent"

Request(r) ==
    /\ r \in Open
    /\ ~LeadLocked
    /\ status' = [status EXCEPT ![r] = IF RequestDenied(r) THEN "Denied" ELSE "Pending"]
    /\ due' = [due EXCEPT ![r] = ~RequestDenied(r)]
    /\ created' = [created EXCEPT ![r] = IF RequestDenied(r) THEN 0 ELSE opened[r]]
    /\ member' = [member EXCEPT ![r] =
                      IF r \notin Marketing THEN @
                      ELSE IF RequestDenied(r) THEN "Denied" ELSE "Queued"]
    /\ campaign' = IF Completes(r) THEN "Completed" ELSE campaign
    /\ UNCHANGED <<attempts, opened, clock, contact, evidence, drain,
                   interrupts, provider>>

-----------------------------------------------------------------------------
(***************************************************************************)
(* The world outside the drain.                                            *)
(***************************************************************************)

\* The webhook's transaction starts: persisted_at is now fixed.
Arrive ==
    /\ arriving = 0
    /\ clock < MaxClock
    /\ clock' = clock + 1
    /\ arriving' = clock + 1
    /\ UNCHANGED <<row, gate, inbound, suppressed, window, evidence, campaign,
                   drain, interrupts, provider>>

\* InboxService.accept locks the Lead, stores the message, honours an opt-out
\* and marks what was queued as answered, in one commit.
Accept(optsOut) ==
    /\ arriving > 0
    /\ ~LeadLocked
    /\ arriving' = 0
    /\ inbound' = arriving
    /\ window' = TRUE
    /\ suppressed' = (suppressed \/ optsOut)
    /\ evidence' = (evidence /\ ~optsOut)
    /\ member' = [r \in Rows |->
                     IF member[r] = "Queued" THEN "Responded" ELSE member[r]]
    /\ UNCHANGED <<row, created, opened, clock, campaign, drain, interrupts,
                   provider>>

WindowCloses ==
    /\ window
    /\ window' = FALSE
    /\ UNCHANGED <<row, gate, clock, arriving, inbound, suppressed, evidence,
                   campaign, drain, interrupts, provider>>

\* Consent expires, or the provider's approval of the template does; only a
\* campaign's members depend on either.
EvidenceLapses ==
    /\ Marketing # {}
    /\ evidence
    /\ evidence' = FALSE
    /\ UNCHANGED <<row, gate, clock, contact, campaign, drain, interrupts,
                   provider>>

CampaignMoves(from, to) ==
    /\ Marketing # {}
    /\ campaign \in from
    /\ ~CampaignLocked
    /\ campaign' = to
    /\ UNCHANGED <<row, gate, clock, contact, evidence, drain, interrupts,
                   provider>>

Pause == CampaignMoves({"Active"}, "Paused")

Resume == CampaignMoves({"Paused"}, "Active")

Cancel == CampaignMoves({"Active", "Paused", "Completed"}, "Cancelled")

BackoffElapses(r) ==
    /\ status[r] = "Pending"
    /\ ~due[r]
    /\ due' = [due EXCEPT ![r] = TRUE]
    /\ UNCHANGED <<status, attempts, gate, clock, contact, evidence, campaign,
                   drain, interrupts, provider>>

-----------------------------------------------------------------------------
(***************************************************************************)
(* The drain.                                                              *)
(***************************************************************************)

SlipRequeueAbandoned == [r \in Rows |->
    IF r \in Abandoned THEN "Pending" ELSE status[r]]

SlipAbandonedFail == [r \in Rows |->
    IF r \in Abandoned THEN "Failed" ELSE status[r]]

Quarantined == [r \in Rows |->
    IF r \in Abandoned THEN "DeliveryUnknown" ELSE status[r]]

\* recover_abandoned_sends commits before anything is claimed.
RecoverAbandonedSends ==
    /\ pc = "idle"
    /\ Open \cap Marketing = {}
    /\ status' = Quarantined
    /\ due' = [r \in Rows |-> due[r] /\ r \notin Abandoned]
    /\ pc' = "claiming"
    /\ UNCHANGED <<attempts, gate, clock, contact, evidence, campaign, batch,
                   current, answer, interrupts, provider>>

ClaimDue ==
    /\ pc = "claiming"
    /\ batch' = Claimed
    /\ pc' = IF Claimed = {} THEN "idle" ELSE "next"
    /\ status' = [r \in Rows |-> IF r \in Claimed THEN "Sending" ELSE status[r]]
    /\ attempts' = [r \in Rows |->
                       IF r \in Claimed THEN attempts[r] + 1 ELSE attempts[r]]
    /\ UNCHANGED <<due, gate, clock, contact, evidence, campaign, current,
                   answer, interrupts, provider>>

\* prepare_delivery: rows in the order they were created.
InTurn(r) ==
    /\ pc = "next"
    /\ r \in batch
    /\ \A q \in batch : created[r] <= created[q]

Finish(r) ==
    /\ batch' = batch \ {r}
    /\ pc' = IF batch = {r} THEN "idle" ELSE "next"

\* _block_delivery commits the refusal and with it frees the Lead.
Block(r) ==
    /\ InTurn(r)
    /\ DeliveryDenied(r)
    /\ status' = [status EXCEPT ![r] = "Failed"]
    /\ due' = [due EXCEPT ![r] = FALSE]
    /\ Finish(r)
    /\ UNCHANGED <<attempts, gate, clock, contact, evidence, campaign, current,
                   answer, interrupts, provider>>

\* The Lead stays locked while the provider is called.
PrepareDelivery(r) ==
    /\ InTurn(r)
    /\ ~DeliveryDenied(r)
    /\ current' = r
    /\ pc' = "calling"
    /\ UNCHANGED <<row, gate, clock, contact, evidence, campaign, batch, answer,
                   interrupts, provider>>

\* for_organization found no client for the channel.
SenderUnavailable ==
    /\ pc = "calling"
    /\ answer' = "retryable"
    /\ pc' = "recording"
    /\ UNCHANGED <<row, gate, clock, contact, evidence, campaign, batch,
                   current, interrupts, provider>>

\* The client reports an error only if the provider did not take the request.
Answers(taken) == IF taken THEN {"sent", "unknown"}
                           ELSE {"unknown", "retryable", "permanent"}

CallProvider(taken) ==
    /\ pc = "calling"
    /\ answer' \in Answers(taken)
    /\ pc' = "recording"
    /\ calls' = [calls EXCEPT ![current] = @ + 1]
    /\ accepted' = [accepted EXCEPT ![current] = @ + (IF taken THEN 1 ELSE 0)]
    /\ UNCHANGED <<row, gate, clock, contact, evidence, campaign, batch,
                   current, interrupts>>

\* record_result
Recorded(r, result) ==
    CASE result = "sent" -> "Sent"
      [] result = "unknown" -> "DeliveryUnknown"
      [] result = "permanent" -> "Failed"
      [] result = "retryable" ->
            IF attempts[r] >= MaxAttempts THEN "Failed" ELSE "Pending"

RecordResult ==
    /\ pc = "recording"
    /\ status' = [status EXCEPT ![current] = Recorded(current, answer)]
    /\ due' = [due EXCEPT ![current] = FALSE]
    /\ current' = NoRow
    /\ answer' = "none"
    /\ Finish(current)
    /\ UNCHANGED <<attempts, gate, clock, contact, evidence, campaign,
                   interrupts, provider>>

\* The process dies, or an exception leaves the loop: the open transaction is
\* rolled back and the tick starts over.
Interrupt ==
    /\ pc # "idle"
    /\ interrupts < MaxInterrupts
    /\ interrupts' = interrupts + 1
    /\ pc' = "idle"
    /\ batch' = {}
    /\ current' = NoRow
    /\ answer' = "none"
    /\ UNCHANGED <<row, gate, clock, contact, evidence, campaign, provider>>

-----------------------------------------------------------------------------
Init ==
    /\ status = [r \in Rows |-> "Absent"]
    /\ attempts = [r \in Rows |-> 0]
    /\ due = [r \in Rows |-> FALSE]
    /\ created = [r \in Rows |-> 0]
    /\ opened = [r \in Rows |-> 0]
    /\ member = [r \in Rows |-> IF r \in Marketing THEN "Included" ELSE "none"]
    /\ clock = 0
    /\ arriving = 0
    /\ inbound = 0
    /\ suppressed = FALSE
    /\ evidence = TRUE
    /\ window \in BOOLEAN
    /\ campaign = "Active"
    /\ pc = "idle"
    /\ batch = {}
    /\ current = NoRow
    /\ answer = "none"
    /\ interrupts = 0
    /\ calls = [r \in Rows |-> 0]
    /\ accepted = [r \in Rows |-> 0]

DrainStep ==
    \/ RecoverAbandonedSends
    \/ ClaimDue
    \/ \E r \in Rows : Block(r) \/ PrepareDelivery(r)
    \/ SenderUnavailable
    \/ \E taken \in BOOLEAN : CallProvider(taken)
    \/ RecordResult

Environment ==
    \/ \E r \in Rows : Begin(r) \/ Request(r) \/ BackoffElapses(r)
    \/ Arrive
    \/ \E optsOut \in BOOLEAN : Accept(optsOut)
    \/ WindowCloses
    \/ EvidenceLapses
    \/ Pause
    \/ Resume
    \/ Cancel
    \/ Interrupt

Next == DrainStep \/ Environment

Spec == Init /\ [][Next]_vars

\* The loop ticks, the client times out, transactions end and time passes.
Fairness ==
    /\ WF_vars(DrainStep)
    /\ \A r \in Rows : WF_vars(Request(r)) /\ WF_vars(BackoffElapses(r))

FairSpec == Spec /\ Fairness

-----------------------------------------------------------------------------
(***************************************************************************)
(* Properties.                                                             *)
(***************************************************************************)

\* Every variable keeps the range of its column or local variable.
TypeOK ==
    /\ status \in [Rows -> Statuses]
    /\ attempts \in [Rows -> 0 .. MaxAttempts]
    /\ due \in [Rows -> BOOLEAN]
    /\ created \in [Rows -> 0 .. MaxClock]
    /\ opened \in [Rows -> 0 .. MaxClock]
    /\ member \in [Rows -> {"none", "Included", "Denied", "Queued", "Responded"}]
    /\ clock \in 0 .. MaxClock
    /\ arriving \in 0 .. MaxClock
    /\ inbound \in 0 .. MaxClock
    /\ suppressed \in BOOLEAN
    /\ evidence \in BOOLEAN
    /\ window \in BOOLEAN
    /\ campaign \in {"Active", "Paused", "Cancelled", "Completed"}
    /\ pc \in {"idle", "claiming", "next", "calling", "recording"}
    /\ batch \subseteq Rows
    /\ current \in IF LeadLocked THEN batch ELSE {NoRow}
    /\ answer \in {"none", "sent", "unknown", "retryable", "permanent"}
    /\ answer # "none" <=> pc = "recording"
    /\ interrupts \in 0 .. MaxInterrupts
    /\ calls \in [Rows -> 0 .. MaxAttempts]
    /\ accepted \in [Rows -> Nat]

\* P-036: whatever is retried, recovered or interrupted, no customer is shown
\* the same Outbox row twice (record_result, recover_abandoned_sends).
VisibleAtMostOnce == \A r \in Rows : accepted[r] <= 1

\* The ledger tells the truth: Sent rows were shown, rows still to be sent,
\* refused or failed never were.
LedgerIsTrue ==
    \A r \in Rows :
        /\ status[r] = "Sent" => accepted[r] = 1
        /\ accepted[r] > 0 => status[r] \in {"Sending", "Sent", "DeliveryUnknown"}

\* The no-send-after-stop boundary (prepare_delivery): once an opt-out, or a
\* pause or cancellation of the campaign, has committed, the provider is not
\* called for the business-initiated rows it stops.
NoSendAfterStop ==
    [][\A r \in Rows : calls'[r] > calls[r] =>
          /\ r \in BusinessInitiated => ~suppressed
          /\ r \in Marketing => ~Stopped]_vars

\* STOPS_ON_REPLY and record_engagement_reply: a campaign message whose member
\* was marked as answered is not sent any more.
ReplyStopsSequence ==
    [][\A r \in Marketing : calls'[r] > calls[r] => member[r] # "Responded"]_vars

\* Every staged row is eventually sent, failed or known to be unknown.
EventuallySettled ==
    \A r \in Rows : (status[r] = "Pending") ~> (status[r] \in Final)

-----------------------------------------------------------------------------
(***************************************************************************)
(* The drain keeps the Outbox's promise.                                   *)
(***************************************************************************)

FateOf(s) ==
    CASE s = "Absent" -> "unwritten"
      [] s = "Denied" -> "refused"
      [] s \in {"Pending", "Sending"} -> "queued"
      [] s = "Sent" -> "sent"
      [] s = "Failed" -> "failed"
      [] s = "DeliveryUnknown" -> "unknown"

Promise == INSTANCE OutboxPromise WITH
              fate <- [r \in Rows |-> FateOf(status[r])],
              shown <- accepted

\* The detailed drain implements the abstract promise.
KeepsThePromise == Promise!PromiseSpec
=============================================================================
