---------------------------- MODULE HumanAuthority ----------------------------
(***************************************************************************)
(* Who answers a Conversation (domain/commercial/handling.py), requests    *)
(* for a person (handoff.py, routing.py) and the internal alerts that tell *)
(* the team about them (domain/internal_alerts.py, worker/operations.py).  *)
(*                                                                         *)
(* Every command locks the handling row or the open request before it      *)
(* decides, so a command is one action.  The worker is not: it claims a    *)
(* batch of alerts, sends them one after the other, and may be interrupted *)
(* in between.  Whether the responsible Advisor can be reached, and        *)
(* whether the addressee of an alert has a channel, are free choices.      *)
(*                                                                         *)
(* A definition named Slip... is the one below it with a plausible bug.    *)
(***************************************************************************)
EXTENDS Naturals, FiniteSets

CONSTANTS
    Conversations,
    Advisors,           \* members who may be responsible for a Conversation
    Nobody,
    Requests,           \* rows of human_handoff_requests, in order of insertion
    MAX_ALERT_ATTEMPTS,
    MaxInterruptions    \* bound: interruptions of the worker

ASSUME AuthorityAssumption ==
    /\ Nobody \notin Advisors
    /\ Requests \subseteq Nat
    /\ MAX_ALERT_ATTEMPTS \in Nat \ {0}
    /\ MaxInterruptions \in Nat

VARIABLES
    mode,          \* conversation_handling.mode
    holder,        \* holder_member_id
    request,       \* the request rows: conversation, status, advisor
    overdue,       \* requests whose escalate_at has passed
    alert,         \* internal_alerts, by kind and request
    batch,         \* alerts the worker has claimed and not settled yet
    interruptions  \* times the worker was interrupted

handlingVars == <<mode, holder, request, overdue>>
alertVars == <<alert, batch, interruptions>>
authorityVars == <<mode, holder, request, overdue, alert, batch, interruptions>>

HandlingModes == {"Maia", "Human", "AwaitingContact", "AdminReview"}

\* The three alerts there are about a request: the immediate one, the one
\* that escalates it, and the one that says the immediate one has no channel.
AlertKinds == {"Requested", "Escalated", "Undeliverable"}
Alerts == AlertKinds \X Requests

NoRequest == [of |-> {}, status |-> "None", advisor |-> Nobody]
NoAlert == [status |-> "None", attempts |-> 0, claimed |-> FALSE]
NewAlert == [status |-> "Pending", attempts |-> 0, claimed |-> FALSE]

\* Attempts and claim of an alert matter no more once it is settled.
Closed(status) == [status |-> status, attempts |-> 0, claimed |-> FALSE]

Pending(c) == {r \in Requests : request[r].of = {c} /\ request[r].status = "Pending"}

\* The row an insert takes.
Unused ==
    {r \in Requests : /\ request[r].status = "None"
                      /\ \A q \in Requests : q < r => request[q].status # "None"}

\* raise_alert: the row that already exists for the key is kept.
Raised(alerts, keys) ==
    [k \in Alerts |-> IF k \in keys /\ alerts[k].status = "None" THEN NewAlert ELSE alerts[k]]

\* mark_taken: a human took or released the Conversation.
Acknowledged(c) ==
    [r \in Requests |-> IF r \in Pending(c)
                        THEN [request[r] EXCEPT !.status = "Acknowledged"]
                        ELSE request[r]]

-----------------------------------------------------------------------------
(***************************************************************************)
(* Handling and requests.                                                  *)
(***************************************************************************)

\* grant_to_advisor, for a Conversation in mode from: a second request does
\* not move a Conversation that a human has.
Grant(c, from, advisor) ==
    IF from = "Human"
    THEN UNCHANGED <<mode, holder>>
    ELSE /\ mode' = [mode EXCEPT ![c] = IF advisor = Nobody THEN "AdminReview" ELSE "Human"]
         /\ holder' = [holder EXCEPT ![c] = advisor]

\* HumanHandoff.request: an open request is left as it is.
Ask(c, from) ==
    IF Pending(c) # {}
    THEN /\ mode' = [mode EXCEPT ![c] = from]
         /\ UNCHANGED <<holder, request, alert>>
    ELSE \E r \in Unused, advisor \in Advisors \cup {Nobody} :
            /\ request' = [request EXCEPT ![r] = [of |-> {c}, status |-> "Pending", advisor |-> advisor]]
            /\ alert' = Raised(alert, {<<"Requested", r>>})
            /\ Grant(c, from, advisor)

\* note_inbound: the answer of the Contact ends an explicit wait.
Resumed(c) == IF mode[c] = "AwaitingContact" THEN "Maia" ELSE mode[c]

\* InboundRouting.route for a message that asks for a person or comes after
\* a confirmed visit.
RouteToAdvisor(c) ==
    /\ Ask(c, Resumed(c))
    /\ UNCHANGED <<overdue, batch, interruptions>>

\* InboundRouting.route for any other message.
RouteToMaia(c) ==
    /\ mode[c] = "AwaitingContact"
    /\ mode' = [mode EXCEPT ![c] = Resumed(c)]
    /\ UNCHANGED <<holder, request, overdue>>
    /\ UNCHANGED alertVars

\* The tool of the model, without a message to route.
RequestHandoff(c) ==
    /\ Ask(c, mode[c])
    /\ UNCHANGED <<overdue, batch, interruptions>>

\* ConversationHandling.take; one that is already theirs only acknowledges.
Take(c, m, administrator) ==
    /\ mode[c] = "Human" => holder[c] = m \/ administrator
    /\ mode' = [mode EXCEPT ![c] = "Human"]
    /\ holder' = [holder EXCEPT ![c] = m]
    /\ request' = Acknowledged(c)
    /\ UNCHANGED overdue
    /\ UNCHANGED alertVars

\* The Conversation goes back to Maia and the request stays open.
SlipReleaseKeepsRequest(c, m, administrator, to) ==
    /\ mode[c] = "Human" => holder[c] = m \/ administrator
    /\ mode[c] # to
    /\ mode' = [mode EXCEPT ![c] = to]
    /\ holder' = [holder EXCEPT ![c] = Nobody]
    /\ request' = request
    /\ UNCHANGED overdue
    /\ UNCHANGED alertVars

\* ConversationHandling.release.
Release(c, m, administrator, to) ==
    /\ mode[c] = "Human" => holder[c] = m \/ administrator
    /\ mode[c] # to
    /\ mode' = [mode EXCEPT ![c] = to]
    /\ holder' = [holder EXCEPT ![c] = Nobody]
    /\ request' = Acknowledged(c)
    /\ UNCHANGED overdue
    /\ UNCHANGED alertVars

\* HumanHandoff.acknowledge: the mode stays what it is.
Acknowledge(r, m, administrator) ==
    /\ request[r].status = "Pending"
    /\ administrator \/ request[r].advisor \in {Nobody, m}
    /\ request' = [request EXCEPT ![r].status = "Acknowledged"]
    /\ UNCHANGED <<mode, holder, overdue>>
    /\ UNCHANGED alertVars

\* Fifteen minutes have passed; for a closed request it makes no difference.
DeadlinePasses(r) ==
    /\ request[r].status = "Pending"
    /\ r \notin overdue
    /\ overdue' = overdue \cup {r}
    /\ UNCHANGED <<mode, holder, request>>
    /\ UNCHANGED alertVars

-----------------------------------------------------------------------------
(***************************************************************************)
(* The operations worker.                                                  *)
(***************************************************************************)

\* Only requests that still have an Advisor to wait for are escalated.
SlipDueForEscalation ==
    {r \in overdue : /\ request[r].status = "Pending"
                     /\ request[r].advisor # Nobody
                     /\ alert[<<"Escalated", r>>].status = "None"}

\* The stamp admin_alert_at is written with the alert, so the alert is there
\* exactly if the request is stamped.
DueForEscalation ==
    {r \in overdue : /\ request[r].status = "Pending"
                     /\ alert[<<"Escalated", r>>].status = "None"}

\* escalate_due, one commit.
EscalateDue ==
    /\ batch = {}
    /\ DueForEscalation # {}
    /\ alert' = Raised(alert, {<<"Escalated", r>> : r \in DueForEscalation})
    /\ UNCHANGED handlingVars
    /\ UNCHANGED <<batch, interruptions>>

Claimable == {k \in Alerts : alert[k].status = "Pending" /\ ~alert[k].claimed}

\* claim_due: the attempt counts from the claim.
ClaimAlerts ==
    /\ batch = {}
    /\ Claimable # {}
    /\ batch' = Claimable
    /\ alert' = [k \in Alerts |->
                    IF k \in Claimable
                    THEN [alert[k] EXCEPT !.claimed = TRUE, !.attempts = @ + 1]
                    ELSE alert[k]]
    /\ UNCHANGED handlingVars
    /\ UNCHANGED interruptions

\* The alert is addressed to one member.
Personal(k) == k[1] = "Requested" /\ request[k[2]].advisor # Nobody

\* mark_undeliverable: the Administrators are told, in the same commit, that
\* a notice to one member has no channel.
NoChannel(k) ==
    /\ k \in batch
    /\ LET noticed == IF Personal(k)
                      THEN Raised(alert, {<<"Undeliverable", k[2]>>})
                      ELSE alert
       IN  alert' = [noticed EXCEPT ![k] = Closed("Undeliverable")]
    /\ batch' = batch \ {k}
    /\ UNCHANGED handlingVars
    /\ UNCHANGED interruptions

\* mark_sent: every addressee has accepted it.
Delivered(k) ==
    /\ k \in batch
    /\ alert' = [alert EXCEPT ![k] = Closed("Sent")]
    /\ batch' = batch \ {k}
    /\ UNCHANGED handlingVars
    /\ UNCHANGED interruptions

\* mark_failed: the claim is given back until the attempts are spent.
DeliveryFailed(k) ==
    /\ k \in batch
    /\ alert' = [alert EXCEPT ![k] = IF @.attempts >= MAX_ALERT_ATTEMPTS
                                    THEN Closed("Failed")
                                    ELSE [@ EXCEPT !.claimed = FALSE]]
    /\ batch' = batch \ {k}
    /\ UNCHANGED handlingVars
    /\ UNCHANGED interruptions

\* The process stops; what it had claimed stays claimed.
InterruptOperations ==
    /\ batch # {}
    /\ interruptions < MaxInterruptions
    /\ interruptions' = interruptions + 1
    /\ batch' = {}
    /\ UNCHANGED handlingVars
    /\ UNCHANGED alert

\* CLAIM_LEASE has passed since the claim of an interrupted worker.
ClaimLapses(k) ==
    /\ alert[k].status = "Pending"
    /\ alert[k].claimed
    /\ k \notin batch
    /\ alert' = [alert EXCEPT ![k].claimed = FALSE]
    /\ UNCHANGED handlingVars
    /\ UNCHANGED <<batch, interruptions>>

-----------------------------------------------------------------------------
AuthorityInit ==
    /\ mode = [c \in Conversations |-> "Maia"]
    /\ holder = [c \in Conversations |-> Nobody]
    /\ request = [r \in Requests |-> NoRequest]
    /\ overdue = {}
    /\ alert = [k \in Alerts |-> NoAlert]
    /\ batch = {}
    /\ interruptions = 0

HandlingStep(c) ==
    \/ RouteToAdvisor(c)
    \/ RouteToMaia(c)
    \/ RequestHandoff(c)
    \/ \E m \in Advisors, administrator \in BOOLEAN :
          \/ Take(c, m, administrator)
          \/ \E to \in {"Maia", "AwaitingContact"} : Release(c, m, administrator, to)

AlertStep(k) ==
    \/ NoChannel(k)
    \/ Delivered(k)
    \/ DeliveryFailed(k)

AuthorityNext ==
    \/ \E c \in Conversations : HandlingStep(c)
    \/ \E r \in Requests, m \in Advisors, administrator \in BOOLEAN : Acknowledge(r, m, administrator)
    \/ \E r \in Requests : DeadlinePasses(r)
    \/ EscalateDue
    \/ ClaimAlerts
    \/ \E k \in Alerts : AlertStep(k) \/ ClaimLapses(k)
    \/ InterruptOperations

\* Clocks run on and the loop keeps ticking; a claimed alert is settled unless
\* the worker is interrupted.  Nothing is assumed of people or of Telegram.
\* While there is always something to deliver, escalation has its turn too:
\* it comes first in every tick.
AuthorityFairness ==
    /\ WF_authorityVars(\E r \in Requests : DeadlinePasses(r))
    /\ WF_authorityVars(\E k \in Alerts : AlertStep(k))
    /\ WF_authorityVars(\E k \in Alerts : ClaimLapses(k))
    /\ SF_authorityVars(EscalateDue)
    /\ SF_authorityVars(ClaimAlerts)

AuthoritySpec == AuthorityInit /\ [][AuthorityNext]_authorityVars /\ AuthorityFairness

-----------------------------------------------------------------------------
(***************************************************************************)
(* Properties.                                                             *)
(***************************************************************************)

RequestRows ==
    [of : {{}} \cup {{c} : c \in Conversations},
     status : {"None", "Pending", "Acknowledged"},
     advisor : Advisors \cup {Nobody}]

AlertRows ==
    [status : {"None", "Pending", "Sent", "Undeliverable", "Failed"},
     attempts : Nat,
     claimed : BOOLEAN]

\* The variables have the shape of the rows they stand for, and an alert is
\* tried at most MAX_ALERT_ATTEMPTS times plus once per interruption.
AuthorityTypeOK ==
    /\ mode \in [Conversations -> HandlingModes]
    /\ holder \in [Conversations -> Advisors \cup {Nobody}]
    /\ request \in [Requests -> RequestRows]
    /\ overdue \subseteq Requests
    /\ alert \in [Alerts -> AlertRows]
    /\ batch \subseteq Alerts
    /\ interruptions \in 0 .. MaxInterruptions
    /\ \A k \in Alerts : alert[k].attempts <= MAX_ALERT_ATTEMPTS + interruptions

\* While a request for a person waits, Maia does not answer and the
\* Conversation does not wait for the Contact: whatever was taken, released
\* or written meanwhile.
WaitingPausesMaia ==
    \A c \in Conversations : Pending(c) # {} => mode[c] \in {"Human", "AdminReview"}

\* A notice to one member that has no channel is known to the Administrators.
UndeliverableIsTold ==
    \A r \in Requests :
        Personal(<<"Requested", r>>) /\ alert[<<"Requested", r>>].status = "Undeliverable" =>
            alert[<<"Undeliverable", r>>].status # "None"

Settled(k) == alert[k].status \in {"Sent", "Undeliverable", "Failed"}

\* Every request is taken, or the Administrators are alerted about it and the
\* alert is delivered as far as it can be, however often the worker stops.
NobodyWaitsUnnoticed ==
    \A r \in Requests :
        request[r].status = "Pending" ~>
            request[r].status # "Pending" \/ Settled(<<"Escalated", r>>)
=============================================================================
