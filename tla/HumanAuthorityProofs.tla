------------------------ MODULE HumanAuthorityProofs ------------------------
(***************************************************************************)
(* Proofs about handling, requests and alerts, for any Conversations,      *)
(* Advisors, requests, ceiling of attempts and number of interruptions.    *)
(*                                                                         *)
(* That Maia is silent while somebody waits is inductive by itself.  What  *)
(* is said about alerts needs that an alert belongs to a request there is, *)
(* that the worker holds the claims of its batch, and that an attempt has  *)
(* not been spent on an alert which can still be claimed.                  *)
(***************************************************************************)
EXTENDS HumanAuthority, TLAPS

\* The rows have their columns.
RowsOK ==
    /\ mode \in [Conversations -> HandlingModes]
    /\ holder \in [Conversations -> Advisors \cup {Nobody}]
    /\ request \in [Requests -> RequestRows]
    /\ overdue \subseteq Requests
    /\ alert \in [Alerts -> AlertRows]
    /\ batch \subseteq Alerts
    /\ interruptions \in 0 .. MaxInterruptions

\* An alert is about a request there is.
AlertsAreAboutRequests ==
    \A k \in Alerts : alert[k].status # "None" => request[k[2]].status # "None"

\* The worker holds what it works on, and every attempt beyond the ceiling was
\* spent on a batch that was interrupted.
AttemptsAreCounted ==
    \A k \in Alerts :
        /\ k \in batch => alert[k].claimed /\ alert[k].status = "Pending"
        /\ alert[k].attempts <= MAX_ALERT_ATTEMPTS + interruptions
        /\ k \notin batch => alert[k].attempts < MAX_ALERT_ATTEMPTS + interruptions

AuthorityInv ==
    /\ RowsOK
    /\ WaitingPausesMaia
    /\ AlertsAreAboutRequests
    /\ UndeliverableIsTold
    /\ AttemptsAreCounted

USE DEF HandlingModes, RequestRows, AlertRows, NoRequest, NoAlert, NewAlert, Closed

-----------------------------------------------------------------------------
LEMMA AlertKeys ==
    ASSUME NEW k \in Alerts
    PROVE  /\ k = <<k[1], k[2]>> /\ k[1] \in AlertKinds /\ k[2] \in Requests
           /\ \A kind \in AlertKinds : <<kind, k[2]>> \in Alerts
BY DEF Alerts, AlertKinds

LEMMA Bounds ==
    ASSUME RowsOK
    PROVE  /\ MAX_ALERT_ATTEMPTS \in Nat /\ MAX_ALERT_ATTEMPTS > 0
           /\ interruptions \in Nat
           /\ \A k \in Alerts : alert[k] \in AlertRows /\ alert[k].attempts \in Nat
BY AuthorityAssumption DEF RowsOK

\* raise_alert adds rows and changes none.
LEMMA RaisingKeeps ==
    ASSUME RowsOK, NEW keys
    PROVE  /\ Raised(alert, keys) \in [Alerts -> AlertRows]
           /\ \A k \in Alerts :
                 /\ alert[k].status # "None" => Raised(alert, keys)[k] = alert[k]
                 /\ k \in keys => Raised(alert, keys)[k].status # "None"
                 /\ k \notin keys => Raised(alert, keys)[k] = alert[k]
                 /\ Raised(alert, keys)[k] \in {alert[k], NewAlert}
BY DEF Raised, RowsOK

\* A step that only adds or closes requests, and leaves the worker alone.
LEMMA RequestsPreserve ==
    ASSUME AuthorityInv, NEW c \in Conversations, Ask(c, mode[c]) \/ Ask(c, Resumed(c)),
           UNCHANGED <<overdue, batch, interruptions>>
    PROVE  AuthorityInv'
<1> USE DEF AuthorityInv
<1>0. PICK from \in {mode[c], Resumed(c)} : Ask(c, from)
  OBVIOUS
<1>1. /\ from \in HandlingModes
      /\ from = "Human" => mode[c] = "Human"
      /\ Pending(c) # {} => from = mode[c]
  BY DEF Resumed, RowsOK, WaitingPausesMaia
<1>2. CASE Pending(c) # {}
  <2>1. mode' = mode /\ UNCHANGED <<holder, request, alert>>
    BY <1>0, <1>1, <1>2 DEF Ask, RowsOK
  <2> QED BY <2>1 DEF RowsOK, WaitingPausesMaia, Pending, AlertsAreAboutRequests,
                      UndeliverableIsTold, Personal, AttemptsAreCounted
<1>3. CASE Pending(c) = {}
  <2>1. PICK r \in Unused, advisor \in Advisors \cup {Nobody} :
           /\ request' = [request EXCEPT ![r] = [of |-> {c}, status |-> "Pending", advisor |-> advisor]]
           /\ alert' = Raised(alert, {<<"Requested", r>>})
           /\ Grant(c, from, advisor)
    BY <1>0, <1>3 DEF Ask
  <2>2. r \in Requests /\ request[r].status = "None"
    BY DEF Unused
  <2>3. /\ mode' \in [Conversations -> HandlingModes]
        /\ holder' \in [Conversations -> Advisors \cup {Nobody}]
        /\ mode'[c] \in {"Human", "AdminReview"}
        /\ \A d \in Conversations \ {c} : mode'[d] = mode[d]
    BY <2>1, <1>1 DEF Grant, RowsOK
  <2>4. /\ request' \in [Requests -> RequestRows]
        /\ request'[r] = [of |-> {c}, status |-> "Pending", advisor |-> advisor]
        /\ \A q \in Requests \ {r} : request'[q] = request[q]
    BY <2>1, <2>2 DEF RowsOK
  <2>5. /\ alert' \in [Alerts -> AlertRows]
        /\ \A k \in Alerts : /\ k # <<"Requested", r>> => alert'[k] = alert[k]
                             /\ alert'[k] \in {alert[k], NewAlert}
    BY <2>1, RaisingKeeps
  <2>6. RowsOK'
    BY <2>3, <2>4, <2>5 DEF RowsOK
  <2>7. WaitingPausesMaia'
    <3>1. ASSUME NEW d \in Conversations, d # c
          PROVE  Pending(d)' = Pending(d)
      BY <3>1, <2>2, <2>4 DEF Pending
    <3> QED BY <3>1, <2>3 DEF WaitingPausesMaia
  <2>8. AlertsAreAboutRequests'
    <3>1. ASSUME NEW k \in Alerts, alert'[k].status # "None"
          PROVE  request'[k[2]].status # "None"
      <4>1. CASE k[2] = r
        BY <4>1, <2>4
      <4>2. CASE k[2] # r
        <5>1. k # <<"Requested", r>> /\ k[2] \in Requests
          BY <4>2, AlertKeys
        <5>2. alert[k].status # "None"
          BY <5>1, <3>1, <2>5
        <5>3. request[k[2]].status # "None"
          BY <5>2 DEF AlertsAreAboutRequests
        <5> QED BY <5>1, <5>3, <4>2, <2>4
      <4> QED BY <4>1, <4>2
    <3> QED BY <3>1 DEF AlertsAreAboutRequests
  <2>9. UndeliverableIsTold'
    <3>1. ASSUME NEW q \in Requests
          PROVE  /\ <<"Requested", q>> \in Alerts /\ <<"Undeliverable", q>> \in Alerts
                 /\ alert'[<<"Undeliverable", q>>] = alert[<<"Undeliverable", q>>]
      BY <2>5 DEF Alerts, AlertKinds
    <3>2. alert'[<<"Requested", r>>].status # "Undeliverable"
      <4>1. alert[<<"Requested", r>>].status = "None"
        <5>1. <<"Requested", r>> \in Alerts /\ <<"Requested", r>>[2] = r
          BY <2>2, <3>1
        <5> QED BY <5>1, <2>2 DEF AlertsAreAboutRequests
      <4>2. alert'[<<"Requested", r>>] \in {alert[<<"Requested", r>>], NewAlert}
        BY <2>2, <3>1, <2>5
      <4> QED BY <4>1, <4>2
    <3>3. ASSUME NEW q \in Requests, q # r
          PROVE  /\ alert'[<<"Requested", q>>] = alert[<<"Requested", q>>]
                 /\ request'[q] = request[q]
      BY <3>3, <3>1, <2>4, <2>5
    <3> QED BY <3>1, <3>2, <3>3 DEF UndeliverableIsTold, Personal
  <2>10. AttemptsAreCounted'
    <3>1. ASSUME NEW k \in Alerts
          PROVE  /\ k \in batch' => alert'[k].claimed /\ alert'[k].status = "Pending"
                 /\ alert'[k].attempts <= MAX_ALERT_ATTEMPTS + interruptions'
                 /\ k \notin batch' => alert'[k].attempts < MAX_ALERT_ATTEMPTS + interruptions'
      <4>1. alert[k].status # "None" => alert'[k] = alert[k]
        BY <2>1, RaisingKeeps
      <4>2. interruptions \in Nat
        BY AuthorityAssumption DEF RowsOK
      <4> QED BY <4>1, <4>2, <2>5, AuthorityAssumption DEF AttemptsAreCounted
    <3> QED BY <3>1 DEF AttemptsAreCounted
  <2> QED BY <2>6, <2>7, <2>8, <2>9, <2>10
<1> QED BY <1>2, <1>3

\* A step of people about a request or the mode, that raises no alert.
LEMMA PeoplePreserve ==
    ASSUME AuthorityInv,
           \/ \E c \in Conversations :
                 \/ RouteToMaia(c)
                 \/ \E m \in Advisors, administrator \in BOOLEAN :
                       \/ Take(c, m, administrator)
                       \/ \E to \in {"Maia", "AwaitingContact"} : Release(c, m, administrator, to)
           \/ \E r \in Requests, m \in Advisors, administrator \in BOOLEAN :
                 Acknowledge(r, m, administrator)
           \/ \E r \in Requests : DeadlinePasses(r)
    PROVE  AuthorityInv'
<1> USE DEF AuthorityInv
<1>1. UNCHANGED alertVars /\ overdue' \subseteq Requests
  BY DEF RouteToMaia, Take, Release, Acknowledge, DeadlinePasses, RowsOK
<1>2. /\ request' \in [Requests -> RequestRows]
      /\ \A r \in Requests : /\ request'[r].of = request[r].of
                             /\ request'[r].advisor = request[r].advisor
                             /\ request'[r].status = "None" <=> request[r].status = "None"
                             /\ request'[r].status = "Pending" => request[r].status = "Pending"
  <2>1. CASE \E c \in Conversations : request' = Acknowledged(c)
    BY <2>1 DEF Acknowledged, Pending, RowsOK
  <2>2. CASE \E r \in Requests, m \in Advisors, administrator \in BOOLEAN :
                Acknowledge(r, m, administrator)
    <3>1. PICK r \in Requests : /\ request[r].status = "Pending"
                                /\ request' = [request EXCEPT ![r].status = "Acknowledged"]
      BY <2>2 DEF Acknowledge
    <3>2. ASSUME NEW q \in Requests
          PROVE  request[q] \in RequestRows
      BY DEF RowsOK
    <3>3. /\ request'[r] = [request[r] EXCEPT !.status = "Acknowledged"]
          /\ \A q \in Requests \ {r} : request'[q] = request[q]
      BY <3>1 DEF RowsOK
    <3>4. /\ request'[r] \in RequestRows
          /\ request'[r].of = request[r].of /\ request'[r].advisor = request[r].advisor
          /\ request'[r].status = "Acknowledged"
      BY <3>2, <3>3
    <3>5. request' \in [Requests -> RequestRows]
      BY <3>1, <3>2, <3>3, <3>4 DEF RowsOK
    <3> QED BY <3>1, <3>3, <3>4, <3>5
  <2>3. CASE request' = request
    BY <2>3 DEF RowsOK
  <2> QED BY <2>1, <2>2, <2>3 DEF RouteToMaia, Take, Release, DeadlinePasses
<1>3. /\ mode' \in [Conversations -> HandlingModes]
      /\ holder' \in [Conversations -> Advisors \cup {Nobody}]
  BY DEF RouteToMaia, Resumed, Take, Release, Acknowledge, DeadlinePasses, RowsOK
<1>4. ASSUME NEW d \in Conversations
      PROVE  mode'[d] = mode[d] \/ Pending(d)' = {}
  <2>1. ASSUME NEW c \in Conversations, RouteToMaia(c)
        PROVE  mode'[d] = mode[d] \/ Pending(d)' = {}
    <3>1. Pending(c) = {}
      BY <2>1 DEF RouteToMaia, WaitingPausesMaia
    <3> QED BY <2>1, <3>1 DEF RouteToMaia, Pending, RowsOK
  <2>2. ASSUME NEW c \in Conversations, request' = Acknowledged(c),
               \E to \in HandlingModes : mode' = [mode EXCEPT ![c] = to]
        PROVE  mode'[d] = mode[d] \/ Pending(d)' = {}
    <3>1. CASE d = c
      <4>1. ASSUME NEW r \in Requests, r \in Pending(c)
            PROVE  request'[r].status = "Acknowledged"
        <5>1. request[r] \in RequestRows
          BY DEF RowsOK
        <5> QED BY <2>2, <4>1, <5>1 DEF Acknowledged
      <4>2. ASSUME NEW r \in Requests, r \notin Pending(c)
            PROVE  request'[r] = request[r]
        BY <2>2, <4>2 DEF Acknowledged
      <4> QED BY <3>1, <4>1, <4>2 DEF Pending
    <3>2. CASE d # c
      BY <2>2, <3>2 DEF RowsOK
    <3> QED BY <3>1, <3>2
  <2>3. CASE mode' = mode
    BY <2>3
  <2> QED BY <2>1, <2>2, <2>3 DEF Take, Release, Acknowledge, DeadlinePasses
<1>5. WaitingPausesMaia'
  <2>1. ASSUME NEW d \in Conversations
        PROVE  Pending(d)' \subseteq Pending(d)
    BY <1>2 DEF Pending
  <2> QED BY <2>1, <1>4 DEF WaitingPausesMaia
<1>6. AlertsAreAboutRequests' /\ AttemptsAreCounted'
  BY <1>1, <1>2, AlertKeys DEF AlertsAreAboutRequests, AttemptsAreCounted, alertVars
<1>7. UndeliverableIsTold'
  BY <1>1, <1>2 DEF UndeliverableIsTold, Personal, alertVars
<1> QED BY <1>1, <1>2, <1>3, <1>5, <1>6, <1>7 DEF RowsOK, alertVars

\* A step of the worker: it changes alerts, of requests there are.
LEMMA WorkerPreserves ==
    ASSUME AuthorityInv,
           \/ EscalateDue \/ ClaimAlerts \/ InterruptOperations
           \/ \E k \in Alerts : AlertStep(k) \/ ClaimLapses(k)
    PROVE  AuthorityInv'
<1> USE DEF AuthorityInv
<1>0. interruptions \in Nat
  BY AuthorityAssumption DEF RowsOK
<1>1. UNCHANGED handlingVars
  BY DEF EscalateDue, ClaimAlerts, InterruptOperations, AlertStep, NoChannel, Delivered,
         DeliveryFailed, ClaimLapses
<1>2. WaitingPausesMaia'
  BY <1>1 DEF handlingVars, WaitingPausesMaia, Pending
<1>3. CASE EscalateDue
  <2>1. alert' = Raised(alert, {<<"Escalated", r>> : r \in DueForEscalation})
        /\ UNCHANGED <<batch, interruptions>>
    BY <1>3 DEF EscalateDue
  <2>2. RowsOK'
    BY <1>1, <2>1, RaisingKeeps DEF RowsOK, handlingVars
  <2>3. ASSUME NEW k \in Alerts, alert'[k].status # "None"
        PROVE  request[k[2]].status # "None"
    <3>1. CASE k \in {<<"Escalated", r>> : r \in DueForEscalation}
      BY <3>1, AlertKeys DEF DueForEscalation
    <3>2. CASE k \notin {<<"Escalated", r>> : r \in DueForEscalation}
      BY <3>2, <2>1, <2>3, RaisingKeeps DEF AlertsAreAboutRequests
    <3> QED BY <3>1, <3>2
  <2>4. ASSUME NEW r \in Requests, NEW kind \in {"Requested", "Undeliverable"}
        PROVE  <<kind, r>> \in Alerts /\ alert'[<<kind, r>>] = alert[<<kind, r>>]
    <3>1. <<kind, r>> \in Alerts /\ <<kind, r>> \notin {<<"Escalated", q>> : q \in DueForEscalation}
      BY DEF Alerts, AlertKinds
    <3> QED BY <3>1, <2>1, RaisingKeeps
  <2>5. UndeliverableIsTold'
    BY <1>1, <2>4 DEF UndeliverableIsTold, Personal, handlingVars
  <2>6. ASSUME NEW k \in Alerts
        PROVE  /\ k \in batch' => alert'[k].claimed /\ alert'[k].status = "Pending"
               /\ alert'[k].attempts <= MAX_ALERT_ATTEMPTS + interruptions'
               /\ k \notin batch' => alert'[k].attempts < MAX_ALERT_ATTEMPTS + interruptions'
    BY <1>0, <2>1, RaisingKeeps, AuthorityAssumption DEF AttemptsAreCounted
  <2> QED BY <1>1, <1>2, <2>2, <2>3, <2>5, <2>6
          DEF AlertsAreAboutRequests, AttemptsAreCounted, handlingVars
<1>4. CASE ClaimAlerts
  <2>1. /\ batch = {} /\ batch' = Claimable /\ UNCHANGED interruptions
        /\ alert' = [k \in Alerts |->
                        IF k \in Claimable
                        THEN [alert[k] EXCEPT !.claimed = TRUE, !.attempts = @ + 1]
                        ELSE alert[k]]
    BY <1>4 DEF ClaimAlerts
  <2>2. ASSUME NEW k \in Alerts
        PROVE  /\ alert'[k] \in AlertRows
               /\ alert'[k].status = alert[k].status
               /\ k \in batch' => alert'[k].claimed /\ alert'[k].status = "Pending"
               /\ alert'[k].attempts <= MAX_ALERT_ATTEMPTS + interruptions'
               /\ k \notin batch' => alert'[k].attempts < MAX_ALERT_ATTEMPTS + interruptions'
    <3>1. /\ alert[k] \in AlertRows /\ alert[k].attempts \in Nat
          /\ alert[k].attempts < MAX_ALERT_ATTEMPTS + interruptions
      BY <2>1, Bounds DEF AttemptsAreCounted
    <3>a. /\ interruptions' = interruptions /\ MAX_ALERT_ATTEMPTS \in Nat
          /\ alert[k].attempts + 1 <= MAX_ALERT_ATTEMPTS + interruptions
      <4>1. MAX_ALERT_ATTEMPTS \in Nat /\ interruptions' = interruptions
        BY <2>1, AuthorityAssumption
      <4> QED BY <4>1, <3>1, <1>0
    <3>2. CASE k \in Claimable
      <4>1. alert'[k] = [alert[k] EXCEPT !.claimed = TRUE, !.attempts = @ + 1]
        BY <2>1, <3>2
      <4>2. /\ alert'[k].status = alert[k].status
            /\ alert'[k].claimed = TRUE
            /\ alert'[k].attempts = alert[k].attempts + 1
        BY <4>1, <3>1
      <4>3. alert[k].attempts + 1 \in Nat
        BY <3>1
      <4>4. alert'[k] \in AlertRows
        BY <4>1, <4>3, <3>1
      <4>5. k \in batch' /\ alert[k].status = "Pending"
        BY <2>1, <3>2 DEF Claimable
      <4>6. alert'[k].attempts <= MAX_ALERT_ATTEMPTS + interruptions'
        BY <4>2, <3>a
      <4> QED BY <4>2, <4>4, <4>5, <4>6
    <3>3. CASE k \notin Claimable
      <4>1. alert'[k] = alert[k]
        BY <2>1, <3>3
      <4>2. k \notin batch'
        BY <2>1, <3>3
      <4>3. /\ alert'[k].attempts <= MAX_ALERT_ATTEMPTS + interruptions'
            /\ alert'[k].attempts < MAX_ALERT_ATTEMPTS + interruptions'
        BY <4>1, <3>1, <3>a, <1>0
      <4> QED BY <3>1, <4>1, <4>2, <4>3
    <3> QED BY <3>2, <3>3
  <2>3. RowsOK'
    BY <1>1, <2>1, <2>2 DEF RowsOK, handlingVars, Claimable
  <2> QED BY <1>1, <1>2, <2>2, <2>3
          DEF AlertsAreAboutRequests, UndeliverableIsTold, Personal, AttemptsAreCounted,
              handlingVars, Alerts, AlertKinds
<1>5. CASE InterruptOperations
  <2>1. batch' = {} /\ interruptions' = interruptions + 1 /\ interruptions < MaxInterruptions
        /\ alert' = alert
    BY <1>5 DEF InterruptOperations
  <2>2. RowsOK'
    BY <1>0, <1>1, <2>1, AuthorityAssumption DEF RowsOK, handlingVars
  <2>3. ASSUME NEW k \in Alerts
        PROVE  /\ alert[k].attempts <= MAX_ALERT_ATTEMPTS + interruptions'
               /\ alert[k].attempts < MAX_ALERT_ATTEMPTS + interruptions'
    BY <1>0, <2>1, AuthorityAssumption DEF AttemptsAreCounted, RowsOK
  <2>4. AttemptsAreCounted'
    BY <2>1, <2>3 DEF AttemptsAreCounted
  <2> QED BY <1>1, <1>2, <2>1, <2>2, <2>4
          DEF AlertsAreAboutRequests, UndeliverableIsTold, Personal, handlingVars
<1>6. ASSUME NEW k \in Alerts, NoChannel(k)
      PROVE  AuthorityInv'
  <2> DEFINE noticed == IF Personal(k) THEN Raised(alert, {<<"Undeliverable", k[2]>>}) ELSE alert
  <2>1. /\ k \in batch /\ batch' = batch \ {k} /\ UNCHANGED interruptions
        /\ alert' = [noticed EXCEPT ![k] = Closed("Undeliverable")]
    BY <1>6 DEF NoChannel
  <2>2. /\ noticed \in [Alerts -> AlertRows]
        /\ \A j \in Alerts : /\ alert[j].status # "None" => noticed[j] = alert[j]
                             /\ j # <<"Undeliverable", k[2]>> => noticed[j] = alert[j]
                             /\ noticed[j] \in {alert[j], NewAlert}
        /\ Personal(k) => noticed[<<"Undeliverable", k[2]>>].status # "None"
    <3>1. <<"Undeliverable", k[2]>> \in Alerts
      BY AlertKeys DEF AlertKinds
    <3>2. CASE Personal(k)
      BY <3>1, <3>2, RaisingKeeps
    <3>3. CASE ~Personal(k)
      BY <3>3 DEF RowsOK
    <3> QED BY <3>2, <3>3
  <2>3. /\ alert'[k] = Closed("Undeliverable")
        /\ \A j \in Alerts \ {k} : alert'[j] = noticed[j]
    BY <2>1, <2>2
  <2>4. RowsOK'
    BY <1>1, <2>1, <2>2 DEF RowsOK, handlingVars
  <2>5. AlertsAreAboutRequests'
    <3>0. request[k[2]].status # "None"
      BY <2>1 DEF AttemptsAreCounted, AlertsAreAboutRequests
    <3>1. ASSUME NEW j \in Alerts, alert'[j].status # "None"
          PROVE  request[j[2]].status # "None"
      <4>1. CASE j = k \/ j = <<"Undeliverable", k[2]>>
        BY <4>1, <3>0
      <4>2. CASE j # k /\ j # <<"Undeliverable", k[2]>>
        BY <4>2, <3>1, <2>2, <2>3 DEF AlertsAreAboutRequests
      <4> QED BY <4>1, <4>2
    <3> QED BY <3>1, <1>1 DEF AlertsAreAboutRequests, handlingVars
  <2>6. UndeliverableIsTold'
    <3>1. ASSUME NEW r \in Requests, Personal(<<"Requested", r>>),
                 alert'[<<"Requested", r>>].status = "Undeliverable"
          PROVE  alert'[<<"Undeliverable", r>>].status # "None"
      <4>1. <<"Requested", r>> \in Alerts /\ <<"Undeliverable", r>> \in Alerts
        BY DEF Alerts, AlertKinds
      <4>2. noticed[<<"Undeliverable", r>>].status # "None"
        <5>1. CASE k = <<"Requested", r>>
          BY <5>1, <3>1, <2>2
        <5>2. CASE k # <<"Requested", r>>
          <6>1. alert[<<"Requested", r>>].status = "Undeliverable"
            BY <5>2, <3>1, <4>1, <2>2, <2>3
          <6>2. alert[<<"Undeliverable", r>>].status # "None"
            BY <6>1, <3>1 DEF UndeliverableIsTold
          <6> QED BY <6>2, <4>1, <2>2
        <5> QED BY <5>1, <5>2
      <4> QED BY <4>1, <4>2, <2>3
    <3> QED BY <3>1, <1>1 DEF UndeliverableIsTold, Personal, handlingVars
  <2>7. ASSUME NEW j \in Alerts
        PROVE  /\ j \in batch' => alert'[j].claimed /\ alert'[j].status = "Pending"
               /\ alert'[j].attempts <= MAX_ALERT_ATTEMPTS + interruptions'
               /\ j \notin batch' => alert'[j].attempts < MAX_ALERT_ATTEMPTS + interruptions'
    <3>1. CASE j = k
      BY <3>1, <1>0, <2>1, <2>3, AuthorityAssumption
    <3>2. CASE j # k
      <4>1. alert'[j] = noticed[j] /\ (j \in batch' <=> j \in batch)
        BY <3>2, <2>1, <2>3
      <4>2. CASE noticed[j] = alert[j]
        BY <4>1, <4>2, <2>1 DEF AttemptsAreCounted
      <4>3. CASE noticed[j] # alert[j]
        <5>1. noticed[j] = NewAlert /\ alert[j].status = "None"
          BY <4>3, <2>2
        <5>2. j \notin batch
          BY <5>1 DEF AttemptsAreCounted
        <5> QED BY <5>1, <5>2, <4>1, <2>1, <1>0, Bounds
      <4> QED BY <4>2, <4>3
    <3> QED BY <3>1, <3>2
  <2> QED BY <1>2, <2>4, <2>5, <2>6, <2>7 DEF AttemptsAreCounted
<1>7. ASSUME NEW k \in Alerts, Delivered(k) \/ DeliveryFailed(k) \/ ClaimLapses(k)
      PROVE  AuthorityInv'
  <2>1. /\ alert[k].status = "Pending"
        /\ batch' = batch \ {k} /\ UNCHANGED interruptions
        /\ \A j \in Alerts \ {k} : alert'[j] = alert[j]
    BY <1>7 DEF Delivered, DeliveryFailed, ClaimLapses, AttemptsAreCounted, RowsOK
  <2>2. /\ alert' \in [Alerts -> AlertRows]
        /\ alert'[k].status \notin {"None", "Undeliverable"}
        /\ alert'[k].attempts < MAX_ALERT_ATTEMPTS + interruptions
    <3>1. CASE Delivered(k)
      BY <3>1, <1>0, AuthorityAssumption DEF Delivered, RowsOK
    <3>2. CASE DeliveryFailed(k)
      <4>1. CASE alert[k].attempts >= MAX_ALERT_ATTEMPTS
        <5>1. alert' = [alert EXCEPT ![k] = Closed("Failed")]
          BY <3>2, <4>1 DEF DeliveryFailed
        <5> QED BY <5>1, <1>0, Bounds DEF RowsOK
      <4>2. CASE ~(alert[k].attempts >= MAX_ALERT_ATTEMPTS)
        <5>1. alert' = [alert EXCEPT ![k] = [@ EXCEPT !.claimed = FALSE]]
          BY <3>2, <4>2 DEF DeliveryFailed
        <5>2. alert'[k] = [alert[k] EXCEPT !.claimed = FALSE]
          BY <5>1 DEF RowsOK
        <5>3. /\ alert'[k] \in AlertRows /\ alert'[k].status = alert[k].status
              /\ alert'[k].attempts = alert[k].attempts
          BY <5>2, Bounds
        <5>4. alert' \in [Alerts -> AlertRows]
          BY <5>1, <5>2, <5>3 DEF RowsOK
        <5> QED BY <5>3, <5>4, <4>2, <2>1, <1>0, Bounds
      <4> QED BY <4>1, <4>2
    <3>3. CASE ClaimLapses(k)
      <4>1. alert' = [alert EXCEPT ![k].claimed = FALSE] /\ k \notin batch
        BY <3>3 DEF ClaimLapses
      <4>2. alert[k] \in AlertRows /\ alert[k].attempts < MAX_ALERT_ATTEMPTS + interruptions
        BY <4>1 DEF RowsOK, AttemptsAreCounted
      <4> QED BY <4>1, <4>2, <2>1 DEF RowsOK
    <3> QED BY <1>7, <3>1, <3>2, <3>3
  <2>3. RowsOK'
    BY <1>1, <2>1, <2>2 DEF RowsOK, handlingVars
  <2>4. AlertsAreAboutRequests'
    BY <1>1, <2>1 DEF AlertsAreAboutRequests, handlingVars
  <2>5. UndeliverableIsTold'
    <3>1. ASSUME NEW r \in Requests, Personal(<<"Requested", r>>),
                 alert'[<<"Requested", r>>].status = "Undeliverable"
          PROVE  alert'[<<"Undeliverable", r>>].status # "None"
      <4>1. <<"Requested", r>> \in Alerts /\ <<"Undeliverable", r>> \in Alerts
        BY DEF Alerts, AlertKinds
      <4>2. alert[<<"Requested", r>>].status = "Undeliverable"
        BY <3>1, <4>1, <2>1, <2>2
      <4>3. alert[<<"Undeliverable", r>>].status # "None"
        BY <3>1, <4>2 DEF UndeliverableIsTold
      <4> QED BY <4>1, <4>3, <2>1, <2>2
    <3> QED BY <3>1, <1>1 DEF UndeliverableIsTold, Personal, handlingVars
  <2>6. ASSUME NEW j \in Alerts
        PROVE  /\ j \in batch' => alert'[j].claimed /\ alert'[j].status = "Pending"
               /\ alert'[j].attempts <= MAX_ALERT_ATTEMPTS + interruptions'
               /\ j \notin batch' => alert'[j].attempts < MAX_ALERT_ATTEMPTS + interruptions'
    <3>1. CASE j = k
      BY <3>1, <1>0, <2>1, <2>2, AuthorityAssumption DEF AlertRows
    <3>2. CASE j # k
      BY <3>2, <2>1 DEF AttemptsAreCounted
    <3> QED BY <3>1, <3>2
  <2> QED BY <1>2, <2>3, <2>4, <2>5, <2>6 DEF AttemptsAreCounted
<1> QED BY <1>3, <1>4, <1>5, <1>6, <1>7 DEF AlertStep

-----------------------------------------------------------------------------
\* Initially nobody asks for anything.
LEMMA InitEstablishes == AuthorityInit => AuthorityInv
<1> SUFFICES ASSUME AuthorityInit PROVE AuthorityInv
  OBVIOUS
<1>1. RowsOK
  BY AuthorityAssumption DEF AuthorityInit, RowsOK
<1>2. WaitingPausesMaia
  BY DEF AuthorityInit, WaitingPausesMaia, Pending
<1>3. AlertsAreAboutRequests
  BY DEF AuthorityInit, AlertsAreAboutRequests
<1>4. UndeliverableIsTold
  BY DEF AuthorityInit, UndeliverableIsTold, Alerts, AlertKinds
<1>5. AttemptsAreCounted
  BY AuthorityAssumption DEF AuthorityInit, AttemptsAreCounted
<1> QED BY <1>1, <1>2, <1>3, <1>4, <1>5 DEF AuthorityInv

LEMMA StepPreserves == AuthorityInv /\ [AuthorityNext]_authorityVars => AuthorityInv'
<1> SUFFICES ASSUME AuthorityInv, [AuthorityNext]_authorityVars PROVE AuthorityInv'
  OBVIOUS
<1>1. ASSUME NEW c \in Conversations, RouteToAdvisor(c) \/ RequestHandoff(c)
      PROVE  AuthorityInv'
  BY <1>1, RequestsPreserve DEF RouteToAdvisor, RequestHandoff
<1>2. ASSUME NEW c \in Conversations, HandlingStep(c)
      PROVE  AuthorityInv'
  BY <1>1, <1>2, PeoplePreserve DEF HandlingStep
<1>3. CASE \/ \E r \in Requests, m \in Advisors, administrator \in BOOLEAN :
                 Acknowledge(r, m, administrator)
           \/ \E r \in Requests : DeadlinePasses(r)
  BY <1>3, PeoplePreserve
<1>4. CASE \/ EscalateDue \/ ClaimAlerts \/ InterruptOperations
           \/ \E k \in Alerts : AlertStep(k) \/ ClaimLapses(k)
  BY <1>4, WorkerPreserves
<1>5. CASE UNCHANGED authorityVars
  BY <1>5 DEF authorityVars, AuthorityInv, RowsOK, WaitingPausesMaia, Pending,
              AlertsAreAboutRequests, UndeliverableIsTold, Personal, AttemptsAreCounted
<1> QED BY <1>2, <1>3, <1>4, <1>5 DEF AuthorityNext

\* What Maia, the Contacts, the Advisors and the interrupted worker keep.
THEOREM AuthorityInvariant == AuthoritySpec => []AuthorityInv
<1>1. AuthorityInit => AuthorityInv
  BY InitEstablishes
<1>2. AuthorityInv /\ [AuthorityNext]_authorityVars => AuthorityInv'
  BY StepPreserves
<1> QED BY <1>1, <1>2, PTL DEF AuthoritySpec

\* Whoever takes, releases, asks or writes in whatever order: while a request
\* for a person is open, Maia does not answer that Conversation.
THEOREM MaiaIsSilent == AuthoritySpec => []WaitingPausesMaia
<1>1. AuthorityInv => WaitingPausesMaia
  BY DEF AuthorityInv
<1> QED BY <1>1, AuthorityInvariant, PTL

\* An alert to one member that has no channel is known to the Administrators.
THEOREM SilenceIsReported == AuthoritySpec => []UndeliverableIsTold
<1>1. AuthorityInv => UndeliverableIsTold
  BY DEF AuthorityInv
<1> QED BY <1>1, AuthorityInvariant, PTL

\* Every column keeps its type, and no alert is attempted more often than the
\* ceiling and the interruptions of the worker allow.
THEOREM TypeCorrect == AuthoritySpec => []AuthorityTypeOK
<1>1. AuthorityInv => AuthorityTypeOK
  BY DEF AuthorityInv, RowsOK, AttemptsAreCounted, AuthorityTypeOK
<1> QED BY <1>1, AuthorityInvariant, PTL
=============================================================================
