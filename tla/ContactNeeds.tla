---------------------------- MODULE ContactNeeds ----------------------------
(***************************************************************************)
(* What the operation knows of one Contact and wants to keep: the criteria *)
(* of a Property Need with where each came from (domain/commercial/        *)
(* needs.py), the Contact behind a channel identity (identity.py), and the *)
(* expiry of what was said (retention.py).                                 *)
(*                                                                         *)
(* Maia's tool and the CRM both record criteria.  Each reads the need and  *)
(* the current rows, and locks nothing; the UPDATE that supersedes and the *)
(* partial unique index on the current row settle who comes second.  The   *)
(* upkeep marks old needs Stale and empties the bodies of Conversations    *)
(* nobody has used for the retention period.                               *)
(*                                                                         *)
(* A definition named Slip... is the one below it with a plausible bug.    *)
(***************************************************************************)
EXTENDS Naturals, Sequences

CONSTANTS
    Messages,    \* inbound messages of the Conversation
    Profiled,    \* those whose sender carried a profile name
    Statements,  \* criteria somebody records or confirms, each once
    KindOf,      \* Claimed and Inferred are Maia's, Recorded and Confirm are the CRM's
    NameOf,      \* the criterion
    ValueOf,     \* the value, unless it confirms
    ExcerptOf,   \* the message it quotes as evidence
    IntentName,  \* INTENT
    NoValue,
    StaleDays,   \* PROPERTY_NEED_STALE_DAYS
    KeepDays,    \* CONVERSATION_CONTENT_RETENTION_DAYS
    MaxDay      \* bound of a run

ASSUME NeedsAssumption ==
    /\ Profiled \subseteq Messages
    /\ KindOf \in [Statements -> {"Claimed", "Inferred", "Recorded", "Confirm"}]
    /\ ExcerptOf \in [Statements -> Messages]
    /\ StaleDays \in Nat \ {0} /\ KeepDays \in Nat \ {0} /\ MaxDay \in Nat

VARIABLES
    day,       \* days since the need was opened
    heardOn,   \* the day of each message, 0 before it arrives
    expiredOn, \* the day its body was emptied, 0 before
    namedBy,   \* the message whose profile name the Contact bears, or NoValue
    touched,   \* the day of the last message in either direction
    bound,     \* whether an AgentSession remembers the Conversation
    emptying,  \* whether the sweep has picked the Conversation and not locked it
    criteria,  \* rows of each criterion, oldest first; the last is current
    need,      \* status, day of the last confirmation, transaction_intent
    step,      \* each statement: None, Loaded, Over
    loaded     \* what it read: the day, the number of rows, the need, what to write

identityVars == <<heardOn, expiredOn, namedBy, touched, bound, emptying>>
criteriaVars == <<criteria, need, step, loaded>>
needVars == <<day, identityVars, criteriaVars>>

CriterionNames == {NameOf[t] : t \in Statements}
Row(value, state, source, evidence) ==
    [value |-> value, state |-> state, source |-> source, evidence |-> evidence]
NoRow == Row(NoValue, "None", "None", NoValue)
RowAt(n, i) == IF i = 0 THEN NoRow ELSE criteria[n][i].row
LatestRow(n) == RowAt(n, Len(criteria[n]))

NoLoad == [day |-> 0, seen |-> 0, need |-> [status |-> "Active", confirmedOn |-> 0, intent |-> NoValue],
           saying |-> NoRow]

Readable == {m \in Messages : heardOn[m] > 0 /\ expiredOn[m] = 0}

-----------------------------------------------------------------------------
(* The Contact and the Conversation. *)

\* Exactly this identity, or a new Contact; a profile name fills a blank only.
NameAfter(m) == IF namedBy = NoValue /\ m \in Profiled THEN m ELSE namedBy

HearMessage(m) ==
    /\ heardOn[m] = 0
    /\ day > 0
    /\ heardOn' = [heardOn EXCEPT ![m] = day]
    /\ namedBy' = NameAfter(m)
    /\ touched' = day
    /\ UNCHANGED <<day, expiredOn, bound, emptying, criteria, need, step, loaded>>

\* A turn binds a session and its reply is written.
Answer ==
    /\ Readable # {}
    /\ touched' = day
    /\ bound' = TRUE
    /\ UNCHANGED <<day, heardOn, expiredOn, namedBy, emptying, criteria, need, step, loaded>>

\* Nothing in either direction for the period, and a body left.
FindInactive ==
    /\ ~emptying
    /\ Readable # {}
    /\ touched + KeepDays <= day
    /\ emptying' = TRUE
    /\ UNCHANGED <<day, heardOn, expiredOn, namedBy, touched, bound, criteria, need, step, loaded>>

\* Bodies go, rows stay; the session is forgotten.
ExpireContent ==
    /\ emptying
    /\ expiredOn' = [m \in Messages |-> IF m \in Readable THEN day ELSE expiredOn[m]]
    /\ bound' = FALSE
    /\ emptying' = FALSE
    /\ UNCHANGED <<day, heardOn, namedBy, touched, criteria, need, step, loaded>>

-----------------------------------------------------------------------------
(* Criteria. *)

\* Maia's word for what the Contact said.
SlipSaying(t) ==
    LET row == LatestRow(NameOf[t]) IN
    CASE KindOf[t] = "Claimed" -> Row(ValueOf[t], "Confirmed", "ContactStated", ExcerptOf[t])
      [] KindOf[t] = "Inferred" -> Row(ValueOf[t], "Pending", "ModelInferred", ExcerptOf[t])
      [] KindOf[t] = "Recorded" -> Row(ValueOf[t], "Confirmed", "AdvisorRecorded", ExcerptOf[t])
      [] KindOf[t] = "Confirm" -> Row(row.value, "Confirmed", "ContactStated", row.evidence)

\* A claim counts when its excerpt is in a body that is still kept.
Saying(t) ==
    LET row == LatestRow(NameOf[t]) IN
    CASE KindOf[t] = "Claimed" /\ ExcerptOf[t] \in Readable ->
             Row(ValueOf[t], "Confirmed", "ContactStated", ExcerptOf[t])
      [] KindOf[t] = "Claimed" /\ ExcerptOf[t] \notin Readable ->
             Row(ValueOf[t], "Pending", "ModelInferred", ExcerptOf[t])
      [] KindOf[t] = "Inferred" -> Row(ValueOf[t], "Pending", "ModelInferred", ExcerptOf[t])
      [] KindOf[t] = "Recorded" -> Row(ValueOf[t], "Confirmed", "AdvisorRecorded", ExcerptOf[t])
      [] KindOf[t] = "Confirm" -> Row(row.value, "Confirmed", "ContactStated", row.evidence)

LoadNeed(t) ==
    /\ step[t] = "None"
    /\ day > 0
    /\ KindOf[t] = "Confirm" => LatestRow(NameOf[t]).state = "Pending"
    /\ loaded' = [loaded EXCEPT ![t] = [day |-> day, seen |-> Len(criteria[NameOf[t]]),
                                        need |-> need, saying |-> Saying(t)]]
    /\ step' = [step EXCEPT ![t] = "Loaded"]
    /\ UNCHANGED <<day, heardOn, expiredOn, namedBy, touched, bound, emptying, criteria, need>>

\* "No hay un criterio pendiente": nothing under that name to confirm.
RefuseConfirmation(t) ==
    /\ step[t] = "None"
    /\ KindOf[t] = "Confirm" /\ LatestRow(NameOf[t]).state # "Pending"
    /\ step' = [step EXCEPT ![t] = "Over"]
    /\ UNCHANGED <<day, heardOn, expiredOn, namedBy, touched, bound, emptying, criteria, need, loaded>>

AlreadyCurrent(t) == RowAt(NameOf[t], loaded[t].seen) = loaded[t].saying

\* What the flush writes: a column whose value the transaction changed.
NeedAfter(t) ==
    LET l == loaded[t]
        confirms == l.saying.state = "Confirmed"
        intends == confirms /\ NameOf[t] = IntentName /\ ~AlreadyCurrent(t)
    IN [status |-> IF confirms /\ l.need.status = "Stale" THEN "Active" ELSE need.status,
        confirmedOn |-> IF confirms THEN l.day ELSE need.confirmedOn,
        intent |-> IF intends /\ l.need.intent # l.saying.value THEN l.saying.value ELSE need.intent]

\* The current row, whichever it is by now, is superseded in the same commit.
Record(t) ==
    /\ step[t] = "Loaded"
    /\ criteria' = IF AlreadyCurrent(t) THEN criteria
                   ELSE [criteria EXCEPT ![NameOf[t]] = Append(@,
                            [row |-> loaded[t].saying, by |-> t, day |-> loaded[t].day])]
    /\ need' = NeedAfter(t)
    /\ step' = [step EXCEPT ![t] = "Over"]
    /\ loaded' = [loaded EXCEPT ![t] = NoLoad]
    /\ UNCHANGED <<day, heardOn, expiredOn, namedBy, touched, bound, emptying>>

\* The other's row was not there to supersede when the UPDATE began.
CollideStatement(t) ==
    /\ step[t] = "Loaded"
    /\ ~AlreadyCurrent(t)
    /\ Len(criteria[NameOf[t]]) > loaded[t].seen
    /\ step' = [step EXCEPT ![t] = "Over"]
    /\ loaded' = [loaded EXCEPT ![t] = NoLoad]
    /\ UNCHANGED <<day, heardOn, expiredOn, namedBy, touched, bound, emptying, criteria, need>>

\* The sweep is one UPDATE; created_at is the clock of a need nobody confirmed.
MarkStale ==
    /\ need.status = "Active"
    /\ need.confirmedOn + StaleDays <= day
    /\ need' = [need EXCEPT !.status = "Stale"]
    /\ UNCHANGED <<day, heardOn, expiredOn, namedBy, touched, bound, emptying, criteria, step, loaded>>

NewDay ==
    /\ day < MaxDay
    /\ day' = day + 1
    /\ UNCHANGED <<heardOn, expiredOn, namedBy, touched, bound, emptying, criteria, need, step, loaded>>

-----------------------------------------------------------------------------
NeedsInit ==
    /\ day = 0
    /\ heardOn = [m \in Messages |-> 0]
    /\ expiredOn = [m \in Messages |-> 0]
    /\ namedBy = NoValue
    /\ touched = 0
    /\ bound = FALSE
    /\ emptying = FALSE
    /\ criteria = [n \in CriterionNames |-> <<>>]
    /\ need = NoLoad.need
    /\ step = [t \in Statements |-> "None"]
    /\ loaded = [t \in Statements |-> NoLoad]

TalkStep == Answer \/ \E m \in Messages : HearMessage(m)
UpkeepPass == MarkStale \/ FindInactive \/ ExpireContent
StatementStep(t) == LoadNeed(t) \/ RefuseConfirmation(t) \/ Record(t) \/ CollideStatement(t)

NeedsNext == TalkStep \/ UpkeepPass \/ NewDay \/ \E t \in Statements : StatementStep(t)

NeedsSpec == NeedsInit /\ [][NeedsNext]_needVars

-----------------------------------------------------------------------------
(***************************************************************************)
(* Properties.                                                             *)
(***************************************************************************)

NeedTypes == [status : {"Active", "Stale"}, confirmedOn : 0..MaxDay,
              intent : {ValueOf[t] : t \in Statements} \cup {NoValue}]

NeedsTypeOK ==
    /\ day \in 0..MaxDay /\ touched \in 0..MaxDay
    /\ heardOn \in [Messages -> 0..MaxDay] /\ expiredOn \in [Messages -> 0..MaxDay]
    /\ namedBy \in Messages \cup {NoValue}
    /\ bound \in BOOLEAN /\ emptying \in BOOLEAN
    /\ DOMAIN criteria = CriterionNames
    /\ need \in NeedTypes
    /\ step \in [Statements -> {"None", "Loaded", "Over"}]
    /\ \A t \in Statements : loaded[t].need \in NeedTypes

\* No inference becomes truth by itself, whoever overtakes whom: a Confirmed
\* row was recorded by an Advisor, or quotes a message that had arrived and
\* whose body had not expired that day, or promotes an earlier Pending row of
\* the same value.  What the need says of its confirmation and of its intent
\* was Confirmed in some row; and no session remembers an emptied Conversation.
ConfirmedIsEvidenced ==
    /\ \A n \in CriterionNames : \A i \in DOMAIN criteria[n] :
          LET c == criteria[n][i] IN
          c.row.state = "Confirmed" =>
              CASE KindOf[c.by] = "Recorded" -> c.row.value = ValueOf[c.by]
                [] KindOf[c.by] = "Claimed" ->
                       LET m == ExcerptOf[c.by] IN
                       heardOn[m] \in 1..c.day /\ expiredOn[m] \notin 1..(c.day - 1)
                [] KindOf[c.by] = "Confirm" ->
                       \E j \in 1..(i - 1) : /\ criteria[n][j].row.state = "Pending"
                                             /\ criteria[n][j].row.value = c.row.value
                [] OTHER -> FALSE
    /\ need.confirmedOn > 0 =>
          \E n \in CriterionNames : \E i \in DOMAIN criteria[n] :
              criteria[n][i].row.state = "Confirmed" /\ criteria[n][i].day <= need.confirmedOn
    /\ need.intent # NoValue =>
          \E i \in DOMAIN criteria[IntentName] :
              /\ criteria[IntentName][i].row.state = "Confirmed"
              /\ criteria[IntentName][i].row.value = need.intent
    /\ bound => Readable # {}

\* What record says of Stale: recording a Confirmed value revives the need.
\* One that loaded it Active, before the sweep, leaves it Stale.
StaleIsUnconfirmed == need.status = "Stale" => need.confirmedOn + StaleDays <= day

\* The current Confirmed intent is the one in the column of the lists.
IntentIsCurrent ==
    IntentName \in CriterionNames /\ LatestRow(IntentName).state = "Confirmed" =>
        need.intent = LatestRow(IntentName).value

\* Only what is older than the period is emptied.
FreshBodiesAreKept ==
    \A m \in Messages : expiredOn[m] > 0 => heardOn[m] + KeepDays <= expiredOn[m]
=============================================================================
