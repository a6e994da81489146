------------------------------ MODULE InboxLane ------------------------------
(***************************************************************************)
(* One Conversation's inbox lane: webhook deliveries, the background lead  *)
(* worker and the humans of the brokerage, meeting in PostgreSQL.          *)
(*                                                                         *)
(* The webhook (domain/inbox.py, accept) persists messages.  The worker    *)
(* (worker/whatsapp.py) claims them into a leased group, runs one Hermes   *)
(* turn that may fold in late messages, and settles: it commits at most    *)
(* one reply row to the Outbox and closes the group.  Humans move the      *)
(* handling mode (domain/commercial/handling.py), which decides whether    *)
(* Maia may speak.                                                         *)
(*                                                                         *)
(* The deployment runs one process with one background loop, so there is   *)
(* one worker; it can die between any two of its commits.  A step of the   *)
(* worker is what it does up to the next point where another transaction   *)
(* can run: a statement whose result it keeps, or a commit.                *)
(*                                                                         *)
(* A definition named Slip... is the one below it with a plausible bug;    *)
(* each is there to show that a property notices that bug.                 *)
(***************************************************************************)
EXTENDS Naturals, FiniteSets

CONSTANTS
    Messages,          \* inbound messages of the Conversation
    Groups,            \* identities of claimed groups; bounds the claims
    NoGroup,           \* a NULL group_id
    MaxAttempts,       \* MAX_ATTEMPTS
    InitialHandling,   \* handling rows the Conversation may start with
    MayCrash,          \* whether the worker may be interrupted
    Notices            \* Appointment notices that occur: owed, then lapsed

ASSUME MaxAttemptsAssumption == MaxAttempts \in Nat \ {0}
ASSUME NoGroupAssumption == NoGroup \notin Groups

\* "Absent": the row is created lazily, and its absence means Maia.
HandlingModes == {"Absent", "Maia", "Human", "AwaitingContact", "AdminReview"}

ASSUME InitialHandlingAssumption == InitialHandling \subseteq HandlingModes
ASSUME NoticesAssumption == Notices \subseteq {"owed", "lapsed"}

VARIABLES
    status,        \* inbox_messages.status; "Unsent" before acceptance
    attempts,      \* inbox_messages.attempts
    group,         \* inbox_messages.group_id
    timer,         \* why a Pending message must wait: window, backoff or not
    groupStatus,   \* inbox_groups.status; "Unused" before the claim
    lapsed,        \* Processing groups whose lease_expires_at has passed
    handling,      \* conversation_handling.mode
    locked,        \* the worker's transaction holds the handling row's lock
    bound,         \* the cycle's durable Hermes session is recorded
    notice,        \* what the Lead is owed about an Appointment
    written        \* rows committed about groups: Outbox, decisions, audit

VARIABLES
    pc,            \* where the worker is
    mine,          \* ClaimedGroup.group_id
    held,          \* ClaimedGroup.messages
    offered,       \* late messages peeked for injection
    heard,         \* messages the Hermes turn has been given
    draft,         \* what the turn returned
    owing          \* the notice read at settlement

message == <<status, attempts, group, timer>>
lane    == <<message, groupStatus, lapsed>>
human   == <<handling, locked>>
turn    == <<mine, held, offered, heard, draft, owing>>
vars    == <<lane, human, bound, notice, written, pc, turn>>

WorkerPlaces ==
    {"idle", "listing", "claiming", "authorizing", "attaching", "composing",
     "offering", "adopting", "covering", "rechecking", "noticing",
     "releasing", "notifying", "settling", "withholding", "reconciling",
     "discarding", "failing", "apologizing"}

\* A committed row that concerns a group and names the messages it is about.
Rows == [kind : {"reply", "denial", "withheld", "apology"},
         group : Groups,
         covers : SUBSET Messages]

-----------------------------------------------------------------------------
(***************************************************************************)
(* What the statements read.                                               *)
(***************************************************************************)

\* MAIA_MAY_REPLY holds the one mode in which Maia speaks; no row is Maia too.
MaiaMayReply == handling \in {"Absent", "Maia"}

RowExists == handling # "Absent"

Pending == {m \in Messages : status[m] = "Pending"}

\* next_attempt_at is NULL or has passed.
Ripe == {m \in Pending : attempts[m] < MaxAttempts /\ timer[m] # "backoff"}

Processing == {g \in Groups : groupStatus[g] = "Processing"}

Claimable ==
    /\ \E m \in Ripe : timer[m] = "none"   \* the oldest cleared the window
    /\ Processing = {}
    /\ MaiaMayReply

\* A new uuid; identities carry no meaning, so which one does not matter.
FreshGroup == CHOOSE g \in Groups : groupStatus[g] = "Unused"

SlipFenceNeverOpens == FALSE

\* The claim token of a group that is still Processing opens the fence.
Fenced == mine \in Processing

SlipCeilingOffByOne(m) == IF attempts[m] > MaxAttempts THEN "Failed" ELSE "Pending"

\* _requeue: retire at the ceiling, otherwise back to Pending with backoff.
RequeuedStatus(m) == IF attempts[m] >= MaxAttempts THEN "Failed" ELSE "Pending"

\* The group is closed and its messages are forgotten.
SlipRequeueForgotten(S) == UNCHANGED message

Requeue(S) ==
    LET returned == {m \in S : RequeuedStatus(m) = "Pending"}
    IN  /\ status' = [m \in Messages |->
                          IF m \in S THEN RequeuedStatus(m) ELSE status[m]]
        /\ group' = [m \in Messages |->
                          IF m \in returned THEN NoGroup ELSE group[m]]
        /\ timer' = [m \in Messages |->
                          IF m \in returned THEN "backoff" ELSE timer[m]]
        /\ UNCHANGED attempts

Exhausted == \A m \in held : attempts[m] >= MaxAttempts

\* grant_to_advisor, and request's early return for an open request: a human
\* already there stays; otherwise the responsible Advisor is named, or nobody
\* is and an Administrator must look.
GrantedFrom(mode) ==
    IF mode = "Human" THEN {"Human"} ELSE {"Human", "AdminReview"}

\* The worker's local state between turns.
Rested ==
    /\ pc' = "idle"
    /\ mine' = NoGroup
    /\ held' = {}
    /\ offered' = {}
    /\ heard' = {}
    /\ draft' = "none"
    /\ owing' = FALSE
    /\ locked' = FALSE

-----------------------------------------------------------------------------
TypeOK ==
    /\ status \in [Messages ->
          {"Unsent", "Pending", "Processing", "Processed", "Failed"}]
    /\ attempts \in [Messages -> 0..MaxAttempts]
    /\ group \in [Messages -> Groups \cup {NoGroup}]
    /\ timer \in [Messages -> {"none", "window", "backoff"}]
    /\ groupStatus \in [Groups -> {"Unused", "Processing", "Settled", "Failed"}]
    /\ lapsed \subseteq Groups
    /\ handling \in HandlingModes
    /\ locked \in BOOLEAN
    /\ bound \in BOOLEAN
    /\ notice \in {"none", "owed", "lapsed"}
    /\ written \subseteq Rows
    /\ pc \in WorkerPlaces
    /\ mine \in Groups \cup {NoGroup}
    /\ pc \notin {"idle", "listing", "claiming"} => mine \in Groups
    /\ held \subseteq Messages
    /\ offered \subseteq Messages
    /\ heard \subseteq Messages
    /\ draft \in {"none", "text", "empty"}
    /\ owing \in BOOLEAN

Init ==
    /\ status = [m \in Messages |-> "Unsent"]
    /\ attempts = [m \in Messages |-> 0]
    /\ group = [m \in Messages |-> NoGroup]
    /\ timer = [m \in Messages |-> "none"]
    /\ groupStatus = [g \in Groups |-> "Unused"]
    /\ lapsed = {}
    /\ handling \in InitialHandling
    /\ locked = FALSE
    /\ bound \in BOOLEAN
    /\ notice = "none"
    /\ written = {}
    /\ pc = "idle"
    /\ mine = NoGroup
    /\ held = {}
    /\ offered = {}
    /\ heard = {}
    /\ draft = "none"
    /\ owing = FALSE

-----------------------------------------------------------------------------
(***************************************************************************)
(* The webhook, the humans, the Hermes tool calls and the clock.           *)
(***************************************************************************)

\* A redelivery finds the existing record and changes nothing, which the
\* guard on "Unsent" stands for.  note_inbound waits for the handling row's
\* lock; an AwaitingContact row returns to Maia; asking for a person, or
\* writing after a confirmed visit, hands the Conversation over.
Accept(m) ==
    /\ status[m] = "Unsent"
    /\ ~locked
    /\ status' = [status EXCEPT ![m] = "Pending"]
    /\ timer' = [timer EXCEPT ![m] = "window"]
    /\ LET resumed == IF handling = "AwaitingContact" THEN "Maia" ELSE handling
       IN  \/ handling' = resumed
           \/ handling' \in GrantedFrom(resumed)
    /\ UNCHANGED <<attempts, group, groupStatus, lapsed, locked, bound, notice,
                   written, pc, turn>>

TakeHandling ==
    /\ ~locked
    /\ handling # "Human"
    /\ handling' = "Human"
    /\ UNCHANGED <<lane, locked, bound, notice, written, pc, turn>>

ReleaseHandling(mode) ==
    /\ mode \in {"Maia", "AwaitingContact"}
    /\ ~locked
    /\ handling # mode
    /\ handling' = mode
    /\ UNCHANGED <<lane, locked, bound, notice, written, pc, turn>>

\* The model's own request_human_handoff tool, called while it composes, runs
\* in the API's transaction and needs the same row.
ToolRequestsHandoff ==
    /\ pc \in {"composing", "offering", "adopting"}
    /\ ~locked
    /\ handling' \in GrantedFrom(handling)
    /\ UNCHANGED <<lane, locked, bound, notice, written, pc, turn>>

\* A booking resolves: the Conversation owes its Lead a confirmation.
NoticeBecomesDue ==
    /\ "owed" \in Notices
    /\ notice = "none"
    /\ notice' = "owed"
    /\ UNCHANGED <<lane, human, bound, written, pc, turn>>

\* The visit starts before the Lead was told.
NoticeLapses ==
    /\ "lapsed" \in Notices
    /\ notice = "owed"
    /\ notice' = "lapsed"
    /\ UNCHANGED <<lane, human, bound, written, pc, turn>>

TimerElapses(m) ==
    /\ status[m] = "Pending"
    /\ timer[m] # "none"
    /\ timer' = [timer EXCEPT ![m] = "none"]
    /\ UNCHANGED <<status, attempts, group, groupStatus, lapsed, human, bound,
                   notice, written, pc, turn>>

LeaseExpires(g) ==
    /\ groupStatus[g] = "Processing"
    /\ g \notin lapsed
    /\ lapsed' = lapsed \cup {g}
    /\ UNCHANGED <<message, groupStatus, human, bound, notice, written, pc,
                   turn>>

-----------------------------------------------------------------------------
(***************************************************************************)
(* The worker: one tick recovers, lists, and processes the Conversation.   *)
(***************************************************************************)

\* Every tick begins here, and no turn of this process is running then.
RecoverExpiredClaims ==
    /\ pc = "idle"
    /\ LET expired == Processing \cap lapsed
       IN  /\ groupStatus' = [g \in Groups |->
                  IF g \in expired THEN "Failed" ELSE groupStatus[g]]
           /\ Requeue({m \in Messages : group[m] \in expired})
    /\ lapsed' = {}
    /\ pc' = "listing"
    /\ UNCHANGED <<human, bound, notice, written, turn>>

ListClaimable ==
    /\ pc = "listing"
    /\ pc' = IF Claimable THEN "claiming" ELSE "idle"
    /\ UNCHANGED <<lane, human, bound, notice, written, turn>>

\* The partial unique index refuses a second Processing group, and an empty
\* selection rolls back; neither can happen to the only worker.
Claim ==
    /\ pc = "claiming"
    /\ \E g \in Groups : groupStatus[g] = "Unused"
    /\ Processing = {}
    /\ Ripe # {}
    /\ groupStatus' = [groupStatus EXCEPT ![FreshGroup] = "Processing"]
    /\ status' = [m \in Messages |-> IF m \in Ripe THEN "Processing" ELSE status[m]]
    /\ group' = [m \in Messages |-> IF m \in Ripe THEN FreshGroup ELSE group[m]]
    /\ attempts' = [m \in Messages |->
                        IF m \in Ripe THEN attempts[m] + 1 ELSE attempts[m]]
    /\ timer' = [m \in Messages |-> IF m \in Ripe THEN "none" ELSE timer[m]]
    /\ mine' = FreshGroup
    /\ held' = Ripe
    /\ pc' = "authorizing"
    /\ UNCHANGED <<lapsed, human, bound, notice, written, offered, heard, draft,
                   owing>>

\* maia_may_reply(lock=True): an existing row stays locked until the worker's
\* next commit; an absent one leaves nothing to lock.
AuthorizeClaim ==
    /\ pc = "authorizing"
    /\ locked' = RowExists
    /\ pc' = IF MaiaMayReply THEN "attaching" ELSE "withholding"
    /\ UNCHANGED <<lane, handling, bound, notice, written, turn>>

\* Attaching commits only when Hermes answers with another durable session.
Attach ==
    /\ pc = "attaching"
    /\ \/ /\ bound
          /\ UNCHANGED <<bound, locked>>
       \/ /\ bound' = TRUE
          /\ locked' = FALSE
    /\ heard' = held
    /\ pc' = "composing"
    /\ UNCHANGED <<lane, handling, notice, written, mine, held, offered, draft,
                   owing>>

\* Inside the reconciliation window: peek, inject, and adopt on acceptance.
PeekPending ==
    /\ pc = "composing"
    /\ Pending # {}
    /\ offered' = Pending
    /\ pc' = "offering"
    /\ UNCHANGED <<lane, human, bound, notice, written, mine, held, heard, draft,
                   owing>>

InjectAccepted ==
    /\ pc = "offering"
    /\ heard' = heard \cup offered
    /\ pc' = "adopting"
    /\ UNCHANGED <<lane, human, bound, notice, written, mine, held, offered,
                   draft, owing>>

\* What Hermes refused is adopted all the same.
SlipAdoptRefused ==
    /\ pc = "offering"
    /\ pc' = "adopting"
    /\ UNCHANGED <<lane, human, bound, notice, written, turn>>

InjectRefused ==
    /\ pc = "offering"
    /\ offered' = {}
    /\ pc' = "composing"
    /\ UNCHANGED <<lane, human, bound, notice, written, mine, held, heard, draft,
                   owing>>

\* Joins the group without counting an attempt; the commit drops the lock.
Adopt ==
    /\ pc = "adopting"
    /\ status' = [m \in Messages |-> IF m \in offered THEN "Processing" ELSE status[m]]
    /\ group' = [m \in Messages |-> IF m \in offered THEN mine ELSE group[m]]
    /\ timer' = [m \in Messages |-> IF m \in offered THEN "none" ELSE timer[m]]
    /\ held' = held \cup offered
    /\ offered' = {}
    /\ locked' = FALSE
    /\ pc' = "composing"
    /\ UNCHANGED <<attempts, groupStatus, lapsed, handling, bound, notice,
                   written, mine, heard, draft, owing>>

TurnCompletes ==
    /\ pc = "composing"
    /\ draft' \in {"text", "empty"}
    /\ pc' = "covering"
    /\ UNCHANGED <<lane, human, bound, notice, written, mine, held, offered,
                   heard, owing>>

TurnFails ==
    /\ pc \in {"attaching", "composing", "offering"}
    /\ pc' = "failing"
    /\ UNCHANGED <<lane, human, bound, notice, written, turn>>

CheckCoverage ==
    /\ pc = "covering"
    /\ pc' = IF Pending # {} THEN "reconciling" ELSE "rechecking"
    /\ UNCHANGED <<lane, human, bound, notice, written, turn>>

SlipRecheckUnlocked ==
    /\ pc = "rechecking"
    /\ pc' = IF MaiaMayReply THEN "noticing" ELSE "withholding"
    /\ UNCHANGED <<lane, human, bound, notice, written, turn>>

RecheckHandling ==
    /\ pc = "rechecking"
    /\ locked' = RowExists
    /\ pc' = IF MaiaMayReply THEN "noticing" ELSE "withholding"
    /\ UNCHANGED <<lane, handling, bound, notice, written, turn>>

\* pending_lead_notice retires a lapsed notice with a commit of its own, which
\* drops the handling lock taken a moment before.
ReadNotice ==
    /\ pc = "noticing"
    /\ owing' = (notice = "owed")
    /\ notice' = IF notice = "lapsed" THEN "none" ELSE notice
    /\ locked' = (locked /\ notice # "lapsed")
    /\ pc' = IF notice # "owed" /\ draft = "empty" THEN "discarding"
                                                   ELSE "releasing"
    /\ UNCHANGED <<lane, handling, bound, written, mine, held, offered, heard,
                   draft>>

\* The eligibility gate queues the reply or records a denial; one commit.
Release ==
    /\ pc = "releasing"
    /\ \/ /\ written' = written \cup
                 {[kind |-> "reply", group |-> mine, covers |-> held]}
          /\ pc' = IF owing THEN "notifying" ELSE "settling"
       \/ /\ written' = written \cup
                 {[kind |-> "denial", group |-> mine, covers |-> held]}
          /\ pc' = "settling"
    /\ locked' = FALSE
    /\ UNCHANGED <<lane, handling, bound, notice, turn>>

MarkLeadNotified ==
    /\ pc = "notifying"
    /\ notice' = "none"
    /\ pc' = "settling"
    /\ UNCHANGED <<lane, human, bound, written, turn>>

\* A human holds the thread: audit, commit, and close without answering.
WithholdForHuman ==
    /\ pc = "withholding"
    /\ written' = written \cup
           {[kind |-> "withheld", group |-> mine, covers |-> held]}
    /\ locked' = FALSE
    /\ pc' = "settling"
    /\ UNCHANGED <<lane, handling, bound, notice, turn>>

SettleGroup ==
    /\ pc = "settling"
    /\ IF Fenced
         THEN /\ groupStatus' = [groupStatus EXCEPT ![mine] = "Settled"]
              /\ status' = [m \in Messages |->
                                IF m \in held THEN "Processed" ELSE status[m]]
              /\ lapsed' = lapsed \ {mine}
         ELSE UNCHANGED <<groupStatus, status, lapsed>>
    /\ Rested
    /\ UNCHANGED <<attempts, group, timer, handling, bound, notice,
                   written>>

\* The three ways a turn ends in inbox.fail: a late message was never adopted,
\* the draft was empty, or the turn raised.  Only the last can apologize.
FailGroup ==
    /\ pc \in {"reconciling", "discarding", "failing"}
    /\ IF Fenced
         THEN /\ groupStatus' = [groupStatus EXCEPT ![mine] = "Failed"]
              /\ Requeue(held)
              /\ lapsed' = lapsed \ {mine}
         ELSE UNCHANGED lane
    /\ IF pc = "failing" /\ Exhausted
         THEN pc' = "apologizing" /\ locked' = FALSE /\ UNCHANGED turn
         ELSE Rested
    /\ UNCHANGED <<handling, bound, notice, written>>

Apologize ==
    /\ pc = "apologizing"
    /\ \E kind \in {"apology", "denial"} :
           written' = written \cup
               {[kind |-> kind, group |-> mine, covers |-> held]}
    /\ Rested
    /\ UNCHANGED <<lane, handling, bound, notice>>

\* The process dies, shuts down, or an exception that _process_one does not
\* handle is swallowed by gather: the transaction rolls back and the group
\* stays Processing until its lease expires.
Interrupt ==
    /\ MayCrash
    /\ pc \notin {"idle", "listing", "claiming"}
    /\ Rested
    /\ UNCHANGED <<lane, handling, bound, notice, written>>

-----------------------------------------------------------------------------
WorkerStep ==
    \/ RecoverExpiredClaims \/ ListClaimable \/ Claim
    \/ AuthorizeClaim \/ Attach
    \/ PeekPending \/ InjectAccepted \/ InjectRefused \/ Adopt
    \/ TurnCompletes \/ TurnFails
    \/ CheckCoverage \/ RecheckHandling \/ ReadNotice
    \/ Release \/ MarkLeadNotified \/ WithholdForHuman
    \/ SettleGroup \/ FailGroup \/ Apologize

Environment ==
    \/ \E m \in Messages : Accept(m) \/ TimerElapses(m)
    \/ \E g \in Groups : LeaseExpires(g)
    \/ TakeHandling
    \/ \E mode \in HandlingModes : ReleaseHandling(mode)
    \/ ToolRequestsHandoff
    \/ NoticeBecomesDue \/ NoticeLapses
    \/ Interrupt

Next == WorkerStep \/ Environment

Spec == Init /\ [][Next]_vars

\* The loop ticks and every call it makes returns; a turn is cut off by
\* TURN_TIMEOUT_SECONDS however often the window polls; clocks advance.
\* Nothing is assumed of customers, humans, tools or crashes.
Fairness ==
    /\ WF_vars(WorkerStep)
    /\ SF_vars(TurnCompletes \/ TurnFails)
    /\ \A m \in Messages : WF_vars(TimerElapses(m))
    /\ \A g \in Groups : WF_vars(LeaseExpires(g))

FairSpec == Spec /\ Fairness

-----------------------------------------------------------------------------
(***************************************************************************)
(* Properties.                                                             *)
(***************************************************************************)

\* No message is stranded: a Processing message belongs to a group that is
\* still Processing, so settlement or recovery will reach it, and the lane has
\* one such group.  (inbox.py, claim, adopt, settle, fail, recovery)
NoMessageStranded ==
    /\ \A g, h \in Processing : g = h
    /\ \A m \in Messages : status[m] = "Processing" => group[m] \in Processing

\* Nothing is silently acknowledged: a Processed message names a group about
\* which a reply, a denial or a withholding was durably written, and that row
\* covers it.  (whatsapp.py, _settle and _withhold_for_human)
ProcessedIsAccountedFor ==
    \A m \in Messages : status[m] = "Processed" =>
        \E r \in written : /\ r.kind # "apology"
                           /\ r.group = group[m]
                           /\ m \in r.covers

\* The processing-failure notice is sent only about messages that will in fact
\* not be tried again.  (whatsapp.py, _handle_failure)
ApologyIsHonest ==
    \A r \in written : r.kind = "apology" =>
        \A m \in r.covers : status[m] = "Failed"

\* A reply names as its triggers exactly the messages the model was given: an
\* injected fragment is in both, a refused one in neither.  (whatsapp.py,
\* offer_late_messages and adopt_offered)
ReplyCoversWhatWasHeard == pc = "releasing" => heard = held

\* One inbound message is answered by at most one reply.  (whatsapp.py:527)
AnsweredAtMostOnce ==
    \A r, s \in {w \in written : w.kind = "reply"} :
        r.covers \cap s.covers # {} => r = s

\* A message whose reply is committed is not given to another turn, nor
\* retired as Failed and apologized for.  (whatsapp.py:526, inbox.py, fail)
AnsweredIsNeverRetried ==
    \A r \in written : r.kind = "reply" =>
        \A m \in r.covers : status[m] \notin {"Pending", "Failed"}

\* Once a message is Processed or Failed, nothing reopens it.
TerminalIsFinal ==
    [][\A m \in Messages :
           status[m] \in {"Processed", "Failed"} => status'[m] = status[m]]_vars

\* A reply is committed only while Maia holds the Conversation: the human who
\* takes over before the commit wins.  (whatsapp.py:456, handling.py:19)
HumanWins ==
    [][\A r \in written' \ written : r.kind = "reply" => MaiaMayReply]_vars

\* What the lane is seen to do: the open group is the turn there is, and the
\* other groups that were claimed are over.
Promise == INSTANCE LanePromise WITH
             Turns <- Groups,
             fate <- status,
             open <- Processing,
             over <- {g \in Groups : groupStatus[g] \in {"Settled", "Failed"}},
             said <- written

\* Claims, leases, late messages, crashes and recovery together are a lane that
\* takes turns: one at a time, each with one word about exactly what it holds.
\* (inbox.py and whatsapp.py, every commit of a turn)
KeepsTheLanePromise == Promise!LanePromiseSpec

\* Every waiting message is answered or retired, unless the Conversation stops
\* being Maia's to answer.
EventuallyResolved ==
    \A m \in Messages :
        status[m] = "Pending" ~>
            status[m] \in {"Processed", "Failed"} \/ ~MaiaMayReply
=============================================================================
