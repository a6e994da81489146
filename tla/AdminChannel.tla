---------------------------- MODULE AdminChannel ----------------------------
(***************************************************************************)
(* The Telegram channel of the Administrators (worker/telegram.py).  Each  *)
(* update is recorded before it is acted on, and the cursor moves past it  *)
(* whatever came of it.  Telegram delivers again what the cursor has not   *)
(* passed, so a worker that died meets its last update a second time.      *)
(*                                                                         *)
(* A definition named Slip... is the one below it with a plausible bug.    *)
(***************************************************************************)
EXTENDS Naturals

CONSTANTS
    MaxUpdates,        \* bound: messages sent to the bot
    MaxChannelCrashes  \* bound: times the worker dies

ASSUME ChannelBounds == MaxUpdates \in Nat /\ MaxChannelCrashes \in Nat

VARIABLES
    allowed,       \* each update is a text of an Administrator
    sent,          \* updates sent so far
    cursor,        \* the last update the cursor has passed
    recorded,      \* updates with an AdminMessage row
    processed,     \* rows with processed_at
    turns,         \* Hermes turns run for each update
    handling,      \* what the worker does next with the one after the cursor
    channelCrashes

channelVars == <<allowed, sent, cursor, recorded, processed, turns, handling, channelCrashes>>

Updates == 1..MaxUpdates
Current == cursor + 1

-----------------------------------------------------------------------------
SendUpdate ==
    /\ sent < MaxUpdates
    /\ sent' = sent + 1
    /\ UNCHANGED <<allowed, cursor, recorded, processed, turns, handling, channelCrashes>>

\* A row that exists already is taken for an update that was acted on.
SeenBefore ==
    /\ handling = "Idle"
    /\ Current <= sent
    /\ Current \in recorded
    /\ cursor' = Current
    /\ UNCHANGED <<allowed, sent, recorded, processed, turns, handling, channelCrashes>>

\* The update is recorded once its turn has been run.
SlipRecordUpdate ==
    /\ handling = "Idle"
    /\ Current <= sent
    /\ Current \notin recorded
    /\ handling' = IF allowed[Current] THEN "Turn" ELSE "Advance"
    /\ UNCHANGED <<allowed, sent, cursor, recorded, processed, turns, channelCrashes>>

RecordUpdate ==
    /\ handling = "Idle"
    /\ Current <= sent
    /\ Current \notin recorded
    /\ recorded' = recorded \cup {Current}
    /\ handling' = IF allowed[Current] THEN "Turn" ELSE "Advance"
    /\ UNCHANGED <<allowed, sent, cursor, processed, turns, channelCrashes>>

\* The Model may use its tools; the answer may still fail or be refused.
RunAdminTurn ==
    /\ handling = "Turn"
    /\ turns' = [turns EXCEPT ![Current] = @ + 1]
    /\ handling' = "Reply"
    /\ UNCHANGED <<allowed, sent, cursor, recorded, processed, channelCrashes>>

\* Without an exception the row is processed, the reply delivered or not.
FinishUpdate(failed) ==
    /\ handling = "Reply"
    /\ processed' = IF failed THEN processed ELSE processed \cup {Current}
    /\ handling' = "Advance"
    /\ UNCHANGED <<allowed, sent, cursor, recorded, turns, channelCrashes>>

AdvanceCursor ==
    /\ handling = "Advance"
    /\ cursor' = Current
    /\ handling' = "Idle"
    /\ UNCHANGED <<allowed, sent, recorded, processed, turns, channelCrashes>>

KillChannelWorker ==
    /\ handling # "Idle"
    /\ channelCrashes < MaxChannelCrashes
    /\ channelCrashes' = channelCrashes + 1
    /\ handling' = "Idle"
    /\ UNCHANGED <<allowed, sent, cursor, recorded, processed, turns>>

-----------------------------------------------------------------------------
ChannelInit ==
    /\ allowed \in [Updates -> BOOLEAN]
    /\ sent = 0
    /\ cursor = 0
    /\ recorded = {}
    /\ processed = {}
    /\ turns = [u \in Updates |-> 0]
    /\ handling = "Idle"
    /\ channelCrashes = 0

HandleUpdate ==
    \/ SeenBefore
    \/ RecordUpdate
    \/ RunAdminTurn
    \/ \E failed \in BOOLEAN : FinishUpdate(failed)

ChannelNext ==
    \/ SendUpdate
    \/ HandleUpdate
    \/ AdvanceCursor
    \/ KillChannelWorker

ChannelSpec == ChannelInit /\ [][ChannelNext]_channelVars

-----------------------------------------------------------------------------
ChannelTypeOK ==
    /\ allowed \in [Updates -> BOOLEAN]
    /\ sent \in 0..MaxUpdates /\ cursor \in 0..sent
    /\ recorded \subseteq Updates /\ processed \subseteq Updates
    /\ turns \in [Updates -> Nat]
    /\ handling \in {"Idle", "Turn", "Reply", "Advance"}
    /\ channelCrashes \in 0..MaxChannelCrashes

\* What an Administrator orders is carried out at most once, and only if an
\* Administrator ordered it, however often the worker dies and Telegram
\* delivers the message again.
OrdersAreCarriedOutOnce ==
    \A u \in Updates : turns[u] <= (IF allowed[u] THEN 1 ELSE 0)

\* What the comment on a repeated update says: it has been acted on.
PassedOrdersWereActedOn ==
    \A u \in Updates : u <= cursor /\ allowed[u] => turns[u] > 0
=============================================================================
