---------------------------- MODULE WebsiteChat ----------------------------
(***************************************************************************)
(* The anonymous conversation of the public website                        *)
(* (domain/public/website_conversation.py, handoff.py, worker/website.py). *)
(*                                                                         *)
(* A turn is queued by the site, claimed by one worker in a transaction    *)
(* and answered in the next one, which is open for as long as Hermes       *)
(* takes.  That transaction locks the conversation only when the turn      *)
(* brings Listings the conversation did not have ("pinned").  The person   *)
(* may meanwhile end the conversation, ask for its content to be erased    *)
(* or continue it on WhatsApp with a reference.                            *)
(*                                                                         *)
(* A definition named Slip... is the one below it with a plausible bug.    *)
(***************************************************************************)
EXTENDS Naturals

CONSTANTS
    MaxTurns,       \* bound: turns the person sends
    References,     \* continuity references the site issues
    Senders,        \* Contacts that WhatsApp has authenticated
    Anonymous,      \* no Contact
    MaxCrashes      \* bound: times the worker dies

ASSUME WebsiteBounds ==
    /\ MaxTurns \in Nat /\ MaxCrashes \in Nat
    /\ Anonymous \notin Senders

VARIABLES
    chat,        \* status of the conversation, "None" before it exists
    verified,    \* its verified_contact_id
    erasure,     \* the person asked for what was said so far to be erased
    turn,        \* status of each turn request
    body,        \* what website_messages keeps of it
    answering,   \* the turn Hermes is answering, 0 for none
    pinned,      \* that transaction holds the conversation's row
    reference,   \* each reference: None, Issued, Consumed or Expired
    webCrashes

websiteVars == <<chat, verified, erasure, turn, body, answering, pinned, reference, webCrashes>>

TurnIds == 1..MaxTurns
TurnStatuses == {"None", "Pending", "Running", "Complete", "Failed"}
ChatStatuses == {"None", "Open", "HandoffPending", "Verified", "Closed"}
Finished == {"Complete", "Failed"}

Answering == answering # 0
Waiting == {t \in TurnIds : turn[t] = "Pending"}
Fresh == {t \in TurnIds : turn[t] = "None"}
First(S) == CHOOSE t \in S : \A other \in S : t <= other

-----------------------------------------------------------------------------
\* POST /conversation/turns; the row is locked, and created if need be.
EnqueueTurn ==
    /\ Fresh # {}
    /\ ~pinned
    /\ chat # "Closed"
    /\ chat' = IF chat = "None" THEN "Open" ELSE chat
    /\ turn' = [turn EXCEPT ![First(Fresh)] = "Pending"]
    /\ erasure' = FALSE
    /\ UNCHANGED <<verified, body, answering, pinned, reference, webCrashes>>

\* POST /conversation: no request is queued, and the row stays locked until
\* the answer is stored.  A message with personal data stores nothing.
HandleTurn(keeps) ==
    /\ Fresh # {}
    /\ ~pinned
    /\ chat # "Closed"
    /\ chat' = IF chat = "None" THEN "Open" ELSE chat
    /\ turn' = [turn EXCEPT ![First(Fresh)] = "Complete"]
    /\ body' = [body EXCEPT ![First(Fresh)] = IF keeps THEN "Kept" ELSE "None"]
    /\ erasure' = FALSE
    /\ UNCHANGED <<verified, answering, pinned, reference, webCrashes>>

ClaimTurn ==
    /\ ~Answering
    /\ Waiting # {}
    /\ turn' = [turn EXCEPT ![First(Waiting)] = "Running"]
    /\ answering' = First(Waiting)
    /\ pinned' = FALSE
    /\ UNCHANGED <<chat, verified, erasure, body, reference, webCrashes>>

\* The turn brings a Listing to the conversation, whose row it now holds.
PinConversation ==
    /\ Answering
    /\ chat # "Closed"
    /\ ~pinned
    /\ pinned' = TRUE
    /\ UNCHANGED <<chat, verified, erasure, turn, body, answering, reference, webCrashes>>

\* The status of the conversation is not read again.
AnswerTurn(keeps) ==
    /\ Answering
    /\ turn' = [turn EXCEPT ![answering] = "Complete"]
    /\ body' = [body EXCEPT ![answering] = IF keeps THEN "Kept" ELSE @]
    /\ answering' = 0
    /\ pinned' = FALSE
    /\ UNCHANGED <<chat, verified, erasure, reference, webCrashes>>

\* The conversation was closed before the turn began, or Hermes failed.
FailTurn ==
    /\ Answering
    /\ turn' = [turn EXCEPT ![answering] = "Failed"]
    /\ answering' = 0
    /\ pinned' = FALSE
    /\ UNCHANGED <<chat, verified, erasure, body, reference, webCrashes>>

\* Nothing looks for Running turns when the worker comes back.
KillWebsiteWorker ==
    /\ Answering
    /\ webCrashes < MaxCrashes
    /\ webCrashes' = webCrashes + 1
    /\ answering' = 0
    /\ pinned' = FALSE
    /\ UNCHANGED <<chat, verified, erasure, turn, body, reference>>

-----------------------------------------------------------------------------
\* Every turn that is not over is failed, the one being answered included.
SlipCloseChat(erase) ==
    /\ chat \notin {"None"}
    /\ ~pinned
    /\ chat' = "Closed"
    /\ turn' = [t \in TurnIds |-> IF turn[t] \in {"Pending", "Running"} THEN "Failed" ELSE turn[t]]
    /\ body' = [t \in TurnIds |-> IF erase /\ body[t] = "Kept" THEN "Erased" ELSE body[t]]
    /\ erasure' = (erasure \/ erase)
    /\ UNCHANGED <<verified, answering, pinned, reference, webCrashes>>

CloseChat(erase) ==
    /\ chat \notin {"None"}
    /\ ~pinned
    /\ chat' = "Closed"
    /\ turn' = [t \in TurnIds |-> IF turn[t] = "Pending" THEN "Failed" ELSE turn[t]]
    /\ body' = [t \in TurnIds |-> IF erase /\ body[t] = "Kept" THEN "Erased" ELSE body[t]]
    /\ erasure' = (erasure \/ erase)
    /\ UNCHANGED <<verified, answering, pinned, reference, webCrashes>>

\* ChannelHandoff.create; the table refuses HandoffPending once a Contact is
\* known.
IssueReference(r) ==
    /\ reference[r] = "None"
    /\ chat # "None"
    /\ verified = Anonymous
    /\ ~pinned
    /\ reference' = [reference EXCEPT ![r] = "Issued"]
    /\ chat' = "HandoffPending"
    /\ UNCHANGED <<verified, erasure, turn, body, answering, pinned, webCrashes>>

\* ChannelHandoff.resolve, when the message with the reference is accepted.
ResolveReference(r, sender) ==
    /\ reference[r] = "Issued"
    /\ ~pinned
    /\ reference' = [reference EXCEPT ![r] = "Consumed"]
    /\ verified' = sender
    /\ chat' = "Verified"
    /\ UNCHANGED <<erasure, turn, body, answering, pinned, webCrashes>>

\* A reference that names the conversation and a Listing, which is no longer
\* public: the inbox catches the error and commits what was done so far.
ResolveHalfway(r, sender) ==
    /\ reference[r] = "Issued"
    /\ ~pinned
    /\ verified' = sender
    /\ chat' = "Verified"
    /\ UNCHANGED <<erasure, turn, body, answering, pinned, reference, webCrashes>>

ExpireReference(r) ==
    /\ reference[r] = "Issued"
    /\ reference' = [reference EXCEPT ![r] = "Expired"]
    /\ UNCHANGED <<chat, verified, erasure, turn, body, answering, pinned, webCrashes>>

-----------------------------------------------------------------------------
WebsiteInit ==
    /\ chat = "None"
    /\ verified = Anonymous
    /\ erasure = FALSE
    /\ turn = [t \in TurnIds |-> "None"]
    /\ body = [t \in TurnIds |-> "None"]
    /\ answering = 0
    /\ pinned = FALSE
    /\ reference = [r \in References |-> "None"]
    /\ webCrashes = 0

WebsiteWorkerStep ==
    \/ ClaimTurn
    \/ PinConversation
    \/ \E keeps \in BOOLEAN : AnswerTurn(keeps)
    \/ FailTurn
    \/ KillWebsiteWorker

WebsiteVisitorStep ==
    \/ EnqueueTurn
    \/ \E keeps \in BOOLEAN : HandleTurn(keeps)
    \/ \E erase \in BOOLEAN : CloseChat(erase)

ReferenceStep(r) ==
    \/ IssueReference(r)
    \/ \E sender \in Senders : ResolveReference(r, sender) \/ ResolveHalfway(r, sender)
    \/ ExpireReference(r)

WebsiteNext ==
    \/ WebsiteWorkerStep
    \/ WebsiteVisitorStep
    \/ \E r \in References : ReferenceStep(r)

WebsiteSpec == WebsiteInit /\ [][WebsiteNext]_websiteVars

-----------------------------------------------------------------------------
WebsiteTypeOK ==
    /\ chat \in ChatStatuses
    /\ verified \in Senders \cup {Anonymous}
    /\ erasure \in BOOLEAN
    /\ turn \in [TurnIds -> TurnStatuses]
    /\ body \in [TurnIds -> {"None", "Kept", "Erased"}]
    /\ answering \in 0..MaxTurns
    /\ pinned \in BOOLEAN
    /\ reference \in [References -> {"None", "Issued", "Consumed", "Expired"}]
    /\ webCrashes \in 0..MaxCrashes

\* A turn the site has been told is over is never answered, failed or queued
\* again, whoever finishes it: the worker, the person who closes the
\* conversation, or a worker that comes back.
TurnsEndOnce ==
    [][\A t \in TurnIds : turn[t] \in Finished => turn'[t] = turn[t]]_websiteVars

\* What the site tells the person: a conversation that ended stays ended.
ClosedChatStaysClosed ==
    [][chat = "Closed" => chat' = "Closed"]_websiteVars

\* What the site tells the person who asked for it: the content of an ended
\* conversation has been erased.
ErasedStaysErased ==
    erasure /\ chat = "Closed" => \A t \in TurnIds : body[t] # "Kept"

\* What the module says of a reference: it is single-use, so a Contact is
\* verified only by one that is spent.
VerifiedBySpentReference ==
    verified # Anonymous => \E r \in References : reference[r] = "Consumed"
=============================================================================
