------------------------ MODULE OutboxDeliveryProofs ------------------------
(***************************************************************************)
(* The Outbox's safety, proved for any rows and any bounds: no row is      *)
(* shown twice, the ledger is true, nothing is sent after a stop, and the  *)
(* drain implements OutboxPromise.                                         *)
(***************************************************************************)
EXTENDS OutboxDelivery, TLAPS

\* A row the drain has claimed and not yet handed to the provider.
Unhanded(r) == r \in batch /\ ~(pc = "recording" /\ r = current)

\* Claimed rows are Sending, and the drain claims only when it holds none.
BatchIsSending ==
    /\ \A r \in batch : status[r] = "Sending"
    /\ pc \in {"idle", "claiming"} => batch = {}

\* Each attempt allows one request, and waiting rows have attempts left.
AttemptsBound ==
    \A r \in Rows :
        /\ status[r] \in {"Absent", "Denied"} => attempts[r] = 0
        /\ status[r] = "Pending" => attempts[r] < MaxAttempts
        /\ calls[r] <= attempts[r]
        /\ Unhanded(r) => calls[r] < attempts[r]

\* What the drain remembers about a claimed row agrees with the provider.
AnswerIsHonest ==
    /\ \A r \in Rows : Unhanded(r) => accepted[r] = 0
    /\ answer = "sent" => accepted[current] = 1
    /\ answer \in {"retryable", "permanent"} => accepted[current] = 0

\* The locks keep what the delivery-time check has established.
CallIsAllowed ==
    pc = "calling" =>
        /\ current \in BusinessInitiated => ~suppressed
        /\ current \in Marketing => ~Stopped

OutboxInv ==
    /\ TypeOK
    /\ BatchIsSending
    /\ AttemptsBound
    /\ AnswerIsHonest
    /\ CallIsAllowed
    /\ VisibleAtMostOnce
    /\ LedgerIsTrue

-----------------------------------------------------------------------------
\* The invariant holds before anything is written.
LEMMA InitInv == Init => OutboxInv
<1> SUFFICES ASSUME Init PROVE OutboxInv
  OBVIOUS
<1> USE BoundsAssumption, MaxAttemptsAssumption DEF Init
<1>1. status \in [Rows -> Statuses] /\ member \in
        [Rows -> {"none", "Included", "Denied", "Queued", "Responded"}]
  BY DEF Statuses
<1>2. attempts \in [Rows -> 0 .. MaxAttempts] /\ calls \in [Rows -> 0 .. MaxAttempts]
  OBVIOUS
<1>3. created \in [Rows -> 0 .. MaxClock] /\ opened \in [Rows -> 0 .. MaxClock]
  OBVIOUS
<1>4. TypeOK
  <2>1. due \in [Rows -> BOOLEAN] /\ accepted \in [Rows -> Nat]
    OBVIOUS
  <2>2. batch \subseteq Rows /\ current \in IF LeadLocked THEN batch ELSE {NoRow}
    BY DEF LeadLocked
  <2>3. {clock, arriving, inbound} \subseteq 0 .. MaxClock /\ interrupts \in 0 .. MaxInterrupts
    OBVIOUS
  <2> QED  BY <1>1, <1>2, <1>3, <2>1, <2>2, <2>3 DEF TypeOK
<1>5. BatchIsSending /\ AnswerIsHonest /\ CallIsAllowed
  BY DEF BatchIsSending, AnswerIsHonest, CallIsAllowed, Unhanded
<1>6. AttemptsBound
  BY DEF AttemptsBound, Unhanded
<1>7. VisibleAtMostOnce /\ LedgerIsTrue
  BY DEF VisibleAtMostOnce, LedgerIsTrue
<1> QED  BY <1>4, <1>5, <1>6, <1>7 DEF OutboxInv

\* The gate and the world outside leave the drain's side of the story alone.
LEMMA EnvironmentInv ==
  ASSUME OutboxInv, Environment PROVE OutboxInv'
<1> USE BoundsAssumption, MaxAttemptsAssumption, KindsAssumption
    DEF OutboxInv, row, gate, contact, drain, provider
<1>1. ASSUME NEW r \in Rows, Begin(r) PROVE OutboxInv'
  BY <1>1 DEF Begin, TypeOK, BatchIsSending, AttemptsBound, AnswerIsHonest,
     CallIsAllowed, VisibleAtMostOnce, LedgerIsTrue, LeadLocked, Unhanded, Stopped
<1>2. ASSUME NEW r \in Rows, Request(r) PROVE OutboxInv'
  <2>1. status[r] = "Absent" /\ ~LeadLocked /\ pc' = pc
    BY <1>2 DEF Request, Open
  <2>2. r \notin batch
    BY <2>1 DEF BatchIsSending
  <2>3. \A q \in Rows : q # r => status'[q] = status[q]
    BY <1>2 DEF Request, TypeOK
  <2>4. status'[r] \in {"Pending", "Denied"}
    BY <1>2 DEF Request, TypeOK
  <2>5. TypeOK'
    <3>1. status' \in [Rows -> Statuses] /\ due' \in [Rows -> BOOLEAN]
      BY <1>2 DEF Request, TypeOK, Statuses, RequestDenied, OutreachRefused,
         WindowRefused
    <3>2. created' \in [Rows -> 0 .. MaxClock]
      BY <1>2 DEF Request, TypeOK
    <3>3. member' \in [Rows -> {"none", "Included", "Denied", "Queued", "Responded"}]
      BY <1>2 DEF Request, TypeOK
    <3>4. campaign' \in {"Active", "Paused", "Cancelled", "Completed"}
      BY <1>2 DEF Request, TypeOK
    <3> QED  BY <1>2, <3>1, <3>2, <3>3, <3>4 DEF Request, TypeOK, LeadLocked
  <2>6. BatchIsSending'
    BY <1>2, <2>2, <2>3 DEF Request, BatchIsSending, TypeOK
  <2>7. AttemptsBound'
    BY <1>2, <2>1, <2>3, <2>4 DEF Request, AttemptsBound, Unhanded, TypeOK
  <2>8. AnswerIsHonest' /\ VisibleAtMostOnce'
    BY <1>2 DEF Request, AnswerIsHonest, VisibleAtMostOnce, Unhanded
  <2>9. CallIsAllowed'
    BY <2>1 DEF CallIsAllowed, LeadLocked
  <2>10. LedgerIsTrue'
    BY <1>2, <2>1, <2>3, <2>4 DEF Request, LedgerIsTrue, TypeOK
  <2> QED  BY <2>5, <2>6, <2>7, <2>8, <2>9, <2>10
<1>3. ASSUME NEW r \in Rows, BackoffElapses(r) PROVE OutboxInv'
  BY <1>3 DEF BackoffElapses, TypeOK, BatchIsSending, AttemptsBound,
     AnswerIsHonest, CallIsAllowed, VisibleAtMostOnce, LedgerIsTrue, LeadLocked,
     Unhanded, Stopped
<1>4. CASE Arrive
  BY <1>4 DEF Arrive, TypeOK, BatchIsSending, AttemptsBound, AnswerIsHonest,
     CallIsAllowed, VisibleAtMostOnce, LedgerIsTrue, LeadLocked, Unhanded, Stopped
<1>5. ASSUME NEW optsOut \in BOOLEAN, Accept(optsOut) PROVE OutboxInv'
  <2>1. member' \in [Rows -> {"none", "Included", "Denied", "Queued", "Responded"}]
    BY <1>5 DEF Accept, TypeOK
  <2>2. TypeOK'
    BY <1>5, <2>1 DEF Accept, TypeOK, LeadLocked
  <2>3. CallIsAllowed'
    BY <1>5 DEF Accept, CallIsAllowed, LeadLocked
  <2>4. UNCHANGED <<status, attempts, batch, pc, current, answer, calls, accepted>>
    BY <1>5 DEF Accept
  <2>5. BatchIsSending' /\ AttemptsBound' /\ AnswerIsHonest'
    BY <2>4 DEF BatchIsSending, AttemptsBound, AnswerIsHonest, Unhanded
  <2>6. VisibleAtMostOnce' /\ LedgerIsTrue'
    BY <2>4 DEF VisibleAtMostOnce, LedgerIsTrue
  <2> QED  BY <2>2, <2>3, <2>5, <2>6
<1>6. CASE WindowCloses \/ EvidenceLapses
  <2>1. TypeOK'
    BY <1>6 DEF WindowCloses, EvidenceLapses, TypeOK, LeadLocked
  <2>2. UNCHANGED <<status, attempts, drain, calls, accepted, suppressed, campaign>>
    BY <1>6 DEF WindowCloses, EvidenceLapses
  <2>3. BatchIsSending' /\ AttemptsBound' /\ AnswerIsHonest' /\ CallIsAllowed'
    BY <2>2 DEF BatchIsSending, AttemptsBound, AnswerIsHonest, Unhanded,
       CallIsAllowed, Stopped
  <2>4. VisibleAtMostOnce' /\ LedgerIsTrue'
    BY <2>2 DEF VisibleAtMostOnce, LedgerIsTrue
  <2> QED  BY <2>1, <2>3, <2>4
<1>7. CASE Pause \/ Resume \/ Cancel
  <2>1. campaign' \in {"Active", "Paused", "Cancelled"} /\ ~CampaignLocked
    BY <1>7 DEF Pause, Resume, Cancel, CampaignMoves
  <2>2. CallIsAllowed'
    BY <1>7, <2>1 DEF Pause, Resume, Cancel, CampaignMoves, CallIsAllowed,
       CampaignLocked, LeadLocked, Stopped
  <2> QED
    BY <1>7, <2>1, <2>2 DEF Pause, Resume, Cancel, CampaignMoves, TypeOK,
       BatchIsSending, AttemptsBound, AnswerIsHonest, VisibleAtMostOnce,
       LedgerIsTrue, LeadLocked, Unhanded
<1>8. CASE Interrupt
  BY <1>8 DEF Interrupt, TypeOK, BatchIsSending, AttemptsBound, AnswerIsHonest,
     CallIsAllowed, VisibleAtMostOnce, LedgerIsTrue, LeadLocked, Unhanded, Stopped
<1> QED
  BY <1>1, <1>2, <1>3, <1>4, <1>5, <1>6, <1>7, <1>8 DEF Environment

-----------------------------------------------------------------------------
\* The drain's own steps.
LEMMA DrainInv ==
  ASSUME OutboxInv, DrainStep PROVE OutboxInv'
<1> USE BoundsAssumption, MaxAttemptsAssumption, KindsAssumption
    DEF OutboxInv, row, gate, contact, drain, provider
<1>1. CASE RecoverAbandonedSends
  <2> USE <1>1 DEF RecoverAbandonedSends, Quarantined, Abandoned
  <2>1. \A r \in Rows : status'[r] = IF status[r] = "Sending" THEN "DeliveryUnknown"
                                                            ELSE status[r]
    OBVIOUS
  <2>2. status' \in [Rows -> Statuses] /\ due' \in [Rows -> BOOLEAN]
    BY DEF TypeOK, Statuses
  <2>3. TypeOK'
    BY <2>2 DEF TypeOK, LeadLocked
  <2>4. BatchIsSending' /\ CallIsAllowed'
    BY DEF BatchIsSending, CallIsAllowed
  <2>5. AttemptsBound' /\ AnswerIsHonest'
    BY <2>1 DEF AttemptsBound, AnswerIsHonest, Unhanded, BatchIsSending, TypeOK
  <2>6. VisibleAtMostOnce' /\ LedgerIsTrue'
    BY <2>1 DEF VisibleAtMostOnce, LedgerIsTrue
  <2> QED  BY <2>3, <2>4, <2>5, <2>6
<1>2. CASE ClaimDue
  <2> USE <1>2 DEF ClaimDue
  <2>1. Claimed \subseteq Rows /\ \A r \in Claimed : status[r] = "Pending"
    BY DEF Claimed, Due
  <2>2. \A r \in Rows :
          /\ status'[r] = IF r \in Claimed THEN "Sending" ELSE status[r]
          /\ attempts'[r] = IF r \in Claimed THEN attempts[r] + 1 ELSE attempts[r]
    OBVIOUS
  <2>3. attempts' \in [Rows -> 0 .. MaxAttempts] /\ status' \in [Rows -> Statuses]
    BY <2>1 DEF TypeOK, AttemptsBound, Statuses
  <2>4. TypeOK'
    BY <2>1, <2>3 DEF TypeOK, LeadLocked
  <2>5. BatchIsSending' /\ CallIsAllowed'
    BY <2>1, <2>2 DEF BatchIsSending, CallIsAllowed
  <2>6. AttemptsBound'
    BY <2>1, <2>2 DEF AttemptsBound, Unhanded, BatchIsSending, TypeOK
  <2>7. AnswerIsHonest'
    BY <2>1 DEF AnswerIsHonest, LedgerIsTrue, Unhanded, TypeOK
  <2>8. VisibleAtMostOnce' /\ LedgerIsTrue'
    BY <2>1, <2>2 DEF VisibleAtMostOnce, LedgerIsTrue
  <2> QED  BY <2>4, <2>5, <2>6, <2>7, <2>8
<1>3. ASSUME NEW r \in Rows, Block(r) PROVE OutboxInv'
  <2> USE <1>3 DEF Block, InTurn, Finish
  <2>1. r \in batch /\ status[r] = "Sending" /\ Unhanded(r) /\ pc = "next"
    BY DEF BatchIsSending, Unhanded
  <2>2. status' = [status EXCEPT ![r] = "Failed"] /\ batch' = batch \ {r}
    OBVIOUS
  <2>3. status' \in [Rows -> Statuses] /\ due' \in [Rows -> BOOLEAN]
    BY DEF TypeOK, Statuses
  <2>4. TypeOK'
    BY <2>3 DEF TypeOK, LeadLocked
  <2>5. BatchIsSending' /\ CallIsAllowed'
    BY <2>1, <2>2 DEF BatchIsSending, CallIsAllowed, TypeOK
  <2>6. AttemptsBound'
    BY <2>1, <2>2 DEF AttemptsBound, Unhanded, TypeOK
  <2>7. AnswerIsHonest'
    BY <2>1, <2>2 DEF AnswerIsHonest, Unhanded, TypeOK
  <2>8. VisibleAtMostOnce' /\ LedgerIsTrue'
    BY <2>1, <2>2 DEF VisibleAtMostOnce, LedgerIsTrue, AnswerIsHonest, TypeOK
  <2> QED  BY <2>4, <2>5, <2>6, <2>7, <2>8
<1>4. ASSUME NEW r \in Rows, PrepareDelivery(r) PROVE OutboxInv'
  <2> USE <1>4 DEF PrepareDelivery, InTurn
  <2>1. TypeOK'
    BY DEF TypeOK, LeadLocked
  <2>2. BatchIsSending'
    BY DEF BatchIsSending
  <2>3. AttemptsBound' /\ AnswerIsHonest'
    BY DEF AttemptsBound, AnswerIsHonest, Unhanded, TypeOK
  <2>4. CallIsAllowed'
    BY DEF CallIsAllowed, DeliveryDenied, OutreachRefused, Stopped
  <2> QED  BY <2>1, <2>2, <2>3, <2>4 DEF VisibleAtMostOnce, LedgerIsTrue
<1>5. CASE SenderUnavailable
  BY <1>5 DEF SenderUnavailable, TypeOK, LeadLocked, BatchIsSending, AttemptsBound,
     AnswerIsHonest, Unhanded, CallIsAllowed, VisibleAtMostOnce, LedgerIsTrue
<1>6. ASSUME NEW taken \in BOOLEAN, CallProvider(taken) PROVE OutboxInv'
  <2> USE <1>6 DEF CallProvider
  <2>1. current \in batch /\ current \in Rows /\ Unhanded(current)
    BY DEF TypeOK, LeadLocked, Unhanded
  <2>2. calls[current] < attempts[current] /\ accepted[current] = 0
    BY <2>1 DEF AttemptsBound, AnswerIsHonest
  <2>3. /\ \A q \in Rows \ {current} :
              calls'[q] = calls[q] /\ accepted'[q] = accepted[q]
        /\ calls'[current] = calls[current] + 1
        /\ accepted'[current] = IF taken THEN 1 ELSE 0
    BY <2>1, <2>2 DEF TypeOK
  <2>4. calls' \in [Rows -> 0 .. MaxAttempts] /\ accepted' \in [Rows -> Nat]
    BY <2>1, <2>2 DEF TypeOK
  <2>5. TypeOK'
    BY <2>4 DEF TypeOK, LeadLocked, Answers
  <2>6. BatchIsSending' /\ CallIsAllowed'
    BY DEF BatchIsSending, CallIsAllowed
  <2>7. AttemptsBound'
    BY <2>1, <2>2, <2>3, <2>5 DEF AttemptsBound, Unhanded, TypeOK
  <2>8. AnswerIsHonest'
    BY <2>1, <2>3 DEF AnswerIsHonest, Unhanded, Answers
  <2>9. VisibleAtMostOnce' /\ LedgerIsTrue'
    BY <2>1, <2>3 DEF VisibleAtMostOnce, LedgerIsTrue, BatchIsSending
  <2> QED  BY <2>5, <2>6, <2>7, <2>8, <2>9
<1>7. CASE RecordResult
  <2> USE <1>7 DEF RecordResult, Finish
  <2>1. current \in batch /\ current \in Rows /\ status[current] = "Sending"
    BY DEF TypeOK, LeadLocked, BatchIsSending
  <2>2. /\ Recorded(current, answer) \in Statuses \ {"Absent", "Denied", "Sending"}
        /\ Recorded(current, answer) = "Sent" => answer = "sent"
        /\ Recorded(current, answer) \in {"Failed", "Pending"} =>
              answer \in {"retryable", "permanent"}
        /\ Recorded(current, answer) = "Pending" => attempts[current] < MaxAttempts
    BY <2>1 DEF Recorded, TypeOK, Statuses
  <2>3. /\ \A q \in Rows \ {current} : status'[q] = status[q]
        /\ status'[current] = Recorded(current, answer)
        /\ status' \in [Rows -> Statuses] /\ due' \in [Rows -> BOOLEAN]
    BY <2>1, <2>2 DEF TypeOK
  <2>4. TypeOK'
    BY <2>3 DEF TypeOK, LeadLocked
  <2>5. BatchIsSending' /\ CallIsAllowed'
    BY <2>1, <2>3 DEF BatchIsSending, CallIsAllowed, TypeOK
  <2>6. AttemptsBound'
    BY <2>1, <2>2, <2>3 DEF AttemptsBound, Unhanded, TypeOK
  <2>7. AnswerIsHonest'
    BY <2>1 DEF AnswerIsHonest, Unhanded
  <2>8. VisibleAtMostOnce'
    BY DEF VisibleAtMostOnce
  <2>9. LedgerIsTrue'
    <3>1. accepted[current] = 0 \/ accepted[current] = 1
      BY <2>1 DEF VisibleAtMostOnce, TypeOK
    <3>2. Recorded(current, answer) = "Sent" => accepted[current] = 1
      BY <2>2 DEF AnswerIsHonest
    <3>3. accepted[current] > 0 => Recorded(current, answer) \in {"Sent", "DeliveryUnknown"}
      BY <2>2, <3>1 DEF AnswerIsHonest, Statuses
    <3> QED  BY <2>1, <2>3, <3>2, <3>3 DEF LedgerIsTrue
  <2> QED  BY <2>4, <2>5, <2>6, <2>7, <2>8, <2>9
<1> QED
  BY <1>1, <1>2, <1>3, <1>4, <1>5, <1>6, <1>7 DEF DrainStep


\* The invariant is inductive.
LEMMA StepInv == OutboxInv /\ [Next]_vars => OutboxInv'
<1>1. CASE UNCHANGED vars
  BY <1>1 DEF vars, row, gate, contact, drain, provider, OutboxInv, TypeOK,
     BatchIsSending, AttemptsBound, AnswerIsHonest, CallIsAllowed,
     VisibleAtMostOnce, LedgerIsTrue, LeadLocked, Unhanded, Stopped
<1> QED
  BY <1>1, EnvironmentInv, DrainInv DEF Next

\* The drain's memory, the ledger and the provider always agree.
THEOREM OutboxInvariant == Spec => []OutboxInv
  BY InitInv, StepInv, PTL DEF Spec

\* Every variable keeps its range, within the declared bounds.
THEOREM TypeCorrect == Spec => []TypeOK
<1>1. OutboxInv => TypeOK
  BY DEF OutboxInv
<1> QED  BY <1>1, OutboxInvariant, PTL

\* However drains are interrupted and answers lost, the customer is shown no
\* row twice.
THEOREM ShownAtMostOnce == Spec => []VisibleAtMostOnce
<1>1. OutboxInv => VisibleAtMostOnce
  BY DEF OutboxInv
<1> QED  BY <1>1, OutboxInvariant, PTL

\* Sent rows were shown; refused, failed and waiting rows were not.
THEOREM LedgerTellsTheTruth == Spec => []LedgerIsTrue
<1>1. OutboxInv => LedgerIsTrue
  BY DEF OutboxInv
<1> QED  BY <1>1, OutboxInvariant, PTL

\* Only the provider call makes a request, and it is made under the locks.
LEMMA OnlyAllowedCalls ==
  ASSUME OutboxInv, [Next]_vars, NEW r \in Rows, calls'[r] > calls[r]
  PROVE  /\ r \in BusinessInitiated => ~suppressed
         /\ r \in Marketing => ~Stopped
<1> USE DEF row, gate, contact, drain, provider
<1>1. PICK taken \in BOOLEAN : CallProvider(taken)
  <2>1. CASE UNCHANGED vars
    BY <2>1 DEF vars, OutboxInv, TypeOK
  <2>2. CASE Environment
    BY <2>2 DEF Environment, Begin, Request, BackoffElapses, Arrive, Accept,
       WindowCloses, EvidenceLapses, Pause, Resume, Cancel, CampaignMoves,
       Interrupt, OutboxInv, TypeOK
  <2>3. CASE DrainStep
    BY <2>3 DEF DrainStep, RecoverAbandonedSends, ClaimDue, Block,
       PrepareDelivery, SenderUnavailable, RecordResult, OutboxInv, TypeOK
  <2> QED  BY <2>1, <2>2, <2>3 DEF Next
<1>2. r = current /\ pc = "calling"
  BY <1>1 DEF CallProvider, OutboxInv, TypeOK
<1> QED  BY <1>2 DEF OutboxInv, CallIsAllowed

\* A committed opt-out, pause or cancellation is obeyed by every later send.
THEOREM StopsAreObeyed == Spec => NoSendAfterStop
<1>1. OutboxInv /\ [Next]_vars =>
        [\A r \in Rows : calls'[r] > calls[r] =>
            /\ r \in BusinessInitiated => ~suppressed
            /\ r \in Marketing => ~Stopped]_vars
  BY OnlyAllowedCalls
<1> QED  BY <1>1, OutboxInvariant, PTL DEF Spec, NoSendAfterStop

-----------------------------------------------------------------------------
(***************************************************************************)
(* Refinement: every step of the drain and of its world is a step of the   *)
(* promise, or invisible to it.                                            *)
(***************************************************************************)

\* Nothing is written and nothing shown in the beginning.
LEMMA InitRefines == Init => Promise!PromiseInit
  BY DEF Init, Promise!PromiseInit, FateOf

\* A step that keeps every row's fate and the provider's count is a stutter.
LEMMA SameFate ==
  ASSUME UNCHANGED accepted, \A r \in Rows : FateOf(status'[r]) = FateOf(status[r])
  PROVE  UNCHANGED Promise!promise
  BY DEF Promise!promise

\* The gate decides; everything else outside the drain is invisible.
LEMMA EnvironmentRefines ==
  ASSUME OutboxInv, Environment
  PROVE  [Promise!PromiseNext]_Promise!promise
<1> USE DEF row, gate, contact, drain, provider
<1>1. ASSUME NEW r \in Rows, Request(r)
      PROVE  \E verdict \in {"queued", "refused"} : Promise!Decide(r, verdict)
  <2> DEFINE verdict == IF RequestDenied(r) THEN "refused" ELSE "queued"
  <2>1. status[r] = "Absent" /\ UNCHANGED accepted
    BY <1>1 DEF Request, Open
  <2>2. status' = [status EXCEPT ![r] = IF RequestDenied(r) THEN "Denied" ELSE "Pending"]
    BY <1>1 DEF Request
  <2>3. FateOf(status[r]) = "unwritten" /\ FateOf(status'[r]) = verdict
    BY <2>1, <2>2 DEF FateOf, OutboxInv, TypeOK
  <2>4. \A q \in Rows \ {r} : status'[q] = status[q]
    BY <2>2 DEF OutboxInv, TypeOK
  <2>5. Promise!Decide(r, verdict)
    BY <2>1, <2>3, <2>4 DEF Promise!Decide
  <2> QED  BY <2>5
<1>2. CASE \E r \in Rows : Request(r)
  BY <1>1, <1>2 DEF Promise!PromiseNext
<1>3. CASE ~ \E r \in Rows : Request(r)
  <2>1. UNCHANGED <<status, accepted>>
    BY <1>3 DEF Environment, Begin, BackoffElapses, Arrive, Accept, WindowCloses,
       EvidenceLapses, Pause, Resume, Cancel, CampaignMoves, Interrupt
  <2> QED  BY <2>1, SameFate
<1> QED  BY <1>2, <1>3

\* The drain shows, confirms, gives up or loses track of a queued row.
LEMMA DrainRefines ==
  ASSUME OutboxInv, DrainStep
  PROVE  [Promise!PromiseNext]_Promise!promise
<1> USE DEF row, gate, contact, drain, provider, OutboxInv
<1>1. CASE RecoverAbandonedSends
  <2>1. Promise!LoseTrack(Abandoned)
    <3>1. \A r \in Abandoned : FateOf(status[r]) = "queued"
      BY DEF Abandoned, FateOf
    <3>2. \A r \in Rows : FateOf(status'[r]) =
                IF r \in Abandoned THEN "unknown" ELSE FateOf(status[r])
      <4>1. \A r \in Rows \ Abandoned : status'[r] = status[r]
        BY <1>1 DEF RecoverAbandonedSends, Quarantined
      <4>2. \A r \in Abandoned : status'[r] = "DeliveryUnknown"
        BY <1>1 DEF RecoverAbandonedSends, Quarantined, Abandoned
      <4>3. FateOf("DeliveryUnknown") = "unknown"
        BY DEF FateOf
      <4> QED  BY <4>1, <4>2, <4>3
    <3>3. UNCHANGED accepted /\ Abandoned \subseteq Rows
      BY <1>1 DEF RecoverAbandonedSends, Abandoned
    <3>4. [q \in Rows |-> FateOf(status'[q])] =
            [r \in Rows |-> IF r \in Abandoned THEN "unknown"
                            ELSE [q \in Rows |-> FateOf(status[q])][r]]
      BY <3>2
    <3> QED  BY <3>1, <3>3, <3>4 DEF Promise!LoseTrack
  <2>2. Abandoned \in SUBSET Rows
    BY DEF Abandoned
  <2> QED  BY <2>1, <2>2 DEF Promise!PromiseNext
<1>2. CASE ClaimDue
  <2>1. \A r \in Rows : FateOf(status'[r]) = FateOf(status[r])
    BY <1>2 DEF ClaimDue, Claimed, Due, FateOf
  <2> QED  BY <1>2, <2>1, SameFate DEF ClaimDue
<1>3. ASSUME NEW r \in Rows, Block(r) PROVE Promise!GiveUp(r)
  <2>1. status[r] = "Sending" /\ Unhanded(r)
    BY <1>3 DEF Block, InTurn, BatchIsSending, Unhanded
  <2>2. accepted[r] = 0 /\ UNCHANGED accepted
    BY <1>3, <2>1 DEF Block, AnswerIsHonest
  <2>3. /\ \A q \in Rows \ {r} : status'[q] = status[q]
        /\ FateOf(status[r]) = "queued" /\ FateOf(status'[r]) = "failed"
    BY <1>3, <2>1 DEF Block, FateOf, TypeOK
  <2>4. [q \in Rows |-> FateOf(status'[q])] =
          [[q \in Rows |-> FateOf(status[q])] EXCEPT ![r] = "failed"]
    <3>1. \A q \in Rows :
            FateOf(status'[q]) = IF q = r THEN "failed" ELSE FateOf(status[q])
      BY <2>3
    <3> QED  BY <3>1
  <2> QED  BY <2>2, <2>3, <2>4 DEF Promise!GiveUp
<1>4. CASE (\E r \in Rows : PrepareDelivery(r)) \/ SenderUnavailable
  BY <1>4, SameFate DEF PrepareDelivery, SenderUnavailable
<1>5. ASSUME NEW taken \in BOOLEAN, CallProvider(taken)
      PROVE  Promise!Show(current) \/ UNCHANGED Promise!promise
  <2>1. current \in Rows /\ status[current] = "Sending" /\ accepted[current] = 0
    BY <1>5 DEF CallProvider, TypeOK, LeadLocked, BatchIsSending, AnswerIsHonest,
       Unhanded
  <2>2. UNCHANGED status
    BY <1>5 DEF CallProvider
  <2>3. CASE taken
    <3>1. accepted' = [accepted EXCEPT ![current] = 1]
      BY <1>5, <2>1, <2>3 DEF CallProvider, TypeOK
    <3> QED  BY <2>1, <2>2, <3>1 DEF Promise!Show, FateOf
  <2>4. CASE ~taken
    <3>1. UNCHANGED accepted
      BY <1>5, <2>1, <2>4 DEF CallProvider, TypeOK
    <3> QED  BY <2>2, <3>1, SameFate
  <2> QED  BY <2>3, <2>4
<1>6. CASE RecordResult
  <2>1. /\ current \in Rows
        /\ status[current] = "Sending"
        /\ FateOf(status[current]) = "queued"
    BY <1>6 DEF RecordResult, TypeOK, LeadLocked, BatchIsSending, FateOf
  <2>2. /\ status'[current] = Recorded(current, answer)
        /\ \A q \in Rows \ {current} : status'[q] = status[q]
        /\ UNCHANGED accepted
    BY <1>6, <2>1 DEF RecordResult, TypeOK
  <2>3. CASE answer = "sent"
    <3>1. FateOf(status'[current]) = "sent" /\ accepted[current] = 1
      BY <2>2, <2>3 DEF Recorded, FateOf, AnswerIsHonest
    <3>2. Promise!Confirm(current)
      BY <2>1, <2>2, <3>1 DEF Promise!Confirm
    <3> QED  BY <2>1, <3>2 DEF Promise!PromiseNext
  <2>4. CASE answer = "unknown"
    <3>1. FateOf(status'[current]) = "unknown"
      BY <2>2, <2>4 DEF Recorded, FateOf
    <3>2. Promise!LoseTrack({current})
      BY <2>1, <2>2, <3>1 DEF Promise!LoseTrack
    <3> QED  BY <2>1, <3>2 DEF Promise!PromiseNext
  <2>5. CASE answer \in {"permanent", "retryable"} /\ status'[current] = "Failed"
    <3>1. FateOf(status'[current]) = "failed" /\ accepted[current] = 0
      BY <2>5 DEF FateOf, AnswerIsHonest
    <3>2. Promise!GiveUp(current)
      BY <2>1, <2>2, <3>1 DEF Promise!GiveUp
    <3> QED  BY <2>1, <3>2 DEF Promise!PromiseNext
  <2>6. CASE status'[current] = "Pending"
    <3>1. FateOf(status'[current]) = "queued"
      BY <2>6 DEF FateOf
    <3> QED  BY <2>1, <2>2, <3>1, SameFate
  <2> QED
    BY <1>6, <2>2, <2>3, <2>4, <2>5, <2>6 DEF RecordResult, Recorded, TypeOK
<1>7. CASE \E r \in Rows : Block(r)
  BY <1>3, <1>7 DEF Promise!PromiseNext
<1>8. CASE \E taken \in BOOLEAN : CallProvider(taken)
  <2>1. current \in Rows
    BY <1>8 DEF CallProvider, TypeOK, LeadLocked
  <2> QED  BY <1>5, <1>8, <2>1 DEF Promise!PromiseNext
<1> QED
  BY <1>1, <1>2, <1>4, <1>6, <1>7, <1>8 DEF DrainStep

\* The drain, its crashes and its environment keep the Outbox's promise.
THEOREM DrainImplementsPromise == Spec => KeepsThePromise
<1>1. OutboxInv /\ [Next]_vars => [Promise!PromiseNext]_Promise!promise
  <2>1. CASE UNCHANGED vars
    BY <2>1, SameFate DEF vars, row, provider
  <2> QED  BY <2>1, EnvironmentRefines, DrainRefines DEF Next
<1> QED
  BY <1>1, InitRefines, OutboxInvariant, PTL DEF Spec, KeepsThePromise,
     Promise!PromiseSpec

=============================================================================
