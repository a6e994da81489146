--------------------------- MODULE InboxLaneProofs ---------------------------
(***************************************************************************)
(* Theorems about the inbox lane, for every number of messages, groups and *)
(* attempts.  LaneInv is the inductive invariant: it ties the worker's     *)
(* memory (mine, held, offered) to the rows the database holds, which is   *)
(* what lets settlement and failure close exactly what was claimed.        *)
(***************************************************************************)
EXTENDS InboxLane, TLAPS

\* Where the worker holds a claim it may still act on.
Working == WorkerPlaces \ {"idle", "listing", "claiming", "apologizing"}

\* A group named by a message or by a committed row has been claimed.
GroupsAreClaimed ==
    /\ \A m \in Messages : group[m] # NoGroup => groupStatus[group[m]] # "Unused"
    /\ \A r \in written : groupStatus[r.group] # "Unused"

\* A message points at an open group exactly while it is Processing.
OpenGroupHoldsProcessing ==
    \A m \in Messages :
        group[m] \in Processing <=> status[m] = "Processing"

\* The worker's ClaimedGroup is the open group, with all of its messages.
MemoryMatchesRows ==
    /\ pc \in Working =>
           /\ mine \in Processing
           /\ \A m \in Messages : m \in held <=> status[m] = "Processing"
    /\ \A m \in offered : status[m] = "Pending"
    /\ pc \in {"idle", "listing", "claiming"} => offered = {}
    /\ pc = "apologizing" =>
           /\ groupStatus[mine] = "Failed"
           /\ \A m \in held : status[m] = "Failed"

\* What is about to be closed as Processed has already been accounted for.
SettlingIsAccountedFor ==
    pc \in {"settling", "notifying"} =>
        \E r \in written : r.kind # "apology" /\ r.group = mine /\ r.covers = held

LaneInv ==
    /\ TypeOK
    /\ \A g, h \in Processing : g = h
    /\ GroupsAreClaimed
    /\ OpenGroupHoldsProcessing
    /\ MemoryMatchesRows
    /\ SettlingIsAccountedFor
    /\ ProcessedIsAccountedFor
    /\ ApologyIsHonest

-----------------------------------------------------------------------------
(***************************************************************************)
(* Type correctness.                                                       *)
(***************************************************************************)

\* A claim takes an identity no group has yet, if there is one.
LEMMA FreshGroupIsUnused ==
    ASSUME \E g \in Groups : groupStatus[g] = "Unused"
    PROVE  FreshGroup \in Groups /\ groupStatus[FreshGroup] = "Unused"
  BY DEF FreshGroup

\* What the worker commits about its claim is a row.
LEMMA ClaimRowsAreRows ==
    ASSUME TypeOK, pc \notin {"idle", "listing", "claiming"},
           NEW kind \in {"reply", "denial", "withheld", "apology"}
    PROVE  [kind |-> kind, group |-> mine, covers |-> held] \in Rows
  BY DEF TypeOK, Rows

LEMMA RequeueKeepsTypes ==
    ASSUME TypeOK, NEW S, Requeue(S)
    PROVE  /\ status' \in [Messages ->
                  {"Unsent", "Pending", "Processing", "Processed", "Failed"}]
           /\ attempts' \in [Messages -> 0..MaxAttempts]
           /\ group' \in [Messages -> Groups \cup {NoGroup}]
           /\ timer' \in [Messages -> {"none", "window", "backoff"}]
  BY DEF TypeOK, Requeue, RequeuedStatus

LEMMA TypeStep == TypeOK /\ [Next]_vars => TypeOK'
<1> SUFFICES ASSUME TypeOK, [Next]_vars PROVE TypeOK'
  OBVIOUS
<1> USE DEF TypeOK
<1>1. ASSUME RecoverExpiredClaims PROVE TypeOK'
  BY <1>1 DEF RecoverExpiredClaims, Requeue, RequeuedStatus, Processing, lane, message, human, turn, WorkerPlaces, HandlingModes
<1>2. ASSUME ListClaimable PROVE TypeOK'
  BY <1>2 DEF ListClaimable, lane, message, human, turn, WorkerPlaces, HandlingModes
<1>3. ASSUME Claim PROVE TypeOK'
  BY MaxAttemptsAssumption, FreshGroupIsUnused, <1>3 DEF Claim, Ripe, Pending, lane, message, human, turn, WorkerPlaces, HandlingModes
<1>4. ASSUME AuthorizeClaim PROVE TypeOK'
  BY <1>4 DEF AuthorizeClaim, RowExists, lane, message, human, turn, WorkerPlaces, HandlingModes
<1>5. ASSUME Attach PROVE TypeOK'
  BY <1>5 DEF Attach, lane, message, human, turn, WorkerPlaces, HandlingModes
<1>6. ASSUME PeekPending PROVE TypeOK'
  BY <1>6 DEF PeekPending, Pending, lane, message, human, turn, WorkerPlaces, HandlingModes
<1>7. ASSUME InjectAccepted PROVE TypeOK'
  BY <1>7 DEF InjectAccepted, lane, message, human, turn, WorkerPlaces, HandlingModes
<1>8. ASSUME InjectRefused PROVE TypeOK'
  BY <1>8 DEF InjectRefused, lane, message, human, turn, WorkerPlaces, HandlingModes
<1>9. ASSUME Adopt PROVE TypeOK'
  BY <1>9 DEF Adopt, lane, message, human, turn, WorkerPlaces, HandlingModes
<1>10. ASSUME TurnCompletes PROVE TypeOK'
  BY <1>10 DEF TurnCompletes, lane, message, human, turn, WorkerPlaces, HandlingModes
<1>11. ASSUME TurnFails PROVE TypeOK'
  BY <1>11 DEF TurnFails, lane, message, human, turn, WorkerPlaces, HandlingModes
<1>12. ASSUME CheckCoverage PROVE TypeOK'
  BY <1>12 DEF CheckCoverage, lane, message, human, turn, WorkerPlaces, HandlingModes
<1>13. ASSUME RecheckHandling PROVE TypeOK'
  BY <1>13 DEF RecheckHandling, RowExists, lane, message, human, turn, WorkerPlaces, HandlingModes
<1>14. ASSUME ReadNotice PROVE TypeOK'
  BY <1>14 DEF ReadNotice, lane, message, human, turn, WorkerPlaces, HandlingModes
<1>15. ASSUME Release PROVE TypeOK'
  <2>1. written' \subseteq Rows
    BY <1>15, ClaimRowsAreRows DEF Release
  <2>2. pc' \in {"notifying", "settling"}
    BY <1>15 DEF Release
  <2>3. UNCHANGED <<lane, handling, bound, notice, turn>> /\ locked' = FALSE
    BY <1>15 DEF Release
  <2> QED
    BY <1>15, <2>1, <2>2, <2>3 DEF Release, lane, message, turn, WorkerPlaces
<1>16. ASSUME MarkLeadNotified PROVE TypeOK'
  BY <1>16 DEF MarkLeadNotified, lane, message, human, turn, WorkerPlaces, HandlingModes
<1>17. ASSUME WithholdForHuman PROVE TypeOK'
  BY <1>17, ClaimRowsAreRows DEF WithholdForHuman, lane, message, human, turn, WorkerPlaces, HandlingModes
<1>18. ASSUME SettleGroup PROVE TypeOK'
  BY <1>18 DEF SettleGroup, Rested, lane, message, human, turn, WorkerPlaces, HandlingModes
<1>19. ASSUME FailGroup PROVE TypeOK'
  <2> USE <1>19 DEF FailGroup
  <2>1. CASE pc = "failing" /\ Exhausted
    <3>1. UNCHANGED turn /\ locked' = FALSE /\ pc' = "apologizing"
      BY <2>1
    <3>2. CASE Fenced
      <4>1. Requeue(held) /\ lapsed' = lapsed \ {mine}
        BY <3>2
      <4>2. groupStatus' \in
                [Groups -> {"Unused", "Processing", "Settled", "Failed"}]
        BY <3>2
      <4> QED
        BY <2>1, <3>1, <4>1, <4>2, RequeueKeepsTypes DEF turn, WorkerPlaces
    <3>3. CASE ~Fenced
      BY <2>1, <3>1, <3>3 DEF lane, message, turn, WorkerPlaces
    <3> QED
      BY <3>2, <3>3
  <2>2. CASE ~(pc = "failing" /\ Exhausted)
    <3>1. Rested
      BY <2>2
    <3>2. CASE Fenced
      <4>1. Requeue(held) /\ lapsed' = lapsed \ {mine}
        BY <3>2
      <4>2. groupStatus' \in
                [Groups -> {"Unused", "Processing", "Settled", "Failed"}]
        BY <3>2
      <4>3. UNCHANGED <<handling, bound, notice, written>>
        OBVIOUS
      <4> QED
        BY <3>1, <4>1, <4>2, <4>3, RequeueKeepsTypes DEF Rested, WorkerPlaces
    <3>3. CASE ~Fenced
      BY <2>2, <3>1, <3>3 DEF lane, message, Rested, WorkerPlaces
    <3> QED
      BY <3>2, <3>3
  <2> QED
    BY <2>1, <2>2
<1>20. ASSUME Apologize PROVE TypeOK'
  BY <1>20, ClaimRowsAreRows DEF Apologize, Rested, lane, message, human, turn, WorkerPlaces, HandlingModes
<1>21. ASSUME NEW m \in Messages, Accept(m) PROVE TypeOK'
  BY <1>21 DEF Accept, GrantedFrom, lane, message, human, turn, WorkerPlaces, HandlingModes
<1>22. ASSUME NEW m \in Messages, TimerElapses(m) PROVE TypeOK'
  BY <1>22 DEF TimerElapses, lane, message, human, turn, WorkerPlaces, HandlingModes
<1>23. ASSUME NEW g \in Groups, LeaseExpires(g) PROVE TypeOK'
  BY <1>23 DEF LeaseExpires, lane, message, human, turn, WorkerPlaces, HandlingModes
<1>24. ASSUME TakeHandling PROVE TypeOK'
  BY <1>24 DEF TakeHandling, lane, message, human, turn, WorkerPlaces, HandlingModes
<1>25. ASSUME NEW mode \in HandlingModes, ReleaseHandling(mode) PROVE TypeOK'
  BY <1>25 DEF ReleaseHandling, lane, message, human, turn, WorkerPlaces, HandlingModes
<1>26. ASSUME ToolRequestsHandoff PROVE TypeOK'
  BY <1>26 DEF ToolRequestsHandoff, GrantedFrom, lane, message, human, turn, WorkerPlaces, HandlingModes
<1>27. ASSUME NoticeBecomesDue PROVE TypeOK'
  BY <1>27 DEF NoticeBecomesDue, lane, message, human, turn, WorkerPlaces, HandlingModes
<1>28. ASSUME NoticeLapses PROVE TypeOK'
  BY <1>28 DEF NoticeLapses, lane, message, human, turn, WorkerPlaces, HandlingModes
<1>29. ASSUME Interrupt PROVE TypeOK'
  BY <1>29 DEF Interrupt, Rested, lane, message, human, turn, WorkerPlaces, HandlingModes
<1>30. CASE UNCHANGED vars
  BY <1>30 DEF vars, lane, message, human, turn
<1> QED
  BY <1>1, <1>2, <1>3, <1>4, <1>5, <1>6, <1>7, <1>8, <1>9, <1>10, <1>11, <1>12, <1>13, <1>14, <1>15, <1>16, <1>17, <1>18, <1>19, <1>20, <1>21, <1>22, <1>23, <1>24, <1>25, <1>26, <1>27, <1>28, <1>29, <1>30 DEF Next, WorkerStep, Environment

LEMMA TypeInit == Init => TypeOK
<1> SUFFICES ASSUME Init PROVE TypeOK
  OBVIOUS
<1> USE DEF Init
<1>1. attempts \in [Messages -> 0..MaxAttempts]
  BY MaxAttemptsAssumption
<1>2. handling \in HandlingModes
  BY InitialHandlingAssumption
<1>3. /\ status \in [Messages ->
            {"Unsent", "Pending", "Processing", "Processed", "Failed"}]
      /\ group \in [Messages -> Groups \cup {NoGroup}]
      /\ timer \in [Messages -> {"none", "window", "backoff"}]
      /\ groupStatus \in
            [Groups -> {"Unused", "Processing", "Settled", "Failed"}]
  OBVIOUS
<1> QED
  BY <1>1, <1>2, <1>3 DEF TypeOK, WorkerPlaces

\* Every variable of the lane keeps its type: in particular no message is ever
\* claimed more than MAX_ATTEMPTS times.
THEOREM TypeCorrect == Spec => []TypeOK
<1>1. Init => TypeOK
  BY TypeInit
<1>2. TypeOK /\ [Next]_vars => TypeOK'
  BY TypeStep
<1> QED
  BY <1>1, <1>2, PTL DEF Spec

-----------------------------------------------------------------------------
(***************************************************************************)
(* The inductive invariant.                                                *)
(***************************************************************************)

\* A step that changes no message's status or group, no group's status, no
\* committed row and not the claim keeps the invariant, provided it enters the
\* guarded places only from where their condition already held.
LEMMA QuietStep ==
    ASSUME LaneInv, TypeOK',
           UNCHANGED <<status, group, groupStatus, written, mine, held>>,
           offered' \in SUBSET Pending,
           pc' \in Working => pc \in Working,
           pc' = "apologizing" => pc = "apologizing",
           pc' \in {"idle", "listing", "claiming"} => offered' = {},
           pc' \in {"settling", "notifying"} => pc \in {"settling", "notifying"}
    PROVE  LaneInv'
<1>1. Processing' = Processing
  BY DEF Processing
<1>2. GroupsAreClaimed'
  BY DEF LaneInv, GroupsAreClaimed
<1>3. OpenGroupHoldsProcessing'
  BY <1>1 DEF LaneInv, OpenGroupHoldsProcessing
<1>4. MemoryMatchesRows'
  BY <1>1 DEF LaneInv, MemoryMatchesRows, Pending
<1>5. SettlingIsAccountedFor'
  BY DEF LaneInv, SettlingIsAccountedFor
<1>6. ProcessedIsAccountedFor' /\ ApologyIsHonest'
  BY DEF LaneInv, ProcessedIsAccountedFor, ApologyIsHonest
<1> QED
  BY <1>1, <1>2, <1>3, <1>4, <1>5, <1>6 DEF LaneInv

\* A step that only commits one row about the claim, apologizing or before
\* settling, and then moves on or rests.
LEMMA RowStep ==
    ASSUME LaneInv, TypeOK', NEW row,
           pc \in Working \cup {"apologizing"},
           row.group = mine, row.covers = held,
           row.kind = "apology" => \A m \in held : status[m] = "Failed",
           groupStatus[mine] # "Unused",
           UNCHANGED <<status, group, groupStatus>>,
           written' = written \cup {row},
           \/ /\ pc \in Working
              /\ row.kind # "apology"
              /\ pc' \in {"settling", "notifying"}
              /\ UNCHANGED <<mine, held, offered>>
           \/ pc' = "idle" /\ offered' = {}
    PROVE  LaneInv'
<1>1. Processing' = Processing
  BY DEF Processing
<1>2. GroupsAreClaimed'
  BY DEF LaneInv, GroupsAreClaimed
<1>3. OpenGroupHoldsProcessing'
  BY <1>1 DEF LaneInv, OpenGroupHoldsProcessing
<1>4. MemoryMatchesRows'
  BY <1>1 DEF LaneInv, MemoryMatchesRows, Working
<1>5. SettlingIsAccountedFor'
  BY DEF SettlingIsAccountedFor
<1>6. ProcessedIsAccountedFor' /\ ApologyIsHonest'
  BY DEF LaneInv, ProcessedIsAccountedFor, ApologyIsHonest
<1> QED
  BY <1>1, <1>2, <1>3, <1>4, <1>5, <1>6 DEF LaneInv

LEMMA RecoverKeepsLaneInv ==
    ASSUME LaneInv, TypeOK', RecoverExpiredClaims PROVE LaneInv'
<1> DEFINE expired == Processing \cap lapsed
           S == {m \in Messages : group[m] \in expired}
<1> USE DEF LaneInv, TypeOK
<1>1. /\ groupStatus' = [g \in Groups |->
              IF g \in expired THEN "Failed" ELSE groupStatus[g]]
      /\ Requeue(S)
      /\ pc = "idle" /\ pc' = "listing"
      /\ UNCHANGED <<written, mine, held, offered>>
  BY DEF RecoverExpiredClaims, turn
<1>2. Processing' = Processing \ expired
  BY <1>1 DEF Processing
<1>3. \A m \in S : status[m] = "Processing"
  BY DEF OpenGroupHoldsProcessing
<1>3a. S \subseteq Messages /\ \A m \in Messages : m \in S <=> group[m] \in expired
  OBVIOUS
<1> HIDE DEF S
<1>4. \A m \in Messages :
          /\ m \in S => \/ status'[m] = "Failed" /\ group'[m] = group[m]
                        \/ status'[m] = "Pending" /\ group'[m] = NoGroup
          /\ m \notin S => status'[m] = status[m] /\ group'[m] = group[m]
  BY <1>3a, <1>1 DEF Requeue, RequeuedStatus
<1>5. GroupsAreClaimed'
  BY <1>1, <1>4 DEF GroupsAreClaimed, Rows, Processing
<1>6. OpenGroupHoldsProcessing'
  <2> SUFFICES ASSUME NEW m \in Messages
               PROVE  group'[m] \in Processing' <=> status'[m] = "Processing"
    BY DEF OpenGroupHoldsProcessing
  <2>1. NoGroup \notin Processing'
    BY <1>2, NoGroupAssumption DEF Processing
  <2>2. CASE m \in S
    BY <2>1, <2>2, <1>3a, <1>2, <1>4
  <2>3. CASE m \notin S
    BY <2>3, <1>3a, <1>2, <1>4 DEF OpenGroupHoldsProcessing
  <2> QED
    BY <2>2, <2>3
<1>7. MemoryMatchesRows'
  BY <1>1, <1>3, <1>4 DEF MemoryMatchesRows, Working
<1>8. SettlingIsAccountedFor'
  BY <1>1 DEF SettlingIsAccountedFor
<1>9. ProcessedIsAccountedFor' /\ ApologyIsHonest'
  BY <1>1, <1>3, <1>4 DEF ProcessedIsAccountedFor, ApologyIsHonest, Rows
<1> QED
  BY <1>2, <1>5, <1>6, <1>7, <1>8, <1>9

LEMMA ClaimKeepsLaneInv ==
    ASSUME LaneInv, TypeOK', Claim PROVE LaneInv'
<1> USE DEF LaneInv, TypeOK
<1> DEFINE f == FreshGroup
<1>1. f \in Groups /\ groupStatus[f] = "Unused"
  BY FreshGroupIsUnused DEF Claim
<1> HIDE DEF f
<1>2. /\ Processing = {}
      /\ groupStatus' = [groupStatus EXCEPT ![f] = "Processing"]
      /\ pc' = "authorizing"
      /\ mine' = f /\ held' = Ripe
      /\ UNCHANGED <<written, offered>>
      /\ pc = "claiming"
  BY DEF Claim, f
<1>3. \A m \in Messages :
          /\ m \in Ripe => status'[m] = "Processing" /\ group'[m] = f
          /\ m \notin Ripe => status'[m] = status[m] /\ group'[m] = group[m]
  BY DEF Claim, f
<1>4. \A m \in Ripe : status[m] = "Pending" /\ m \in Messages
  BY DEF Ripe, Pending
<1>5. Processing' = {f}
  BY <1>1, <1>2 DEF Processing
<1>6. \A m \in Messages : status[m] # "Processing"
  BY <1>2 DEF OpenGroupHoldsProcessing
<1>7. GroupsAreClaimed'
  BY <1>1, <1>2, <1>3 DEF GroupsAreClaimed, Rows
<1>8. OpenGroupHoldsProcessing'
  BY <1>1, <1>3, <1>5, <1>6, NoGroupAssumption
     DEF OpenGroupHoldsProcessing, GroupsAreClaimed
<1>9. MemoryMatchesRows'
  <2>1. offered' = {}
    BY <1>2 DEF MemoryMatchesRows
  <2> QED
    BY <2>1, <1>2, <1>3, <1>4, <1>5, <1>6 DEF MemoryMatchesRows, Working
<1>10. SettlingIsAccountedFor'
  BY <1>2 DEF SettlingIsAccountedFor
<1>11. ProcessedIsAccountedFor' /\ ApologyIsHonest'
  BY <1>2, <1>3, <1>4 DEF ProcessedIsAccountedFor, ApologyIsHonest, Rows
<1> QED
  BY <1>5, <1>7, <1>8, <1>9, <1>10, <1>11

LEMMA AcceptKeepsLaneInv ==
    ASSUME LaneInv, TypeOK', NEW m \in Messages, Accept(m) PROVE LaneInv'
<1> USE DEF LaneInv, TypeOK
<1>1. /\ status[m] = "Unsent"
      /\ status' = [status EXCEPT ![m] = "Pending"]
      /\ UNCHANGED <<group, groupStatus, written, pc, mine, held, offered>>
  BY DEF Accept, turn
<1>2. Processing' = Processing
  BY <1>1 DEF Processing
<1>3. GroupsAreClaimed'
  BY <1>1 DEF GroupsAreClaimed
<1>4. OpenGroupHoldsProcessing'
  BY <1>1, <1>2 DEF OpenGroupHoldsProcessing
<1>5. MemoryMatchesRows'
  BY <1>1, <1>2 DEF MemoryMatchesRows
<1>6. SettlingIsAccountedFor'
  BY <1>1 DEF SettlingIsAccountedFor
<1>7. ProcessedIsAccountedFor' /\ ApologyIsHonest'
  BY <1>1 DEF ProcessedIsAccountedFor, ApologyIsHonest, Rows
<1> QED
  BY <1>1, <1>2, <1>3, <1>4, <1>5, <1>6, <1>7

LEMMA AdoptKeepsLaneInv ==
    ASSUME LaneInv, TypeOK', Adopt PROVE LaneInv'
<1> USE DEF LaneInv, TypeOK
<1>1. /\ pc = "adopting" /\ pc' = "composing"
      /\ held' = held \cup offered /\ offered' = {}
      /\ UNCHANGED <<groupStatus, written, mine>>
  BY DEF Adopt
<1>2. \A m \in Messages :
          /\ m \in offered => status'[m] = "Processing" /\ group'[m] = mine
          /\ m \notin offered => status'[m] = status[m] /\ group'[m] = group[m]
  BY DEF Adopt
<1>3. mine \in Processing /\ Processing' = Processing
  BY <1>1 DEF Processing, MemoryMatchesRows, Working, WorkerPlaces
<1>4. \A m \in offered : status[m] = "Pending"
  BY DEF MemoryMatchesRows
<1>5. GroupsAreClaimed'
  BY <1>1, <1>2, <1>3 DEF GroupsAreClaimed, Processing
<1>6. OpenGroupHoldsProcessing'
  BY <1>2, <1>3, <1>4 DEF OpenGroupHoldsProcessing
<1>7. MemoryMatchesRows'
  BY <1>1, <1>2, <1>3 DEF MemoryMatchesRows, Working, WorkerPlaces
<1>8. SettlingIsAccountedFor'
  BY <1>1 DEF SettlingIsAccountedFor
<1>9. ProcessedIsAccountedFor' /\ ApologyIsHonest'
  BY <1>1, <1>2, <1>4 DEF ProcessedIsAccountedFor, ApologyIsHonest, Rows
<1> QED
  BY <1>3, <1>5, <1>6, <1>7, <1>8, <1>9

LEMMA SettleKeepsLaneInv ==
    ASSUME LaneInv, TypeOK', SettleGroup PROVE LaneInv'
<1> USE DEF LaneInv, TypeOK
<1>1. pc = "settling" /\ mine \in Processing
  BY DEF SettleGroup, MemoryMatchesRows, Working, WorkerPlaces
<1>2. /\ groupStatus' = [groupStatus EXCEPT ![mine] = "Settled"]
      /\ pc' = "idle" /\ offered' = {}
      /\ UNCHANGED <<group, written>>
  BY <1>1 DEF SettleGroup, Fenced, Rested
<1>3. \A m \in Messages :
          /\ m \in held => status'[m] = "Processed"
          /\ m \notin held => status'[m] = status[m]
  BY <1>1 DEF SettleGroup, Fenced
<1>4. \A m \in Messages : m \in held <=> status[m] = "Processing"
  BY <1>1 DEF MemoryMatchesRows, Working, WorkerPlaces
<1>5. \A m \in held : group[m] = mine
  BY <1>1, <1>4 DEF OpenGroupHoldsProcessing
<1>6. Processing = {mine} /\ Processing' = {}
  BY <1>1, <1>2 DEF Processing
<1>7. GroupsAreClaimed'
  BY <1>2 DEF GroupsAreClaimed, Rows
<1>8. OpenGroupHoldsProcessing'
  BY <1>2, <1>3, <1>4, <1>6 DEF OpenGroupHoldsProcessing
<1>9. MemoryMatchesRows'
  BY <1>2 DEF MemoryMatchesRows, Working
<1>10. SettlingIsAccountedFor'
  BY <1>2 DEF SettlingIsAccountedFor
<1>11. ProcessedIsAccountedFor'
  BY <1>1, <1>2, <1>3, <1>5
     DEF ProcessedIsAccountedFor, SettlingIsAccountedFor
<1>12. ApologyIsHonest'
  BY <1>2, <1>3, <1>4 DEF ApologyIsHonest, Rows
<1> QED
  BY <1>6, <1>7, <1>8, <1>9, <1>10, <1>11, <1>12

LEMMA FailKeepsLaneInv ==
    ASSUME LaneInv, TypeOK', FailGroup PROVE LaneInv'
<1> USE DEF LaneInv, TypeOK
<1>1. /\ pc \in {"reconciling", "discarding", "failing"}
      /\ mine \in Processing
  BY DEF FailGroup, MemoryMatchesRows, Working, WorkerPlaces
<1>2. /\ groupStatus' = [groupStatus EXCEPT ![mine] = "Failed"]
      /\ Requeue(held)
      /\ written' = written
  BY <1>1 DEF FailGroup, Fenced
<1>3. \A m \in Messages :
          /\ m \in held =>
                 \/ status'[m] = "Failed" /\ group'[m] = group[m]
                 \/ /\ status'[m] = "Pending" /\ group'[m] = NoGroup
                    /\ ~(attempts[m] >= MaxAttempts)
          /\ m \notin held => status'[m] = status[m] /\ group'[m] = group[m]
  BY <1>2 DEF Requeue, RequeuedStatus
<1>4. \A m \in Messages : m \in held <=> status[m] = "Processing"
  BY <1>1 DEF MemoryMatchesRows, Working, WorkerPlaces
<1>5. \A m \in held : group[m] = mine
  BY <1>1, <1>4 DEF OpenGroupHoldsProcessing
<1>6. Processing = {mine} /\ Processing' = {}
  BY <1>1, <1>2 DEF Processing
<1>7. GroupsAreClaimed'
  BY <1>1, <1>2, <1>3 DEF GroupsAreClaimed, Rows, Processing
<1>8. OpenGroupHoldsProcessing'
  BY <1>3, <1>4, <1>6 DEF OpenGroupHoldsProcessing
<1>9. MemoryMatchesRows'
  <2>1. CASE pc = "failing" /\ Exhausted
    <3>1. pc' = "apologizing" /\ UNCHANGED <<mine, held, offered>>
      BY <2>1 DEF FailGroup, turn
    <3>2. \A m \in held : status'[m] = "Failed"
      BY <2>1, <1>3 DEF Exhausted
    <3> QED
      BY <3>1, <3>2, <1>1, <1>2, <1>3, <1>4
         DEF MemoryMatchesRows, Working, Processing
  <2>2. CASE ~(pc = "failing" /\ Exhausted)
    <3>1. pc' = "idle" /\ offered' = {}
      BY <2>2 DEF FailGroup, Rested
    <3> QED
      BY <3>1 DEF MemoryMatchesRows, Working
  <2> QED
    BY <2>1, <2>2
<1>10. SettlingIsAccountedFor'
  <2>1. pc' \in {"idle", "apologizing"}
    BY DEF FailGroup, Rested
  <2> QED
    BY <2>1 DEF SettlingIsAccountedFor
<1>11. ProcessedIsAccountedFor' /\ ApologyIsHonest'
  BY <1>2, <1>3, <1>4 DEF ProcessedIsAccountedFor, ApologyIsHonest, Rows
<1> QED
  BY <1>6, <1>7, <1>8, <1>9, <1>10, <1>11

LEMMA LaneInvInit == Init => LaneInv
<1> SUFFICES ASSUME Init PROVE LaneInv
  OBVIOUS
<1>1. TypeOK
  BY TypeInit
<1>2. Processing = {}
  BY DEF Init, Processing
<1> QED
  BY <1>1, <1>2
     DEF Init, LaneInv, GroupsAreClaimed, OpenGroupHoldsProcessing,
         MemoryMatchesRows, SettlingIsAccountedFor, ProcessedIsAccountedFor,
         ApologyIsHonest, Working

LEMMA LaneInvStep == LaneInv /\ [Next]_vars => LaneInv'
<1> SUFFICES ASSUME LaneInv, [Next]_vars PROVE LaneInv'
  OBVIOUS
<1>1. TypeOK'
  BY TypeStep DEF LaneInv
<1> USE <1>1
<1>2. offered \in SUBSET Pending
  BY DEF LaneInv, MemoryMatchesRows, Pending, TypeOK
<1>3. pc \in {"idle", "listing", "claiming"} => offered = {}
  BY DEF LaneInv, MemoryMatchesRows
<1>4. pc \in Working =>
          /\ mine \in Groups /\ groupStatus[mine] # "Unused"
  BY DEF LaneInv, MemoryMatchesRows, Processing
<1>5. CASE RecoverExpiredClaims
  BY <1>5, RecoverKeepsLaneInv
<1>6. CASE Claim
  BY <1>6, ClaimKeepsLaneInv
<1>7. CASE Adopt
  BY <1>7, AdoptKeepsLaneInv
<1>8. CASE SettleGroup
  BY <1>8, SettleKeepsLaneInv
<1>9. CASE FailGroup
  BY <1>9, FailKeepsLaneInv
<1>10. ASSUME NEW m \in Messages, Accept(m) PROVE LaneInv'
  BY <1>10, AcceptKeepsLaneInv
<1>11. CASE ListClaimable
  BY <1>11, <1>2, <1>3, QuietStep
     DEF ListClaimable, lane, message, human, turn, Working, WorkerPlaces, Pending
<1>12. CASE AuthorizeClaim
  BY <1>12, <1>2, <1>3, QuietStep
     DEF AuthorizeClaim, lane, message, human, turn, Working, WorkerPlaces, Pending
<1>13. CASE Attach
  BY <1>13, <1>2, <1>3, QuietStep
     DEF Attach, lane, message, human, turn, Working, WorkerPlaces, Pending
<1>14. CASE PeekPending
  BY <1>14, <1>2, <1>3, QuietStep
     DEF PeekPending, lane, message, human, turn, Working, WorkerPlaces, Pending
<1>15. CASE InjectAccepted
  BY <1>15, <1>2, <1>3, QuietStep
     DEF InjectAccepted, lane, message, human, turn, Working, WorkerPlaces, Pending
<1>16. CASE InjectRefused
  BY <1>16, <1>2, <1>3, QuietStep
     DEF InjectRefused, lane, message, human, turn, Working, WorkerPlaces, Pending
<1>17. CASE TurnCompletes
  BY <1>17, <1>2, <1>3, QuietStep
     DEF TurnCompletes, lane, message, human, turn, Working, WorkerPlaces, Pending
<1>18. CASE TurnFails
  BY <1>18, <1>2, <1>3, QuietStep
     DEF TurnFails, lane, message, human, turn, Working, WorkerPlaces, Pending
<1>19. CASE CheckCoverage
  BY <1>19, <1>2, <1>3, QuietStep
     DEF CheckCoverage, lane, message, human, turn, Working, WorkerPlaces, Pending
<1>20. CASE RecheckHandling
  BY <1>20, <1>2, <1>3, QuietStep
     DEF RecheckHandling, lane, message, human, turn, Working, WorkerPlaces, Pending
<1>21. CASE ReadNotice
  BY <1>21, <1>2, <1>3, QuietStep
     DEF ReadNotice, lane, message, human, turn, Working, WorkerPlaces, Pending
<1>22. CASE MarkLeadNotified
  BY <1>22, <1>2, <1>3, QuietStep
     DEF MarkLeadNotified, lane, message, human, turn, Working, WorkerPlaces, Pending
<1>23. CASE TakeHandling
  BY <1>23, <1>2, <1>3, QuietStep
     DEF TakeHandling, lane, message, human, turn, Working, WorkerPlaces, Pending
<1>24. CASE ToolRequestsHandoff
  BY <1>24, <1>2, <1>3, QuietStep
     DEF ToolRequestsHandoff, lane, message, human, turn, Working, WorkerPlaces, Pending
<1>25. CASE NoticeBecomesDue
  BY <1>25, <1>2, <1>3, QuietStep
     DEF NoticeBecomesDue, lane, message, human, turn, Working, WorkerPlaces, Pending
<1>26. CASE NoticeLapses
  BY <1>26, <1>2, <1>3, QuietStep
     DEF NoticeLapses, lane, message, human, turn, Working, WorkerPlaces, Pending
<1>27. ASSUME NEW m \in Messages, TimerElapses(m) PROVE LaneInv'
  BY <1>27, <1>2, <1>3, QuietStep
     DEF TimerElapses, lane, message, human, turn, Working, WorkerPlaces, Pending
<1>28. ASSUME NEW g \in Groups, LeaseExpires(g) PROVE LaneInv'
  BY <1>28, <1>2, <1>3, QuietStep
     DEF LeaseExpires, lane, message, human, turn, Working, WorkerPlaces, Pending
<1>29. ASSUME NEW mode \in HandlingModes, ReleaseHandling(mode) PROVE LaneInv'
  BY <1>29, <1>2, <1>3, QuietStep
     DEF ReleaseHandling, lane, message, human, turn, Working, WorkerPlaces, Pending
<1>30. CASE Release
  <2>1. PICK row \in [kind : {"reply", "denial"}, group : {mine}, covers : {held}] :
            written' = written \cup {row}
    BY <1>30 DEF Release
  <2> QED
    BY <1>30, <2>1, <1>4, RowStep
       DEF Release, lane, message, turn, Working, WorkerPlaces
<1>31. CASE WithholdForHuman
  <2> DEFINE row == [kind |-> "withheld", group |-> mine, covers |-> held]
  <2>1. row.kind = "withheld" /\ row.group = mine /\ row.covers = held
    OBVIOUS
  <2>2. written' = written \cup {row}
    BY <1>31 DEF WithholdForHuman
  <2> HIDE DEF row
  <2> QED
    BY <1>31, <2>1, <2>2, <1>4, RowStep
       DEF WithholdForHuman, lane, message, turn, Working, WorkerPlaces
<1>32. CASE Apologize
  <2>1. PICK row \in [kind : {"apology", "denial"}, group : {mine}, covers : {held}] :
            written' = written \cup {row}
    BY <1>32 DEF Apologize
  <2>2. groupStatus[mine] = "Failed" /\ \A m \in held : status[m] = "Failed"
    BY <1>32 DEF Apologize, LaneInv, MemoryMatchesRows
  <2> QED
    BY <1>32, <2>1, <2>2, <1>4, RowStep
       DEF Apologize, Rested, lane, message, turn, Working, WorkerPlaces
<1>33. CASE Interrupt
  <2>1. /\ pc' = "idle" /\ offered' = {}
        /\ UNCHANGED <<status, group, groupStatus, written>>
    BY <1>33 DEF Interrupt, Rested, lane, message
  <2>2. Processing' = Processing
    BY <2>1 DEF Processing
  <2> QED
    BY <2>1, <2>2
       DEF LaneInv, GroupsAreClaimed, OpenGroupHoldsProcessing,
           MemoryMatchesRows, SettlingIsAccountedFor,
           ProcessedIsAccountedFor, ApologyIsHonest, Working
<1>34. CASE UNCHANGED vars
  BY <1>34, <1>2, <1>3, QuietStep DEF vars, lane, message, human, turn, Pending
<1> QED
  BY <1>5, <1>6, <1>7, <1>8, <1>9, <1>10, <1>11, <1>12, <1>13, <1>14, <1>15, <1>16, <1>17, <1>18, <1>19, <1>20, <1>21, <1>22, <1>23, <1>24, <1>25, <1>26, <1>27, <1>28, <1>29, <1>30, <1>31, <1>32, <1>33, <1>34 DEF Next, WorkerStep, Environment

THEOREM LaneInvariant == Spec => []LaneInv
  BY LaneInvInit, LaneInvStep, PTL DEF Spec

-----------------------------------------------------------------------------
(***************************************************************************)
(* The properties.                                                         *)
(***************************************************************************)

\* Wherever the process dies, no message is left in a group nobody will close.
THEOREM NothingStranded == Spec => []NoMessageStranded
<1>1. LaneInv => NoMessageStranded
  BY DEF LaneInv, NoMessageStranded, OpenGroupHoldsProcessing
<1> QED
  BY <1>1, LaneInvariant, PTL

\* A message is marked Processed only under a durable reply, denial or
\* withholding that covers it, crashes included.
THEOREM NothingSilentlyProcessed == Spec => []ProcessedIsAccountedFor
<1>1. LaneInv => ProcessedIsAccountedFor
  BY DEF LaneInv
<1> QED
  BY <1>1, LaneInvariant, PTL

\* The processing-failure notice never speaks of a message that is retried.
THEOREM ApologiesAreHonest == Spec => []ApologyIsHonest
<1>1. LaneInv => ApologyIsHonest
  BY DEF LaneInv
<1> QED
  BY <1>1, LaneInvariant, PTL

\* The steps that change no message's status.
StatusIsKept ==
    \/ UNCHANGED vars
    \/ ListClaimable
    \/ AuthorizeClaim
    \/ Attach
    \/ PeekPending
    \/ InjectAccepted
    \/ InjectRefused
    \/ TurnCompletes
    \/ TurnFails
    \/ CheckCoverage
    \/ RecheckHandling
    \/ ReadNotice
    \/ Release
    \/ MarkLeadNotified
    \/ WithholdForHuman
    \/ Apologize
    \/ Interrupt
    \/ TakeHandling
    \/ ToolRequestsHandoff
    \/ NoticeBecomesDue
    \/ NoticeLapses
    \/ \E m \in Messages : TimerElapses(m)
    \/ \E g \in Groups : LeaseExpires(g)
    \/ \E mode \in HandlingModes : ReleaseHandling(mode)

LEMMA StatusKept == StatusIsKept => status' = status
  BY DEF StatusIsKept, vars, lane, message,
         ListClaimable, AuthorizeClaim, Attach, PeekPending, InjectAccepted,
         InjectRefused, TurnCompletes, TurnFails, CheckCoverage,
         RecheckHandling, ReadNotice, Release, MarkLeadNotified,
         WithholdForHuman, Apologize, Interrupt, TakeHandling,
         ToolRequestsHandoff, NoticeBecomesDue, NoticeLapses, TimerElapses,
         LeaseExpires, ReleaseHandling

\* No step moves a message out of Processed or Failed.
LEMMA TerminalStep ==
    ASSUME LaneInv, [Next]_vars, NEW m \in Messages,
           status[m] \in {"Processed", "Failed"}
    PROVE  status'[m] = status[m]
<1> USE DEF LaneInv, TypeOK
<1>1. CASE RecoverExpiredClaims
  BY <1>1 DEF RecoverExpiredClaims, Requeue, OpenGroupHoldsProcessing
<1>2. CASE Claim
  BY <1>2 DEF Claim, Ripe, Pending
<1>3. CASE Adopt
  BY <1>3 DEF Adopt, MemoryMatchesRows
<1>4. m \notin held \/ pc \notin Working
  BY DEF MemoryMatchesRows
<1>5. CASE SettleGroup
  BY <1>4, <1>5 DEF SettleGroup, Working, WorkerPlaces
<1>6. CASE FailGroup
  BY <1>4, <1>6 DEF FailGroup, Requeue, Working, WorkerPlaces, lane, message
<1>7. ASSUME NEW n \in Messages, Accept(n) PROVE status'[m] = status[m]
  BY <1>7 DEF Accept
<1>8. CASE StatusIsKept
  BY <1>8, StatusKept
<1> QED
  BY <1>1, <1>2, <1>3, <1>5, <1>6, <1>7, <1>8
     DEF Next, WorkerStep, Environment, StatusIsKept

\* Processed and Failed are final: neither recovery, nor a late failure, nor a
\* redelivered webhook reopens a message.
THEOREM TerminalStatusIsFinal == Spec => TerminalIsFinal
<1>1. LaneInv /\ [Next]_vars =>
          [\A m \in Messages :
              status[m] \in {"Processed", "Failed"} => status'[m] = status[m]]_vars
  BY TerminalStep
<1> QED
  BY <1>1, LaneInvariant, PTL DEF Spec, TerminalIsFinal

-----------------------------------------------------------------------------
(***************************************************************************)
(* Human against Maia.  When the handling row exists from the start and no *)
(* lapsed notice makes the settlement commit early, the row's lock covers  *)
(* everything from the second handling check to the commit of the reply.   *)
(***************************************************************************)
LockCoversRelease ==
    /\ handling \in HandlingModes \ {"Absent"}
    /\ notice # "lapsed"
    /\ pc \in {"noticing", "releasing"} => locked /\ MaiaMayReply

LEMMA LockCoversReleaseStep ==
    ASSUME "lapsed" \notin Notices, LockCoversRelease, [Next]_vars
    PROVE  LockCoversRelease'
<1> USE DEF LockCoversRelease, MaiaMayReply, HandlingModes
<1>1. ASSUME NEW m \in Messages, Accept(m) PROVE LockCoversRelease'
  BY <1>1 DEF Accept, GrantedFrom
<1>2. CASE TakeHandling \/ ToolRequestsHandoff
  BY <1>2 DEF TakeHandling, ToolRequestsHandoff, GrantedFrom
<1>3. ASSUME NEW mode \in HandlingModes, ReleaseHandling(mode)
      PROVE  LockCoversRelease'
  BY <1>3 DEF ReleaseHandling
<1>4. CASE NoticeBecomesDue \/ NoticeLapses
  BY <1>4 DEF NoticeBecomesDue, NoticeLapses, human
<1>5. ASSUME NEW m \in Messages, TimerElapses(m) PROVE LockCoversRelease'
  BY <1>5 DEF TimerElapses, human
<1>6. ASSUME NEW g \in Groups, LeaseExpires(g) PROVE LockCoversRelease'
  BY <1>6 DEF LeaseExpires, human
<1>7. CASE RecheckHandling
  BY <1>7 DEF RecheckHandling, RowExists
<1>8. CASE ReadNotice
  BY <1>8 DEF ReadNotice
<1>9. CASE UNCHANGED vars
  BY <1>9 DEF vars, human
<1>10. CASE ListClaimable
  BY <1>10 DEF ListClaimable, human, turn
<1>11. CASE AuthorizeClaim
  BY <1>11 DEF AuthorizeClaim, human, turn
<1>12. CASE Attach
  BY <1>12 DEF Attach, human, turn
<1>13. CASE PeekPending
  BY <1>13 DEF PeekPending, human, turn
<1>14. CASE InjectAccepted
  BY <1>14 DEF InjectAccepted, human, turn
<1>15. CASE InjectRefused
  BY <1>15 DEF InjectRefused, human, turn
<1>16. CASE TurnCompletes
  BY <1>16 DEF TurnCompletes, human, turn
<1>17. CASE TurnFails
  BY <1>17 DEF TurnFails, human, turn
<1>18. CASE CheckCoverage
  BY <1>18 DEF CheckCoverage, human, turn
<1>19. CASE Release
  BY <1>19 DEF Release, human, turn
<1>20. CASE MarkLeadNotified
  BY <1>20 DEF MarkLeadNotified, human, turn
<1>21. CASE WithholdForHuman
  BY <1>21 DEF WithholdForHuman, human, turn
<1>22. CASE Apologize
  BY <1>22 DEF Apologize, Rested, human, turn
<1>23. CASE Interrupt
  BY <1>23 DEF Interrupt, Rested, human, turn
<1>24. CASE RecoverExpiredClaims
  BY <1>24 DEF RecoverExpiredClaims, human, turn
<1>25. CASE Claim
  BY <1>25 DEF Claim, human, turn
<1>26. CASE Adopt
  BY <1>26 DEF Adopt, human, turn
<1>27. CASE SettleGroup
  BY <1>27 DEF SettleGroup, Rested, human, turn
<1>28. CASE FailGroup
  BY <1>28 DEF FailGroup, Rested, human, turn
<1> QED
  BY <1>1, <1>2, <1>3, <1>4, <1>5, <1>6, <1>7, <1>8, <1>9, <1>10, <1>11, <1>12, <1>13, <1>14, <1>15, <1>16, <1>17, <1>18, <1>19, <1>20, <1>21, <1>22, <1>23, <1>24, <1>25, <1>26, <1>27, <1>28
     DEF Next, WorkerStep, Environment

\* Only three actions commit a row about a group.
LEMMA RowWriters ==
    [Next]_vars =>
        Release \/ WithholdForHuman \/ Apologize \/ written' = written
  BY DEF Next, WorkerStep, Environment, vars,
         RecoverExpiredClaims, ListClaimable, Claim, AuthorizeClaim, Attach,
         PeekPending, InjectAccepted, InjectRefused, Adopt, TurnCompletes,
         TurnFails, CheckCoverage, RecheckHandling, ReadNotice,
         MarkLeadNotified, SettleGroup, FailGroup, Interrupt, Accept,
         TimerElapses, LeaseExpires, TakeHandling, ReleaseHandling,
         ToolRequestsHandoff, NoticeBecomesDue, NoticeLapses

\* Under those two conditions a human who takes the Conversation before the
\* reply commits always wins.
THEOREM HumanTakeoverWins ==
    ASSUME "Absent" \notin InitialHandling, "lapsed" \notin Notices
    PROVE  Spec => HumanWins
<1>1. Init => LockCoversRelease
  BY InitialHandlingAssumption DEF Init, LockCoversRelease
<1>2. LockCoversRelease /\ [Next]_vars => LockCoversRelease'
  BY LockCoversReleaseStep
<1>3. LockCoversRelease /\ [Next]_vars =>
          [\A r \in written' \ written : r.kind = "reply" => MaiaMayReply]_vars
  <2> SUFFICES ASSUME LockCoversRelease, [Next]_vars,
                      NEW r \in written' \ written, r.kind = "reply"
               PROVE  MaiaMayReply
    OBVIOUS
  <2>1. CASE Release
    BY <2>1 DEF Release, LockCoversRelease
  <2>2. ASSUME WithholdForHuman \/ Apologize PROVE FALSE
    BY <2>2 DEF WithholdForHuman, Apologize
  <2> QED
    BY <2>1, <2>2, RowWriters
<1> QED
  BY <1>1, <1>2, <1>3, PTL DEF Spec, HumanWins

-----------------------------------------------------------------------------
(***************************************************************************)
(* One answer.  A worker that is never interrupted between the commit of a *)
(* reply and the settlement of its group answers each message once.        *)
(***************************************************************************)
RepliedIsProcessed ==
    \A r \in written : r.kind = "reply" =>
        \/ \A m \in r.covers : status[m] = "Processed"
        \/ pc \in {"settling", "notifying"} /\ r.group = mine /\ r.covers = held

LEMMA AnsweredOnceStep ==
    ASSUME ~MayCrash, LaneInv, RepliedIsProcessed, AnsweredAtMostOnce, [Next]_vars
    PROVE  RepliedIsProcessed' /\ AnsweredAtMostOnce'
<1> USE DEF LaneInv, TypeOK
<1>1. \A r \in written : r \in Rows
  OBVIOUS
<1>2. \A r \in written : (\A m \in r.covers : status[m] = "Processed") =>
                            (\A m \in r.covers : status'[m] = "Processed")
  BY <1>1, TerminalStep DEF Rows
<1>3. CASE Release
  <2>1. \A r \in written : r.kind = "reply" => r.covers \cap held = {}
    BY <1>3 DEF Release, RepliedIsProcessed, MemoryMatchesRows, Working,
                WorkerPlaces
  <2>2. \A r \in written' \ written : r.group = mine /\ r.covers = held
    BY <1>3 DEF Release
  <2>3. \A r, s \in written' \ written :
            r.kind = "reply" /\ s.kind = "reply" => r = s
    BY <1>3 DEF Release
  <2>4. RepliedIsProcessed'
    BY <1>2, <1>3, <2>2 DEF Release, RepliedIsProcessed, turn
  <2>5. AnsweredAtMostOnce'
    BY <2>1, <2>2, <2>3 DEF AnsweredAtMostOnce
  <2> QED
    BY <2>4, <2>5
<1>4. CASE WithholdForHuman \/ Apologize
  <2>1. \A r \in written' : r.kind = "reply" => r \in written
    BY <1>4 DEF WithholdForHuman, Apologize
  <2>2. pc \notin {"settling", "notifying"}
    BY <1>4 DEF WithholdForHuman, Apologize
  <2> QED
    BY <1>2, <2>1, <2>2 DEF RepliedIsProcessed, AnsweredAtMostOnce
<1>5. CASE written' = written
  <2>1. AnsweredAtMostOnce'
    BY <1>5 DEF AnsweredAtMostOnce
  <2>2. CASE SettleGroup
    <3>1. \A m \in held : status'[m] = "Processed"
      BY <2>2 DEF SettleGroup, Fenced, MemoryMatchesRows, Working, WorkerPlaces
    <3> QED
      BY <1>2, <1>5, <2>1, <3>1 DEF RepliedIsProcessed
  <2>3. CASE ~SettleGroup
    <3>1. pc \in {"settling", "notifying"} =>
              pc' \in {"settling", "notifying"} /\ UNCHANGED <<mine, held>>
      BY <2>3 DEF Next, WorkerStep, Environment, vars, turn, Release,
                  WithholdForHuman, Apologize,
                  RecoverExpiredClaims, ListClaimable, Claim,
                  AuthorizeClaim, Attach, PeekPending, InjectAccepted,
                  InjectRefused, Adopt, TurnCompletes, TurnFails,
                  CheckCoverage, RecheckHandling, ReadNotice,
                  MarkLeadNotified, FailGroup, Interrupt, Accept,
                  TimerElapses, LeaseExpires, TakeHandling, ReleaseHandling,
                  ToolRequestsHandoff, NoticeBecomesDue, NoticeLapses
    <3> QED
      BY <1>2, <1>5, <2>1, <3>1 DEF RepliedIsProcessed
  <2> QED
    BY <2>2, <2>3
<1> QED
  BY <1>3, <1>4, <1>5, RowWriters

\* Without interruptions no message is answered twice, whatever the humans,
\* the late messages and the failed turns do.
THEOREM AnsweredOnceWithoutCrashes ==
    ASSUME ~MayCrash PROVE Spec => []AnsweredAtMostOnce
<1>1. Init => RepliedIsProcessed /\ AnsweredAtMostOnce
  BY DEF Init, RepliedIsProcessed, AnsweredAtMostOnce
<1>2. LaneInv /\ RepliedIsProcessed /\ AnsweredAtMostOnce /\ [Next]_vars =>
          RepliedIsProcessed' /\ AnsweredAtMostOnce'
  BY AnsweredOnceStep
<1> QED
  BY <1>1, <1>2, LaneInvariant, PTL DEF Spec

\* Nor is a message whose reply is committed given to another turn, or retired
\* and apologized for: it is in hand until it is Processed.
THEOREM AnsweredIsDoneWithoutCrashes ==
    ASSUME ~MayCrash PROVE Spec => []AnsweredIsNeverRetried
<1>1. Init => RepliedIsProcessed /\ AnsweredAtMostOnce
  BY DEF Init, RepliedIsProcessed, AnsweredAtMostOnce
<1>2. LaneInv /\ RepliedIsProcessed /\ AnsweredAtMostOnce /\ [Next]_vars =>
          RepliedIsProcessed' /\ AnsweredAtMostOnce'
  BY AnsweredOnceStep
<1>3. LaneInv /\ RepliedIsProcessed => AnsweredIsNeverRetried
  BY DEF LaneInv, TypeOK, Rows, MemoryMatchesRows, Working, WorkerPlaces,
         RepliedIsProcessed, AnsweredIsNeverRetried
<1> QED
  BY <1>1, <1>2, <1>3, LaneInvariant, PTL DEF Spec
-----------------------------------------------------------------------------
(***************************************************************************)
(* What the model heard.  Between an accepted injection and its adoption   *)
(* the turn knows more than the group holds, by what was offered.          *)
(***************************************************************************)
HeardIsHeld ==
    /\ pc \in {"composing", "offering", "covering", "rechecking", "noticing",
              "releasing"} => heard = held
    /\ pc = "adopting" => heard = held \cup offered

LEMMA HeardIsHeldStep == HeardIsHeld /\ [Next]_vars => HeardIsHeld'
<1> SUFFICES ASSUME HeardIsHeld, [Next]_vars PROVE HeardIsHeld'
  OBVIOUS
<1>1. CASE RecoverExpiredClaims \/ ListClaimable \/ Claim \/ AuthorizeClaim
  BY <1>1 DEF RecoverExpiredClaims, ListClaimable, Claim, AuthorizeClaim,
              HeardIsHeld
<1>2. CASE Attach \/ PeekPending \/ InjectAccepted \/ InjectRefused \/ Adopt
  BY <1>2 DEF Attach, PeekPending, InjectAccepted, InjectRefused, Adopt,
              HeardIsHeld
<1>3. CASE TurnCompletes \/ TurnFails \/ CheckCoverage \/ RecheckHandling
           \/ ReadNotice
  BY <1>3 DEF TurnCompletes, TurnFails, CheckCoverage, RecheckHandling,
              ReadNotice, turn, HeardIsHeld
<1>4. CASE Release \/ MarkLeadNotified \/ WithholdForHuman
  BY <1>4 DEF Release, MarkLeadNotified, WithholdForHuman, HeardIsHeld
<1>5. CASE SettleGroup \/ FailGroup \/ Apologize \/ Interrupt
  BY <1>5 DEF SettleGroup, FailGroup, Apologize, Interrupt, Rested, HeardIsHeld
<1>6. ASSUME UNCHANGED <<pc, turn>> PROVE HeardIsHeld'
  BY <1>6 DEF turn, HeardIsHeld
<1>7. CASE Environment /\ ~Interrupt
  BY <1>6, <1>7 DEF Environment, Accept, TimerElapses, LeaseExpires,
                    TakeHandling, ReleaseHandling, ToolRequestsHandoff,
                    NoticeBecomesDue, NoticeLapses
<1>8. CASE UNCHANGED vars
  BY <1>6, <1>8 DEF vars
<1> QED
  BY <1>1, <1>2, <1>3, <1>4, <1>5, <1>7, <1>8 DEF Next, WorkerStep

\* A reply names as its triggers exactly what the model was given, however
\* often messages were offered, injected, refused and adopted meanwhile.
THEOREM RepliesCoverWhatWasHeard == Spec => []ReplyCoversWhatWasHeard
<1>1. Init => HeardIsHeld
  BY DEF Init, HeardIsHeld
<1>2. HeardIsHeld => ReplyCoversWhatWasHeard
  BY DEF HeardIsHeld, ReplyCoversWhatWasHeard
<1> QED
  BY <1>1, <1>2, HeardIsHeldStep, PTL DEF Spec
-----------------------------------------------------------------------------
(***************************************************************************)
(* Refinement: every step of the lane is a step of the promise, or         *)
(* invisible to it.  LaneInv says what the worker's memory is worth; what  *)
(* it lacks is that the word of a turn comes last: until the settlement    *)
(* nothing has been committed about the group in hand.                     *)
(***************************************************************************)
WordComesLast ==
    pc \notin {"idle", "listing", "claiming", "settling", "notifying"} =>
        \A r \in written : r.group # mine

\* The steps that the promise does not see.
Unseen == UNCHANGED <<status, groupStatus, written>>

LEMMA UnseenSteps ==
    ASSUME StatusIsKept, ~Release, ~WithholdForHuman, ~Apologize
    PROVE  Unseen
  BY DEF Unseen, StatusIsKept, vars, lane, message,
         ListClaimable, AuthorizeClaim, Attach, PeekPending, InjectAccepted,
         InjectRefused, TurnCompletes, TurnFails, CheckCoverage,
         RecheckHandling, ReadNotice, MarkLeadNotified, Interrupt,
         TakeHandling, ToolRequestsHandoff, NoticeBecomesDue, NoticeLapses,
         TimerElapses, LeaseExpires, ReleaseHandling

\* A step that writes nothing and keeps the claim keeps its word to the last,
\* unless it comes from where the word has been said.
LEMMA WordStep ==
    ASSUME LaneInv, WordComesLast, [Next]_vars PROVE WordComesLast'
<1> USE DEF WordComesLast
<1>1. CASE Claim
  <2>1. groupStatus[FreshGroup] = "Unused"
    BY <1>1, FreshGroupIsUnused DEF Claim
  <2>2. mine' = FreshGroup /\ written' = written
    BY <1>1 DEF Claim
  <2> QED
    BY <2>1, <2>2 DEF LaneInv, GroupsAreClaimed
<1>2. CASE Release \/ WithholdForHuman
  BY <1>2 DEF Release, WithholdForHuman
<1>3. CASE SettleGroup \/ Apologize \/ Interrupt
  BY <1>3 DEF SettleGroup, Apologize, Interrupt, Rested
<1>4. CASE FailGroup
  BY <1>4 DEF FailGroup, Rested, turn
<1>5. CASE RecoverExpiredClaims \/ ListClaimable
  BY <1>5 DEF RecoverExpiredClaims, ListClaimable
<1>6. CASE MarkLeadNotified
  BY <1>6 DEF MarkLeadNotified
<1>7. CASE AuthorizeClaim \/ Attach \/ PeekPending \/ InjectAccepted
           \/ InjectRefused \/ Adopt \/ TurnCompletes \/ TurnFails
           \/ CheckCoverage \/ RecheckHandling \/ ReadNotice
  BY <1>7 DEF AuthorizeClaim, Attach, PeekPending, InjectAccepted,
              InjectRefused, Adopt, TurnCompletes, TurnFails, CheckCoverage,
              RecheckHandling, ReadNotice, turn
<1>8. CASE Environment /\ ~Interrupt
  BY <1>8 DEF Environment, Accept, TimerElapses, LeaseExpires, TakeHandling,
              ReleaseHandling, ToolRequestsHandoff, NoticeBecomesDue,
              NoticeLapses, turn
<1>9. CASE UNCHANGED vars
  BY <1>9 DEF vars, turn
<1> QED
  BY <1>1, <1>2, <1>3, <1>4, <1>5, <1>6, <1>7, <1>8, <1>9 DEF Next, WorkerStep

\* What a working turn has in hand is what the promise says it has.
LEMMA HeldIsInHand ==
    ASSUME LaneInv, pc \in Working
    PROVE  /\ mine \in Groups
           /\ Processing = {mine}
           /\ held = Promise!InHand
<1>1. mine \in Groups /\ Processing = {mine}
  BY DEF LaneInv, MemoryMatchesRows, Processing
<1>2. held = Promise!InHand
  BY DEF LaneInv, TypeOK, MemoryMatchesRows, Promise!InHand
<1> QED
  BY <1>1, <1>2

\* The groups that are over: the refinement mapping's other half.
Over == {g \in Groups : groupStatus[g] \in {"Settled", "Failed"}}

LEMMA LaneInitRefines == Init => Promise!LanePromiseInit
  BY DEF Init, Promise!LanePromiseInit, Processing

LEMMA UnseenRefines == Unseen => UNCHANGED Promise!lanePromise
  BY DEF Unseen, Promise!lanePromise, Processing

LEMMA AcceptRefines ==
    ASSUME LaneInv, NEW m \in Messages, Accept(m) PROVE Promise!Arrive(m)
  BY DEF Accept, Processing, Promise!Arrive

LEMMA ClaimRefines ==
    ASSUME LaneInv, Claim
    PROVE  FreshGroup \in Groups /\ Ripe \in SUBSET Promise!Waiting /\ Promise!TakeUp(FreshGroup, Ripe)
<1> DEFINE f == FreshGroup
<1>1. f \in Groups /\ groupStatus[f] = "Unused"
  BY FreshGroupIsUnused DEF Claim
<1> HIDE DEF f
<1>2. groupStatus' = [groupStatus EXCEPT ![f] = "Processing"] /\ UNCHANGED written
  BY DEF Claim, f
<1>3. Processing = {} /\ Ripe # {} /\ Ripe \subseteq Promise!Waiting
  BY DEF Claim, Ripe, Pending, Promise!Waiting
<1>4. Processing' = {f}
  BY <1>1, <1>2, <1>3 DEF LaneInv, TypeOK, Processing
<1>5. f \notin Over /\ Over' = Over
  BY <1>1, <1>2 DEF LaneInv, TypeOK, Over
<1>6. status' = Promise!Moved(Ripe, "Processing")
  BY DEF Claim, Promise!Moved
<1>7. Promise!TakeUp(f, Ripe)
  BY <1>2, <1>3, <1>4, <1>5, <1>6 DEF Promise!TakeUp, Over
<1> QED
  BY <1>1, <1>3, <1>7 DEF f

LEMMA AdoptRefines ==
    ASSUME LaneInv, WordComesLast, Adopt
    PROVE  mine \in Groups /\ offered \in SUBSET Promise!Waiting /\ Promise!FoldIn(mine, offered)
<1>1. pc \in Working /\ pc = "adopting"
  BY DEF Adopt, Working, WorkerPlaces
<1>2. mine \in Groups /\ Processing = {mine}
  BY <1>1, HeldIsInHand
<1>3. Promise!Unspoken(mine)
  BY <1>1 DEF WordComesLast, Promise!Unspoken
<1>4. offered \subseteq Promise!Waiting
  BY DEF LaneInv, TypeOK, MemoryMatchesRows, Promise!Waiting
<1>5. UNCHANGED <<groupStatus, written>>
  BY DEF Adopt
<1>6. Processing' = Processing /\ Over' = Over
  BY <1>5 DEF Processing, Over
<1>7. status' = Promise!Moved(offered, "Processing")
  BY DEF Adopt, Promise!Moved
<1> QED
  BY <1>2, <1>3, <1>4, <1>5, <1>6, <1>7 DEF Promise!FoldIn, Over

LEMMA SpeechRefines ==
    ASSUME LaneInv, WordComesLast, Release \/ WithholdForHuman
    PROVE  /\ mine \in Groups
           /\ \E kind \in {"reply", "denial", "withheld"} : Promise!Speak(mine, kind)
<1>1. pc \in Working \ {"idle", "listing", "claiming", "settling", "notifying"}
  BY DEF Release, WithholdForHuman, Working, WorkerPlaces
<1>2. mine \in Groups /\ Processing = {mine} /\ held = Promise!InHand
  BY <1>1, HeldIsInHand
<1>3. Promise!Unspoken(mine)
  BY <1>1 DEF WordComesLast, Promise!Unspoken
<1>4. UNCHANGED <<status, groupStatus>>
  BY DEF Release, WithholdForHuman, lane, message
<1>5. Processing' = Processing /\ Over' = Over
  BY <1>4 DEF Processing, Over
<1>6. PICK kind \in {"reply", "denial", "withheld"} :
          written' = written \cup {[kind |-> kind, group |-> mine, covers |-> held]}
  BY DEF Release, WithholdForHuman
<1>7. Promise!Speak(mine, kind)
  BY <1>2, <1>3, <1>4, <1>5, <1>6 DEF Promise!Speak, Over
<1> QED
  BY <1>2, <1>7

LEMMA SettleRefines ==
    ASSUME LaneInv, SettleGroup
    PROVE  \E t \in Groups : Promise!Conclude(t)
<1>1. pc \in Working /\ pc = "settling"
  BY DEF SettleGroup, Working, WorkerPlaces
<1>2. mine \in Groups /\ Processing = {mine} /\ held = Promise!InHand
  BY <1>1, HeldIsInHand
<1>3. ~Promise!Unspoken(mine)
  BY <1>1 DEF LaneInv, SettlingIsAccountedFor, Promise!Unspoken
<1>4. /\ groupStatus' = [groupStatus EXCEPT ![mine] = "Settled"]
      /\ status' = Promise!Moved(held, "Processed")
      /\ UNCHANGED written
  BY <1>2 DEF SettleGroup, Fenced, Promise!Moved
<1>5. Processing' = {} /\ Over' = Over \cup {mine}
  BY <1>2, <1>4 DEF LaneInv, TypeOK, Processing, Over
<1>6. PICK t \in Groups : t = mine
  BY <1>2
<1>7. Promise!Conclude(t)
  BY <1>2, <1>3, <1>4, <1>5, <1>6 DEF Promise!Conclude, Over
<1> QED
  BY <1>7

\* What is requeued is retired at the ceiling and otherwise waits again.
LEMMA RequeueGivesBack ==
    ASSUME TypeOK, Requeue(Promise!InHand)
    PROVE  status' = [m \in Messages |->
               IF m \in {n \in Promise!InHand : attempts[n] >= MaxAttempts} THEN "Failed"
               ELSE IF m \in Promise!InHand THEN "Pending" ELSE status[m]]
  BY DEF Requeue, RequeuedStatus

LEMMA GiveBackRefines ==
    ASSUME LaneInv, NEW g \in Groups, Processing = {g},
           groupStatus' = [groupStatus EXCEPT ![g] = "Failed"],
           Requeue(Promise!InHand), UNCHANGED written
    PROVE  \E S \in SUBSET Promise!InHand : Promise!GiveBack(g, S)
<1>1. PICK S \in SUBSET Promise!InHand :
          S = {n \in Promise!InHand : attempts[n] >= MaxAttempts}
  OBVIOUS
<1>2. status' = [m \in Messages |->
               IF m \in S THEN "Failed"
               ELSE IF m \in Promise!InHand THEN "Pending" ELSE status[m]]
  BY <1>1, RequeueGivesBack DEF LaneInv
<1>3. Processing' = {} /\ Over' = Over \cup {g}
  BY DEF LaneInv, TypeOK, Processing, Over
<1>4. Promise!GiveBack(g, S)
  BY <1>1, <1>2, <1>3 DEF Promise!GiveBack, Over
<1> QED
  BY <1>1, <1>4

LEMMA FailRefines ==
    ASSUME LaneInv, FailGroup
    PROVE  mine \in Groups /\ \E S \in SUBSET Promise!InHand : Promise!GiveBack(mine, S)
<1>1. pc \in Working
  BY DEF FailGroup, Working, WorkerPlaces
<1>2. mine \in Groups /\ Processing = {mine} /\ held = Promise!InHand
  BY <1>1, HeldIsInHand
<1>3. /\ groupStatus' = [groupStatus EXCEPT ![mine] = "Failed"]
      /\ Requeue(held)
      /\ UNCHANGED written
  BY <1>2 DEF FailGroup, Fenced
<1>4. Requeue(Promise!InHand)
  BY <1>2, <1>3
<1> QED
  BY <1>2, <1>3, <1>4, GiveBackRefines

\* Recovery gives back the one group there can be, or finds nothing.
LEMMA RecoverRefines ==
    ASSUME LaneInv, RecoverExpiredClaims
    PROVE  \/ Unseen
           \/ \E g \in Groups : \E S \in SUBSET Promise!InHand : Promise!GiveBack(g, S)
<1> DEFINE expired == Processing \cap lapsed
           back == {m \in Messages : group[m] \in expired}
<1>1. /\ groupStatus' = [g \in Groups |->
              IF g \in expired THEN "Failed" ELSE groupStatus[g]]
      /\ Requeue(back)
      /\ UNCHANGED written
  BY DEF RecoverExpiredClaims
<1>2. CASE expired = {}
  <2>1. groupStatus' = groupStatus
    BY <1>1, <1>2 DEF LaneInv, TypeOK
  <2>2. back = {}
    BY <1>2
  <2>3. status' = status
    BY <1>1, <2>2 DEF Requeue, LaneInv, TypeOK
  <2> QED
    BY <1>1, <2>1, <2>3 DEF Unseen
<1>3. CASE expired # {}
  <2>1. PICK g \in Groups : g \in expired
    BY <1>3 DEF Processing
  <2>2. Processing = {g} /\ expired = {g}
    BY <2>1 DEF LaneInv
  <2>3. groupStatus' = [groupStatus EXCEPT ![g] = "Failed"]
    BY <1>1, <2>2 DEF LaneInv, TypeOK
  <2>4. back = Promise!InHand
    BY <2>2 DEF LaneInv, OpenGroupHoldsProcessing, Promise!InHand
  <2>5. Requeue(Promise!InHand)
    BY <1>1, <2>4
  <2> QED
    BY <1>1, <2>2, <2>3, <2>5, GiveBackRefines
<1> QED
  BY <1>2, <1>3

LEMMA ApologyRefines ==
    ASSUME LaneInv, WordComesLast, Apologize
    PROVE  /\ mine \in Groups
           /\ held \in SUBSET Messages
           /\ \E kind \in {"apology", "denial"} : Promise!Apologize(mine, held, kind)
<1>1. pc = "apologizing" /\ UNCHANGED <<status, groupStatus>>
  BY DEF Apologize, lane, message
<1>2. mine \in Groups /\ held \in SUBSET Messages
  BY <1>1 DEF LaneInv, TypeOK
<1>3. mine \in Over /\ \A m \in held : status[m] = "Failed"
  BY <1>1, <1>2 DEF LaneInv, MemoryMatchesRows, Over
<1>4. Promise!Unspoken(mine)
  BY <1>1 DEF WordComesLast, Promise!Unspoken
<1>5. Processing' = Processing /\ Over' = Over
  BY <1>1 DEF Processing, Over
<1>6. PICK kind \in {"apology", "denial"} :
          written' = written \cup {[kind |-> kind, group |-> mine, covers |-> held]}
  BY DEF Apologize
<1>7. Promise!Apologize(mine, held, kind)
  BY <1>1, <1>3, <1>4, <1>5, <1>6 DEF Promise!Apologize, Over
<1> QED
  BY <1>2, <1>7

LEMMA LaneStepRefines ==
    ASSUME LaneInv, WordComesLast, [Next]_vars
    PROVE  [Promise!LanePromiseNext]_Promise!lanePromise
<1> USE DEF Promise!LanePromiseNext
<1>1. ASSUME NEW m \in Messages, Accept(m) PROVE Promise!LanePromiseNext
  BY <1>1, AcceptRefines
<1>2. CASE Claim
  BY <1>2, ClaimRefines
<1>3. CASE Adopt
  BY <1>3, AdoptRefines
<1>4. CASE Release \/ WithholdForHuman
  BY <1>4, SpeechRefines
<1>5. CASE SettleGroup
  BY <1>5, SettleRefines
<1>6. CASE FailGroup
  BY <1>6, FailRefines
<1>7. CASE RecoverExpiredClaims
  BY <1>7, RecoverRefines, UnseenRefines
<1>8. CASE Apologize
  BY <1>8, ApologyRefines
<1>9. CASE StatusIsKept /\ ~Release /\ ~WithholdForHuman /\ ~Apologize
  BY <1>9, UnseenSteps, UnseenRefines
<1> QED
  BY <1>1, <1>2, <1>3, <1>4, <1>5, <1>6, <1>7, <1>8, <1>9
     DEF Next, WorkerStep, Environment, StatusIsKept

\* The lane, with its claims, leases, late messages, crashes and recoveries,
\* is one that takes turns, each with one word about exactly what it holds.
THEOREM LaneImplementsPromise == Spec => KeepsTheLanePromise
<1>1. Init => WordComesLast
  BY DEF Init, WordComesLast
<1>2. LaneInv /\ WordComesLast /\ [Next]_vars => WordComesLast'
  BY WordStep
<1>3. LaneInv /\ WordComesLast /\ [Next]_vars =>
          [Promise!LanePromiseNext]_Promise!lanePromise
  BY LaneStepRefines
<1> QED
  BY <1>1, <1>2, <1>3, LaneInitRefines, LaneInvariant, PTL
     DEF Spec, KeepsTheLanePromise, Promise!LanePromiseSpec

\* No turn speaks twice, not even one that is lost, given back and apologized
\* for: it follows from the promise alone.  (inbox.py, the fence of a claim)
THEOREM OneWord == Spec => []Promise!OneWordPerTurn
<1> USE DEF Promise!OneWordPerTurn
<1>1. Promise!LanePromiseInit => Promise!OneWordPerTurn
  BY DEF Promise!LanePromiseInit
<1>2. Promise!OneWordPerTurn /\ [Promise!LanePromiseNext]_Promise!lanePromise =>
          Promise!OneWordPerTurn'
  <2> SUFFICES ASSUME Promise!OneWordPerTurn,
                      [Promise!LanePromiseNext]_Promise!lanePromise
               PROVE  Promise!OneWordPerTurn'
    OBVIOUS
  <2>1. \/ written' = written
        \/ \E t \in Groups, kind \in {"reply", "denial", "withheld", "apology"},
              S \in SUBSET Messages :
                  /\ Promise!Unspoken(t)
                  /\ written' = written \cup
                         {[kind |-> kind, group |-> t, covers |-> S]}
    <3>1. CASE written' = written
      BY <3>1
    <3>2. ASSUME NEW t \in Groups, NEW kind \in {"reply", "denial", "withheld"},
                 Promise!Speak(t, kind)
          PROVE  Promise!InHand \in SUBSET Messages
      BY DEF Promise!InHand
    <3>3. CASE \E t \in Groups, kind \in {"reply", "denial", "withheld"} :
                   Promise!Speak(t, kind)
      BY <3>2, <3>3 DEF Promise!Speak
    <3>4. CASE \E t \in Groups, S \in SUBSET Messages,
                  kind \in {"apology", "denial"} : Promise!Apologize(t, S, kind)
      BY <3>4 DEF Promise!Apologize
    <3>5. ASSUME NEW t \in Groups, NEW S,
                 \/ Promise!TakeUp(t, S) \/ Promise!FoldIn(t, S)
                 \/ Promise!GiveBack(t, S) \/ Promise!Conclude(t)
          PROVE  written' = written
      BY <3>5 DEF Promise!TakeUp, Promise!FoldIn, Promise!GiveBack, Promise!Conclude
    <3>6. ASSUME NEW m \in Messages, Promise!Arrive(m) PROVE written' = written
      BY <3>6 DEF Promise!Arrive
    <3>7. CASE UNCHANGED Promise!lanePromise
      BY <3>7 DEF Promise!lanePromise
    <3> QED
      BY <3>1, <3>3, <3>4, <3>5, <3>6, <3>7 DEF Promise!LanePromiseNext
  <2> QED
    BY <2>1 DEF Promise!Unspoken
<1> QED
  BY <1>1, <1>2, LaneImplementsPromise, PTL
     DEF KeepsTheLanePromise, Promise!LanePromiseSpec
=============================================================================
