-------------------------- MODULE EngagementProofs --------------------------
(***************************************************************************)
(* Proofs about marketing work, for any Contacts, candidates, campaigns,   *)
(* caps, windows, limits and quiet hours.                                  *)
(*                                                                         *)
(* Whether a member is a duplicate depends on the list alone, and the list *)
(* of a campaign never changes.  So it is enough that nobody who ever left *)
(* the states Excluded and None was a duplicate: of two needs of the same  *)
(* Contact the later one is.                                               *)
(***************************************************************************)
EXTENDS Engagement, FiniteSetTheorems, TLAPS

\* Who was included at some time is no duplicate.
IncludedIsFirst ==
    \A m \in Members : member[m] \notin {"None", "Excluded"} => ~Duplicate(m)

EngagementInv ==
    /\ TypeOK
    /\ IncludedIsFirst
    /\ CompletedIsDone

USE DEF CandidateStatuses, CampaignStatuses, MemberStatuses

-----------------------------------------------------------------------------
\* Resolution keeps the type of the member column, includes only members that
\* are not duplicates, keeps what the worker decided, and touches the rows of
\* one campaign only.
LEMMA ResolutionIsCareful ==
    ASSUME TypeOK, IncludedIsFirst,
           NEW k \in Campaigns, NEW fit \in SUBSET Listed(k),
           member' = Resolved(k, fit)
    PROVE  /\ member' \in [Members -> MemberStatuses]
           /\ \A m \in Members :
                 /\ member'[m] \notin {"None", "Excluded"} => ~Duplicate(m)
                 /\ member[m] \in Reached => member'[m] = member[m]
                 /\ CampaignOf[m] # k => member'[m] = member[m]
<1>1. member' \in [Members -> MemberStatuses]
  BY DEF Resolved, TypeOK
<1>2. ASSUME NEW m \in Members
      PROVE  /\ member'[m] \notin {"None", "Excluded"} => ~Duplicate(m)
             /\ member[m] \in Reached => member'[m] = member[m]
             /\ CampaignOf[m] # k => member'[m] = member[m]
  <2>1. member'[m] =
            IF m \in Listed(k) /\ member[m] \in {"None", "Included", "Excluded"}
            THEN IF m \in Chosen(k, fit) THEN "Included" ELSE "Excluded"
            ELSE member[m]
    BY DEF Resolved
  <2>2. m \in Chosen(k, fit) => ~Duplicate(m)
    BY DEF Chosen, Eligible
  <2>3. m \in Listed(k) => CampaignOf[m] = k
    BY DEF Listed
  <2> QED BY <2>1, <2>2, <2>3 DEF IncludedIsFirst, Reached
<1> QED BY <1>1, <1>2

\* Initially nothing is planned.
LEMMA InitEstablishes == Init => EngagementInv
<1> SUFFICES ASSUME Init PROVE EngagementInv
  OBVIOUS
<1>1. TypeOK
  BY EngagementAssumption DEF Init, TypeOK
<1>2. IncludedIsFirst
  BY DEF Init, IncludedIsFirst
<1>3. CompletedIsDone
  BY DEF Init, CompletedIsDone
<1> QED BY <1>1, <1>2, <1>3 DEF EngagementInv

\* Every step keeps the three parts.
LEMMA StepPreserves == EngagementInv /\ [Next]_vars => EngagementInv'
<1> SUFFICES ASSUME EngagementInv, [Next]_vars PROVE EngagementInv'
  OBVIOUS
<1> USE DEF EngagementInv
<1>dup. \A m \in Members : Duplicate(m)' = Duplicate(m)
  BY DEF Duplicate, Listed
<1>1. CASE UNCHANGED vars
  BY <1>1, <1>dup DEF vars, TypeOK, IncludedIsFirst, CompletedIsDone, Waiting, Listed
<1>2. ASSUME NEW c \in Candidates,
             Discover(c) \/ Authorize(c) \/ Reject(c) \/ Revoke(c)
      PROVE  EngagementInv'
  <2>1. UNCHANGED <<campaign, member, age, hour>>
    BY <1>2 DEF Discover, Authorize, Reject, Revoke
  <2>2. candidate' \in [Candidates -> CandidateStatuses]
    BY <1>2 DEF Discover, Authorize, Reject, Revoke, TypeOK
  <2> QED BY <2>1, <2>2, <1>dup
          DEF TypeOK, IncludedIsFirst, CompletedIsDone, Waiting, Listed
<1>3. ASSUME NEW k \in Campaigns, Plan(k) \/ Activate(k)
      PROVE  EngagementInv'
  <2>1. PICK fit \in SUBSET Listed(k) : member' = Resolved(k, fit)
    BY <1>3 DEF Plan, Activate
  <2>2. /\ member' \in [Members -> MemberStatuses]
        /\ \A m \in Members :
              /\ member'[m] \notin {"None", "Excluded"} => ~Duplicate(m)
              /\ CampaignOf[m] # k => member'[m] = member[m]
    BY <2>1, ResolutionIsCareful
  <2>3. /\ campaign' \in [Campaigns -> CampaignStatuses]
        /\ campaign'[k] # "Completed"
        /\ \A j \in Campaigns : j # k => campaign'[j] = campaign[j]
        /\ UNCHANGED <<candidate, age, hour>>
    BY <1>3 DEF Plan, Activate, TypeOK
  <2>4. TypeOK'
    BY <2>2, <2>3 DEF TypeOK
  <2>5. IncludedIsFirst'
    BY <2>2, <1>dup DEF IncludedIsFirst
  <2>6. CompletedIsDone'
    BY <2>2, <2>3 DEF CompletedIsDone, Waiting, Listed
  <2> QED BY <2>4, <2>5, <2>6
<1>4. ASSUME NEW k \in Campaigns, Pause(k) \/ Cancel(k) \/ FindNobodyWaiting(k)
      PROVE  EngagementInv'
  <2>1. /\ campaign' \in [Campaigns -> CampaignStatuses]
        /\ \A j \in Campaigns :
              campaign'[j] = "Completed" => campaign[j] = "Completed" \/ Waiting(j) = {}
        /\ UNCHANGED <<candidate, member, age, hour>>
    BY <1>4 DEF Pause, Cancel, FindNobodyWaiting, TypeOK
  <2> QED BY <2>1, <1>dup
          DEF TypeOK, IncludedIsFirst, CompletedIsDone, Waiting, Listed
<1>5. ASSUME NEW c \in Candidates, DispatchCandidate(c)
      PROVE  EngagementInv'
  <2>1. /\ candidate' \in [Candidates -> CandidateStatuses]
        /\ age' \in [Sources -> 0 .. LongestWindow]
        /\ UNCHANGED <<campaign, member, hour>>
    BY <1>5, EngagementAssumption DEF DispatchCandidate, TypeOK
  <2> QED BY <2>1, <1>dup
          DEF TypeOK, IncludedIsFirst, CompletedIsDone, Waiting, Listed
<1>6. ASSUME NEW m \in Members, DenyForFrequency(m) \/ DispatchMember(m)
      PROVE  EngagementInv'
  <2> DEFINE k == CampaignOf[m]
  <2>1. k \in Campaigns
    BY EngagementAssumption
  <2>2. member[m] = "Included" /\ campaign[k] = "Active"
    BY <1>6 DEF DenyForFrequency, DispatchMember, InTurn, Waiting
  <2>3. /\ member'[m] \in {"Denied", "Queued"}
        /\ member' = [member EXCEPT ![m] = member'[m]]
        /\ age' \in [Sources -> 0 .. LongestWindow]
        /\ UNCHANGED <<candidate, hour>>
    BY <1>6, EngagementAssumption DEF DenyForFrequency, DispatchMember, TypeOK
  <2>4. \/ campaign' = campaign
        \/ Waiting(k) = {m} /\ campaign' = [campaign EXCEPT ![k] = "Completed"]
    BY <1>6 DEF DenyForFrequency, DispatchMember, Finishes
  <2>5. TypeOK'
    BY <2>1, <2>3, <2>4 DEF TypeOK
  <2>6. IncludedIsFirst'
    BY <2>2, <2>3, <1>dup DEF IncludedIsFirst, TypeOK
  <2>7. \A j \in Campaigns : Waiting(j)' \subseteq Waiting(j) /\ m \notin Waiting(j)'
    BY <2>2, <2>3 DEF Waiting, Listed, TypeOK
  <2>8. CompletedIsDone'
    <3> SUFFICES ASSUME NEW j \in Campaigns, campaign'[j] = "Completed"
                 PROVE  Waiting(j)' = {}
      BY DEF CompletedIsDone
    <3>1. CASE campaign[j] = "Completed"
      BY <3>1, <2>7 DEF CompletedIsDone
    <3>2. CASE campaign[j] # "Completed"
      <4>1. j = k /\ Waiting(k) = {m}
        BY <3>2, <2>4 DEF TypeOK
      <4> QED BY <4>1, <2>7
    <3> QED BY <3>1, <3>2
  <2> QED BY <2>5, <2>6, <2>8
<1>7. ASSUME NEW p \in Contacts, ContactReplies(p)
      PROVE  EngagementInv'
  <2>1. /\ candidate' \in [Candidates -> CandidateStatuses]
        /\ member' \in [Members -> MemberStatuses]
        /\ UNCHANGED <<campaign, age, hour>>
    BY <1>7 DEF ContactReplies, TypeOK
  <2>2. \A m \in Members :
           \/ member'[m] = member[m]
           \/ member[m] = "Queued" /\ member'[m] = "Responded"
    BY <1>7 DEF ContactReplies
  <2> QED BY <2>1, <2>2, <1>dup
          DEF TypeOK, IncludedIsFirst, CompletedIsDone, Waiting, Listed
<1>8. CASE TouchesAge
  <2>1. age' \in [Sources -> 0 .. LongestWindow]
    BY <1>8, EngagementAssumption DEF TouchesAge, TypeOK, recent, InWindow
  <2> QED BY <1>8, <2>1, <1>dup
     DEF TouchesAge, TypeOK, IncludedIsFirst, CompletedIsDone, Waiting, Listed
<1>9. CASE HourPasses
  <2>1. hour' \in 0 .. Hours - 1
    BY <1>9, EngagementAssumption DEF HourPasses, TypeOK
  <2> QED BY <1>9, <2>1, <1>dup
          DEF HourPasses, TypeOK, IncludedIsFirst, CompletedIsDone, Waiting, Listed
<1> QED BY <1>1, <1>2, <1>3, <1>4, <1>5, <1>6, <1>7, <1>8, <1>9
        DEF Next, Review, Dispatch, World

-----------------------------------------------------------------------------
\* The inductive invariant holds in every reachable state.
THEOREM EngagementInvariant == Spec => []EngagementInv
BY InitEstablishes, StepPreserves, PTL DEF Spec

\* Every column keeps its range.
THEOREM TypeCorrect == Spec => []TypeOK
BY EngagementInvariant, PTL DEF EngagementInv

\* A campaign writes to a Contact at most once.
THEOREM OncePerCampaign == Spec => []ContactOncePerCampaign
<1>1. EngagementInv => ContactOncePerCampaign
  <2> SUFFICES ASSUME EngagementInv,
                      NEW m \in Members, NEW n \in Members,
                      CampaignOf[m] = CampaignOf[n], ContactOf[m] = ContactOf[n],
                      member[m] \in Reached, member[n] \in Reached,
                      m # n
               PROVE  FALSE
    BY DEF ContactOncePerCampaign
  <2>1. ~Duplicate(m) /\ ~Duplicate(n)
    BY DEF EngagementInv, IncludedIsFirst, Reached
  <2>2. m < n \/ n < m
    BY EngagementAssumption
  <2> QED BY <2>1, <2>2 DEF Duplicate, Listed
<1> QED BY <1>1, EngagementInvariant, PTL

\* A Completed campaign forgot nobody it had decided to include.
THEOREM CompletionIsHonest == Spec => []CompletedIsDone
BY EngagementInvariant, PTL DEF EngagementInv

\* No step takes back what was queued.
LEMMA ReachedIsKept ==
    ASSUME EngagementInv, [Next]_vars
    PROVE  /\ \A m \in Members : member[m] \in Reached => member'[m] \in Reached
           /\ \A c \in Candidates : candidate[c] \in Reached => candidate'[c] \in Reached
<1> DEFINE Kept == /\ \A m \in Members : member[m] \in Reached => member'[m] \in Reached
                   /\ \A c \in Candidates :
                         candidate[c] \in Reached => candidate'[c] \in Reached
<1> SUFFICES Kept
  OBVIOUS
<1> USE DEF EngagementInv, Reached
<1>0. CASE UNCHANGED vars
  BY <1>0 DEF vars
<1>1. ASSUME NEW c \in Candidates,
             \/ Discover(c) \/ Authorize(c) \/ Reject(c) \/ Revoke(c)
             \/ DispatchCandidate(c)
      PROVE  Kept
  BY <1>1 DEF Discover, Authorize, Reject, Revoke, DispatchCandidate, TypeOK
<1>2. ASSUME NEW k \in Campaigns, Plan(k) \/ Activate(k) PROVE Kept
  <2>1. PICK fit \in SUBSET Listed(k) : member' = Resolved(k, fit)
    BY <1>2 DEF Plan, Activate
  <2>2. candidate' = candidate
    BY <1>2 DEF Plan, Activate
  <2> QED BY <2>1, <2>2, ResolutionIsCareful
<1>3. ASSUME NEW k \in Campaigns, Pause(k) \/ Cancel(k) \/ FindNobodyWaiting(k)
      PROVE  Kept
  BY <1>3 DEF Pause, Cancel, FindNobodyWaiting
<1>4. ASSUME NEW m \in Members, DenyForFrequency(m) \/ DispatchMember(m)
      PROVE  Kept
  BY <1>4 DEF DenyForFrequency, DispatchMember, Waiting, TypeOK
<1>5. ASSUME NEW p \in Contacts, ContactReplies(p) PROVE Kept
  BY <1>5 DEF ContactReplies
<1>6. CASE TouchesAge
  BY <1>6 DEF TouchesAge
<1>7. CASE HourPasses
  BY <1>7 DEF HourPasses
<1> QED BY <1>0, <1>1, <1>2, <1>3, <1>4, <1>5, <1>6, <1>7
        DEF Next, Review, Dispatch, World

\* What was queued stays queued or answered: a pause and a new activation do
\* not send it again.
THEOREM NothingIsQueuedTwice == Spec => QueuedOnce
<1>1. EngagementInv /\ [Next]_vars =>
          [/\ \A m \in Members : member[m] \in Reached => member'[m] \in Reached
           /\ \A c \in Candidates : candidate[c] \in Reached => candidate'[c] \in Reached]_vars
  BY ReachedIsKept
<1> QED BY <1>1, EngagementInvariant, PTL DEF Spec, QueuedOnce
-----------------------------------------------------------------------------
(***************************************************************************)
(* The cap.  That some message of a Contact was allowed as many as there   *)
(* are now is not inductive: it may be the next to leave the window.  That *)
(* the same is true of every set of them is: the latest of the set was     *)
(* counted against at least the rest of it.  Every window is counted for   *)
(* itself; a campaign that looks back further saw at least what lies in a  *)
(* shorter one.                                                            *)
(***************************************************************************)

CapInv ==
    /\ IsFiniteSet(recent)
    /\ \A p \in Contacts, window \in 1 .. LongestWindow :
          \A S \in SUBSET SentWithin(p, window) :
             S # {} => \E m \in S : Cardinality(S) <= Cap[CampaignOf[m]]

\* No source is touched by this step.
NothingYounger == \A t \in Sources : age[t] <= age'[t]

\* Who is not touched anew leaves the windows or stays.
LEMMA WindowsEmpty ==
    ASSUME TypeOK, TypeOK', NothingYounger, NEW window \in 0 .. LongestWindow
    PROVE  InWindow(window)' \subseteq InWindow(window)
<1> SUFFICES ASSUME NEW t \in Sources, age'[t] < window PROVE age[t] < window
  BY DEF InWindow
<1>1. age[t] \in Int /\ age'[t] \in Int /\ window \in Int
  BY EngagementAssumption DEF TypeOK
<1> QED BY <1>1 DEF NothingYounger

\* Whoever is touched alone enters every window; nobody else does.
LEMMA OneEnters ==
    ASSUME TypeOK, NEW c \in Sources, age' = [age EXCEPT ![c] = 0],
           NEW window \in 0 .. LongestWindow
    PROVE  InWindow(window)' \subseteq InWindow(window) \cup {c}
  BY EngagementAssumption DEF InWindow, TypeOK

\* A longer window holds what a shorter one does.
LEMMA LongerHoldsMore ==
    ASSUME TypeOK, NEW short \in 0 .. LongestWindow, NEW long \in 0 .. LongestWindow,
           short <= long
    PROVE  InWindow(short) \subseteq InWindow(long)
<1> SUFFICES ASSUME NEW t \in Sources, age[t] < short PROVE age[t] < long
  BY DEF InWindow
<1>1. age[t] \in Int /\ short \in Int /\ long \in Int
  BY EngagementAssumption DEF TypeOK
<1> QED BY <1>1

\* A step that touches nobody keeps the invariant.
LEMMA FewerTouchesKeepTheCap ==
    ASSUME TypeOK, TypeOK', CapInv, NothingYounger
    PROVE  CapInv'
<1>0. LongestWindow \in 0 .. LongestWindow /\ 1 .. LongestWindow \subseteq 0 .. LongestWindow
  BY EngagementAssumption
<1>1. IsFiniteSet(recent')
  <2>1. recent' \subseteq recent
    BY <1>0, WindowsEmpty DEF recent
  <2> QED BY <2>1, FS_Subset DEF CapInv
<1>2. ASSUME NEW p \in Contacts, NEW window \in 1 .. LongestWindow
      PROVE  SentWithin(p, window)' \subseteq SentWithin(p, window)
  <2>1. InWindow(window)' \subseteq InWindow(window)
    BY <1>0, WindowsEmpty
  <2> QED BY <2>1 DEF SentWithin
<1> QED BY <1>1, <1>2 DEF CapInv

\* A reactivation is no campaign message.
LEMMA CandidatesKeepTheCap ==
    ASSUME TypeOK, CapInv, NEW c \in Candidates, age' = [age EXCEPT ![c] = 0]
    PROVE  CapInv'
<1>0. /\ LongestWindow \in 0 .. LongestWindow /\ 1 .. LongestWindow \subseteq 0 .. LongestWindow
      /\ c \in Sources
  BY EngagementAssumption DEF Sources
<1>1. IsFiniteSet(recent')
  <2>1. recent' \subseteq recent \cup {c}
    BY <1>0, OneEnters DEF recent
  <2>2. IsFiniteSet(recent \cup {c})
    BY FS_AddElement DEF CapInv
  <2> QED BY <2>1, <2>2, FS_Subset
<1>2. c \notin Members
  BY EngagementAssumption
<1>3. ASSUME NEW p \in Contacts, NEW window \in 1 .. LongestWindow
      PROVE  SentWithin(p, window)' \subseteq SentWithin(p, window)
  <2>1. InWindow(window)' \subseteq InWindow(window) \cup {c}
    BY <1>0, OneEnters
  <2> QED BY <2>1, <1>2 DEF SentWithin
<1> QED BY <1>1, <1>3 DEF CapInv

\* A member is queued only after the count, in the window of its campaign, of
\* everything its Contact received.
LEMMA CountedMembersKeepTheCap ==
    ASSUME TypeOK, CapInv, NEW m \in Members, age' = [age EXCEPT ![m] = 0],
           ~CampaignCapReached(CampaignOf[m], ContactOf[m])
    PROVE  CapInv'
<1> DEFINE k == CampaignOf[m]
           touched == {t \in InWindow(Window[k]) : ContactOf[t] = ContactOf[m]}
<1>0. /\ LongestWindow \in 0 .. LongestWindow /\ 1 .. LongestWindow \subseteq 0 .. LongestWindow
      /\ m \in Sources /\ k \in Campaigns
      /\ Window[k] \in 1 .. LongestWindow /\ Window[k] <= LongestWindow
      /\ Cap[k] \in Nat
  <2>1. k \in Campaigns /\ m \in Sources
    BY EngagementAssumption DEF Sources
  <2>2. Window[k] \in 1 .. LongestWindow /\ Cap[k] \in Nat \ {0}
    BY <2>1, EngagementAssumption
  <2> HIDE DEF k
  <2> QED BY <2>1, <2>2, EngagementAssumption
<1>1. IsFiniteSet(recent')
  <2>1. recent' \subseteq recent \cup {m}
    BY <1>0, OneEnters DEF recent
  <2>2. IsFiniteSet(recent \cup {m})
    BY FS_AddElement DEF CapInv
  <2> QED BY <2>1, <2>2, FS_Subset
<1>3. IsFiniteSet(touched) /\ Cardinality(touched) \in Nat
  <2>1. InWindow(Window[k]) \subseteq recent
    BY <1>0, LongerHoldsMore DEF recent
  <2>2. touched \subseteq recent
    BY <2>1
  <2> QED BY <2>2, FS_Subset, FS_CardinalityType DEF CapInv
<1>4. Cardinality(touched) + 1 <= Cap[k]
  <2>1. ~(Cardinality(touched) >= Cap[k])
    BY DEF CampaignCapReached, CapReached
  <2> QED BY <2>1, <1>0, <1>3
<1>5. /\ IsFiniteSet(touched \cup {m})
      /\ Cardinality(touched \cup {m}) \in Nat
      /\ Cardinality(touched \cup {m}) <= Cap[k]
  <2> HIDE DEF touched
  <2>1. /\ IsFiniteSet(touched \cup {m})
        /\ \/ Cardinality(touched \cup {m}) = Cardinality(touched)
           \/ Cardinality(touched \cup {m}) = Cardinality(touched) + 1
    BY <1>3, FS_AddElement
  <2> QED BY <2>1, <1>0, <1>3, <1>4
<1>6. ASSUME NEW p \in Contacts, NEW window \in 1 .. LongestWindow,
             NEW S \in SUBSET SentWithin(p, window)', S # {}
      PROVE  \E n \in S : Cardinality(S) <= Cap[CampaignOf[n]]
  <2>0. InWindow(window)' \subseteq InWindow(window) \cup {m}
    BY <1>0, OneEnters
  <2>1. CASE m \in S
    <3>1. window <= Window[k] /\ ContactOf[m] = p
      BY <2>1 DEF SentWithin
    <3>2. InWindow(window) \subseteq InWindow(Window[k])
      BY <1>0, <3>1, LongerHoldsMore
    <3>3. S \subseteq touched \cup {m}
      BY <2>0, <3>1, <3>2 DEF SentWithin
    <3>4. Cardinality(S) \in Nat /\ Cardinality(S) <= Cardinality(touched \cup {m})
      <4> HIDE DEF touched
      <4> QED BY <3>3, <1>5, FS_Subset, FS_CardinalityType
    <3>5. Cardinality(S) <= Cap[k]
      <4> HIDE DEF touched, k
      <4> QED BY <3>4, <1>5, <1>0
    <3> QED BY <2>1, <3>5
  <2>2. CASE m \notin S
    <3>1. S \in SUBSET SentWithin(p, window)
      BY <2>0, <2>2 DEF SentWithin
    <3> QED BY <3>1, <1>6 DEF CapInv
  <2> QED BY <2>1, <2>2
<1> QED BY <1>1, <1>6 DEF CapInv

\* Only a message that is queued counts.
LEMMA OnlyDispatchTouches ==
    ASSUME TypeOK, [Next]_vars, ~NothingYounger
    PROVE  \/ \E c \in Candidates :
                 DispatchCandidate(c) /\ age' = [age EXCEPT ![c] = 0]
           \/ \E m \in Members :
                 DispatchMember(m) /\ age' = [age EXCEPT ![m] = 0]
<1>0. \A t \in Sources : age[t] \in Int
  BY DEF TypeOK
<1>1. age' # age
  BY <1>0 DEF NothingYounger
<1>2. ~TouchesAge
  BY <1>0 DEF NothingYounger, TouchesAge
<1> QED BY <1>1, <1>2
        DEF vars, Next, Review, Dispatch, World, Discover, Authorize, Reject,
            Revoke, Plan, Activate, Pause, Cancel, FindNobodyWaiting,
            DenyForFrequency, ContactReplies, HourPasses, DispatchCandidate, DispatchMember

\* For every length of a window, the campaigns that look back that far never
\* together write to a Contact more often in it than the largest of their caps,
\* whatever the reactivations and the other campaigns do.
THEOREM CampaignsAreCapped == Spec => []CampaignsRespectTheCap
<1>1. Init => CapInv
  <2> SUFFICES ASSUME Init PROVE CapInv
    OBVIOUS
  <2>1. \A window \in 0 .. LongestWindow : InWindow(window) = {}
    BY EngagementAssumption DEF Init, InWindow
  <2>2. recent = {}
    BY <2>1, EngagementAssumption DEF recent
  <2>3. \A p \in Contacts, window \in 1 .. LongestWindow : SentWithin(p, window) = {}
    BY <2>1, EngagementAssumption DEF SentWithin
  <2> QED BY <2>2, <2>3, FS_EmptySet DEF CapInv
<1>2. EngagementInv /\ EngagementInv' /\ CapInv /\ [Next]_vars => CapInv'
  <2> SUFFICES ASSUME EngagementInv, EngagementInv', CapInv, [Next]_vars PROVE CapInv'
    OBVIOUS
  <2>0. TypeOK /\ TypeOK'
    BY DEF EngagementInv
  <2>1. CASE NothingYounger
    BY <2>0, <2>1, FewerTouchesKeepTheCap
  <2>2. ASSUME NEW c \in Candidates, age' = [age EXCEPT ![c] = 0] PROVE CapInv'
    BY <2>0, <2>2, CandidatesKeepTheCap
  <2>3. ASSUME NEW m \in Members, DispatchMember(m), age' = [age EXCEPT ![m] = 0]
        PROVE  CapInv'
    BY <2>0, <2>3, CountedMembersKeepTheCap DEF DispatchMember
  <2>4. CASE ~NothingYounger
    BY <2>0, <2>4, OnlyDispatchTouches, <2>2, <2>3
  <2> QED BY <2>1, <2>4
<1>3. CapInv => CampaignsRespectTheCap
  BY DEF CapInv, CampaignsRespectTheCap
<1> QED BY <1>1, <1>2, <1>3, EngagementInvariant, PTL DEF Spec
-----------------------------------------------------------------------------
(***************************************************************************)
(* The limit of recipients.  The list is cut off by position, so the first *)
(* lemma is about any finite set of numbers: at most n of them have fewer  *)
(* than n before them, because no two have equally many.                   *)
(***************************************************************************)

LEMMA FirstFew ==
    ASSUME NEW E \in SUBSET Nat, IsFiniteSet(E), NEW n \in Nat,
           NEW First, First = {m \in E : Cardinality({e \in E : e < m}) < n}
    PROVE  IsFiniteSet(First) /\ Cardinality(First) <= n
<1> DEFINE Before(m) == {e \in E : e < m}
           rank == [m \in First |-> Cardinality(Before(m))]
<1>1. ASSUME NEW m \in E
      PROVE  IsFiniteSet(Before(m)) /\ Cardinality(Before(m)) \in Nat
  BY FS_Subset, FS_CardinalityType
<1>2. ASSUME NEW l \in First, NEW m \in First, l < m
      PROVE  Cardinality(Before(l)) # Cardinality(Before(m))
  <2>1. l \in E /\ m \in E
    OBVIOUS
  <2>2. Before(l) \in SUBSET Before(m)
    <3> SUFFICES ASSUME NEW e \in E, e < l PROVE e < m
      BY <2>1
    <3>1. e \in Nat /\ l \in Nat /\ m \in Nat
      BY <2>1
    <3> QED BY <3>1, <1>2
  <2>3. l \in Before(m) /\ l \notin Before(l)
    BY <2>1, <1>2
  <2>4. IsFiniteSet(Before(m))
    BY <2>1, <1>1
  <2> HIDE DEF Before
  <2> QED BY <2>2, <2>3, <2>4, FS_Subset
<1>3. rank \in [First -> 0 .. (n - 1)]
  <2> SUFFICES ASSUME NEW m \in First PROVE Cardinality(Before(m)) \in 0 .. (n - 1)
    OBVIOUS
  <2>1. m \in E /\ Cardinality(Before(m)) < n
    OBVIOUS
  <2> HIDE DEF Before
  <2> QED BY <2>1, <1>1
<1>4. rank \in Injection(First, 0 .. (n - 1))
  <2>1. ASSUME NEW l \in First, NEW m \in First, rank[l] = rank[m] PROVE l = m
    <3>1. l < m \/ m < l \/ l = m
      OBVIOUS
    <3>2. Cardinality(Before(l)) = Cardinality(Before(m))
      BY <2>1
    <3> QED BY <3>1, <3>2, <1>2
  <2> HIDE DEF rank
  <2> QED BY <1>3, <2>1 DEF Injection, IsInjective
<1>5. IsFiniteSet(0 .. (n - 1)) /\ Cardinality(0 .. (n - 1)) = n
  <2>1. 0 \in Int /\ n - 1 \in Int
    OBVIOUS
  <2>2. /\ IsFiniteSet(0 .. (n - 1))
        /\ Cardinality(0 .. (n - 1)) = IF 0 > n - 1 THEN 0 ELSE n - 1 - 0 + 1
    BY <2>1, FS_Interval
  <2> QED BY <2>2
<1> HIDE DEF rank
<1> QED BY <1>4, <1>5, FS_Injection

\* A resolution chooses no more than the campaign may write to.
LEMMA ChoiceIsBounded ==
    ASSUME NEW k \in Campaigns, NEW fit
    PROVE  /\ IsFiniteSet(Chosen(k, fit))
           /\ Cardinality(Chosen(k, fit)) <= MaxRecipients[k]
<1> DEFINE E == Eligible(k, fit)
<1>1. E \in SUBSET Members
  BY DEF Eligible, Listed
<1>2. E \in SUBSET Nat /\ IsFiniteSet(E)
  BY <1>1, EngagementAssumption, FS_Subset
<1>3. MaxRecipients[k] \in Nat
  BY EngagementAssumption
<1>4. Chosen(k, fit) = {m \in E : Cardinality({e \in E : e < m}) < MaxRecipients[k]}
  BY DEF Chosen
<1> HIDE DEF E
<1> QED BY <1>2, <1>3, <1>4, FirstFew

\* Nobody joins those who wait for a campaign except by a resolution.
LEMMA OnlyResolutionsInclude ==
    ASSUME EngagementInv, [Next]_vars, NEW k \in Campaigns,
           ~ \E fit \in SUBSET Listed(k) : member' = Resolved(k, fit)
    PROVE  Waiting(k)' \subseteq Waiting(k)
<1> USE DEF Waiting, Listed, EngagementInv
<1>1. ASSUME NEW j \in Campaigns, Plan(j) \/ Activate(j) PROVE Waiting(k)' \subseteq Waiting(k)
  <2>1. PICK fit \in SUBSET Listed(j) : member' = Resolved(j, fit)
    BY <1>1 DEF Plan, Activate
  <2>2. j # k
    BY <2>1
  <2> QED BY <2>1, <2>2, ResolutionIsCareful
<1>2. ASSUME NEW m \in Members, DenyForFrequency(m) \/ DispatchMember(m)
      PROVE  Waiting(k)' \subseteq Waiting(k)
  BY <1>2 DEF DenyForFrequency, DispatchMember, TypeOK
<1>3. ASSUME NEW p \in Contacts, ContactReplies(p) PROVE Waiting(k)' \subseteq Waiting(k)
  BY <1>3 DEF ContactReplies
<1>4. CASE member' = member
  BY <1>4
<1> QED BY <1>1, <1>2, <1>3, <1>4
        DEF Next, Review, Dispatch, World, vars, Discover, Authorize, Reject, Revoke,
            Pause, Cancel, FindNobodyWaiting, DispatchCandidate, TouchesAge, HourPasses

\* However often a campaign is paused and resumed, it never has more messages
\* to send than its limit of recipients before somebody looks at it again.
THEOREM LimitsAreKept == Spec => []WaitingIsBounded
<1>1. Init => WaitingIsBounded
  <2> SUFFICES ASSUME Init, NEW k \in Campaigns
               PROVE  Cardinality(Waiting(k)) <= MaxRecipients[k]
    BY DEF WaitingIsBounded
  <2>1. Waiting(k) = {}
    BY DEF Init, Waiting, Listed
  <2> QED BY <2>1, FS_EmptySet, EngagementAssumption
<1>2. EngagementInv /\ WaitingIsBounded /\ [Next]_vars => WaitingIsBounded'
  <2> SUFFICES ASSUME EngagementInv, WaitingIsBounded, [Next]_vars, NEW k \in Campaigns
               PROVE  Cardinality(Waiting(k)') <= MaxRecipients[k]
    BY DEF WaitingIsBounded
  <2>1. MaxRecipients[k] \in Nat
    BY EngagementAssumption
  <2>2. CASE \E fit \in SUBSET Listed(k) : member' = Resolved(k, fit)
    <3>1. PICK fit \in SUBSET Listed(k) : member' = Resolved(k, fit)
      BY <2>2
    <3>2. Waiting(k)' \in SUBSET Chosen(k, fit)
      BY <3>1 DEF Waiting, Listed, Resolved
    <3> QED BY <3>2, <2>1, ChoiceIsBounded, FS_Subset, FS_CardinalityType
  <2>3. CASE ~ \E fit \in SUBSET Listed(k) : member' = Resolved(k, fit)
    <3>1. Waiting(k)' \in SUBSET Waiting(k)
      BY <2>3, OnlyResolutionsInclude
    <3>2. IsFiniteSet(Waiting(k))
      <4>1. Waiting(k) \in SUBSET Members
        BY DEF Waiting, Listed
      <4> QED BY <4>1, EngagementAssumption, FS_Subset
    <3>3. Cardinality(Waiting(k)) <= MaxRecipients[k]
      BY DEF WaitingIsBounded
    <3> QED BY <3>1, <3>2, <3>3, <2>1, FS_Subset, FS_CardinalityType
  <2> QED BY <2>2, <2>3
<1> QED BY <1>1, <1>2, EngagementInvariant, PTL DEF Spec

-----------------------------------------------------------------------------
\* What counts against a Contact's cap is a message that was queued; neither a
\* refusal nor a new resolution takes that back.
THEOREM OnlyQueuedMessagesCount == Spec => []TouchesWereQueued
<1>1. Init => TouchesWereQueued
  <2> SUFFICES ASSUME Init PROVE TouchesWereQueued
    OBVIOUS
  <2>1. recent = {}
    BY EngagementAssumption DEF Init, recent, InWindow
  <2> QED BY <2>1 DEF TouchesWereQueued
<1>2. EngagementInv /\ TouchesWereQueued /\ [Next]_vars => TouchesWereQueued'
  <2> SUFFICES ASSUME EngagementInv, TouchesWereQueued, [Next]_vars
               PROVE  TouchesWereQueued'
    OBVIOUS
  <2>1. /\ \A m \in Members : member[m] \in Reached => member'[m] \in Reached
        /\ \A c \in Candidates : candidate[c] \in Reached => candidate'[c] \in Reached
    BY ReachedIsKept
  <2>0. TypeOK /\ TypeOK' /\ LongestWindow \in 0 .. LongestWindow
    BY StepPreserves, EngagementAssumption DEF EngagementInv
  <2>2. CASE NothingYounger
    <3>1. recent' \subseteq recent
      BY <2>0, <2>2, WindowsEmpty DEF recent
    <3> QED BY <2>1, <3>1 DEF TouchesWereQueued
  <2>3. ASSUME NEW c \in Candidates, DispatchCandidate(c), age' = [age EXCEPT ![c] = 0],
               ~NothingYounger
        PROVE  TouchesWereQueued'
    <3>1. recent' \subseteq recent \cup {c}
      BY <2>0, <2>3, OneEnters DEF recent, Sources
    <3>2. candidate'[c] \in Reached /\ c \notin Members
      BY <2>3, EngagementAssumption
         DEF DispatchCandidate, EngagementInv, TypeOK, Reached, NothingYounger
    <3> QED BY <3>1, <3>2, <2>1 DEF TouchesWereQueued
  <2>4. ASSUME NEW m \in Members, DispatchMember(m), age' = [age EXCEPT ![m] = 0],
               ~NothingYounger
        PROVE  TouchesWereQueued'
    <3>1. recent' \subseteq recent \cup {m}
      BY <2>0, <2>4, OneEnters DEF recent, Sources
    <3>2. member'[m] \in Reached /\ m \notin Candidates
      BY <2>4, EngagementAssumption
         DEF DispatchMember, EngagementInv, TypeOK, Reached, NothingYounger
    <3> QED BY <3>1, <3>2, <2>1 DEF TouchesWereQueued
  <2>5. CASE ~NothingYounger
    BY <2>0, <2>5, OnlyDispatchTouches, <2>3, <2>4
  <2> QED BY <2>2, <2>5
<1> QED BY <1>1, <1>2, EngagementInvariant, PTL DEF Spec
=============================================================================
