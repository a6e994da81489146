----------------------------- MODULE LanePromise -----------------------------
(***************************************************************************)
(* What the lane of a Conversation promises about its messages, whoever    *)
(* crashes, times out or takes over: the messages are answered in turns,   *)
(* one turn at a time.  A turn takes up waiting messages and may fold in   *)
(* later ones until it has said its word about exactly what it has in      *)
(* hand, and it says one.  Only a turn that has said it closes its         *)
(* messages as processed, all of them at once; any other turn puts all of  *)
(* them back or retires some.  Whatever is said of a turn that is over is  *)
(* said about retired messages only.                                       *)
(*                                                                         *)
(* There are no leases, claims, locks and memories here, and no crash: a   *)
(* turn that is lost is one that gave back what it had in hand, also if it *)
(* had already said its word.  The next turn will then say another.        *)
(***************************************************************************)
CONSTANTS
    Messages,       \* inbound messages of the Conversation
    Turns           \* identities of turns

VARIABLES
    fate,           \* of a message: the five values of inbox_messages.status
    open,           \* the turn there is, if any
    over,           \* the turns there were
    said            \* what was committed, by turn and about which messages

lanePromise == <<fate, open, over, said>>

InHand == {m \in Messages : fate[m] = "Processing"}
Waiting == {m \in Messages : fate[m] = "Pending"}
Unspoken(t) == \A r \in said : r.group # t

\* The messages of S get a new fate, the others keep theirs.
Moved(S, to) == [m \in Messages |-> IF m \in S THEN to ELSE fate[m]]

LanePromiseInit ==
    /\ fate = [m \in Messages |-> "Unsent"]
    /\ open = {}
    /\ over = {}
    /\ said = {}

Arrive(m) ==
    /\ fate[m] = "Unsent"
    /\ fate' = [fate EXCEPT ![m] = "Pending"]
    /\ UNCHANGED <<open, over, said>>

TakeUp(t, S) ==
    /\ open = {}
    /\ t \notin over
    /\ S # {} /\ S \subseteq Waiting
    /\ fate' = Moved(S, "Processing")
    /\ open' = {t}
    /\ UNCHANGED <<over, said>>

FoldIn(t, S) ==
    /\ open = {t}
    /\ Unspoken(t)
    /\ S \subseteq Waiting
    /\ fate' = Moved(S, "Processing")
    /\ UNCHANGED <<open, over, said>>

\* A reply, the gate's refusal of one, or the record that a human answers.
Speak(t, kind) ==
    /\ open = {t}
    /\ Unspoken(t)
    /\ said' = said \cup {[kind |-> kind, group |-> t, covers |-> InHand]}
    /\ UNCHANGED <<fate, open, over>>

Conclude(t) ==
    /\ open = {t}
    /\ ~Unspoken(t)
    /\ fate' = Moved(InHand, "Processed")
    /\ open' = {}
    /\ over' = over \cup {t}
    /\ UNCHANGED said

\* The messages of S have had their last attempt.
GiveBack(t, S) ==
    /\ open = {t}
    /\ S \subseteq InHand
    /\ fate' = [m \in Messages |-> IF m \in S THEN "Failed"
                                   ELSE IF m \in InHand THEN "Pending" ELSE fate[m]]
    /\ open' = {}
    /\ over' = over \cup {t}
    /\ UNCHANGED said

\* The notice that a message could not be handled, or the gate's refusal of it.
Apologize(t, S, kind) ==
    /\ t \in over
    /\ Unspoken(t)
    /\ \A m \in S : fate[m] = "Failed"
    /\ said' = said \cup {[kind |-> kind, group |-> t, covers |-> S]}
    /\ UNCHANGED <<fate, open, over>>

LanePromiseNext ==
    \/ \E m \in Messages : Arrive(m)
    \/ \E t \in Turns :
          \/ \E S \in SUBSET Waiting : TakeUp(t, S) \/ FoldIn(t, S)
          \/ \E S \in SUBSET InHand : GiveBack(t, S)
          \/ \E kind \in {"reply", "denial", "withheld"} : Speak(t, kind)
          \/ Conclude(t)
          \/ \E S \in SUBSET Messages, kind \in {"apology", "denial"} : Apologize(t, S, kind)

LanePromiseSpec == LanePromiseInit /\ [][LanePromiseNext]_lanePromise

-----------------------------------------------------------------------------
\* Of every turn one word is said at most.
OneWordPerTurn == \A r, s \in said : r.group = s.group => r = s
=============================================================================
