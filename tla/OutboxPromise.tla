---------------------------- MODULE OutboxPromise ----------------------------
(***************************************************************************)
(* What the Outbox promises about the messages it is given, whatever the   *)
(* provider, the process or the customer do meanwhile: a message is shown  *)
(* to the customer at most once; a message recorded as sent was shown, one *)
(* recorded as failed never was, and only a message that nobody can speak  *)
(* for is recorded as unknown.  The promise is the one domain/outbox.py    *)
(* states about its three outcomes (record_result).                        *)
(***************************************************************************)
EXTENDS Naturals

CONSTANT Rows       \* the messages, by idempotency key

VARIABLES
    fate,           \* what Product has on record about a message
    shown           \* how many times the customer was shown it

promise == <<fate, shown>>

Fates == {"unwritten", "refused", "queued", "sent", "failed", "unknown"}

PromiseInit ==
    /\ fate = [r \in Rows |-> "unwritten"]
    /\ shown = [r \in Rows |-> 0]

\* The eligibility gate stages a message, or refuses it for good.
Decide(r, verdict) ==
    /\ fate[r] = "unwritten"
    /\ verdict \in {"queued", "refused"}
    /\ fate' = [fate EXCEPT ![r] = verdict]
    /\ UNCHANGED shown

\* The provider takes the message; only once, and only while it is queued.
Show(r) ==
    /\ fate[r] = "queued"
    /\ shown[r] = 0
    /\ shown' = [shown EXCEPT ![r] = 1]
    /\ UNCHANGED fate

Confirm(r) ==
    /\ fate[r] = "queued"
    /\ shown[r] = 1
    /\ fate' = [fate EXCEPT ![r] = "sent"]
    /\ UNCHANGED shown

GiveUp(r) ==
    /\ fate[r] = "queued"
    /\ shown[r] = 0
    /\ fate' = [fate EXCEPT ![r] = "failed"]
    /\ UNCHANGED shown

\* Shown or not, nobody will ever know; the message is not tried again.
LoseTrack(S) ==
    /\ \A r \in S : fate[r] = "queued"
    /\ fate' = [r \in Rows |-> IF r \in S THEN "unknown" ELSE fate[r]]
    /\ UNCHANGED shown

PromiseNext ==
    \/ \E r \in Rows :
          \/ \E verdict \in {"queued", "refused"} : Decide(r, verdict)
          \/ Show(r)
          \/ Confirm(r)
          \/ GiveUp(r)
    \/ \E S \in SUBSET Rows : LoseTrack(S)

PromiseSpec == PromiseInit /\ [][PromiseNext]_promise
=============================================================================
