--------------------------- MODULE BrokerNotices ---------------------------
(***************************************************************************)
(* What the Broker is told about the visits of one day                     *)
(* (domain/notifications.py, worker/broker.py): a notice when a booking    *)
(* resolves, a digest in the morning and a reminder before the visit.      *)
(*                                                                         *)
(* A tick reads the notices that are owed, in three queries, and then      *)
(* sends them one after the other; each is stamped on the Appointments it  *)
(* covers after it was sent.  Meanwhile visits are booked, resolved and    *)
(* cancelled.  Every visit is of today, and they start together.           *)
(*                                                                         *)
(* A definition named Slip... is the one below it with a plausible bug.    *)
(***************************************************************************)
EXTENDS Naturals, Sequences, SequencesExt

CONSTANTS
    Bookings,           \* Appointments
    MaxLosses           \* bound: times the worker dies or an answer of Telegram is lost

ASSUME NoticeBounds ==
    /\ IsFiniteSet(Bookings)
    /\ MaxLosses \in Nat

VARIABLES
    booking,      \* status of each Appointment
    noticed,      \* booked_notice_at is set
    digested,     \* digest_sent_on is today
    reminded,     \* reminder_sent_at is set
    hour,         \* of the day: see Hours
    reading,      \* the query a tick makes next, "Idle" between ticks
    tickHour,     \* the hour when the tick began, Night between ticks
    owing,        \* notices still to be sent in this tick
    unstamped,    \* the notice just sent, not stamped yet
    told,         \* times each immediate notice was sent
    reminders,    \* times each reminder was sent
    digests,      \* times the digest was sent
    noticeCrashes,
    lostAnswers   \* times a notice was taken by somebody and answered to nobody

visitState == <<booking, hour>>
stamps == <<noticed, digested, reminded>>
counts == <<told, reminders, digests>>
tick == <<reading, tickHour, owing, unstamped>>
faults == <<noticeCrashes, lostAnswers>>
noticeVars == <<visitState, stamps, counts, tick, faults>>

\* Times a notice may have been sent, seen by somebody, and left without a stamp.
Losses == noticeCrashes + lostAnswers

Night == 0
DigestHour == 1
ReminderWindow == 2
UnderWay == 3
Hours == Night..UnderWay

Notice(kind, covers) == [kind |-> kind, covers |-> covers]
NoNotice == Notice("None", {})
Notices == [kind : {"None", "Booked", "NeedsReview", "Digest", "Reminder"}, covers : SUBSET Bookings]

ConfirmedToday == {b \in Bookings : booking[b] = "Confirmed"}
Resolved == {b \in Bookings : booking[b] \in {"Confirmed", "NeedsReview"}}

\* _immediate, one notice per row in the order they were created.
ImmediateNotices ==
    LET due == {b \in Resolved : ~noticed[b]}
        one(b) == Notice(IF booking[b] = "Confirmed" THEN "Booked" ELSE "NeedsReview", {b})
    IN SetToSeq({one(b) : b \in due})

\* _digest: every Confirmed visit of today, unless all have been reported.
DigestNotices ==
    IF /\ tickHour >= DigestHour
       /\ \E b \in ConfirmedToday : ~digested[b]
    THEN <<Notice("Digest", ConfirmedToday)>>
    ELSE << >>

ReminderNotices ==
    IF tickHour = ReminderWindow
    THEN SetToSeq({Notice("Reminder", {b}) : b \in {c \in ConfirmedToday : ~reminded[c]}})
    ELSE << >>

-----------------------------------------------------------------------------
Book(b, to) ==
    /\ booking[b] = "None"
    /\ to \in {"Confirmed", "NeedsReview"}
    /\ hour < UnderWay
    /\ booking' = [booking EXCEPT ![b] = to]
    /\ UNCHANGED <<hour, stamps, counts, tick, faults>>

\* An Administrator resolves what the calendar left open, or it is cancelled.
ResolveBooking(b, to) ==
    /\ \/ booking[b] = "NeedsReview" /\ to \in {"Confirmed", "Cancelled"}
       \/ booking[b] = "Confirmed" /\ to = "Cancelled"
    /\ booking' = [booking EXCEPT ![b] = to]
    /\ UNCHANGED <<hour, stamps, counts, tick, faults>>

HourPasses ==
    /\ hour < UnderWay
    /\ hour' = hour + 1
    /\ UNCHANGED <<booking, stamps, counts, tick, faults>>

\* lapse_stale_reminders, then _immediate.
ReadImmediate ==
    /\ reading = "Idle"
    /\ reading' = "Digest"
    /\ tickHour' = hour
    /\ reminded' = [b \in Bookings |->
                       reminded[b] \/ (hour = UnderWay /\ booking[b] = "Confirmed")]
    /\ owing' = ImmediateNotices
    /\ UNCHANGED <<visitState, noticed, digested, counts, unstamped, faults>>

ReadDigest ==
    /\ reading = "Digest"
    /\ reading' = "Reminders"
    /\ owing' = owing \o DigestNotices
    /\ UNCHANGED <<visitState, stamps, counts, tickHour, unstamped, faults>>

ReadReminders ==
    /\ reading = "Reminders"
    /\ reading' = "Sending"
    /\ owing' = owing \o ReminderNotices
    /\ UNCHANGED <<visitState, stamps, counts, tickHour, unstamped, faults>>

Counted(notice) ==
    /\ told' = [b \in Bookings |->
                   told[b] + (IF b \in notice.covers
                                 /\ notice.kind \in {"Booked", "NeedsReview"} THEN 1 ELSE 0)]
    /\ reminders' = [b \in Bookings |->
                   reminders[b] + (IF b \in notice.covers
                                      /\ notice.kind = "Reminder" THEN 1 ELSE 0)]
    /\ digests' = digests + (IF notice.kind = "Digest" THEN 1 ELSE 0)

\* At least one administrator's chat answers that it has it.
SendNotice ==
    /\ reading = "Sending"
    /\ unstamped = NoNotice
    /\ owing # << >>
    /\ unstamped' = Head(owing)
    /\ owing' = Tail(owing)
    /\ Counted(Head(owing))
    /\ UNCHANGED <<visitState, stamps, reading, tickHour, faults>>

\* Nobody's takes it: the tick is over.
SendRejected ==
    /\ reading = "Sending"
    /\ unstamped = NoNotice
    /\ owing # << >>
    /\ reading' = "Idle"
    /\ owing' = << >>
    /\ tickHour' = Night
    /\ UNCHANGED <<visitState, stamps, counts, unstamped, faults>>

\* send_message is False also when the answer of a chat that took the message
\* does not arrive.  Without one answer from any chat the tick is over, and the
\* notice, which was seen, is owed as before.
SendUnanswered ==
    /\ reading = "Sending"
    /\ unstamped = NoNotice
    /\ owing # << >>
    /\ Losses < MaxLosses
    /\ lostAnswers' = lostAnswers + 1
    /\ Counted(Head(owing))
    /\ reading' = "Idle"
    /\ owing' = << >>
    /\ tickHour' = Night
    /\ UNCHANGED <<visitState, stamps, unstamped, noticeCrashes>>

\* Only the visits that are Confirmed are stamped.
SlipStampNotice ==
    /\ unstamped # NoNotice
    /\ LET covered(b) == b \in unstamped.covers /\ booking[b] = "Confirmed"
           immediate == unstamped.kind \in {"Booked", "NeedsReview"}
       IN /\ noticed' = [b \in Bookings |-> noticed[b] \/ (covered(b) /\ immediate)]
          /\ digested' = [b \in Bookings |->
                 digested[b] \/ (covered(b) /\ \/ unstamped.kind = "Digest"
                                               \/ unstamped.kind = "Booked" /\ tickHour >= DigestHour)]
          /\ reminded' = [b \in Bookings |-> reminded[b] \/ (covered(b) /\ unstamped.kind = "Reminder")]
    /\ unstamped' = NoNotice
    /\ UNCHANGED <<visitState, counts, reading, tickHour, owing, faults>>

\* mark_sent; the status it tests is the one the notice was read with.
StampNotice ==
    /\ unstamped # NoNotice
    /\ LET covered(b) == b \in unstamped.covers
           immediate == unstamped.kind \in {"Booked", "NeedsReview"}
       IN /\ noticed' = [b \in Bookings |-> noticed[b] \/ (covered(b) /\ immediate)]
          /\ digested' = [b \in Bookings |->
                 digested[b] \/ (covered(b) /\ \/ unstamped.kind = "Digest"
                                               \/ unstamped.kind = "Booked" /\ tickHour >= DigestHour)]
          /\ reminded' = [b \in Bookings |-> reminded[b] \/ (covered(b) /\ unstamped.kind = "Reminder")]
    /\ unstamped' = NoNotice
    /\ UNCHANGED <<visitState, counts, reading, tickHour, owing, faults>>

EndTick ==
    /\ reading = "Sending"
    /\ unstamped = NoNotice
    /\ owing = << >>
    /\ reading' = "Idle"
    /\ tickHour' = Night
    /\ UNCHANGED <<visitState, stamps, counts, owing, unstamped, faults>>

KillNotifier ==
    /\ reading # "Idle"
    /\ Losses < MaxLosses
    /\ noticeCrashes' = noticeCrashes + 1
    /\ reading' = "Idle"
    /\ owing' = << >>
    /\ unstamped' = NoNotice
    /\ tickHour' = Night
    /\ UNCHANGED <<visitState, stamps, counts, lostAnswers>>

-----------------------------------------------------------------------------
NoticesInit ==
    /\ booking = [b \in Bookings |-> "None"]
    /\ hour = Night
    /\ noticed = [b \in Bookings |-> FALSE]
    /\ digested = [b \in Bookings |-> FALSE]
    /\ reminded = [b \in Bookings |-> FALSE]
    /\ reading = "Idle" /\ tickHour = Night
    /\ owing = << >> /\ unstamped = NoNotice
    /\ told = [b \in Bookings |-> 0]
    /\ reminders = [b \in Bookings |-> 0]
    /\ digests = 0
    /\ noticeCrashes = 0 /\ lostAnswers = 0

NoticeTick ==
    \/ ReadImmediate \/ ReadDigest \/ ReadReminders
    \/ SendNotice \/ SendRejected \/ SendUnanswered
    \/ StampNotice \/ EndTick \/ KillNotifier

NoticesNext ==
    \/ NoticeTick
    \/ HourPasses
    \/ \E b \in Bookings, to \in {"Confirmed", "NeedsReview", "Cancelled"} :
          Book(b, to) \/ ResolveBooking(b, to)

NoticesSpec == NoticesInit /\ [][NoticesNext]_noticeVars

-----------------------------------------------------------------------------
NoticesTypeOK ==
    /\ booking \in [Bookings -> {"None", "Confirmed", "NeedsReview", "Cancelled"}]
    /\ hour \in Hours /\ tickHour \in Hours
    /\ noticed \in [Bookings -> BOOLEAN]
    /\ digested \in [Bookings -> BOOLEAN]
    /\ reminded \in [Bookings -> BOOLEAN]
    /\ reading \in {"Idle", "Digest", "Reminders", "Sending"}
    /\ \A i \in DOMAIN owing : owing[i] \in Notices
    /\ unstamped \in Notices
    /\ told \in [Bookings -> Nat] /\ reminders \in [Bookings -> Nat]
    /\ digests \in Nat
    /\ noticeCrashes \in Nat /\ lostAnswers \in Nat
    /\ Losses <= MaxLosses

\* A visit is announced once and reminded of once, but for the times the worker
\* died between the sending and the stamp or the answer of Telegram was lost,
\* however the visit is resolved or cancelled and whatever Telegram refuses
\* meanwhile. (worker/broker.py:90)
NoticesAreNotRepeated ==
    \A b \in Bookings :
        told[b] <= 1 + Losses /\ reminders[b] <= 1 + Losses

\* What _digest says: one digest per local day.
DigestOncePerDay == digests <= 1 + Losses
=============================================================================
