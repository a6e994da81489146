---------------------------- MODULE Measurement ----------------------------
(***************************************************************************)
(* How facts become reported numbers (domain/analytics): an emission pass  *)
(* turns what the tables hold into events of the analytics Outbox, and a   *)
(* projection pass stores the events under a measurement definition and    *)
(* recomputes the daily cells it touched.                                  *)
(*                                                                         *)
(* The analytics worker projects under the current definition; an          *)
(* Administrator may project under any, and may replay from the start.     *)
(* Passes may overlap.  Each is one transaction, whose rows keep another   *)
(* pass over the same events waiting until it commits.                     *)
(*                                                                         *)
(* A definition named Slip... is the one below it with a plausible bug.    *)
(***************************************************************************)
EXTENDS Naturals, FiniteSets

CONSTANTS
    MaxFacts,    \* bound: facts there will be
    ScanLimit,   \* SCAN_LIMIT: facts one emission pass reads
    BatchSize,   \* BATCH_SIZE: events one replay reads
    DayOf,       \* the day a fact occurred on
    Definitions,    \* measurement definitions
    Current,     \* CURRENT_DEFINITION_VERSION
    Passes       \* projection passes, each once

ASSUME MeasurementAssumption ==
    /\ MaxFacts \in Nat /\ ScanLimit \in Nat /\ BatchSize \in Nat
    /\ DOMAIN DayOf = 1..MaxFacts
    /\ Current \in Definitions

VARIABLES
    facts,       \* number of facts on record, in the order of their moments
    outbox,      \* status of the analytics_outbox row of a fact, None without
    phase,       \* each pass: Idle, Read, Stored, Counted or Over
    version,     \* the definition a pass works under
    drawn,       \* the events it has read
    fresh,       \* those among them that it stored
    counts,      \* what it has counted for each day it touched
    stale,       \* cells it saw when it counted
    stored,      \* domain_events, by definition
    cells,       \* funnel_aggregates rows: definition, day, pass and count
    overlapped   \* a pass has begun while another was at work

measureVars == <<facts, outbox, phase, version, drawn, fresh, counts, stale, stored,
                 cells, overlapped>>
passVars == <<phase, version, drawn, fresh, counts, stale>>

Facts == 1..MaxFacts
Emitted == {e \in Facts : outbox[e] # "None"}
Undrained == {e \in Facts : outbox[e] = "Pending"}

First(n, events) == {e \in events : Cardinality({f \in events : f < e}) < n}

CellsOf(v, d) == {c \in cells : c.version = v /\ c.day = d}
EventsOf(v, d, own) == {e \in stored[v] \cup own : DayOf[e] = d}
Touched(p) == {DayOf[e] : e \in drawn[p]}

-----------------------------------------------------------------------------
RecordFact ==
    /\ facts < MaxFacts
    /\ facts' = facts + 1
    /\ UNCHANGED <<outbox, passVars, stored, cells, overlapped>>

\* The oldest facts, those that have their event among them.
EmitOperational ==
    /\ \E e \in First(ScanLimit, 1..facts) : outbox[e] = "None"
    /\ outbox' = [e \in Facts |->
                     IF e \in First(ScanLimit, 1..facts) /\ outbox[e] = "None" THEN "Pending"
                     ELSE outbox[e]]
    /\ UNCHANGED <<facts, passVars, stored, cells, overlapped>>

BeginPass(p, v, events) ==
    /\ phase[p] = "Idle"
    /\ events # {}
    /\ phase' = [phase EXCEPT ![p] = "Read"]
    /\ version' = [version EXCEPT ![p] = v]
    /\ drawn' = [drawn EXCEPT ![p] = events]
    /\ overlapped' = (overlapped \/ \E q \in Passes : phase[q] \in {"Read", "Stored", "Counted"})
    /\ UNCHANGED <<facts, outbox, fresh, counts, stale, stored, cells>>

\* Pass after pass until nothing is Pending.
Drain(p, v) == BeginPass(p, v, Undrained)

\* One batch, from sequence zero, whatever the status.
Replay(p, v) == BeginPass(p, v, First(BatchSize, Emitted))

\* The rows of a pass that has not committed keep others out.
NobodyHolds(events, p) ==
    \A q \in Passes \ {p} : phase[q] \in {"Stored", "Counted"} => drawn[q] \cap events = {}

\* Insert, or find the event stored under this definition.
StoreEvents(p) ==
    /\ phase[p] = "Read"
    /\ NobodyHolds(drawn[p], p)
    /\ fresh' = [fresh EXCEPT ![p] = drawn[p] \ stored[version[p]]]
    /\ phase' = [phase EXCEPT ![p] = "Stored"]
    /\ UNCHANGED <<facts, outbox, version, drawn, counts, stale, stored, cells, overlapped>>

\* What it read is added to what is reported.
SlipCounted(p, d) ==
    Cardinality({e \in drawn[p] : DayOf[e] = d})
        + (IF CellsOf(version[p], d) = {} THEN 0
           ELSE (CHOOSE c \in CellsOf(version[p], d) : TRUE).count)

\* Counted anew from the events that this transaction sees.
Counted(p, d) == Cardinality(EventsOf(version[p], d, fresh[p]))

CountCells(p) ==
    /\ phase[p] = "Stored"
    /\ counts' = [counts EXCEPT ![p] = [d \in Touched(p) |-> Counted(p, d)]]
    /\ stale' = [stale EXCEPT ![p] = cells]
    /\ phase' = [phase EXCEPT ![p] = "Counted"]
    /\ UNCHANGED <<facts, outbox, version, drawn, fresh, stored, cells, overlapped>>

\* A touched cell is deleted and written again.  The deletion sees the rows
\* there were when it began, after the counting; a row that came later stays,
\* for with an empty dimension the unique key does not apply.
CommitPass(p) ==
    /\ phase[p] = "Counted"
    /\ \E seen \in {stale[p], cells} :
           cells' = {c \in cells : c \notin seen \/ c.version # version[p] \/ c.day \notin Touched(p)}
                        \cup {[version |-> version[p], day |-> d, pass |-> p, count |-> counts[p][d]] :
                                 d \in Touched(p)}
    /\ stored' = [stored EXCEPT ![version[p]] = @ \cup fresh[p]]
    /\ outbox' = [e \in Facts |-> IF e \in drawn[p] THEN "Projected" ELSE outbox[e]]
    /\ phase' = [phase EXCEPT ![p] = "Over"]
    /\ drawn' = [drawn EXCEPT ![p] = {}]
    /\ fresh' = [fresh EXCEPT ![p] = {}]
    /\ counts' = [counts EXCEPT ![p] = <<>>]
    /\ stale' = [stale EXCEPT ![p] = {}]
    /\ UNCHANGED <<facts, version, overlapped>>

\* The process dies: the events stay Pending.
AbandonPass(p) ==
    /\ phase[p] \in {"Read", "Stored", "Counted"}
    /\ phase' = [phase EXCEPT ![p] = "Over"]
    /\ drawn' = [drawn EXCEPT ![p] = {}]
    /\ fresh' = [fresh EXCEPT ![p] = {}]
    /\ counts' = [counts EXCEPT ![p] = <<>>]
    /\ stale' = [stale EXCEPT ![p] = {}]
    /\ UNCHANGED <<facts, outbox, version, stored, cells, overlapped>>

-----------------------------------------------------------------------------
MeasureInit ==
    /\ facts = 0
    /\ outbox = [e \in Facts |-> "None"]
    /\ phase = [p \in Passes |-> "Idle"]
    /\ version = [p \in Passes |-> Current]
    /\ drawn = [p \in Passes |-> {}] /\ fresh = [p \in Passes |-> {}]
    /\ counts = [p \in Passes |-> <<>>] /\ stale = [p \in Passes |-> {}]
    /\ stored = [v \in Definitions |-> {}]
    /\ cells = {}
    /\ overlapped = FALSE

ProjectionStep(p) ==
    \/ \E v \in Definitions : Drain(p, v) \/ Replay(p, v)
    \/ StoreEvents(p) \/ CountCells(p) \/ CommitPass(p) \/ AbandonPass(p)

MeasureNext ==
    \/ RecordFact
    \/ EmitOperational
    \/ \E p \in Passes : ProjectionStep(p)

MeasureSpec == MeasureInit /\ [][MeasureNext]_measureVars

\* The worker runs its emission pass every five minutes.
EmittingSpec == MeasureSpec /\ WF_measureVars(EmitOperational)

-----------------------------------------------------------------------------
(***************************************************************************)
(* Properties.                                                             *)
(***************************************************************************)

MeasureTypeOK ==
    /\ facts \in 0..MaxFacts
    /\ outbox \in [Facts -> {"None", "Pending", "Projected"}]
    /\ phase \in [Passes -> {"Idle", "Read", "Stored", "Counted", "Over"}]
    /\ version \in [Passes -> Definitions]
    /\ drawn \in [Passes -> SUBSET Facts] /\ fresh \in [Passes -> SUBSET Facts]
    /\ stored \in [Definitions -> SUBSET Facts]
    /\ overlapped \in BOOLEAN

EveryDayAddsUp ==
    \A v \in Definitions : \A e \in stored[v] :
        {c.count : c \in CellsOf(v, DayOf[e])} = {Cardinality(EventsOf(v, DayOf[e], {}))}

\* However passes overlap, repeat what another has done, or die: no cell counts
\* an event twice or one that is not stored.  Passes that follow one another,
\* under any definition, replays and late events included, leave one number for
\* every day, and it counts all events stored for it.
CellsAreRecomputed ==
    /\ \A c \in cells : c.count <= Cardinality(EventsOf(c.version, c.day, {}))
    /\ ~overlapped => EveryDayAddsUp

\* What refresh says of a replay: it is safe because the aggregation is a
\* recomputation.  A replay and a live pass at once leave a cell behind each,
\* or one that misses events.
ReplayIsSafe == EveryDayAddsUp

\* A row stays Pending until its event is stored.  Stored under which
\* definition is not asked: what was projected under another is not measured
\* under the current one by any later pass but a replay.
DrainedIsMeasured == \A e \in Facts : outbox[e] = "Projected" => e \in stored[Current]

\* What emission.py says of SCAN_LIMIT: a backlog is spread over several
\* passes.  Every pass reads the same oldest facts.
EveryFactIsEmitted == \A e \in Facts : facts >= e ~> outbox[e] # "None"
=============================================================================
