------------------------- MODULE ExternalInventory -------------------------
(***************************************************************************)
(* The index of external listings: synchronization, the evidence an        *)
(* Administrator confirms, use-time revalidation and the deletion of       *)
(* withdrawn content (domain/external_inventory).                          *)
(*                                                                         *)
(* A synchronization asks the source first and locks the row afterwards.   *)
(* A revalidation loads the row without a lock, then locks it and asks the *)
(* source.  The locking query returns the row and leaves the loaded object *)
(* as it is, so the decision is taken from what was loaded, and a flush    *)
(* writes only the columns that differ from it (FlushOver).                *)
(*                                                                         *)
(* Terms stand for the set of offers of a listing.  The other facts a      *)
(* decision needs (title, attribution, commission) are taken as present.   *)
(*                                                                         *)
(* A definition named Slip... is the one below it with a plausible bug.    *)
(***************************************************************************)
EXTENDS Naturals

CONSTANTS
    Listings,
    MaxTerms    \* bound: how often the source changes the offers

ASSUME InventoryAssumption == MaxTerms \in Nat \ {0}

VARIABLES
    source,        \* what the source answers about each listing
    row,           \* external_listing_candidates
    offers,        \* external_offer_candidates: their terms, 0 for none
    fetched,       \* what a synchronization has retrieved and not yet stored
    loaded,        \* the object a revalidation has loaded
    decision       \* the outcome of the last revalidation

inventoryVars == <<source, row, offers, fetched, loaded, decision>>

Answers == {"Offered", "Elsewhere", "Withdrawn", "NotFound"}

Observations == [answer : Answers, terms : 1 .. MaxTerms]

Rows == [known : BOOLEAN,                                 \* there is a row
         authority : {"Pending", "Authorized", "Denied"}, \* authority_state
         approved : BOOLEAN,                              \* commercial_review_state
         evidence : BOOLEAN,                              \* authority_evidence
         served : BOOLEAN,                                \* inside the service area
         withdrawn : BOOLEAN,                             \* withdrawn_at, deletion_due_at
         content : BOOLEAN,                               \* raw_payload and the like
         purged : BOOLEAN]                                \* cache_deleted_at

NoRow == [known |-> FALSE, authority |-> "Pending", approved |-> FALSE,
          evidence |-> FALSE, served |-> FALSE, withdrawn |-> FALSE,
          content |-> FALSE, purged |-> FALSE]

NothingFetched == [answer |-> "NotFound", terms |-> 1]

-----------------------------------------------------------------------------
\* _withdraw: the dates are set once and never reset.
Withdrawn(r) ==
    [r EXCEPT !.withdrawn = TRUE, !.authority = "Denied", !.approved = FALSE]

OffersChanged(r, l, seen) == r.known /\ offers[l] # seen.terms

\* _store: the object r after the answer seen was copied into it.
Stored(r, l, seen) ==
    LET copied == [r EXCEPT !.known = TRUE, !.content = TRUE,
                            !.served = (seen.answer # "Elsewhere")]
    IN CASE seen.answer = "Withdrawn" -> Withdrawn(copied)
         [] seen.answer = "Elsewhere" -> [copied EXCEPT !.authority = "Denied"]
         [] seen.answer = "Offered" /\ OffersChanged(r, l, seen) ->
                [copied EXCEPT !.authority = "Pending", !.approved = FALSE]
         [] OTHER -> copied

\* What the row holds once an object loaded as old was flushed as new.
FlushOver(current, old, new) ==
    [f \in DOMAIN current |-> IF new[f] # old[f] THEN new[f] ELSE current[f]]

-----------------------------------------------------------------------------
SourceChanges(l) ==
    /\ source' \in {[source EXCEPT ![l] = seen] : seen \in Observations}
    /\ source'[l].terms \in {source[l].terms, source[l].terms + 1}
    /\ source' # source
    /\ UNCHANGED <<row, offers, fetched, loaded, decision>>

\* A record the source no longer has is skipped.
SynchronizeFetches(l) ==
    /\ fetched[l] = NothingFetched
    /\ source[l].answer # "NotFound"
    /\ fetched' = [fetched EXCEPT ![l] = source[l]]
    /\ UNCHANGED <<source, row, offers, loaded, decision>>

SynchronizeStores(l) ==
    /\ fetched[l] # NothingFetched
    /\ row' = [row EXCEPT ![l] = Stored(row[l], l, fetched[l])]
    /\ offers' = [offers EXCEPT ![l] = fetched[l].terms]
    /\ fetched' = [fetched EXCEPT ![l] = NothingFetched]
    /\ UNCHANGED <<source, loaded, decision>>

\* An Administrator records evidence, or that there is none.
ConfirmEvidence(l, given) ==
    /\ row[l].known
    /\ LET complete == given /\ row[l].served /\ ~row[l].withdrawn IN
          row' = [row EXCEPT
                    ![l].evidence = given,
                    ![l].authority = IF complete THEN "Authorized" ELSE "Pending",
                    ![l].approved = complete]
    /\ UNCHANGED <<source, offers, fetched, loaded, decision>>

\* purge_due, once the deletion is due.
PurgeDue(l) ==
    /\ row[l].withdrawn
    /\ ~row[l].purged
    /\ row' = [row EXCEPT ![l].content = FALSE, ![l].purged = TRUE]
    /\ offers' = [offers EXCEPT ![l] = 0]
    /\ UNCHANGED <<source, fetched, loaded, decision>>

\* The first query of evaluate, without a lock.
LoadForUse(l) ==
    /\ row[l].known
    /\ loaded[l] = NoRow
    /\ loaded' = [loaded EXCEPT ![l] = row[l]]
    /\ decision' = [decision EXCEPT ![l] = "None"]
    /\ UNCHANGED <<source, row, offers, fetched>>

\* What the object r, refreshed or not, lets a caller do.
Outcome(r, refreshed, offersChanged, terms) ==
    CASE r.withdrawn \/ ~r.served \/ r.authority = "Denied" -> "Denied"
      [] OTHER -> IF /\ refreshed
                     /\ ~offersChanged
                     /\ r.authority = "Authorized"
                     /\ r.approved
                     /\ r.evidence
                     /\ terms # 0
                  THEN "Eligible"
                  ELSE "Pending"

\* refresh_for_use and the decision, under the lock of the row.
DecideRefreshed(l) ==
    /\ loaded[l] # NoRow
    /\ source[l].answer # "NotFound"
    /\ LET seen == source[l]
           new == Stored(loaded[l], l, seen)
       IN /\ row' = [row EXCEPT ![l] = FlushOver(@, loaded[l], new)]
          /\ offers' = [offers EXCEPT ![l] = seen.terms]
          /\ decision' = [decision EXCEPT
                ![l] = Outcome(new, TRUE, OffersChanged(loaded[l], l, seen), seen.terms)]
    /\ loaded' = [loaded EXCEPT ![l] = NoRow]
    /\ UNCHANGED <<source, fetched>>

DecideNotFound(l) ==
    /\ loaded[l] # NoRow
    /\ source[l].answer = "NotFound"
    /\ row' = [row EXCEPT ![l] = FlushOver(@, loaded[l], Withdrawn(loaded[l]))]
    /\ decision' = [decision EXCEPT ![l] = "Denied"]
    /\ loaded' = [loaded EXCEPT ![l] = NoRow]
    /\ UNCHANGED <<source, offers, fetched>>

\* The failure of the source does not count against the listing.
SlipDecideUnreachable(l) ==
    /\ loaded[l] # NoRow
    /\ decision' = [decision EXCEPT ![l] = Outcome(loaded[l], TRUE, FALSE, offers[l])]
    /\ loaded' = [loaded EXCEPT ![l] = NoRow]
    /\ UNCHANGED <<source, row, offers, fetched>>

\* The source does not answer.
DecideUnreachable(l) ==
    /\ loaded[l] # NoRow
    /\ decision' = [decision EXCEPT ![l] = Outcome(loaded[l], FALSE, FALSE, offers[l])]
    /\ loaded' = [loaded EXCEPT ![l] = NoRow]
    /\ UNCHANGED <<source, row, offers, fetched>>

-----------------------------------------------------------------------------
InventoryInit ==
    /\ source = [l \in Listings |-> [answer |-> "Offered", terms |-> 1]]
    /\ row = [l \in Listings |-> NoRow]
    /\ offers = [l \in Listings |-> 0]
    /\ fetched = [l \in Listings |-> NothingFetched]
    /\ loaded = [l \in Listings |-> NoRow]
    /\ decision = [l \in Listings |-> "None"]

ListingStep(l) ==
    \/ SourceChanges(l)
    \/ SynchronizeFetches(l)
    \/ SynchronizeStores(l)
    \/ \E given \in BOOLEAN : ConfirmEvidence(l, given)
    \/ PurgeDue(l)
    \/ LoadForUse(l)
    \/ DecideRefreshed(l)
    \/ DecideNotFound(l)
    \/ DecideUnreachable(l)

InventoryNext == \E l \in Listings : ListingStep(l)

InventorySpec == InventoryInit /\ [][InventoryNext]_inventoryVars

-----------------------------------------------------------------------------
InventoryTypeOK ==
    /\ source \in [Listings -> Observations]
    /\ row \in [Listings -> Rows]
    /\ offers \in [Listings -> 0 .. MaxTerms]
    /\ fetched \in [Listings -> Observations]
    /\ loaded \in [Listings -> Rows]
    /\ decision \in [Listings -> {"None", "Eligible", "Pending", "Denied"}]

\* A listing becomes Eligible in this step.
Approves(l) == decision[l] # "Eligible" /\ decision'[l] = "Eligible"

\* Maia is told that a listing may be used only while the source offers it,
\* on the terms the source gives now, whatever was synchronized before.
EligibleIsStillOffered ==
    [][\A l \in Listings :
          Approves(l) =>
              /\ source[l].answer = "Offered"
              /\ offers'[l] = source[l].terms]_inventoryVars

\* What the docstrings of refresh and refresh_for_use say: the decision is
\* taken under the lock of the row, so it cannot race a change of the row.
DecisionsUseTheLockedRow ==
    [][\A l \in Listings :
          Approves(l) => row[l].authority = "Authorized" /\ row[l].approved]_inventoryVars

\* What the comment at WITHDRAWAL_DELETION_WINDOW says: content of a listing
\* that is withdrawn is still to be deleted by the cleanup.
WithdrawnContentIsDue ==
    \A l \in Listings :
        row[l].content /\ row[l].withdrawn => ~row[l].purged
=============================================================================
