-------------------------- MODULE SavedCollections --------------------------
(***************************************************************************)
(* The Listings a visitor of the public website keeps                      *)
(* (domain/public/saved.py).  A collection is reached with the cookie it   *)
(* was created under; once a Contact protects it on WhatsApp it is merged  *)
(* into the one this Contact already has, and the cookie follows it there. *)
(*                                                                         *)
(* Every operation locks the rows it follows, so each is one action.       *)
(* Shared selections are snapshots that nothing reads back and are left    *)
(* out.                                                                    *)
(*                                                                         *)
(* A definition named Slip... is the one below it with a plausible bug.    *)
(***************************************************************************)
EXTENDS Naturals, FiniteSets

CONSTANTS
    Cookies,         \* each names the collection created under it
    SavedListings,
    Owners,          \* Contacts authenticated by WhatsApp
    Unowned          \* no Contact

ASSUME SavedBounds == Unowned \notin Owners

VARIABLES
    collection,   \* None, Live, Merged, Deleted or Lapsed
    claimed,      \* it holds a Phone Claim
    protectedBy,  \* protected_contact_id
    into,         \* merged_into_id; itself when not merged
    saved,        \* its Listings
    protection    \* references to protect it that nobody has used

savedVars == <<collection, claimed, protectedBy, into, saved, protection>>

Hop(c) == IF collection[c] = "Merged" THEN into[c] ELSE c

\* _resolve looks at four rows, so it follows three merges and no more.
Reached(c) == Hop(Hop(Hop(c)))
Usable(c) == collection[Reached(c)] = "Live"
Visible(c) == IF Usable(c) THEN saved[Reached(c)] ELSE {}

-----------------------------------------------------------------------------
\* The first heart of a browser, with the phone the form asks for.
CreateCollection(c, l) ==
    /\ collection[c] = "None"
    /\ collection' = [collection EXCEPT ![c] = "Live"]
    /\ claimed' = [claimed EXCEPT ![c] = TRUE]
    /\ saved' = [saved EXCEPT ![c] = {l}]
    /\ UNCHANGED <<protectedBy, into, protection>>

\* A collection from before phones were asked for gets its claim here.
AddSaved(c, l) ==
    /\ Usable(c)
    /\ saved' = [saved EXCEPT ![Reached(c)] = @ \cup {l}]
    /\ claimed' = [claimed EXCEPT ![Reached(c)] = @ \/ protectedBy[Reached(c)] = Unowned]
    /\ UNCHANGED <<collection, protectedBy, into, protection>>

RemoveSaved(c, l) ==
    /\ Usable(c)
    /\ saved' = [saved EXCEPT ![Reached(c)] = @ \ {l}]
    /\ UNCHANGED <<collection, claimed, protectedBy, into, protection>>

EmptySaved(c) ==
    /\ Usable(c)
    /\ saved' = [saved EXCEPT ![Reached(c)] = {}]
    /\ UNCHANGED <<collection, claimed, protectedBy, into, protection>>

DeleteCollection(c) ==
    /\ Usable(c)
    /\ saved' = [saved EXCEPT ![Reached(c)] = {}]
    /\ collection' = [collection EXCEPT ![Reached(c)] = "Deleted"]
    /\ claimed' = [claimed EXCEPT ![Reached(c)] = FALSE]
    /\ UNCHANGED <<protectedBy, into, protection>>

\* A year without activity; a protected collection has no expiry.
LapseCollection(c) ==
    /\ collection[c] = "Live"
    /\ protectedBy[c] = Unowned
    /\ collection' = [collection EXCEPT ![c] = "Lapsed"]
    /\ UNCHANGED <<claimed, protectedBy, into, saved, protection>>

AskProtection(c) ==
    /\ Usable(c)
    /\ protection' = [protection EXCEPT ![Reached(c)] = TRUE]
    /\ UNCHANGED <<collection, claimed, protectedBy, into, saved>>

\* The Contact has no collection, or this one.
ProtectCollection(c, contact) ==
    /\ protection[c]
    /\ collection[c] \in {"Live", "Lapsed"}
    /\ \A other \in Cookies \ {c} : protectedBy[other] = contact => collection[other] # "Live"
    /\ collection' = [collection EXCEPT ![c] = "Live"]
    /\ protectedBy' = [protectedBy EXCEPT ![c] = contact]
    /\ claimed' = [claimed EXCEPT ![c] = FALSE]
    /\ protection' = [protection EXCEPT ![c] = FALSE]
    /\ UNCHANGED <<into, saved>>

\* The browser keeps its old collection, which is marked as deleted.
SlipMergeCollection(c, contact) ==
    /\ protection[c]
    /\ collection[c] \in {"Live", "Lapsed"}
    /\ \E other \in Cookies \ {c} :
          /\ collection[other] = "Live" /\ protectedBy[other] = contact
          /\ saved' = [saved EXCEPT ![other] = @ \cup saved[c], ![c] = {}]
          /\ claimed' = [claimed EXCEPT ![c] = FALSE, ![other] = FALSE]
    /\ collection' = [collection EXCEPT ![c] = "Deleted"]
    /\ protection' = [protection EXCEPT ![c] = FALSE]
    /\ UNCHANGED <<protectedBy, into>>

\* The Contact has another one: the Listings move to it.
MergeCollection(c, contact) ==
    /\ protection[c]
    /\ collection[c] \in {"Live", "Lapsed"}
    /\ \E other \in Cookies \ {c} :
          /\ collection[other] = "Live" /\ protectedBy[other] = contact
          /\ saved' = [saved EXCEPT ![other] = @ \cup saved[c], ![c] = {}]
          /\ into' = [into EXCEPT ![c] = other]
          /\ claimed' = [claimed EXCEPT ![c] = FALSE, ![other] = FALSE]
    /\ collection' = [collection EXCEPT ![c] = "Merged"]
    /\ protection' = [protection EXCEPT ![c] = FALSE]
    /\ UNCHANGED protectedBy

-----------------------------------------------------------------------------
\* Collections from before the Phone Claim may already be there.
SavedInit ==
    /\ collection \in [Cookies -> {"None", "Live"}]
    /\ claimed = [c \in Cookies |-> FALSE]
    /\ protectedBy = [c \in Cookies |-> Unowned]
    /\ into = [c \in Cookies |-> c]
    /\ saved = [c \in Cookies |-> {}]
    /\ protection = [c \in Cookies |-> FALSE]

SavedCommand(c) ==
    \/ \E l \in SavedListings : CreateCollection(c, l) \/ AddSaved(c, l) \/ RemoveSaved(c, l)
    \/ EmptySaved(c)
    \/ DeleteCollection(c)

ProtectionStep(c) ==
    \/ AskProtection(c)
    \/ \E contact \in Owners : ProtectCollection(c, contact) \/ MergeCollection(c, contact)

SavedNext ==
    \E c \in Cookies : SavedCommand(c) \/ ProtectionStep(c) \/ LapseCollection(c)

SavedSpec == SavedInit /\ [][SavedNext]_savedVars

-----------------------------------------------------------------------------
SavedTypeOK ==
    /\ collection \in [Cookies -> {"None", "Live", "Merged", "Deleted", "Lapsed"}]
    /\ claimed \in [Cookies -> BOOLEAN]
    /\ protectedBy \in [Cookies -> Owners \cup {Unowned}]
    /\ into \in [Cookies -> Cookies]
    /\ saved \in [Cookies -> SUBSET SavedListings]
    /\ protection \in [Cookies -> BOOLEAN]

\* One more merge is still followed.
HopToSpare(c) == Hop(Hop(c)) = Reached(c)

\* Protecting a collection takes nothing away from a browser: whatever its
\* cookie showed it still shows, in its own collection or in the one it was
\* merged into, also when that one was merged since.  A browser that is three
\* merges away already has no hop to spare, and may be lost.
ProtectionLosesNothing ==
    [][\A c \in Cookies :
          HopToSpare(c) /\ (\E b \in Cookies : protection[b] /\ ~protection'[b]) =>
              Visible(c) \subseteq Visible(c)']_savedVars

\* A Contact keeps the collection it protected until it deletes it.
ProtectedStaysProtected ==
    [][\A c \in Cookies :
          protectedBy[c] # Unowned /\ collection[c] = "Live" =>
              protectedBy'[c] = protectedBy[c] \/ collection'[c] = "Deleted"]_savedVars
=============================================================================
