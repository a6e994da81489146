------------------------- MODULE OrganizationSetup -------------------------
(***************************************************************************)
(* How one Organization is set up: its configuration, version by version   *)
(* (domain/platform/configuration.py), and the references to its secrets   *)
(* for one provider (domain/platform/credentials.py).                      *)
(*                                                                         *)
(* Both lock the rows that exist when they begin.  A row that another      *)
(* command inserts while they wait for a lock is not among them: only the  *)
(* unique indexes keep the two apart, and the loser fails as a whole.      *)
(*                                                                         *)
(* A definition named Slip... is the one below it with a plausible bug.    *)
(***************************************************************************)
EXTENDS Naturals, Sequences

CONSTANTS
    Settings,       \* command keys of RecordConfiguration
    DocumentOf,     \* the document each of them carries
    References,     \* names of secrets of one provider
    IsBootstrap,    \* the process environment belongs to this Organization
    Nothing         \* not an origin of a credential

ASSUME SetupAssumption == IsBootstrap \in BOOLEAN

VARIABLES
    versions,      \* documents recorded, oldest first
    recordedBy,    \* the command key of each version
    currentOnes,   \* versions with is_current
    recording,     \* rows each command in progress has locked or waits for
    secret,        \* each reference: None, Active, Rotating or Revoked
    material,      \* references the secret store answers
    rotating,      \* rows seen by each RecordSecretReference in progress
    revoking,      \* rows seen by a revocation in progress, or none at all
    revoked,       \* the last command on the provider was a revocation
    served         \* origin of the credential last given out

setupVars == <<versions, recordedBy, currentOnes, recording, secret, material,
               rotating, revoking, revoked, served>>

documentVars == <<versions, recordedBy, currentOnes, recording>>
secretVars == <<secret, material, rotating, revoking, revoked, served>>

-----------------------------------------------------------------------------
\* A key that is on record is answered with its version.
ReadVersions(k) ==
    /\ k \notin DOMAIN recording
    /\ \A i \in DOMAIN recordedBy : recordedBy[i] # k
    /\ recording' = [j \in DOMAIN recording \cup {k} |->
                        IF j = k THEN Len(versions) ELSE recording[j]]
    /\ UNCHANGED <<versions, recordedBy, currentOnes, secretVars>>

\* The document that is current among the rows that were read.
Unchanged(k) ==
    \E i \in currentOnes : i <= recording[k] /\ versions[i] = DocumentOf[k]

\* Only the rows that were read stop being current, and nothing refuses one more.
SlipRecordVersion(k) ==
    /\ k \in DOMAIN recording
    /\ ~Unchanged(k)
    /\ versions' = Append(versions, DocumentOf[k])
    /\ recordedBy' = Append(recordedBy, k)
    /\ currentOnes' = {i \in currentOnes : i > recording[k]} \cup {Len(versions) + 1}
    /\ recording' = [j \in DOMAIN recording \ {k} |-> recording[j]]
    /\ UNCHANGED secretVars

\* The next number after the rows that were read: it is free, or the unique
\* index refuses it.
RecordVersion(k) ==
    /\ k \in DOMAIN recording
    /\ ~Unchanged(k)
    /\ recording[k] = Len(versions)
    /\ versions' = Append(versions, DocumentOf[k])
    /\ recordedBy' = Append(recordedBy, k)
    /\ currentOnes' = {Len(versions) + 1}
    /\ recording' = [j \in DOMAIN recording \ {k} |-> recording[j]]
    /\ UNCHANGED secretVars

\* The same document, a number that is taken, or a refused command.
LeaveVersions(k) ==
    /\ k \in DOMAIN recording
    /\ Unchanged(k) \/ recording[k] # Len(versions)
    /\ recording' = [j \in DOMAIN recording \ {k} |-> recording[j]]
    /\ UNCHANGED <<versions, recordedBy, currentOnes, secretVars>>

-----------------------------------------------------------------------------
Recorded == {r \in References : secret[r] # "None"}

ReadReferences(r) ==
    /\ r \notin DOMAIN rotating
    /\ rotating' = [q \in DOMAIN rotating \cup {r} |-> IF q = r THEN Recorded ELSE rotating[q]]
    /\ UNCHANGED <<documentVars, secret, material, revoking, revoked, served>>

\* What a rotation makes of the rows it sees: one step down each, and the
\* reference itself, new or seen before, becomes the active one.
Rotated(r, seen) ==
    [q \in References |->
        CASE q = r -> "Active"
          [] q # r /\ q \in seen /\ secret[q] = "Active" -> "Rotating"
          [] q # r /\ q \in seen /\ secret[q] = "Rotating" -> "Revoked"
          [] OTHER -> secret[q]]

\* The indexes on the name and on the active row refuse what was not seen.
RecordReference(r) ==
    /\ r \in DOMAIN rotating
    /\ LET seen == rotating[r]
           isCurrent == r \in seen /\ secret[r] = "Active"
           collides == \/ r \notin seen /\ secret[r] # "None"
                       \/ \E q \in References \ seen : secret[q] = "Active"
       IN IF isCurrent \/ collides
          THEN UNCHANGED <<secret, revoked>>
          ELSE secret' = Rotated(r, seen) /\ revoked' = FALSE
    /\ rotating' = [q \in DOMAIN rotating \ {r} |-> rotating[q]]
    /\ UNCHANGED <<documentVars, material, revoking, served>>

ReadForRevocation ==
    /\ revoking = Nothing
    /\ revoking' = {r \in References : secret[r] \in {"Active", "Rotating"}}
    /\ UNCHANGED <<documentVars, secret, material, rotating, revoked, served>>

RevokeReferences ==
    /\ revoking # Nothing
    /\ secret' = [r \in References |-> IF r \in revoking THEN "Revoked" ELSE secret[r]]
    /\ revoked' = (\A r \in References : secret'[r] \notin {"Active", "Rotating"})
    /\ revoking' = Nothing
    /\ UNCHANGED <<documentVars, material, rotating, served>>

\* The store of secrets gains or loses what a name stands for.
ChangeMaterial(r) ==
    /\ material' = IF r \in material THEN material \ {r} ELSE material \cup {r}
    /\ UNCHANGED <<documentVars, secret, rotating, revoking, revoked, served>>

\* The active reference, then the outgoing one; the process environment only
\* when there is neither and the Organization is the first one.
Origin ==
    LET usable(state) == \E r \in material : secret[r] = state
        referred == \E r \in References : secret[r] \in {"Active", "Rotating"}
    IN CASE usable("Active") -> "Active"
         [] ~usable("Active") /\ usable("Rotating") -> "Rotating"
         [] ~referred /\ IsBootstrap -> "LegacyProcessEnvironment"
         [] OTHER -> "Refused"

ResolveCredential ==
    /\ served' = Origin
    /\ UNCHANGED <<documentVars, secret, material, rotating, revoking, revoked>>

-----------------------------------------------------------------------------
SetupInit ==
    /\ versions = <<>> /\ recordedBy = <<>> /\ currentOnes = {} /\ recording = <<>>
    /\ secret = [r \in References |-> "None"]
    /\ material \in {{}, References}
    /\ rotating = <<>>
    /\ revoking = Nothing
    /\ revoked = FALSE
    /\ served = Nothing

ConfigurationStep(k) == ReadVersions(k) \/ RecordVersion(k) \/ LeaveVersions(k)

ReferenceStep(r) == ReadReferences(r) \/ RecordReference(r) \/ ChangeMaterial(r)

SetupNext ==
    \/ \E k \in Settings : ConfigurationStep(k)
    \/ \E r \in References : ReferenceStep(r)
    \/ ReadForRevocation \/ RevokeReferences
    \/ ResolveCredential

SetupSpec == SetupInit /\ [][SetupNext]_setupVars

-----------------------------------------------------------------------------
(***************************************************************************)
(* Properties.                                                             *)
(***************************************************************************)

SetupTypeOK ==
    /\ currentOnes \subseteq DOMAIN versions
    /\ DOMAIN recordedBy = DOMAIN versions
    /\ DOMAIN recording \subseteq Settings
    /\ secret \in [References -> {"None", "Active", "Rotating", "Revoked"}]
    /\ material \subseteq References
    /\ DOMAIN rotating \subseteq References
    /\ revoked \in BOOLEAN

Holding(state) == {r \in References : secret[r] = state}
AtMostOne(set) == \A x, y \in set : x = y

\* However commands overlap: the newest version is the one that is current,
\* no command key has two, and the provider has one active reference at most.
SetupHasOneAnswer ==
    /\ currentOnes = (IF versions = <<>> THEN {} ELSE {Len(versions)})
    /\ \A i, j \in DOMAIN recordedBy : recordedBy[i] = recordedBy[j] => i = j
    /\ AtMostOne(Holding("Active"))

\* What record says of itself: only one rotation is in flight.  Three commands
\* at once can leave two outgoing references, or one without an active one.
OneRotationInFlight ==
    AtMostOne(Holding("Rotating")) /\ (Holding("Rotating") # {} => Holding("Active") # {})

\* What revoke says of itself: from the revocation on there is no access.  The
\* first Organization falls back on the environment of the process.
RevocationEndsAccess ==
    [][served' # served /\ revoked => served' = "Refused"]_setupVars
=============================================================================
