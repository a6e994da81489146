---------------------------- MODULE MCInboxLane ----------------------------
(* Small instances of the lane for TLC.                                    *)
EXTENDS InboxLane, TLC

\* Every claim spends an attempt of at least one message, so this many groups
\* are enough and the model never runs out of identities.
ASSUME EnoughGroups == Cardinality(Groups) >= MaxAttempts * Cardinality(Messages)

\* Messages are interchangeable.
Symmetry == Permutations(Messages)
=============================================================================
