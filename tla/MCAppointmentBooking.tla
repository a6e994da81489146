------------------------ MODULE MCAppointmentBooking ------------------------
(* Small instances of booking for TLC.                                     *)
EXTENDS AppointmentBooking, TLC

CONSTANTS v1, v2, v3

\* One Conversation has two visits; another wants the slot of the second.
TwoLeads == (v1 :> 1) @@ (v2 :> 1) @@ (v3 :> 2)
TwoSlots == (v1 :> 1) @@ (v2 :> 2) @@ (v3 :> 2)

\* One Conversation that moves among three slots.
OneLead == (v1 :> 1) @@ (v2 :> 1) @@ (v3 :> 1)
ThreeSlots == (v1 :> 1) @@ (v2 :> 2) @@ (v3 :> 3)

\* Where the properties of the first Conversation's visits say nothing they
\* never will again: a visit does not become ordinary.
FirstLeadOrdinary == Ordinary(v1)

Symmetry == Permutations(Handlers)
=============================================================================
