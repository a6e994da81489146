--------------------------- MODULE MCHumanAuthority ---------------------------
(***************************************************************************)
(* One Conversation, one Advisor and two requests.                         *)
(***************************************************************************)
EXTENDS HumanAuthority, TLC
=============================================================================
