---------------------------- MODULE MCEngagement ----------------------------
(* Small instances of marketing work for TLC.                              *)
EXTENDS Engagement, TLC

CONSTANTS p1, p2, c1

\* Two campaigns.  The older lists two needs of p1 and one of p2, may write
\* to two Contacts and is silent in the second hour; the younger lists p1 and
\* p2, may write to one of them and looks back half as far.
FiveNeeds == <<p1, p1, p2, p1, p2>>
OneListing == (c1 :> p1) @@ FiveNeeds
TwoCampaigns == <<1, 1, 1, 2, 2>>
TwoCaps == <<1, 1>>
TwoWindows == <<2, 1>>
TwoLimits == <<2, 1>>
TwoQuiet == <<{1}, {}>>
=============================================================================
