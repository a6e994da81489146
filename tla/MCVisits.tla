------------------------------ MODULE MCVisits ------------------------------
(* One booking and its reschedule, for TLC.                                *)
EXTENDS VisitDesk, TLC

AskedFor == "k1" :> "s1" @@ "k2" :> "s2"
BookThenMove == "k1" :> NoCall @@ "k2" :> "k1"
=============================================================================
