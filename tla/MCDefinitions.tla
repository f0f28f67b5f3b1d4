---------------------------- MODULE MCDefinitions ----------------------------
(* A rolling restart from a release to the next. The first entry is retuned,  *)
(* the second reworded, and it loses the badge; the first is redrawn.         *)
EXTENDS Definitions

MCRelease == [p \in Processes |-> IF p = "old" THEN 1 ELSE 2]
MCWording == <<<<"a", "b">>, <<"a", "b2">>>>
MCBadge   == <<<<"x", "y">>, <<"x2", NoBadge>>>>
MCExp     == <<<<5, 4>>, <<1, 4>>>>

=============================================================================
