------------------------ MODULE MCTimedConditionLock ------------------------
(***************************************************************************)
(* Instances of TimedConditionLock for TLC.                                *)
(***************************************************************************)
EXTENDS TimedConditionLock

\* A timeout that is over before it begins.
Overdue == {-1}

=============================================================================
