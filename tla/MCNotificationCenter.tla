------------------------ MODULE MCNotificationCenter ------------------------
(***************************************************************************)
(* Instances of the notification center for TLC.                           *)
(***************************************************************************)
EXTENDS NotificationRefinement, TLC

Symmetry == Permutations(Threads) \union Permutations(Observers)

=============================================================================
