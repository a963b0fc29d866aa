------------------------- MODULE MCRolloutMigration -------------------------
(* Three instances with a group of two sequences each; the actor's GPUs are *)
(* lent to one of them if the policies are on.                              *)
EXTENDS RolloutMigration

BothOrNone == {[preProcess |-> b, wait |-> b] : b \in BOOLEAN}
=============================================================================
