------------------------ MODULE NotificationQueueMC ------------------------
(* Instances of NotificationQueue for TLC. *)
EXTENDS NotificationQueue, TLC

Symmetric == Permutations(Msg) \cup Permutations(Consumer)
=============================================================================
