--------------------------- MODULE ListenerPoolMC ---------------------------
(* Instances of ListenerPool for TLC. *)
EXTENDS ListenerPool, TLC

\* One key per process: Key is the set of processes.
OwnKey == [p \in Worker |-> p]

\* Every process is configured with the same key.
SharedKey == [p \in Worker |-> CHOOSE k \in Key : TRUE]

Symmetric == Permutations(Worker) \cup Permutations(Handle)
=============================================================================
