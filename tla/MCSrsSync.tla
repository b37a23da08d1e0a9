----------------------------- MODULE MCSrsSync -----------------------------
(* Instances of SrsSync for TLC. *)
EXTENDS SrsSync, TLC

WorkersAndCards == Permutations(Worker) \cup Permutations(Card)
=============================================================================
