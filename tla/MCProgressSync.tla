--------------------------- MODULE MCProgressSync ---------------------------
(* Instances of ProgressSync for TLC. *)
EXTENDS ProgressSync, TLC

CONSTANTS draft1, final1, final2

\* Two lessons: one with a draft before its final attempt, one passed at once.
TwoLessons ==
    draft1 :> [draft |-> TRUE, passed |-> FALSE, testOut |-> FALSE,
               long |-> TRUE, lesson |-> 1]
    @@ final1 :> [draft |-> FALSE, passed |-> TRUE, testOut |-> FALSE,
                  long |-> TRUE, lesson |-> 1]
    @@ final2 :> [draft |-> FALSE, passed |-> TRUE, testOut |-> FALSE,
                  long |-> TRUE, lesson |-> 2]
Finals == [a \in {final1, final2} |-> TwoLessons[a]]

OwnKey == [a \in Attempt |-> a]

\* The two finals differ in their lessons only, which no other attempt shares.
Symmetric == Permutations(Worker) \cup Permutations(Attempt)
=============================================================================
