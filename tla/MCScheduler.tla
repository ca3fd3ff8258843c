---------------------------- MODULE MCScheduler ----------------------------
\* The instances of Scheduler that are model-checked.
EXTENDS Scheduler, TLC

\* Goroutines, locks and sources of a kind are interchangeable.
Symmetry ==
    Permutations(Sources) \cup Permutations(Jobs) \cup Permutations(Triggers)
        \cup Permutations(Locks)
=============================================================================
