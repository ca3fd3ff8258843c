-------------------------- MODULE MCSourceHandlers --------------------------
\* The instances of SourceHandlers that are model-checked.
EXTENDS SourceHandlers, TLC

HSymmetry ==
    Permutations(Jobs) \cup Permutations(Triggers) \cup Permutations(Locks)
        \cup Permutations(Handlers)
=============================================================================
