------------------------- MODULE MCMessageLifecycle -------------------------
\* TLC instance of MessageLifecycle; workers are interchangeable.
EXTENDS MessageLifecycle, TLC

Symmetry == Permutations(Workers)
=============================================================================
