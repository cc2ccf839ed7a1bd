------------------------ MODULE MCSessionLifecycle ------------------------
EXTENDS RecordedInstances, TLC

Symmetry == Permutations(Handlers)
===========================================================================
