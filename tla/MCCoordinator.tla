---------------------------- MODULE MCCoordinator ----------------------------
EXTENDS Coordinator, TLC

Symmetry == Permutations(Shard) \cup Permutations(Resolver)
=============================================================================
