------------------------- MODULE MCCachedRepository -------------------------
(* Values for the constants of CachedRepository.                           *)
EXTENDS CachedRepository, TLC

Symmetry == Permutations(Callers)
=============================================================================
