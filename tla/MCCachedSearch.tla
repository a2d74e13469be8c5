--------------------------- MODULE MCCachedSearch ---------------------------
(* Values for the constants of CachedSearch.                               *)
EXTENDS CachedSearch, TLC

(* Once something has failed, searches may fail and lists be cut: nothing  *)
(* is lost by stopping there.  What a failed lookup leaves in the names    *)
(* cache is followed until a search has got its centre from there.         *)
Untroubled ==
    ~troubled \/ \A r \in Requests : main[r] \in {"idle", "lookup", "spawn", "done"}

Symmetry == Permutations(Requests)
=============================================================================
