------------------------- MODULE MCSitePublication --------------------------
(* Instances of SitePublication for TLC. *)
EXTENDS SitePublication, TLC

CONSTANTS a1, a2, a3, a4, a

MCRuns == {a1, a2, a3, a4}
MCSites == {a}
MCSite == [r \in MCRuns |-> a]
MCInTurn == {}
MCOverlap == {a}

Symmetry == Permutations({a1, a2, a3, a4})
=============================================================================
