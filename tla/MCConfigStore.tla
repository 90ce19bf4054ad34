---------------------------- MODULE MCConfigStore ---------------------------
(* Three configurations; the lines of v2 (a static route of one host, say) *)
(* read back as v1.                                                        *)
EXTENDS ConfigStore, TLC

CONSTANTS v0, v1, v2
MCVersions == {v0, v1, v2}
MCReread == [v \in MCVersions |-> IF v = v2 THEN v1 ELSE v]

Symmetry == Permutations(Operators)
=============================================================================
