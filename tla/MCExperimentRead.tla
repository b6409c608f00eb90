-------------------------- MODULE MCExperimentRead --------------------------
(* The two arms of the hypothesis and a third variant.  The read treats a  *)
(* third variant and no assignment alike, so the two may be swapped too.   *)
EXTENDS Dashboard, TLC

CONSTANT loud

Symmetry == {people @@ others : people \in Permutations(Visitors),
                                others \in Permutations({loud, Outside})}
=============================================================================
