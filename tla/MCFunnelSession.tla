--------------------------- MODULE MCFunnelSession ---------------------------
(* One or two tabs, and enough ids for every POST the bounds allow.        *)
EXTENDS FunnelSession, TLC

Symmetry == Permutations(Tabs) \cup Permutations(Visitors)
              \cup Permutations(Steps) \cup Permutations(Variants)
=============================================================================
