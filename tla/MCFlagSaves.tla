----------------------------- MODULE MCFlagSaves -----------------------------
(* Two interchangeable tabs, and three edits of a flag split in halves:    *)
(* 999 typed into one arm's share, the other's cleared, a line of copy.    *)
EXTENDS FlagSaves, TLC

CONSTANTS raise, lower, reword

MCEdits == {raise, lower, reword}
MCWeights == {raise, lower}
MCTyped == (raise :> {999}) @@ (lower :> {})
MCSeeded == (raise :> 50) @@ (lower :> 50)

Symmetry == Permutations(Tabs)
=============================================================================
