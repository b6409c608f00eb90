---------------------------- MODULE MCEnrolment ----------------------------
(* The seeded even split, all traffic to calm, and a split that replaces   *)
(* urgent by a new key.                                                    *)
EXTENDS Enrolment, TLC

CONSTANTS calm, urgent, loud

MCKeys == {calm, urgent, loud}
MCSeed == calm :> 50 @@ urgent :> 50
MCSplits == {MCSeed, calm :> 100 @@ urgent :> 0, calm :> 50 @@ loud :> 50}

Symmetry == Permutations(Visitors) \cup Permutations(Savers)
=============================================================================
