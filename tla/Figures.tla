------------------------------- MODULE Figures -------------------------------
(***************************************************************************)
(* How a number reads on screen.  A tile, a row's meta line and the lift   *)
(* card write a rounded figure; a reading is kept here as the integer that *)
(* is printed and the unit it is printed in, never as text.                *)
(*                                                                         *)
(* A fraction is a pair of integers: the code computes it in doubles, and  *)
(* what a double loses is not modelled.                                    *)
(***************************************************************************)
EXTENDS Integers

(* Math.round of num / den: to the nearest integer, a tie upwards.         *)
Rounded(num, den) == (2 * num + den) \div (2 * den)

(* The largest of the floors the number reaches.                           *)
Reached(floors, number) ==
    CHOOSE f \in floors : f <= number /\ \A g \in floors : g <= number => g <= f

-----------------------------------------------------------------------------
(* Counts: 17.8B, 14.9M, 412K, 950.                                        *)
THOUSAND == 1000

magnitudes == {THOUSAND, THOUSAND * THOUSAND, THOUSAND * THOUSAND * THOUSAND}

(* In tenths of the magnitude; below a thousand, the count itself.         *)
formatCount(count) ==
    IF count < THOUSAND THEN [tenths |-> 10 * count, unit |-> 1]
    ELSE LET unit == Reached(magnitudes, count)
         IN  [tenths |-> Rounded(10 * count, unit), unit |-> unit]

(* What a reader takes the count for, in tenths of one.                    *)
CountRead(reading) == reading.tenths * reading.unit

-----------------------------------------------------------------------------
(* Shares: 65%, and signed to one decimal for a lift: +25.0%.              *)
formatShare(num, den) == Rounded(100 * num, den)

(* The sign is the rounded figure's, so nothing is written as -0.0%.       *)
formatSignedPercent(num, den) ==
    LET rounded == Rounded(1000 * num, den)
    IN  [sign |-> IF rounded > 0 THEN "+" ELSE IF rounded < 0 THEN "-" ELSE "",
         tenths |-> IF rounded < 0 THEN - rounded ELSE rounded]

-----------------------------------------------------------------------------
(* Ages: 2 hours ago, 3 days ago; just now inside the first minute, and    *)
(* for a record stamped ahead of the reader's clock.                       *)
MINUTE_MS == 60000
HOUR_MS == 60 * MINUTE_MS
DAY_MS == 24 * HOUR_MS

ageUnits == {MINUTE_MS, HOUR_MS, DAY_MS}

formatSyncedAgo(syncedAt, now) ==
    LET age == now - syncedAt
    IN  IF age < MINUTE_MS THEN [count |-> 0, unit |-> MINUTE_MS]
        ELSE LET unit == Reached(ageUnits, age)
             IN  [count |-> age \div unit, unit |-> unit]

AgeRead(reading) == reading.count * reading.unit
=============================================================================
