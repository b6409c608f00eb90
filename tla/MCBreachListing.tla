--------------------------- MODULE MCBreachListing ---------------------------
(* Three breaches a, b and c, one row per page, a selection that shows all *)
(* of them and one that shows c before a.  The catalog starts empty, is    *)
(* filled with b and c, and then gains a above them, or loses b.           *)
EXTENDS BreachListing, TLC

CONSTANTS a, b, c, all, ac

MCNames == {a, b, c}
MCSelections == {all, ac}
MCListing == all :> <<a, b, c>> @@ ac :> <<c, a>>
MCPayloads == {b :> TRUE @@ c :> TRUE,
               a :> TRUE @@ b :> TRUE @@ c :> TRUE,
               b :> FALSE @@ c :> TRUE}
=============================================================================
