-------------------------- MODULE MCCatalogRefresh --------------------------
(* Small instances of CatalogRefresh: two breaches, of which the second is *)
(* withdrawn by one of HIBP's answers; an answer that names only one of    *)
(* them; and an empty answer.                                              *)
EXTENDS CatalogRefresh, TLC

CONSTANTS n1, n2

MCNames == {n1, n2}

MCPayloads == {n1 :> TRUE @@ n2 :> FALSE,
               n1 :> TRUE,
               [n \in {} |-> TRUE]}

Symmetry == Permutations(Requests)
=============================================================================
