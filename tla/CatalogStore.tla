---------------------------- MODULE CatalogStore ----------------------------
(***************************************************************************)
(* What the stored breach catalog promises to everything that reads it:    *)
(* a set of rows that only ever changes by one whole payload landing at    *)
(* once, under one stamp that is at least SyncTTL newer than everything    *)
(* already stored.  Rows the payload does not name are kept.               *)
(*                                                                         *)
(* This is the abstract specification of the `breach` table.  How a boot   *)
(* and many request threads arrive at it is CatalogRefresh, which          *)
(* implements this module; BreachListing reads it as its environment.      *)
(***************************************************************************)
EXTENDS Naturals, FiniteSets

CONSTANTS Names,     \* the names HIBP files breaches under (the primary key)
          SyncTTL,   \* how old the catalog must be to be fetched again
          Times,     \* the stamps a sync may carry
          Payloads   \* the catalogs HIBP may answer with

(***************************************************************************)
(* A payload maps each name it holds to whether that breach may be served: *)
(* neither retired nor fabricated.                                         *)
(***************************************************************************)
CatalogPayload == UNION {[S -> BOOLEAN] : S \in SUBSET Names}

ASSUME StoreAssumption ==
    /\ SyncTTL \in Nat \ {0}
    /\ Times \subseteq Nat
    /\ Payloads \subseteq CatalogPayload

VARIABLE rows        \* the table: name |-> [fetched_at, servable]

Row == [fetched_at : Nat, servable : BOOLEAN]

StoreTypeOK ==
    /\ DOMAIN rows \subseteq Names
    /\ rows \in [DOMAIN rows -> Row]

StoreInit == rows = [n \in {} |-> 0]

(* INSERT ... ON CONFLICT (name) DO UPDATE, every column from the payload. *)
upsert_many(table, breaches, fetched_at) ==
    [n \in DOMAIN table \cup DOMAIN breaches |->
        IF n \in DOMAIN breaches
        THEN [fetched_at |-> fetched_at, servable |-> breaches[n]]
        ELSE table[n]]

(***************************************************************************)
(* should_sync over max(fetched_at): the newest row is SyncTTL old or      *)
(* older, and an empty table is never fresh.  Written as "every row is",   *)
(* which is the same comparison.                                           *)
(***************************************************************************)
should_sync(table, now) == \A n \in DOMAIN table : now >= table[n].fetched_at + SyncTTL

(* Retired and fabricated breaches are never served.                       *)
servable_names(table) == {n \in DOMAIN table : table[n].servable}

(* One sync: a non-empty payload replaces its rows, all or nothing.        *)
Store(breaches, now) ==
    /\ DOMAIN breaches # {}
    /\ should_sync(rows, now)
    /\ rows' = upsert_many(rows, breaches, now)

StoreNext == \E breaches \in Payloads, now \in Times : Store(breaches, now)

StoreSpec == StoreInit /\ [][StoreNext]_rows
=============================================================================
