------------------------- MODULE MCPlacedItemsSync -------------------------
(***************************************************************************)
(* Small instances of PlacedItemsSync for TLC.                             *)
(***************************************************************************)
EXTENDS PlacedItemsSync, TLC
=============================================================================
