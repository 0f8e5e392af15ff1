----------------------------- MODULE MCSeeding -----------------------------
(***************************************************************************)
(* The seeded data and the database of one player, for TLC.                *)
(***************************************************************************)
EXTENDS Seeding
=============================================================================
