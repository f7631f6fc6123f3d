------------------------------ MODULE MCSessions ------------------------------
(* Tiles of one Deck in one directory. *)
EXTENDS Sessions

CONSTANTS w1, team

MCLaunches == <<team, Ephemeral>>
=============================================================================
