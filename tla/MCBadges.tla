------------------------------- MODULE MCBadges -------------------------------
(* Tiles of one Deck in a directory in which a session has run before. *)
EXTENDS Badges

CONSTANTS a, b

MCEarlier == <<[id |-> MaxSpawns + 2, name |-> a]>>
===============================================================================
