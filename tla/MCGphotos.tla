----------------------------- MODULE MCGphotos -----------------------------
(* Two albums in two slots, two photographs of which the cache keeps one, and sets of rules  *)
(* 1..3: the firmware knows 1 or 2, and 2 finds nothing.                                      *)
EXTENDS Gphotos
CONSTANTS a, b
MCFirstLinks == {<<a, NoLink>>}
MCFirstAlbums == {[l \in Link |-> IF l = a THEN {1} ELSE {2}]}
=============================================================================
