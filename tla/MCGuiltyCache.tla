--------------------------- MODULE MCGuiltyCache ---------------------------
(* GuiltyCache for TLC: the GET requests are alike.                        *)
EXTENDS GuiltyCache, TLC

Alike == Permutations(Reader)
=============================================================================
