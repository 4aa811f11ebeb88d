--------------------------- MODULE MCMulticoreFuzz ---------------------------
(* Two workers, and one crash that is found three times: the second        *)
(* finding shares a key with the first and one with the third, which have  *)
(* none in common.                                                         *)
EXTENDS MulticoreFuzz

MCHome == <<0, 0, 1>>
MCKeys == <<{"x"}, {"x", "z"}, {"z"}>>
MCIds == 0 .. 4
==============================================================================
