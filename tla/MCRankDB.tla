------------------------------ MODULE MCRankDB ------------------------------
(* Three keys, two of them in one hash chain; one table of each type.      *)
(* A text has up to two layers of escapes.                                 *)
EXTENDS RankDB
CONSTANTS k1, k2, k3, t1, s1
MCHash == [k \in {k1, k2, k3} |-> IF k = k3 THEN 2 ELSE 1]
MCKeys == {k1, k2, k3}
MCInt == {t1}
MCString == {s1}
MCValues == 1 .. 3
MCInputs == {<<t1, k1, 1>>, <<t1, k1, 3>>, <<t1, k2, 2>>, <<s1, k3, 3>>}
MCUnescape == [v \in MCValues |-> IF v = 1 THEN 1 ELSE v - 1]
=============================================================================
