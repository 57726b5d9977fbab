------------------------------ MODULE MCBattle ------------------------------
(* Two players, three slots for battles, two seats on a side.              *)
EXTENDS Battle
CONSTANTS p1, p2, b1, b2, b3
MCPlayers == {p1, p2}
MCBattles == {b1, b2, b3}
=============================================================================
