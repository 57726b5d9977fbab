------------------------------ MODULE MCParty ------------------------------
(* Four players and a vehicle; a leader has room for three others.         *)
EXTENDS Party, TLC
CONSTANTS p1, p2, p3, p4, v1
MCPlayers == {p1, p2, p3, p4}
MCVehicles == {v1}
Symmetry == Permutations(MCPlayers)
=============================================================================
