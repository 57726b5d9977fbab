------------------------------ MODULE MCLogin ------------------------------
(* Instances of Login for TLC.                                             *)
EXTENDS Login, TLC
CONSTANTS k1, s1, s2, f1, f2
OneCdkey == {k1}
OneServer == {s1}
TwoServers == {s1, s2}
OneFd == {f1}
TwoFds == {f1, f2}
ServerSymmetry == Permutations(TwoServers)
FdSymmetry == Permutations(TwoFds)
=============================================================================
