---------------------------- MODULE MCLockTable ----------------------------
(* Four accounts in two buckets, two servers, lists grown by two nodes.    *)
EXTENDS LockTable, TLC
CONSTANTS k1, k2, k3, k4, s1, s2, b1, b2
MCCdkeys == {k1, k2, k3, k4}
MCServers == {s1, s2}
MCBuckets == {b1, b2}
(* Three accounts collide in b1, so its list grows twice.                  *)
MCHash == (k1 :> b1) @@ (k2 :> b1) @@ (k3 :> b1) @@ (k4 :> b2)
=============================================================================
