---------------------------- MODULE MCMemBuffer ----------------------------
(* Two connections, five buffers of two bytes: one more than their heads. *)
EXTENDS MemBuffer
CONSTANTS a, nl, z, p, q
MCReads == {<<a, nl, z>>, <<z, nl>>}
MCBad == {<<z>>}
MCWrites == {<<p, q, p>>}
MCConns == {1, 2}
=============================================================================
