---------------------------- MODULE MCShutdown ----------------------------
(* Two connections, three sessions, a shutdown at once or in a minute.      *)
EXTENDS Shutdown
CONSTANTS c1, c2
MCConns == {c1, c2}
MCMinutes == {0, 1}
=============================================================================
