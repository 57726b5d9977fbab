------------------------------ MODULE Shutdown ------------------------------
(***************************************************************************)
(* How a game server is shut down (gmsv/main.c 243-267, gmsv/net/net.c     *)
(* 1925-1954, common/saac_client_recv.c 116-167).  An order starts a count *)
(* of minutes; one minute before the end no client is accepted any more;   *)
(* at the end every connection is closed, and the server is down when SAAC *)
(* has acknowledged the characters' saves.  Saves and acknowledgements     *)
(* travel in order; those of the periodic save look like the final ones.   *)
(***************************************************************************)
EXTENDS Integers, Sequences, FiniteSets

CONSTANTS
  Conns,        \* client connections (file descriptors)
  Minutes,      \* the times a shutdown may be ordered with
  MaxFdid,      \* bound of the model: sessions ever accepted
  MaxOrders,    \* bound of the model: shutdowns ever ordered
  MaxPending    \* bound of the model: a character is not saved periodically
                \* while this many of its saves are on their way

ASSUME ShutdownAssumption ==
  /\ IsFiniteSet(Conns)
  /\ Minutes \subseteq Nat
  /\ MaxFdid \in Nat /\ MaxOrders \in Nat /\ MaxPending \in Nat

VARIABLES
  conn,      \* conn[c]: use, state, char (char_index is a character), fdid
  serv,      \* servstate: acceptmore, closeallsocketnum, shutdown, limittime,
             \* dsptime, fdid; hun is what is left of limittime
  first,     \* b_first_shutdown and i_shutdown_time
  errno,     \* TRUE: errno still holds ECONNRESET of an earlier read
  tosaac,    \* saves SAAC has not processed yet: [fdid, final]
  acks,      \* fdids of the acknowledgements on their way back
  exited,    \* sigshutdown was called
  orders,    \* counts the orders
  skipped,   \* ghost: connections were closed under a stale errno
  early      \* ghost: fdids whose periodic save was counted as the final one

net == <<tosaac, acks>>
vars == <<conn, serv, first, errno, net, exited, orders, skipped, early>>

Unused == [use |-> FALSE, state |-> "NOTLOGIN", char |-> FALSE, fdid |-> 0]

Init ==
  /\ conn = [c \in Conns |-> Unused]
  /\ serv = [acceptmore |-> 1, closeallsocketnum |-> -1, shutdown |-> FALSE,
             limittime |-> 0, dsptime |-> 0, hun |-> 0, fdid |-> 1]
  /\ first = [seen |-> FALSE, time |-> 0]
  /\ errno = FALSE
  /\ tosaac = <<>> /\ acks = <<>>
  /\ exited = FALSE
  /\ orders = 0
  /\ skipped = FALSE
  /\ early = {}

Save(c, last) == [fdid |-> conn[c].fdid, final |-> last]

Awaited(cn) == {c \in Conns : cn[c].use /\ cn[c].state = "WHILECLOSEALLSOCKETSSAVE"}

-----------------------------------------------------------------------------
(* netloop_faster accepts a client.  The descriptor may be that of a       *)
(* closed connection whose save is still awaited.                          *)
Accept(c) ==
  /\ ~exited /\ serv.acceptmore > 0 /\ serv.fdid <= MaxFdid
  /\ ~conn[c].use \/ (c \in Awaited(conn) /\ ~conn[c].char)
  /\ conn' = [conn EXCEPT ![c] = [Unused EXCEPT !.use = TRUE, !.fdid = serv.fdid]]
  /\ serv' = [serv EXCEPT !.fdid = @ + 1]
  /\ UNCHANGED <<first, errno, net, exited, orders, skipped, early>>

(* A line of client c is read, which resets errno.                         *)
Heard(c) == ~exited /\ conn[c].use /\ c \notin Awaited(conn) /\ errno' = FALSE

Login(c) ==
  /\ Heard(c)
  /\ conn[c].state = "NOTLOGIN"
  /\ conn' = [conn EXCEPT ![c].state = "LOGIN", ![c].char = TRUE]
  /\ UNCHANGED <<serv, first, net, exited, orders, skipped, early>>

(* _CONNECT_endOne: the player leaves, or its connection has ended.        *)
EndOne(c) ==
  /\ Heard(c)
  /\ conn' = [conn EXCEPT ![c].use = FALSE, ![c].char = FALSE]
  /\ tosaac' = IF conn[c].char THEN Append(tosaac, Save(c, TRUE)) ELSE tosaac
  /\ UNCHANGED <<serv, first, acks, exited, orders, skipped, early>>

(* A read fails with ECONNRESET: _CONNECT_endOne returns at once, and the  *)
(* connection ends when it is read next.                                   *)
Reset(c) ==
  /\ ~exited /\ conn[c].use /\ c \notin Awaited(conn)
  /\ errno' = TRUE
  /\ UNCHANGED <<conn, serv, first, net, exited, orders, skipped, early>>

(* chardatasavecheck.                                                      *)
Chardatasavecheck(c) ==
  /\ ~exited /\ conn[c].use /\ conn[c].state = "LOGIN"
  /\ Cardinality({i \in DOMAIN tosaac : tosaac[i].fdid = conn[c].fdid})
       + Cardinality({i \in DOMAIN acks : acks[i] = conn[c].fdid}) < MaxPending
  /\ tosaac' = Append(tosaac, Save(c, FALSE))
  /\ UNCHANGED <<conn, serv, first, errno, acks, exited, orders, skipped, early>>

-----------------------------------------------------------------------------
(* closeAllConnectionandSaveData: every connection is closed, a character  *)
(* in the game is saved and its connection waits for the acknowledgement.  *)
(* Under a stale errno _CONNECT_endOne does nothing, yet the wait begins.  *)
Playing == {c \in Conns : conn[c].use /\ conn[c].state = "LOGIN"}

(* Variant: the players are told to leave, and their state is kept.        *)
Closed_keepsState(stale) == [c \in Conns |->
  IF stale \/ ~conn[c].use THEN conn[c]
  ELSE [conn[c] EXCEPT !.use = (c \in Playing), !.char = FALSE]]

Closed(stale) == [c \in Conns |->
  LET ended == IF stale \/ ~conn[c].use THEN conn[c]
               ELSE [conn[c] EXCEPT !.use = FALSE, !.char = FALSE]
  IN IF c \in Playing
       THEN [ended EXCEPT !.use = TRUE, !.state = "WHILECLOSEALLSOCKETSSAVE"]
       ELSE ended]

(* Variant: SERVSTATE_SetAcceptMore(0) is forgotten.                       *)
Counted_accepts(s) ==
  [s EXCEPT !.closeallsocketnum = Cardinality(Playing),
            !.acceptmore = IF Playing = {} THEN -1 ELSE @]

(* Variant: the count goes on from what an earlier call has left.          *)
Counted_noReset(s) ==
  LET n == Cardinality(Playing) + IF s.closeallsocketnum > 0 THEN s.closeallsocketnum ELSE 0
  IN [s EXCEPT !.closeallsocketnum = n, !.acceptmore = IF n = 0 THEN -1 ELSE 0]

Counted(s) ==
  [s EXCEPT !.closeallsocketnum = Cardinality(Playing),
            !.acceptmore = IF Playing = {} THEN -1 ELSE 0]

(* The saves are sent in the order of the connections, here in any.        *)
CloseAll(s, stale) ==
  /\ conn' = Closed(stale)
  /\ serv' = Counted(s)
  /\ IF stale THEN tosaac' = tosaac
     ELSE \E order \in [1 .. Cardinality(Playing) -> Playing] :
            /\ \A i, j \in DOMAIN order : order[i] = order[j] => i = j
            /\ tosaac' = tosaac \o [i \in DOMAIN order |-> Save(order[i], TRUE)]
  /\ skipped' = (skipped \/ stale)

(* A GM in the game asks the system's NPC.                                 *)
GmAccept(c, more) ==
  /\ Heard(c) /\ conn[c].state = "LOGIN"
  /\ serv' = [serv EXCEPT !.acceptmore = more]
  /\ UNCHANGED <<conn, first, net, exited, orders, skipped, early>>

GmCloseAll(c) ==
  /\ Heard(c) /\ conn[c].state = "LOGIN"
  /\ CloseAll(serv, FALSE)
  /\ UNCHANGED <<first, acks, exited, orders, early>>

-----------------------------------------------------------------------------
(* ACGmsvDownRequest or GmsvServer_Shutdown: the count of minutes starts.  *)
DownRequest(min) ==
  /\ ~exited /\ orders < MaxOrders
  /\ orders' = orders + 1
  /\ serv' = [serv EXCEPT !.shutdown = TRUE, !.limittime = min, !.dsptime = 0,
                          !.hun = min]
  /\ UNCHANGED <<conn, first, errno, net, exited, skipped, early>>

Told == serv.hun = serv.dsptime
LoopSeen == serv.acceptmore = 0 => first.seen

(* A minute passes.  ShutdownProc and netloop_faster have been through the *)
(* main loop meanwhile.                                                    *)
Minute ==
  /\ ~exited /\ serv.shutdown /\ serv.hun > 0 /\ Told /\ LoopSeen
  /\ serv' = [serv EXCEPT !.hun = @ - 1]
  /\ UNCHANGED <<conn, first, errno, net, exited, orders, skipped, early>>

ShutdownProc ==
  LET told == [serv EXCEPT !.dsptime = serv.hun,
                 !.acceptmore = IF serv.hun = 1 THEN 0 ELSE @] IN
  /\ ~exited /\ serv.shutdown
  /\ \/ /\ serv.hun # 0 /\ ~Told
        /\ serv' = told
        /\ UNCHANGED <<conn, tosaac, skipped>>
     \/ /\ serv.hun = 0
        /\ CloseAll([serv EXCEPT !.shutdown = FALSE, !.dsptime = 0, !.limittime = 0],
                    errno)
  /\ UNCHANGED <<first, errno, acks, exited, orders, early>>

(* netloop_faster finds acceptmore 0 for the first time.                   *)
Loop ==
  /\ ~exited /\ ~LoopSeen
  /\ first' = [seen |-> TRUE, time |-> serv.limittime]
  /\ UNCHANGED <<conn, serv, errno, net, exited, orders, skipped, early>>

-----------------------------------------------------------------------------
(* SAAC stores the next save and answers.                                  *)
SaacSave ==
  /\ tosaac # <<>>
  /\ tosaac' = Tail(tosaac)
  /\ acks' = IF exited THEN acks ELSE Append(acks, Head(tosaac).fdid)
  /\ UNCHANGED <<conn, serv, first, errno, exited, orders, skipped, early>>

(* sigshutdown: the process ends, and with it what is still in its buffer. *)
Exit ==
  /\ exited' = TRUE
  /\ \E k \in 0 .. Len(tosaac) : tosaac' = SubSeq(tosaac, 1, k)

(* Variant: the connection stays as it is.                                 *)
Freed_not(c) == conn

Freed(c) == [conn EXCEPT ![c].state = "NOTLOGIN", ![c].use = FALSE]

(* Variant: the last but one acknowledgement ends the wait.                *)
IsLast_offByOne(n) == n <= 1

IsLast(n) == n = 0

(* SaacClient_ACCharSave_recv of an awaited connection.                    *)
Released(c) ==
  LET n == serv.closeallsocketnum - 1 IN
  /\ conn' = Freed(c)
  /\ serv' = [serv EXCEPT !.closeallsocketnum = n,
                          !.acceptmore = IF IsLast(n) THEN -1 ELSE @]
  /\ early' = IF Save(c, TRUE) \in {tosaac[i] : i \in DOMAIN tosaac}
                THEN early \union {conn[c].fdid} ELSE early
  /\ IF IsLast(n) /\ first.time = 1 THEN Exit ELSE UNCHANGED <<tosaac, exited>>

ACCharSave_recv ==
  /\ ~exited /\ acks # <<>>
  /\ acks' = Tail(acks)
  /\ errno' = FALSE
  /\ LET mine == {c \in Awaited(conn) : conn[c].fdid = Head(acks)} IN
       \/ mine = {} /\ UNCHANGED <<conn, serv, tosaac, exited, early>>
       \/ \E c \in mine : Released(c)
  /\ UNCHANGED <<first, orders, skipped>>

Next ==
  \/ \E c \in Conns :
       \/ Accept(c) \/ Login(c) \/ EndOne(c) \/ Reset(c) \/ Chardatasavecheck(c)
       \/ \E more \in {0, 1} : GmAccept(c, more)
       \/ GmCloseAll(c)
  \/ \E min \in Minutes : DownRequest(min)
  \/ Minute \/ ShutdownProc \/ Loop
  \/ SaacSave \/ ACCharSave_recv

Fairness ==
  SF_vars(Minute) /\ WF_vars(ShutdownProc) /\ WF_vars(Loop)
    /\ WF_vars(SaacSave) /\ WF_vars(ACCharSave_recv)

Spec == Init /\ [][Next]_vars /\ Fairness

-----------------------------------------------------------------------------
States == {"NOTLOGIN", "LOGIN", "WHILECLOSEALLSOCKETSSAVE"}
Saves == [fdid : 1 .. MaxFdid, final : BOOLEAN]

(* Every variable keeps its type, and whoever is in the game has a         *)
(* character: the type invariant.  The count has no lower bound once       *)
(* connections were closed under a stale errno.                            *)
TypeOK ==
  /\ conn \in [Conns -> [use : BOOLEAN, state : States, char : BOOLEAN,
                         fdid : 0 .. MaxFdid]]
  /\ serv.acceptmore \in {-1, 0, 1}
  /\ serv.closeallsocketnum \in Int
  /\ serv.closeallsocketnum <= Cardinality(Conns)
  /\ skipped \/ serv.closeallsocketnum >= -1
  /\ serv.shutdown \in BOOLEAN
  /\ serv.limittime \in Nat /\ serv.dsptime \in Nat /\ serv.hun \in Nat
  /\ serv.fdid \in 1 .. MaxFdid + 1
  /\ first.seen \in BOOLEAN /\ first.time \in Nat
  /\ errno \in BOOLEAN /\ exited \in BOOLEAN /\ skipped \in BOOLEAN
  /\ tosaac \in Seq(Saves) /\ acks \in Seq(1 .. MaxFdid)
  /\ orders \in 0 .. MaxOrders
  /\ early \in SUBSET (1 .. MaxFdid)
  /\ \A c \in Playing : conn[c].char

Closing == serv.closeallsocketnum >= 0

(* closeallsocketnum is the number of connections whose acknowledgement is *)
(* awaited, whatever acknowledgements come, and however often the          *)
(* connections are closed: the wait neither ends early by its own count    *)
(* nor goes on for nobody.  Connections closed under a stale errno may     *)
(* wait on uncounted when the next closing counts anew; no more are ever   *)
(* counted than wait (closeAllConnectionandSaveData, ACCharSave_recv).     *)
CountIsAwaited ==
  Closing => /\ serv.closeallsocketnum <= Cardinality(Awaited(conn))
             /\ skipped \/ serv.closeallsocketnum = Cardinality(Awaited(conn))

(* Once the connections are closed, nobody is or comes in the game again   *)
(* while the saves are awaited and after, unless a stale errno kept        *)
(* connections open (net.c 894).                                           *)
NobodyComesBack ==
  Closing /\ ~skipped =>
    serv.acceptmore <= 0 /\ {c \in Conns : conn[c].use} = Awaited(conn)

(* When the process ends, SAAC has every last save of a character, or will *)
(* have it, except of those whose periodic save was under way when the     *)
(* connections were closed (saac_client_recv.c 149): the last save of a    *)
(* player who left before is older than any that was awaited.              *)
NoSaveLost ==
  exited /\ early = {} /\ ~skipped => \A i \in DOMAIN tosaac : ~tosaac[i].final

(* An ordered shutdown comes to its end, unless the connections are closed *)
(* under a stale errno: then saves are awaited that nobody sent.           *)
ShutdownEnds == serv.shutdown ~> serv.acceptmore = -1 \/ exited \/ skipped
=============================================================================
