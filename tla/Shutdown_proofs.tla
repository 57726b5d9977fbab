--------------------------- MODULE Shutdown_proofs ---------------------------
(***************************************************************************)
(* Theorems about Shutdown.  Inv says what holds between the connections,  *)
(* the count, errno and the saves under way.  Every action is one of five  *)
(* kinds of step: the order is given and counted down (OrderStep), the     *)
(* game goes on (GameStep), the connections are closed (CloseAllStep),     *)
(* SAAC stores a save (SaacSaveStep), an awaited connection is released    *)
(* (ReleasedStep).                                                         *)
(***************************************************************************)
EXTENDS Shutdown, FiniteSetTheorems, SequenceTheorems, TLAPS

Connection == [use : BOOLEAN, state : States, char : BOOLEAN, fdid : 0 .. MaxFdid]
Server == [acceptmore : {-1, 0, 1}, closeallsocketnum : Int, shutdown : BOOLEAN,
           limittime : Nat, dsptime : Nat, hun : Nat, fdid : 1 .. MaxFdid + 1]

(* Whoever is connected has an fdid, and whoever plays a character.        *)
Typed ==
  /\ conn \in [Conns -> Connection]
  /\ \A c \in Conns : conn[c].use => conn[c].fdid # 0
  /\ \A c \in Playing : conn[c].char
  /\ serv \in Server
  /\ first \in [seen : BOOLEAN, time : Nat]
  /\ errno \in BOOLEAN /\ exited \in BOOLEAN /\ skipped \in BOOLEAN
  /\ tosaac \in Seq(Saves) /\ acks \in Seq(1 .. MaxFdid)
  /\ orders \in 0 .. MaxOrders
  /\ early \in SUBSET (1 .. MaxFdid)

(* Only awaited connections are in use, and their characters are saved.    *)
Shut == \A c \in Conns : conn[c].use => c \in Awaited(conn) /\ ~conn[c].char

(* Once the character of an awaited connection was saved, the server is    *)
(* shut: none is accepted, and no read has left an error in errno.         *)
ShutOK ==
  (\E c \in Awaited(conn) : ~conn[c].char) => Shut /\ serv.acceptmore <= 0 /\ ~errno

(* No more connections are counted than are awaited.                       *)
CountBound == Closing => serv.closeallsocketnum <= Cardinality(Awaited(conn))

(* Unless a stale errno kept connections open, the count is exact and the  *)
(* server stays shut from the first closing on.                            *)
ClosedOK ==
  ~skipped =>
    \/ /\ Closing /\ Shut /\ serv.acceptmore <= 0 /\ ~errno
       /\ serv.closeallsocketnum = Cardinality(Awaited(conn))
    \/ serv.closeallsocketnum = -1 /\ Awaited(conn) = {}

(* A last save of nobody awaited is older than the last save of everybody  *)
(* who is.                                                                 *)
Last(c) == [fdid |-> conn[c].fdid, final |-> TRUE]
OldFirst ==
  ~skipped /\ early = {} =>
    \A i \in 1 .. Len(tosaac) :
      tosaac[i].final /\ (\A c \in Awaited(conn) : tosaac[i] # Last(c)) =>
        \A c \in Awaited(conn) : \E k \in i + 1 .. Len(tosaac) : tosaac[k] = Last(c)

Inv == Typed /\ ShutOK /\ CountBound /\ ClosedOK /\ OldFirst /\ NoSaveLost

-----------------------------------------------------------------------------
(* The awaited connections are finitely many.                              *)
LEMMA AwaitedFinite ==
  ASSUME NEW S \in SUBSET Conns
  PROVE  /\ IsFiniteSet(S) /\ Cardinality(S) \in Nat
         /\ Cardinality(S) <= Cardinality(Conns)
         /\ Cardinality(Conns) \in Nat
         /\ Cardinality(S) = 0 <=> S = {}
  BY ShutdownAssumption, FS_Subset, FS_CardinalityType, FS_EmptySet DEF ShutdownAssumption

(* A step of the order and its count-down, or of an acknowledgement nobody *)
(* awaits: connections and saves stay, none is let in that was not.        *)
LEMMA OrderStep ==
  ASSUME Inv, Typed', UNCHANGED <<conn, tosaac, early, exited, skipped>>,
         serv'.closeallsocketnum = serv.closeallsocketnum,
         serv.acceptmore <= 0 => serv'.acceptmore <= 0,
         errno' => errno
  PROVE  Inv'
<1>1. /\ Awaited(conn)' = Awaited(conn) /\ Shut' = Shut
      /\ Closing' = Closing /\ \A c : Last(c)' = Last(c)
  BY DEF Awaited, Shut, Closing, Last
<1>2. ShutOK' /\ CountBound' /\ ClosedOK'
  BY <1>1 DEF Inv, ShutOK, CountBound, ClosedOK
<1>3. OldFirst'
  BY <1>1 DEF Inv, OldFirst
<1>4. NoSaveLost'
  BY DEF Inv, NoSaveLost
<1> QED BY <1>2, <1>3, <1>4 DEF Inv

(* A step of the game: the server is not shut, or still accepts, so nobody *)
(* is awaited whose character was saved.                                   *)
LEMMA GameStep ==
  ASSUME Inv, Typed', ~Shut \/ serv.acceptmore > 0, ~exited,
         Awaited(conn)' = Awaited(conn),
         \A c \in Awaited(conn) : conn'[c] = conn[c],
         UNCHANGED <<early, exited, skipped>>,
         serv'.closeallsocketnum = serv.closeallsocketnum
  PROVE  Inv'
<1>1. serv.acceptmore \in {-1, 0, 1}
  BY DEF Inv, Typed, Server
<1>2. \A c \in Awaited(conn) : conn[c].char
  BY <1>1 DEF Inv, ShutOK
<1>3. ShutOK'
  BY <1>2 DEF ShutOK
<1>4. ~skipped => serv.closeallsocketnum = -1 /\ Awaited(conn) = {}
  BY <1>1 DEF Inv, ClosedOK
<1>5. CountBound'
  BY DEF Inv, CountBound, Closing
<1>6. ClosedOK'
  BY <1>4 DEF ClosedOK
<1>7. OldFirst'
  BY <1>4 DEF OldFirst
<1>8. NoSaveLost'
  BY DEF NoSaveLost
<1> QED BY <1>3, <1>5, <1>6, <1>7, <1>8 DEF Inv

-----------------------------------------------------------------------------
(* A client is accepted: its descriptor is not that of an awaited          *)
(* connection, for the server is shut once one of these was saved.         *)
LEMMA AcceptStep == ASSUME Inv, NEW c \in Conns, Accept(c) PROVE Inv'
<1> USE DEF Accept, net
<1>1. /\ serv \in Server /\ conn \in [Conns -> Connection]
      /\ serv.acceptmore > 0 /\ ~exited
  BY DEF Inv, Typed
<1>2. c \notin Awaited(conn)
  <2>1. ASSUME c \in Awaited(conn), ~conn[c].char PROVE FALSE
    BY <1>1, <2>1 DEF Inv, ShutOK, Server
  <2> QED BY <2>1 DEF Awaited
<1> DEFINE new == [Unused EXCEPT !.use = TRUE, !.fdid = serv.fdid]
<1>3. new \in Connection /\ new.fdid # 0
  <2>1. serv.fdid \in 0 .. MaxFdid /\ serv.fdid # 0
    BY <1>1, ShutdownAssumption DEF Server, ShutdownAssumption
  <2> QED BY <2>1 DEF Unused, Connection, States
<1>4. conn' = [conn EXCEPT ![c] = new]
  OBVIOUS
<1>5. /\ new.use /\ new.state = "NOTLOGIN"
  BY DEF Unused
<1> HIDE DEF new
<1>6. /\ conn' \in [Conns -> Connection]
      /\ conn'[c] = new /\ \A d \in Conns \ {c} : conn'[d] = conn[d]
  BY <1>1, <1>3, <1>4
<1>7. Awaited(conn)' = Awaited(conn)
  BY <1>2, <1>5, <1>6 DEF Awaited
<1>8. serv' \in Server /\ serv'.closeallsocketnum = serv.closeallsocketnum
  BY <1>1, ShutdownAssumption DEF Server, ShutdownAssumption
<1>9. Typed'
  BY <1>3, <1>5, <1>6, <1>8 DEF Inv, Typed, Playing
<1>10. \A d \in Awaited(conn) : conn'[d] = conn[d]
  BY <1>2, <1>6 DEF Awaited
<1> QED BY <1>1, <1>7, <1>8, <1>9, <1>10, GameStep

(* Whoever is heard is not awaited, so the server is not shut.             *)
LEMMA HeardNotShut ==
  ASSUME NEW c \in Conns, Heard(c)
  PROVE  ~Shut /\ ~exited /\ conn[c].use /\ c \notin Awaited(conn) /\ errno' = FALSE
  BY DEF Heard, Shut

(* A player comes into the game.                                           *)
LEMMA LoginStep == ASSUME Inv, NEW c \in Conns, Login(c) PROVE Inv'
<1> USE DEF Login, net
<1>1. conn \in [Conns -> Connection] /\ ~Shut /\ ~exited /\ c \notin Awaited(conn)
  BY HeardNotShut DEF Inv, Typed
<1> DEFINE new == [conn[c] EXCEPT !.state = "LOGIN", !.char = TRUE]
<1>2. conn' = [conn EXCEPT ![c] = new]
  BY <1>1 DEF Connection
<1>3. /\ new \in Connection /\ new.state = "LOGIN" /\ new.char
      /\ new.use = conn[c].use /\ new.fdid = conn[c].fdid
  BY <1>1 DEF Connection, States
<1> HIDE DEF new
<1>4. /\ conn' \in [Conns -> Connection]
      /\ conn'[c] = new /\ \A d \in Conns \ {c} : conn'[d] = conn[d]
  BY <1>1, <1>2, <1>3
<1>5. Awaited(conn)' = Awaited(conn)
  BY <1>1, <1>3, <1>4 DEF Awaited
<1>6. Typed'
  BY <1>3, <1>4, HeardNotShut DEF Inv, Typed, Playing
<1>7. \A d \in Awaited(conn) : conn'[d] = conn[d]
  BY <1>1, <1>4 DEF Awaited
<1> QED BY <1>1, <1>5, <1>6, <1>7, GameStep

(* A save of a connection in use is one SAAC can be sent.                  *)
LEMMA SaveType ==
  ASSUME Typed, NEW c \in Conns, conn[c].use, NEW last \in BOOLEAN
  PROVE  Save(c, last) \in Saves
<1>1. conn[c].fdid \in 0 .. MaxFdid /\ conn[c].fdid # 0
  BY DEF Typed, Connection
<1>2. conn[c].fdid \in 1 .. MaxFdid
  BY <1>1, ShutdownAssumption DEF ShutdownAssumption
<1> QED BY <1>2 DEF Save, Saves

(* A connection ends.                                                      *)
LEMMA EndOneStep == ASSUME Inv, NEW c \in Conns, EndOne(c) PROVE Inv'
<1> USE DEF EndOne, net
<1>1. /\ conn \in [Conns -> Connection] /\ ~Shut /\ ~exited
      /\ c \notin Awaited(conn) /\ conn[c].use
  BY HeardNotShut DEF Inv, Typed
<1> DEFINE new == [conn[c] EXCEPT !.use = FALSE, !.char = FALSE]
<1>2. conn' = [conn EXCEPT ![c] = new]
  BY <1>1 DEF Connection
<1>3. new \in Connection /\ ~new.use
  BY <1>1 DEF Connection
<1> HIDE DEF new
<1>4. /\ conn' \in [Conns -> Connection]
      /\ conn'[c] = new /\ \A d \in Conns \ {c} : conn'[d] = conn[d]
  BY <1>1, <1>2, <1>3
<1>5. Awaited(conn)' = Awaited(conn)
  BY <1>1, <1>3, <1>4 DEF Awaited
<1>6. tosaac' \in Seq(Saves)
  <2>1. Save(c, TRUE) \in Saves
    BY <1>1, SaveType DEF Inv
  <2>2. Append(tosaac, Save(c, TRUE)) \in Seq(Saves)
    BY <2>1, AppendProperties DEF Inv, Typed
  <2> QED BY <2>2 DEF Inv, Typed
<1>7. Typed'
  BY <1>3, <1>4, <1>6, HeardNotShut DEF Inv, Typed, Playing
<1>8. \A d \in Awaited(conn) : conn'[d] = conn[d]
  BY <1>1, <1>4 DEF Awaited
<1> QED BY <1>1, <1>5, <1>7, <1>8, GameStep

(* A read fails, of a connection that is not awaited.                      *)
LEMMA ResetStep == ASSUME Inv, NEW c \in Conns, Reset(c) PROVE Inv'
<1> USE DEF Reset, net
<1>1. ~Shut /\ Awaited(conn)' = Awaited(conn)
  BY DEF Shut, Awaited
<1>2. Typed'
  BY DEF Inv, Typed, Playing
<1> QED BY <1>1, <1>2, GameStep

(* A character in the game is saved.                                       *)
LEMMA ChardatasavecheckStep ==
  ASSUME Inv, NEW c \in Conns, Chardatasavecheck(c) PROVE Inv'
<1> USE DEF Chardatasavecheck
<1>1. ~Shut /\ Awaited(conn)' = Awaited(conn)
  BY DEF Shut, Awaited
<1>2. Save(c, FALSE) \in Saves
  BY SaveType DEF Inv
<1>3. tosaac' \in Seq(Saves)
  BY <1>2, AppendProperties DEF Inv, Typed
<1>4. Typed'
  BY <1>3 DEF Inv, Typed, Playing
<1> QED BY <1>1, <1>4, GameStep

(* A GM opens or shuts the server for clients.                             *)
LEMMA GmAcceptStep ==
  ASSUME Inv, NEW c \in Conns, NEW more \in {0, 1}, GmAccept(c, more) PROVE Inv'
<1> USE DEF GmAccept, net
<1>1. ~Shut /\ ~exited /\ errno' = FALSE /\ Awaited(conn)' = Awaited(conn)
  BY HeardNotShut DEF Awaited
<1>2. serv' \in Server /\ serv'.closeallsocketnum = serv.closeallsocketnum
  BY DEF Inv, Typed, Server
<1>3. Typed'
  BY <1>1, <1>2 DEF Inv, Typed, Playing
<1> QED BY <1>1, <1>2, <1>3, GameStep

-----------------------------------------------------------------------------
(* A shutdown is ordered.                                                  *)
LEMMA DownRequestStep ==
  ASSUME Inv, NEW min \in Minutes, DownRequest(min) PROVE Inv'
<1> USE DEF DownRequest, net
<1>1. /\ serv' \in Server /\ serv'.closeallsocketnum = serv.closeallsocketnum
      /\ serv'.acceptmore = serv.acceptmore
  BY ShutdownAssumption DEF Inv, Typed, Server, ShutdownAssumption
<1>2. orders' \in 0 .. MaxOrders
  BY ShutdownAssumption DEF Inv, Typed, ShutdownAssumption
<1>3. Typed'
  BY <1>1, <1>2 DEF Inv, Typed, Playing
<1> QED BY <1>1, <1>3, OrderStep

(* A minute passes.                                                        *)
LEMMA MinuteStep == ASSUME Inv, Minute PROVE Inv'
<1> USE DEF Minute, net
<1>1. /\ serv' \in Server /\ serv'.closeallsocketnum = serv.closeallsocketnum
      /\ serv'.acceptmore = serv.acceptmore
  <2>1. serv \in Server /\ serv.hun - 1 \in Nat
    BY DEF Inv, Typed, Server
  <2>2. serv' = [serv EXCEPT !.hun = serv.hun - 1]
    OBVIOUS
  <2> QED BY <2>1, <2>2 DEF Server
<1>2. Typed'
  BY <1>1 DEF Inv, Typed, Playing
<1> QED BY <1>1, <1>2, OrderStep

(* The main loop sees that none is accepted any more.                      *)
LEMMA LoopStep == ASSUME Inv, Loop PROVE Inv'
<1> USE DEF Loop, net
<1>1. first' \in [seen : BOOLEAN, time : Nat]
  BY DEF Inv, Typed, Server
<1>2. Typed'
  BY <1>1 DEF Inv, Typed, Playing
<1> QED BY <1>2, OrderStep

-----------------------------------------------------------------------------
(* What the connections are once all are closed.                           *)
LEMMA ClosedFields ==
  ASSUME Typed, NEW stale \in BOOLEAN
  PROVE  /\ Closed(stale) \in [Conns -> Connection]
         /\ \A c \in Conns : Closed(stale)[c].fdid = conn[c].fdid
         /\ \A c \in Playing : /\ Closed(stale)[c].use
                               /\ Closed(stale)[c].state = "WHILECLOSEALLSOCKETSSAVE"
                               /\ Closed(stale)[c].char = stale
         /\ \A c \in Conns \ Playing :
              /\ Closed(stale)[c].state = conn[c].state
              /\ Closed(stale)[c].use = (stale /\ conn[c].use)
              /\ Closed(stale)[c].char = (conn[c].char /\ (stale \/ ~conn[c].use))
<1> DEFINE ended(c) == IF stale \/ ~conn[c].use THEN conn[c]
                       ELSE [conn[c] EXCEPT !.use = FALSE, !.char = FALSE]
           closed(c) == IF c \in Playing
                        THEN [ended(c) EXCEPT !.use = TRUE,
                                              !.state = "WHILECLOSEALLSOCKETSSAVE"]
                        ELSE ended(c)
<1>1. Closed(stale) = [c \in Conns |-> closed(c)]
  BY DEF Closed
<1>2. ASSUME NEW c \in Conns
      PROVE  /\ ended(c) \in Connection
             /\ ended(c).fdid = conn[c].fdid /\ ended(c).state = conn[c].state
             /\ ended(c).use = (stale /\ conn[c].use)
             /\ ended(c).char = (conn[c].char /\ (stale \/ ~conn[c].use))
  <2>1. conn[c] \in Connection
    BY DEF Typed
  <2>2. CASE stale \/ ~conn[c].use
    BY <2>1, <2>2 DEF Connection
  <2>3. CASE ~(stale \/ ~conn[c].use)
    BY <2>1, <2>3 DEF Connection
  <2> QED BY <2>2, <2>3
<1> HIDE DEF ended
<1>3. ASSUME NEW c \in Playing
      PROVE  /\ closed(c) \in Connection /\ closed(c).fdid = conn[c].fdid
             /\ closed(c).use /\ closed(c).state = "WHILECLOSEALLSOCKETSSAVE"
             /\ closed(c).char = stale
  <2>1. conn[c].use /\ conn[c].char /\ c \in Conns
    BY DEF Typed, Playing
  <2> QED BY <1>2, <2>1 DEF Connection, States
<1>4. ASSUME NEW c \in Conns \ Playing PROVE closed(c) = ended(c)
  OBVIOUS
<1> HIDE DEF closed
<1>5. Playing \subseteq Conns
  BY DEF Playing
<1> QED BY <1>1, <1>2, <1>3, <1>4, <1>5

(* An injection of as many numbers as there are players reaches all.       *)
LEMMA OrderReachesAll ==
  ASSUME NEW order \in [1 .. Cardinality(Playing) -> Playing],
         \A i, j \in DOMAIN order : order[i] = order[j] => i = j
  PROVE  \A c \in Playing : \E i \in 1 .. Cardinality(Playing) : order[i] = c
<1> DEFINE n == Cardinality(Playing)
<1>1. IsFiniteSet(Playing) /\ n \in Nat
  BY AwaitedFinite DEF Playing
<1>2. Cardinality(1 .. n) = n
  BY <1>1, FS_Interval
<1> HIDE DEF n
<1>3. order \in Injection(1 .. n, Playing)
  BY DEF Injection, IsInjective, n
<1>4. order \in Surjection(1 .. n, Playing)
  BY <1>1, <1>2, <1>3, FS_Injection DEF n
<1> QED BY <1>4 DEF Surjection, n

(* A function on 1 .. n is a sequence.                                     *)
LEMMA FunctionIsSeq ==
  ASSUME NEW S, NEW n \in Nat, NEW f \in [1 .. n -> S]
  PROVE  f \in Seq(S) /\ Len(f) = n /\ DOMAIN f = 1 .. n
<1>1. f \in Seq(S)
  BY SeqDef
<1>2. DOMAIN f = 1 .. Len(f) /\ Len(f) \in Nat
  BY <1>1, LenProperties
<1>3. DOMAIN f = 1 .. n
  OBVIOUS
<1> QED BY <1>1, <1>2, <1>3

(* What stands in s \o t, before and behind the end of s.                  *)
LEMMA ConcatParts ==
  ASSUME NEW S, NEW s \in Seq(S), NEW t \in Seq(S)
  PROVE  /\ s \o t \in Seq(S)
         /\ Len(s) \in Nat /\ Len(t) \in Nat /\ Len(s \o t) = Len(s) + Len(t)
         /\ \A i \in 1 .. Len(s) : (s \o t)[i] = s[i]
         /\ \A i \in Len(s) + 1 .. Len(s) + Len(t) :
              i - Len(s) \in 1 .. Len(t) /\ (s \o t)[i] = t[i - Len(s)]
         /\ \A i \in 1 .. Len(t) : /\ Len(s) + i \in Len(s) + 1 .. Len(s) + Len(t)
                                   /\ (s \o t)[Len(s) + i] = t[i]
<1>1. Len(s) \in Nat /\ Len(t) \in Nat
  BY LenProperties
<1> DEFINE m == Len(s)
           n == Len(t)
           st == s \o t
<1>2. /\ st \in Seq(S) /\ Len(st) = m + n
      /\ \A i \in 1 .. m + n : st[i] = IF i <= m THEN s[i] ELSE t[i - m]
  BY ConcatProperties
<1> HIDE DEF m, n, st
<1>3. m \in Nat /\ n \in Nat
  BY <1>1 DEF m, n
<1>4. \A i \in 1 .. m : st[i] = s[i]
  BY <1>2, <1>3
<1>5. \A i \in m + 1 .. m + n : i - m \in 1 .. n /\ st[i] = t[i - m]
  BY <1>2, <1>3
<1>6. \A i \in 1 .. n : m + i \in m + 1 .. m + n /\ st[m + i] = t[i]
  <2> TAKE i \in 1 .. n
  <2>1. m + i \in m + 1 .. m + n /\ m + i \in 1 .. m + n /\ ~(m + i <= m) /\ (m + i) - m = i
    BY <1>3
  <2> QED BY <2>1, <1>2
<1> QED BY <1>2, <1>3, <1>4, <1>5, <1>6 DEF m, n, st

(* Every player's last save is behind all that was sent before.            *)
Sent(order) == tosaac \o [i \in DOMAIN order |-> Save(order[i], TRUE)]

LEMMA SavesSent ==
  ASSUME Typed,
         NEW order \in [1 .. Cardinality(Playing) -> Playing],
         \A i, j \in DOMAIN order : order[i] = order[j] => i = j
  PROVE  /\ Sent(order) \in Seq(Saves)
         /\ Len(tosaac) \in Nat /\ Len(Sent(order)) \in Nat /\ Len(Sent(order)) >= Len(tosaac)
         /\ \A i \in 1 .. Len(tosaac) : Sent(order)[i] = tosaac[i]
         /\ \A i \in Len(tosaac) + 1 .. Len(Sent(order)) :
              \E c \in Playing : Sent(order)[i] = Last(c)
         /\ \A c \in Playing :
              \E i \in Len(tosaac) + 1 .. Len(Sent(order)) : Sent(order)[i] = Last(c)
<1> DEFINE n == Cardinality(Playing)
           new == [i \in 1 .. n |-> Save(order[i], TRUE)]
<1>1. n \in Nat
  BY AwaitedFinite DEF Playing
<1>2. DOMAIN order = 1 .. n
  OBVIOUS
<1>3. \A i \in 1 .. n : order[i] \in Playing /\ new[i] = Last(order[i])
  BY DEF Save, Last
<1>4. \A c \in Playing : Last(c) \in Saves
  <2> TAKE c \in Playing
  <2>1. c \in Conns /\ conn[c].use
    BY DEF Playing
  <2>2. Save(c, TRUE) \in Saves
    BY <2>1, SaveType
  <2> QED BY <2>2 DEF Save, Last
<1>5. \A c \in Playing : \E i \in 1 .. n : order[i] = c
  BY OrderReachesAll
<1>6. Sent(order) = tosaac \o new
  BY <1>2 DEF Sent
<1>7. new \in [1 .. n -> Saves]
  <2>1. \A i \in 1 .. n : new[i] \in Saves
    BY <1>3, <1>4
  <2> QED BY <2>1
<1> HIDE DEF n, new
<1>8. new \in Seq(Saves) /\ Len(new) = n
  BY <1>1, <1>7, FunctionIsSeq
<1>9. tosaac \in Seq(Saves)
  BY DEF Typed
<1> DEFINE m == Len(tosaac)
           both == tosaac \o new
<1>10. /\ both \in Seq(Saves) /\ m \in Nat /\ Len(both) = m + n
       /\ \A i \in 1 .. m : both[i] = tosaac[i]
       /\ \A i \in m + 1 .. m + n : i - m \in 1 .. n /\ both[i] = new[i - m]
       /\ \A i \in 1 .. n : m + i \in m + 1 .. m + n /\ both[m + i] = new[i]
  <2>1. both \in Seq(Saves)
    BY <1>8, <1>9, ConcatProperties
  <2>6. Len(both) = m + Len(new)
    <3>1. \A s, t \in Seq(Saves) : Len(s \o t) = Len(s) + Len(t)
      BY ConcatProperties
    <3>2. Len(tosaac \o new) = Len(tosaac) + Len(new)
      BY ONLY <1>8, <1>9, <3>1, Zenon
    <3> QED BY <3>2
  <2>2. m \in Nat /\ Len(new) \in Nat
    BY <1>8, <1>9, LenProperties
  <2>3. \A i \in 1 .. m : both[i] = tosaac[i]
    BY <1>8, <1>9, ConcatParts
  <2>4. \A i \in m + 1 .. m + Len(new) :
          i - m \in 1 .. Len(new) /\ both[i] = new[i - m]
    BY <1>8, <1>9, ConcatParts
  <2>5. \A i \in 1 .. Len(new) : /\ m + i \in m + 1 .. m + Len(new)
                                /\ both[m + i] = new[i]
    BY <1>8, <1>9, ConcatParts
  <2> HIDE DEF m, both
  <2> QED BY <1>8, <2>1, <2>2, <2>3, <2>4, <2>5, <2>6
<1>a. Sent(order) = both
  BY <1>6
<1> HIDE DEF m, both
<1>11. \A i \in m + 1 .. m + n : \E c \in Playing : Sent(order)[i] = Last(c)
  <2> TAKE i \in m + 1 .. m + n
  <2>1. i - m \in 1 .. n /\ Sent(order)[i] = new[i - m]
    BY <1>10, <1>a
  <2>2. order[i - m] \in Playing /\ new[i - m] = Last(order[i - m])
    BY <1>3, <2>1
  <2> QED BY <2>1, <2>2
<1>12. \A c \in Playing : \E i \in m + 1 .. m + n : Sent(order)[i] = Last(c)
  <2> TAKE c \in Playing
  <2>1. PICK i \in 1 .. n : order[i] = c
    BY <1>5
  <2>2. m + i \in m + 1 .. m + n /\ Sent(order)[m + i] = Last(c)
    BY <1>3, <1>10, <1>a, <2>1
  <2> QED BY <2>2
<1>13. m + n \in Nat /\ m + n >= m
  BY <1>1, <1>10
<1> QED BY <1>10, <1>a, <1>11, <1>12, <1>13 DEF m

(* The connections are closed: no awaited one is left from before, unless  *)
(* errno is stale; and then none is awaited whose character was saved.     *)
LEMMA CloseAllStep ==
  ASSUME Inv, ~exited, NEW s \in Server, NEW stale \in BOOLEAN, CloseAll(s, stale),
         stale => errno, errno' = stale, Typed', UNCHANGED <<early, exited>>
  PROVE  Inv'
<1>1. /\ conn' = Closed(stale) /\ serv' = Counted(s)
      /\ skipped' = (skipped \/ stale)
  BY DEF CloseAll
<1>2. /\ serv'.closeallsocketnum = Cardinality(Playing)
      /\ serv'.acceptmore <= 0
  BY <1>1 DEF Counted, Server
<1>3. Playing \subseteq Conns
  BY DEF Playing
<1>4. /\ IsFiniteSet(Playing) /\ Cardinality(Playing) \in Nat
      /\ IsFiniteSet(Awaited(conn')) /\ Playing \subseteq Awaited(conn')
  BY <1>1, <1>3, ClosedFields, AwaitedFinite DEF Inv, Awaited
<1>5. CountBound'
  <2>1. Cardinality(Playing) <= Cardinality(Awaited(conn'))
    BY <1>4, FS_Subset
  <2> QED BY <1>2, <2>1 DEF CountBound, Closing
<1>6. NoSaveLost'
  BY DEF NoSaveLost
<1>7. CASE stale
  <2>1. \A c \in Awaited(conn) : conn[c].char
    BY <1>7 DEF Inv, ShutOK
  <2>2. \A c \in Awaited(conn') : conn'[c].char
    BY <1>1, <1>3, <1>7, <2>1, ClosedFields, ZenonT(30) DEF Inv, Awaited
  <2> QED BY <1>1, <1>5, <1>6, <1>7, <2>2 DEF Inv, ShutOK, ClosedOK, OldFirst
<1>8. CASE ~stale
  <2>1. \A c \in Conns : conn'[c].use <=> c \in Playing
    BY <1>1, <1>3, <1>8, ClosedFields DEF Inv
  <2>2. \A c \in Playing : ~conn'[c].char /\ conn'[c].fdid = conn[c].fdid
    BY <1>1, <1>3, <1>8, ClosedFields DEF Inv
  <2>3. Awaited(conn') = Playing /\ Shut'
    BY <1>4, <2>1, <2>2 DEF Awaited, Shut
  <2>4. ShutOK' /\ ClosedOK'
    BY <1>2, <1>4, <1>8, <2>3 DEF ShutOK, ClosedOK, Closing
  <2>5. PICK order \in [1 .. Cardinality(Playing) -> Playing] :
          /\ \A i, j \in DOMAIN order : order[i] = order[j] => i = j
          /\ tosaac' = Sent(order)
    BY <1>8 DEF CloseAll, Sent
  <2> DEFINE sent == Sent(order)
             m == Len(tosaac)
             n == Len(sent)
  <2>6. /\ m \in Nat /\ n \in Nat /\ n >= m
        /\ \A i \in m + 1 .. n : \E c \in Playing : sent[i] = Last(c)
        /\ \A c \in Playing : \E i \in m + 1 .. n : sent[i] = Last(c)
    BY <2>5, SavesSent DEF Inv
  <2>a. tosaac' = sent
    BY <2>5
  <2> HIDE DEF sent
  <2>7. \A c \in Playing : Last(c)' = Last(c)
    BY <1>3, <2>2 DEF Last
  <2>8. OldFirst'
    <3> SUFFICES ASSUME NEW i \in 1 .. n,
                        \A c \in Playing : sent[i] # Last(c), NEW c \in Playing
                 PROVE  \E k \in i + 1 .. n : sent[k] = Last(c)
      BY <2>3, <2>7, <2>a DEF OldFirst
    <3> HIDE DEF m, n
    <3>1. i <= m
      BY <2>6
    <3>2. PICK k \in m + 1 .. n : sent[k] = Last(c)
      BY <2>6
    <3> QED BY <2>6, <3>1, <3>2
  <2> QED BY <1>5, <1>6, <2>4, <2>8 DEF Inv
<1> QED BY <1>7, <1>8

(* Whoever closes the connections keeps the types: nobody plays any more,  *)
(* or, under a stale errno, nobody who was not awaited.                    *)
LEMMA CloseAllTyped ==
  ASSUME Typed, NEW s \in Server, NEW stale \in BOOLEAN, CloseAll(s, stale),
         errno' \in BOOLEAN, UNCHANGED <<first, acks, exited, orders, early>>
  PROVE  Typed'
<1>1. /\ conn' = Closed(stale) /\ serv' = Counted(s)
      /\ skipped' = (skipped \/ stale)
  BY DEF CloseAll
<1>2. conn' \in [Conns -> Connection]
  BY <1>1, ClosedFields
<1>3. \A c \in Conns : conn'[c].use => conn[c].use /\ conn'[c].fdid = conn[c].fdid
  <2> TAKE c \in Conns
  <2>1. CASE c \in Playing
    BY <1>1, <2>1, ClosedFields DEF Playing
  <2>2. CASE c \notin Playing
    BY <1>1, <2>2, ClosedFields
  <2> QED BY <2>1, <2>2
<1>4. Playing' = {}
  <2> SUFFICES ASSUME NEW c \in Conns, conn'[c].use, conn'[c].state = "LOGIN" PROVE FALSE
    BY DEF Playing
  <2>1. c \notin Playing
    BY <1>1, ClosedFields
  <2>2. conn[c].state = "LOGIN"
    BY <1>1, <2>1, ClosedFields
  <2> QED BY <1>3, <2>1, <2>2 DEF Playing
<1>5. serv' \in Server
  <2>1. Cardinality(Playing) \in Int
    BY AwaitedFinite DEF Playing
  <2> QED BY <1>1, <2>1 DEF Counted, Server
<1>6. tosaac' \in Seq(Saves)
  <2>1. CASE stale
    BY <2>1 DEF CloseAll, Typed
  <2>2. CASE ~stale
    <3>1. PICK order \in [1 .. Cardinality(Playing) -> Playing] :
            /\ \A i, j \in DOMAIN order : order[i] = order[j] => i = j
            /\ tosaac' = Sent(order)
      BY <2>2 DEF CloseAll, Sent
    <3> QED BY <3>1, SavesSent
  <2> QED BY <2>1, <2>2
<1>7. skipped' \in BOOLEAN
  BY <1>1 DEF Typed
<1> QED BY <1>2, <1>3, <1>4, <1>5, <1>6, <1>7 DEF Typed

(* A GM closes the connections.                                            *)
LEMMA GmCloseAllStep == ASSUME Inv, NEW c \in Conns, GmCloseAll(c) PROVE Inv'
<1> USE DEF GmCloseAll
<1>1. ~exited /\ errno' = FALSE /\ CloseAll(serv, FALSE) /\ serv \in Server
  BY HeardNotShut DEF Inv, Typed
<1>2. Typed'
  BY <1>1, CloseAllTyped DEF Inv
<1> QED BY <1>1, <1>2, CloseAllStep

(* The players are told what is left, or the time is up and the            *)
(* connections are closed.                                                 *)
LEMMA ShutdownProcStep == ASSUME Inv, ShutdownProc PROVE Inv'
<1> DEFINE more == IF serv.hun = 1 THEN 0 ELSE serv.acceptmore
           told == [serv EXCEPT !.dsptime = serv.hun, !.acceptmore = more]
           s == [serv EXCEPT !.shutdown = FALSE, !.dsptime = 0, !.limittime = 0]
<1>1. /\ ~exited /\ UNCHANGED <<first, errno, acks, exited, orders, early>>
      /\ errno \in BOOLEAN /\ serv \in Server
  BY DEF ShutdownProc, Inv, Typed
<1>2. ASSUME serv' = told, UNCHANGED <<conn, tosaac, skipped>> PROVE Inv'
  <2>1. /\ told \in Server /\ told.closeallsocketnum = serv.closeallsocketnum
        /\ serv.acceptmore <= 0 => told.acceptmore <= 0
    <3>1. more \in {-1, 0, 1} /\ (serv.acceptmore <= 0 => more <= 0)
      BY <1>1 DEF Server
    <3> HIDE DEF more
    <3> QED BY <1>1, <3>1 DEF Server
  <2> HIDE DEF told
  <2>2. Typed'
    BY <1>1, <1>2, <2>1 DEF Inv, Typed, Playing
  <2> QED BY <1>1, <1>2, <2>1, <2>2, OrderStep
<1>3. ASSUME CloseAll(s, errno) PROVE Inv'
  <2>1. s \in Server
    BY <1>1 DEF Server
  <2> HIDE DEF s
  <2>2. Typed'
    BY <1>1, <1>3, <2>1, CloseAllTyped DEF Inv
  <2> QED BY <1>1, <1>3, <2>1, <2>2, CloseAllStep
<1> QED BY <1>2, <1>3 DEF ShutdownProc

-----------------------------------------------------------------------------
(* SAAC stores the oldest save: those behind it keep their order.          *)
LEMMA SaacSaveStep == ASSUME Inv, SaacSave PROVE Inv'
<1> USE DEF SaacSave
<1>1. tosaac \in Seq(Saves) /\ acks \in Seq(1 .. MaxFdid) /\ tosaac # <<>>
  BY DEF Inv, Typed
<1> DEFINE m == Len(tosaac)
           rest == Tail(tosaac)
<1>2. /\ Head(tosaac) \in Saves /\ rest \in Seq(Saves) /\ Len(rest) = m - 1
      /\ \A i \in 1 .. Len(rest) : rest[i] = tosaac[i + 1]
  BY <1>1, HeadTailProperties
<1>3. m \in Nat /\ DOMAIN tosaac = 1 .. m /\ DOMAIN rest = 1 .. Len(rest)
  BY <1>1, <1>2, LenProperties
<1>4. tosaac' = rest
  OBVIOUS
<1>5. acks' \in Seq(1 .. MaxFdid)
  <2>1. Head(tosaac).fdid \in 1 .. MaxFdid
    BY <1>2 DEF Saves
  <2> HIDE DEF rest
  <2>2. Append(acks, Head(tosaac).fdid) \in Seq(1 .. MaxFdid)
    BY <1>1, <2>1, AppendProperties
  <2> QED BY <1>1, <2>2
<1> HIDE DEF rest, m
<1>6. Typed'
  BY <1>2, <1>4, <1>5 DEF Inv, Typed, Playing
<1>7. /\ Awaited(conn)' = Awaited(conn) /\ Shut' = Shut
      /\ Closing' = Closing /\ \A c : Last(c)' = Last(c)
  BY DEF Awaited, Shut, Closing, Last
<1>8. ShutOK' /\ CountBound' /\ ClosedOK'
  BY <1>7 DEF Inv, ShutOK, CountBound, ClosedOK
<1>9. OldFirst'
  <2> SUFFICES ASSUME ~skipped, early = {}, NEW i \in 1 .. Len(rest), rest[i].final,
                      \A c \in Awaited(conn) : rest[i] # Last(c),
                      NEW c \in Awaited(conn)
               PROVE  \E k \in i + 1 .. Len(rest) : rest[k] = Last(c)
    BY <1>4, <1>7 DEF OldFirst
  <2>1. i + 1 \in 1 .. m /\ rest[i] = tosaac[i + 1]
    BY <1>2, <1>3
  <2>2. PICK k \in (i + 1) + 1 .. m : tosaac[k] = Last(c)
    BY <2>1 DEF Inv, OldFirst, m
  <2>3. k - 1 \in i + 1 .. Len(rest) /\ (k - 1) + 1 = k /\ k - 1 \in 1 .. Len(rest)
    BY <1>2, <1>3, <2>2
  <2>4. rest[k - 1] = Last(c)
    BY <1>2, <2>2, <2>3
  <2> QED BY <2>3, <2>4
<1>10. NoSaveLost'
  <2> SUFFICES ASSUME exited, early = {}, ~skipped, NEW i \in 1 .. Len(rest)
               PROVE  ~rest[i].final
    BY <1>3, <1>4 DEF NoSaveLost
  <2>1. i + 1 \in 1 .. m /\ rest[i] = tosaac[i + 1]
    BY <1>2, <1>3
  <2> QED BY <1>3, <2>1 DEF Inv, NoSaveLost
<1> QED BY <1>6, <1>8, <1>9, <1>10 DEF Inv

(* What the release of an awaited connection leaves as it was.             *)
LEMMA FreedFields ==
  ASSUME Typed, NEW c \in Awaited(conn), conn' = Freed(c)
  PROVE  /\ conn' \in [Conns -> Connection]
         /\ ~conn'[c].use
         /\ \A d \in Conns \ {c} : conn'[d] = conn[d]
         /\ Awaited(conn)' = Awaited(conn) \ {c}
         /\ Cardinality(Awaited(conn)') = Cardinality(Awaited(conn)) - 1
<1>1. conn \in [Conns -> Connection] /\ c \in Conns
  BY DEF Typed, Awaited
<1> DEFINE new == [conn[c] EXCEPT !.state = "NOTLOGIN", !.use = FALSE]
<1>2. conn' = [conn EXCEPT ![c] = new]
  BY <1>1 DEF Freed, Connection
<1>3. new \in Connection /\ ~new.use
  BY <1>1 DEF Connection, States
<1> HIDE DEF new
<1>4. /\ conn' \in [Conns -> Connection]
      /\ conn'[c] = new /\ \A d \in Conns \ {c} : conn'[d] = conn[d]
  BY <1>1, <1>2, <1>3
<1>5. Awaited(conn)' = Awaited(conn) \ {c}
  BY <1>3, <1>4 DEF Awaited
<1>6. IsFiniteSet(Awaited(conn))
  BY AwaitedFinite DEF Awaited
<1>7. Cardinality(Awaited(conn) \ {c}) = Cardinality(Awaited(conn)) - 1
  BY <1>6, FS_RemoveElement
<1> QED BY <1>3, <1>4, <1>5, <1>7

(* What may be left of the saves under way: all, or a beginning.           *)
LEMMA SavesKept ==
  ASSUME Typed, NEW k \in 0 .. Len(tosaac), tosaac' = SubSeq(tosaac, 1, k)
  PROVE  /\ tosaac' \in Seq(Saves) /\ Len(tosaac') = k
         /\ \A i \in 1 .. k : tosaac'[i] = tosaac[i]
<1> DEFINE m == Len(tosaac)
           kept == SubSeq(tosaac, 1, k)
<1>1. m \in Nat /\ \A i \in 1 .. m : tosaac[i] \in Saves
  BY LenProperties DEF Typed
<1>2. k \in Nat /\ k <= m
  BY <1>1
<1>3. \A i \in 1 .. k : tosaac[i] \in Saves
  BY <1>1, <1>2
<1> HIDE DEF m
<1>4. /\ kept \in Seq(Saves)
      /\ Len(kept) = IF 1 <= k THEN k - 1 + 1 ELSE 0
      /\ \A i \in 1 .. k - 1 + 1 : kept[i] = tosaac[1 + i - 1]
  BY <1>2, <1>3, SubSeqProperties
<1> HIDE DEF kept
<1>5. Len(kept) = k
  BY <1>2, <1>4
<1>6. \A i \in 1 .. k : i \in 1 .. k - 1 + 1 /\ 1 + i - 1 = i
  BY <1>2
<1>7. \A i \in 1 .. k : kept[i] = tosaac[i]
  BY <1>4, <1>6
<1> QED BY <1>4, <1>5, <1>7 DEF kept

(* An awaited connection is released.  When it is the last one counted,    *)
(* and all are counted, none is awaited any more, and no last save is      *)
(* under way: one of the connection itself would have been noted in early, *)
(* an older one would have it behind.                                      *)
LEMMA ReleasedStep ==
  ASSUME Inv, ~exited, NEW c \in Awaited(conn), Released(c),
         conn[c].fdid \in 1 .. MaxFdid, errno' = FALSE,
         acks' \in Seq(1 .. MaxFdid), UNCHANGED <<first, orders, skipped>>
  PROVE  Inv'
<1> DEFINE n == serv.closeallsocketnum - 1
           A == Awaited(conn)
           more == IF IsLast(n) THEN -1 ELSE serv.acceptmore
<1>1. /\ conn' = Freed(c)
      /\ serv' = [serv EXCEPT !.closeallsocketnum = n, !.acceptmore = more]
      /\ serv \in Server /\ n \in Int /\ serv.closeallsocketnum = n + 1
  BY DEF Released, Inv, Typed, Server
<1>2. /\ conn' \in [Conns -> Connection] /\ c \in Conns
      /\ ~conn'[c].use /\ \A d \in Conns \ {c} : conn'[d] = conn[d]
      /\ Awaited(conn)' = A \ {c} /\ Cardinality(Awaited(conn)') = Cardinality(A) - 1
  BY <1>1, FreedFields DEF Inv, Awaited
<1>3. /\ more \in {-1, 0, 1} /\ (serv.acceptmore <= 0 => more <= 0)
  BY <1>1 DEF Server
<1>4. /\ Cardinality(A) \in Nat /\ Cardinality(Awaited(conn)') \in Nat
      /\ Cardinality(Awaited(conn)') = 0 <=> Awaited(conn)' = {}
  BY <1>2, AwaitedFinite DEF Awaited
<1> HIDE DEF n, more, A
<1>5. /\ serv' \in Server
      /\ serv'.closeallsocketnum = n /\ serv'.acceptmore = more
  BY <1>1, <1>3 DEF Server
<1>6. /\ early' \in SUBSET (1 .. MaxFdid) /\ early \subseteq early'
      /\ early' = {} => \A i \in DOMAIN tosaac : tosaac[i] # Last(c)
  BY DEF Released, Inv, Typed, Save, Last
<1>7. \/ n = 0 /\ Exit
      \/ UNCHANGED <<tosaac, exited>>
  BY DEF Released, IsLast, n
<1>8. DOMAIN tosaac = 1 .. Len(tosaac) /\ Len(tosaac) \in Nat /\ tosaac \in Seq(Saves)
  BY LenProperties DEF Inv, Typed
<1>9. /\ tosaac' \in Seq(Saves) /\ exited' \in BOOLEAN
      /\ Len(tosaac') \in Nat /\ Len(tosaac') <= Len(tosaac)
      /\ \A i \in 1 .. Len(tosaac') : tosaac'[i] = tosaac[i]
  <2>1. CASE Exit
    <3>1. PICK k \in 0 .. Len(tosaac) : tosaac' = SubSeq(tosaac, 1, k)
      BY <2>1 DEF Exit
    <3>2. /\ tosaac' \in Seq(Saves) /\ Len(tosaac') = k
          /\ \A i \in 1 .. k : tosaac'[i] = tosaac[i]
      BY <3>1, SavesKept DEF Inv
    <3>3. k \in Nat /\ k <= Len(tosaac)
      BY <1>8
    <3> QED BY <2>1, <3>2, <3>3 DEF Exit
  <2>2. CASE UNCHANGED <<tosaac, exited>>
    BY <1>8, <2>2 DEF Inv, Typed
  <2> QED BY <1>7, <2>1, <2>2
<1>10. Typed'
  <2>1. \A d \in Playing' : d \in Playing /\ conn'[d] = conn[d]
    BY <1>2 DEF Playing
  <2>2. \A d \in Conns : conn'[d].use => conn'[d].fdid # 0
    BY <1>2 DEF Inv, Typed
  <2> QED BY <1>2, <1>5, <1>6, <1>9, <2>1, <2>2 DEF Inv, Typed
<1>11. ASSUME Shut PROVE Shut'
  BY <1>2, <1>11 DEF Shut, A
<1>12. ShutOK'
  <2> SUFFICES ASSUME NEW d \in Awaited(conn)', ~conn'[d].char
               PROVE  Shut' /\ serv'.acceptmore <= 0 /\ ~errno'
    BY DEF ShutOK
  <2>1. d \in Awaited(conn) /\ ~conn[d].char
    BY <1>2 DEF A, Awaited
  <2>2. Shut /\ serv.acceptmore <= 0
    BY <2>1 DEF Inv, ShutOK
  <2> QED BY <1>3, <1>5, <1>11, <2>2
<1>13. CountBound'
  <2> SUFFICES ASSUME n >= 0 PROVE n <= Cardinality(Awaited(conn)')
    BY <1>5 DEF CountBound, Closing
  <2>1. n + 1 <= Cardinality(A)
    BY <1>1 DEF Inv, CountBound, Closing, A
  <2> QED BY <1>1, <1>2, <1>4, <2>1
<1>14. ASSUME ~skipped
       PROVE  /\ Shut /\ serv.acceptmore <= 0 /\ n >= 0
              /\ n = Cardinality(Awaited(conn)')
  <2>1. Closing /\ Shut /\ serv.acceptmore <= 0 /\ n + 1 = Cardinality(A)
    BY <1>1, <1>14 DEF Inv, ClosedOK, A
  <2> QED BY <1>1, <1>2, <1>4, <2>1
<1>15. ClosedOK'
  BY <1>3, <1>5, <1>11, <1>14 DEF ClosedOK, Closing
<1>16. \A d \in Awaited(conn)' : Last(d)' = Last(d) /\ d \in A /\ d # c
  BY <1>2 DEF Last, A, Awaited
<1>17. ASSUME ~skipped, early' = {}, NEW i \in 1 .. Len(tosaac), tosaac[i].final,
              \A d \in Awaited(conn)' : tosaac[i] # Last(d)
       PROVE  \A d \in A : \E k \in i + 1 .. Len(tosaac) : tosaac[k] = Last(d)
  <2>1. \A d \in A : tosaac[i] # Last(d)
    BY <1>2, <1>6, <1>8, <1>17
  <2> QED BY <1>6, <1>17, <2>1 DEF Inv, OldFirst, A
<1>18. OldFirst'
  <2>1. CASE n = 0
    <3>1. ~skipped => Awaited(conn)' = {}
      BY <1>4, <1>14, <2>1
    <3> QED BY <3>1 DEF OldFirst
  <2>2. CASE UNCHANGED <<tosaac, exited>>
    BY <1>16, <1>17, <2>2 DEF OldFirst
  <2> QED BY <1>7, <2>1, <2>2
<1>19. NoSaveLost'
  <2> SUFFICES ASSUME exited', early' = {}, ~skipped,
                      NEW i \in 1 .. Len(tosaac'), tosaac'[i].final
               PROVE  FALSE
    BY <1>9, LenProperties DEF NoSaveLost
  <2>1. n = 0 /\ Awaited(conn)' = {}
    BY <1>4, <1>7, <1>14
  <2>2. i \in 1 .. Len(tosaac) /\ tosaac[i].final
    BY <1>8, <1>9
  <2>3. PICK k \in i + 1 .. Len(tosaac) : tosaac[k] = Last(c)
    BY <1>17, <2>1, <2>2 DEF A
  <2>4. k \in DOMAIN tosaac
    BY <1>8, <2>2
  <2> QED BY <1>6, <2>3, <2>4
<1> QED BY <1>10, <1>12, <1>13, <1>15, <1>18, <1>19 DEF Inv

(* An acknowledgement arrives.                                             *)
LEMMA ACCharSaveStep == ASSUME Inv, ACCharSave_recv PROVE Inv'
<1> DEFINE mine == {c \in Awaited(conn) : conn[c].fdid = Head(acks)}
<1>1. /\ ~exited /\ acks # <<>> /\ acks' = Tail(acks) /\ errno' = FALSE
      /\ UNCHANGED <<first, orders, skipped>>
      /\ \/ mine = {} /\ UNCHANGED <<conn, serv, tosaac, exited, early>>
         \/ \E c \in mine : Released(c)
  BY DEF ACCharSave_recv
<1>2. Head(acks) \in 1 .. MaxFdid /\ acks' \in Seq(1 .. MaxFdid)
  BY <1>1, HeadTailProperties DEF Inv, Typed
<1>3. ASSUME UNCHANGED <<conn, serv, tosaac, exited, early>> PROVE Inv'
  <2>1. Typed'
    BY <1>1, <1>2, <1>3 DEF Inv, Typed, Playing
  <2> QED BY <1>1, <1>3, <2>1, OrderStep
<1>4. ASSUME NEW c \in mine, Released(c) PROVE Inv'
  BY <1>1, <1>2, <1>4, ReleasedStep
<1> QED BY <1>1, <1>3, <1>4
-----------------------------------------------------------------------------
(* Before anything happens nobody is connected and nothing is under way.   *)
LEMMA InitInv == ASSUME Init PROVE Inv
<1> USE DEF Init
<1>1. Typed
  <2>1. Unused \in Connection /\ ~Unused.use
    BY ShutdownAssumption DEF Unused, Connection, States, ShutdownAssumption
  <2>2. conn \in [Conns -> Connection] /\ \A c \in Conns : ~conn[c].use
    BY <2>1
  <2>3. serv \in Server
    BY ShutdownAssumption DEF Server, ShutdownAssumption
  <2>4. /\ tosaac \in Seq(Saves) /\ acks \in Seq(1 .. MaxFdid)
        /\ orders \in 0 .. MaxOrders
    BY ShutdownAssumption DEF ShutdownAssumption
  <2> QED BY <2>2, <2>3, <2>4 DEF Typed, Playing
<1>2. Awaited(conn) = {}
  BY DEF Awaited, Unused
<1>3. serv.closeallsocketnum = -1 /\ Len(tosaac) = 0
  OBVIOUS
<1> QED BY <1>1, <1>2, <1>3
        DEF Inv, ShutOK, CountBound, Closing, ClosedOK, OldFirst, NoSaveLost

(* Inv is inductive: it holds in every state.                              *)
THEOREM ShutdownInv == Spec => []Inv
<1>1. Init => Inv
  BY InitInv
<1>2. Inv /\ [Next]_vars => Inv'
  <2> SUFFICES ASSUME Inv, [Next]_vars PROVE Inv'
    OBVIOUS
  <2>1. ASSUME NEW c \in Conns, Accept(c) PROVE Inv'
    BY <2>1, AcceptStep
  <2>2. ASSUME NEW c \in Conns, Login(c) PROVE Inv'
    BY <2>2, LoginStep
  <2>3. ASSUME NEW c \in Conns, EndOne(c) PROVE Inv'
    BY <2>3, EndOneStep
  <2>4. ASSUME NEW c \in Conns, Reset(c) PROVE Inv'
    BY <2>4, ResetStep
  <2>5. ASSUME NEW c \in Conns, Chardatasavecheck(c) PROVE Inv'
    BY <2>5, ChardatasavecheckStep
  <2>6. ASSUME NEW c \in Conns, NEW more \in {0, 1}, GmAccept(c, more) PROVE Inv'
    BY <2>6, GmAcceptStep
  <2>7. ASSUME NEW c \in Conns, GmCloseAll(c) PROVE Inv'
    BY <2>7, GmCloseAllStep
  <2>8. ASSUME NEW min \in Minutes, DownRequest(min) PROVE Inv'
    BY <2>8, DownRequestStep
  <2>9. CASE UNCHANGED vars
    BY <2>9, SMTT(30) DEF vars, net, Inv, Typed, Playing, ShutOK, Shut, Awaited, CountBound,
                Closing, ClosedOK, OldFirst, Last, NoSaveLost
  <2> QED BY <2>1, <2>2, <2>3, <2>4, <2>5, <2>6, <2>7, <2>8, <2>9, MinuteStep,
             ShutdownProcStep, LoopStep, SaacSaveStep, ACCharSaveStep DEF Next
<1> QED BY <1>1, <1>2, PTL DEF Spec

(* Every variable of the server's shutdown keeps its type, whatever the    *)
(* clients, the GMs and SAAC do, and however often a shutdown is ordered.  *)
THEOREM ShutdownTypeOK == Spec => []TypeOK
<1>1. Inv => TypeOK
  <2> SUFFICES ASSUME Inv PROVE TypeOK
    OBVIOUS
  <2>1. /\ serv.closeallsocketnum \in Int
        /\ serv.closeallsocketnum <= Cardinality(Conns)
    <3>1. /\ Cardinality(Awaited(conn)) \in Nat
          /\ Cardinality(Awaited(conn)) <= Cardinality(Conns)
          /\ Cardinality(Conns) \in Nat
      BY AwaitedFinite DEF Awaited
    <3> QED BY <3>1 DEF Inv, Typed, Server, CountBound, Closing
  <2>2. skipped \/ serv.closeallsocketnum >= -1
    BY <2>1 DEF Inv, ClosedOK, Closing
  <2> QED BY <2>1, <2>2 DEF Inv, Typed, TypeOK, Connection, Server
<1> QED BY <1>1, ShutdownInv, PTL

(* The wait for the saves ends when nobody is awaited any more and not     *)
(* before: the count is the number of the awaited connections, or less     *)
(* when a stale errno kept some open that a later closing did not count.   *)
THEOREM ShutdownCountIsAwaited == Spec => []CountIsAwaited
<1>1. Inv => CountIsAwaited
  BY DEF Inv, CountBound, ClosedOK, Closing, CountIsAwaited
<1> QED BY <1>1, ShutdownInv, PTL

(* Nobody comes back into a server whose connections were closed.          *)
THEOREM ShutdownNobodyComesBack == Spec => []NobodyComesBack
<1>1. Inv => NobodyComesBack
  <2> SUFFICES ASSUME Inv, Closing, ~skipped
               PROVE  serv.acceptmore <= 0 /\ {c \in Conns : conn[c].use} = Awaited(conn)
    BY DEF NobodyComesBack
  <2>1. Shut /\ serv.acceptmore <= 0
    BY DEF Inv, ClosedOK, Closing
  <2> QED BY <2>1 DEF Shut, Awaited
<1> QED BY <1>1, ShutdownInv, PTL

(* When the process ends no last save is among those SAAC has not yet      *)
(* processed, if no periodic save passed for a last one and no errno was   *)
(* stale (saac_client_recv.c 143-160).                                     *)
THEOREM ShutdownNoSaveLost == Spec => []NoSaveLost
<1>1. Inv => NoSaveLost
  BY DEF Inv
<1> QED BY <1>1, ShutdownInv, PTL
=============================================================================
