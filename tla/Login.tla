------------------------------- MODULE Login -------------------------------
(***************************************************************************)
(* Account login across game servers (gmsv) and the account server (saac). *)
(*                                                                         *)
(* A client connection walks NULLCONNECT -> WHILEAUTH -> NOTLOGIN ->       *)
(* WHILEDOWNLOADCHARLIST -> NOTLOGIN -> WHILELOGIN -> LOGIN; every WHILE   *)
(* state waits for SAAC's answer to one request.  Each game server has one *)
(* TCP connection to SAAC: requests and answers are FIFO queues.  Both     *)
(* programs are single-threaded loops that handle one line at a time, so   *)
(* a handler is one action.  SAAC keeps one lock per account (LockMap) and *)
(* the character files; a character's data is the set of edits it holds.   *)
(***************************************************************************)
EXTENDS LockMap, Naturals, Sequences, FiniteSets, FiniteSetsExt

CONSTANTS
  Fds,        \* client connection slots of one game server
  NoKey,      \* the cdkey of a connection that has not sent one
  Polite,     \* TRUE: every account is used from one device (see below)
  MaxFdid,    \* connections one game server process accepts (bound)
  MaxEdits,   \* changes made to characters (bound)
  MaxCrash,   \* crashes of game servers and of SAAC (bound)
  MaxLine     \* lines under way, in all queues, while clients act (bound)

ASSUME LoginAssumption ==
  /\ NoKey \notin Cdkeys
  /\ Polite \in BOOLEAN
  /\ MaxFdid \in Nat /\ MaxEdits \in Nat /\ MaxCrash \in Nat
  /\ MaxLine \in Nat

VARIABLES
  registered,  \* SAAC: gs[], the servers whose login was accepted
  file,        \* SAAC: file[k], the character saved for account k
  up,          \* up[s]: the process of game server s runs
  conn,        \* conn[s][f]: Connect[], the client connections of s
  nextFdid,    \* nextFdid[s]: servstate.fdid
  client,      \* client[s][f]: what the program at the other end does
  toSaac,      \* toSaac[s]: lines from s not yet handled by SAAC
  toGs,        \* toGs[s]: lines from SAAC not yet handled by s
  edits,       \* number of changes made so far
  crashes      \* number of crashes so far

saacVars == <<registered, lock, file>>
gsVars == <<up, conn, nextFdid>>
netVars == <<toSaac, toGs>>
boundVars == <<edits, crashes>>
vars == <<saacVars, gsVars, client, netVars, boundVars>>

-----------------------------------------------------------------------------
Waiting == [WHILEAUTH             |-> "CharLogin",
            WHILEDOWNLOADCHARLIST |-> "CharList",
            WHILELOGIN            |-> "CharLoad",
            WHILECANNOTLOGIN      |-> "Lock"]

State == DOMAIN Waiting \union {"NULLCONNECT", "NOTLOGIN", "LOGIN"}

Data == SUBSET (1 .. MaxEdits)

(* A connection; a slot that is not in use is never looked at.             *)
Connection ==
  [use : BOOLEAN, state : State, cdkey : Cdkeys \union {NoKey},
   fdid : 0 .. MaxFdid, char : Data, close_request : BOOLEAN]

NoConn == [use |-> FALSE, state |-> "NULLCONNECT", cdkey |-> NoKey,
           fdid |-> 0, char |-> {}, close_request |-> FALSE]

Fdid == 1 .. MaxFdid

Request ==
  [type : {"CharLogin", "CharList", "CharLoad", "Lock"}, cdkey : Cdkeys, fdid : Fdid]
    \union [type : {"CharSave"}, cdkey : Cdkeys, data : Data, unlock : BOOLEAN]
    \union [type : {"UCheck"}, cdkey : Cdkeys, status : {0, 1}]
    \union [type : {"ServerLogin", "Eof"}]

Reply ==
  [type : {"CharLogin", "CharList", "Lock"}, fdid : Fdid, ok : BOOLEAN]
    \union [type : {"CharLoad"}, fdid : Fdid, ok : BOOLEAN, data : Data]
    \union [type : {"UCheck", "Kick"}, cdkey : Cdkeys]

LoggedIn(s, f) == conn[s][f].use /\ conn[s][f].state = "LOGIN"

-----------------------------------------------------------------------------
(* What is put on the wires.                                               *)
Ask(type, s, f) == [type |-> type, cdkey |-> conn[s][f].cdkey, fdid |-> conn[s][f].fdid]
Answer(m, ok) == [type |-> m.type, fdid |-> m.fdid, ok |-> ok]
Loaded(m, ok) == [type |-> m.type, fdid |-> m.fdid, ok |-> ok,
                  data |-> IF ok THEN file[m.cdkey] ELSE {}]
Kick(k) == [type |-> "Kick", cdkey |-> k]

(* Variant: every save gives the lock back, the periodic one too.          *)
Save_unlocks(s, f, unlock) ==
  [type |-> "CharSave", cdkey |-> conn[s][f].cdkey, data |-> conn[s][f].char,
   unlock |-> TRUE]

(* CHAR_charSaveFromConnect.                                               *)
Save(s, f, unlock) ==
  [type |-> "CharSave", cdkey |-> conn[s][f].cdkey, data |-> conn[s][f].char,
   unlock |-> unlock]

(* Lines for a process that is gone are lost.                              *)
Put(q, S, m) == [s \in Servers |-> IF s \in S /\ up[s] THEN Append(q[s], m) ELSE q[s]]

(* Variant: every connection that ends is saved, with a character or not.  *)
EndOneSends_always(s, f) == <<Save(s, f, TRUE)>>

(* _CONNECT_endOne: a logged-in character is logged out, which saves it    *)
(* and gives the lock back; the slot is free.                              *)
EndOneSends(s, f) == IF LoggedIn(s, f) THEN <<Save(s, f, TRUE)>> ELSE <<>>

-----------------------------------------------------------------------------
Init ==
  /\ LockInit
  /\ registered = Servers
  /\ file = [k \in Cdkeys |-> {}]
  /\ up = [s \in Servers |-> TRUE]
  /\ conn = [s \in Servers |-> [f \in Fds |-> NoConn]]
  /\ nextFdid = [s \in Servers |-> 1]
  /\ client = [s \in Servers |-> [f \in Fds |-> "gone"]]
  /\ toSaac = [s \in Servers |-> <<>>]
  /\ toGs = [s \in Servers |-> <<>>]
  /\ edits = 0
  /\ crashes = 0

-----------------------------------------------------------------------------
(* Clients.  A client may send any request at any time; the bounds make it *)
(* pause while MaxLine lines are under way.  A polite one uses its account *)
(* from one device, which has given up ("gone") every earlier connection,  *)
(* and loads a character only after its list arrived ("listed").           *)

UnderWay == MapThenSumSet(LAMBDA s : Len(toSaac[s]) + Len(toGs[s]), Servers)

MaySend(s) == up[s] /\ UnderWay < MaxLine

OneDevice(k, s, f) ==
  \A t \in Servers, g \in Fds :
    conn[t][g].use /\ conn[t][g].cdkey = k /\ <<t, g>> # <<s, f>> => client[t][g] = "gone"

(* Variant: every connection gets the same fdid.                           *)
Connect_sameFdid(s, f) ==
  /\ up[s] /\ ~conn[s][f].use /\ nextFdid[s] <= MaxFdid
  /\ conn' = [conn EXCEPT ![s][f] = [NoConn EXCEPT !.use = TRUE, !.fdid = nextFdid[s]]]
  /\ client' = [client EXCEPT ![s][f] = "open"]
  /\ UNCHANGED <<saacVars, up, nextFdid, netVars, boundVars>>

(* Accept: initConnectOne.                                                 *)
Connect(s, f) ==
  /\ up[s] /\ ~conn[s][f].use /\ nextFdid[s] <= MaxFdid
  /\ conn' = [conn EXCEPT ![s][f] = [NoConn EXCEPT !.use = TRUE, !.fdid = nextFdid[s]]]
  /\ nextFdid' = [nextFdid EXCEPT ![s] = @ + 1]
  /\ client' = [client EXCEPT ![s][f] = "open"]
  /\ UNCHANGED <<saacVars, up, netVars, boundVars>>

(* Variant: the state of the connection is not looked at.                  *)
Forward_anyState(s, f, from, to, type) ==
  /\ MaySend(s)
  /\ client[s][f] # "gone"
  /\ conn[s][f].use /\ conn[s][f].cdkey # NoKey
  /\ conn' = [conn EXCEPT ![s][f].state = to]
  /\ toSaac' = [toSaac EXCEPT ![s] = Append(@, Ask(type, s, f))]

(* A line of the client is dispatched and one request goes to SAAC.        *)
Forward(s, f, from, to, type) ==
  /\ MaySend(s)
  /\ client[s][f] # "gone"
  /\ conn[s][f].use /\ conn[s][f].state = from
  /\ conn' = [conn EXCEPT ![s][f].state = to]
  /\ toSaac' = [toSaac EXCEPT ![s] = Append(@, Ask(type, s, f))]

ClientLogin_recv(s, f, k) ==
  /\ MaySend(s)
  /\ client[s][f] # "gone"
  /\ conn[s][f].use /\ conn[s][f].state = "NULLCONNECT"
  /\ Polite => OneDevice(k, s, f)
  /\ conn' = [conn EXCEPT ![s][f].state = "WHILEAUTH", ![s][f].cdkey = k]
  /\ toSaac' = [toSaac EXCEPT ![s] =
                  Append(@, [type |-> "CharLogin", cdkey |-> k, fdid |-> conn[s][f].fdid])]
  /\ UNCHANGED <<saacVars, up, nextFdid, client, toGs, boundVars>>

(* The first local character of the account is logged out before the list  *)
(* is asked for; a stale errno makes _CONNECT_endOne return without doing  *)
(* anything.                                                               *)
CharList_recv(s, f) ==
  LET same == {g \in Fds : LoggedIn(s, g) /\ conn[s][g].cdkey = conn[s][f].cdkey} IN
  \/ /\ Forward(s, f, "NOTLOGIN", "WHILEDOWNLOADCHARLIST", "CharList")
     /\ UNCHANGED <<saacVars, up, nextFdid, client, toGs, boundVars>>
  \/ /\ MaySend(s)
     /\ client[s][f] # "gone"
     /\ conn[s][f].use /\ conn[s][f].state = "NOTLOGIN"
     /\ \E g \in same :
          /\ conn' = [conn EXCEPT ![s][f].state = "WHILEDOWNLOADCHARLIST",
                                  ![s][g] = NoConn]
          /\ client' = [client EXCEPT ![s][g] = "gone"]
          /\ toSaac' = [toSaac EXCEPT ![s] =
                          @ \o EndOneSends(s, g) \o <<Ask("CharList", s, f)>>]
     /\ UNCHANGED <<saacVars, up, nextFdid, toGs, boundVars>>

CharLogin_recv(s, f) ==
  /\ Polite => client[s][f] = "listed"
  /\ Forward(s, f, "NOTLOGIN", "WHILELOGIN", "CharLoad")
  /\ UNCHANGED <<saacVars, up, nextFdid, client, toGs, boundVars>>

(* Play changes the character.                                             *)
Edit(s, f) ==
  /\ up[s] /\ LoggedIn(s, f) /\ edits < MaxEdits
  /\ edits' = edits + 1
  /\ conn' = [conn EXCEPT ![s][f].char = @ \union {edits + 1}]
  /\ UNCHANGED <<saacVars, up, nextFdid, client, netVars, crashes>>

(* The client program closes its socket, or the network loses it.  It only *)
(* makes a difference for what a polite client may do elsewhere: the game  *)
(* server may end any connection at any time (EndOne).                     *)
ClientLeaves(s, f) ==
  /\ Polite
  /\ conn[s][f].use /\ client[s][f] # "gone"
  /\ client' = [client EXCEPT ![s][f] = "gone"]
  /\ UNCHANGED <<saacVars, gsVars, netVars, boundVars>>

-----------------------------------------------------------------------------
(* The game server's own loop.                                             *)

(* chardatasavecheck: the periodic save keeps the lock.                    *)
PeriodicSave(s, f) ==
  /\ MaySend(s) /\ LoggedIn(s, f)
  /\ toSaac' = [toSaac EXCEPT ![s] = Append(@, Save(s, f, FALSE))]
  /\ UNCHANGED <<saacVars, gsVars, client, toGs, boundVars>>

(* _CONNECT_endOne: netloop_faster ends a connection whose client is gone  *)
(* or whose close_request is set, and also one that sends rubbish, logs    *)
(* out (GmsvServer_CharLogout_recv), overflows a buffer or stays silent:   *)
(* any connection may be ended, those two must be.                         *)
EndOne(s, f) ==
  /\ up[s] /\ conn[s][f].use
  /\ conn' = [conn EXCEPT ![s][f] = NoConn]
  /\ client' = [client EXCEPT ![s][f] = "gone"]
  /\ toSaac' = [toSaac EXCEPT ![s] = @ \o EndOneSends(s, f)]
  /\ UNCHANGED <<saacVars, up, nextFdid, toGs, boundVars>>

(* Variant: close_request is never looked at.                              *)
MustEnd_gone(s, f) == client[s][f] = "gone"

MustEnd(s, f) == client[s][f] = "gone" \/ conn[s][f].close_request

-----------------------------------------------------------------------------
(* Answers of SAAC, handled by the game server.                            *)

Line(s) == Head(toGs[s])

Receive(s, type) ==
  /\ up[s] /\ toGs[s] # <<>> /\ Line(s).type = type
  /\ toGs' = [toGs EXCEPT ![s] = Tail(@)]

(* getfdFromFdid: -1 when the connection is gone.                          *)
Owner(s, fdid) == {f \in Fds : conn[s][f].use /\ conn[s][f].fdid = fdid}

SaacClient_ACCharLogin_recv(s) ==
  /\ Receive(s, "CharLogin")
  /\ conn' = [conn EXCEPT ![s] = [f \in Fds |->
       IF f \in Owner(s, Line(s).fdid) /\ conn[s][f].state = "WHILEAUTH"
         THEN [conn[s][f] EXCEPT !.state = IF Line(s).ok THEN "NOTLOGIN" ELSE "NULLCONNECT"]
         ELSE conn[s][f]]]
  /\ UNCHANGED <<saacVars, up, nextFdid, client, toSaac, boundVars>>

SaacClient_ACCharList_recv(s) ==
  /\ Receive(s, "CharList")
  /\ conn' = [conn EXCEPT ![s] = [f \in Fds |->
       IF f \in Owner(s, Line(s).fdid)
         THEN [conn[s][f] EXCEPT !.state = "NOTLOGIN"] ELSE conn[s][f]]]
  /\ client' = [client EXCEPT ![s] = [f \in Fds |->
       IF f \in Owner(s, Line(s).fdid) /\ client[s][f] # "gone"
         THEN IF Line(s).ok /\ Polite THEN "listed" ELSE "open" ELSE client[s][f]]]
  /\ UNCHANGED <<saacVars, up, nextFdid, toSaac, boundVars>>

(* Nothing looks at the connection's state.  CHAR_login may find the data  *)
(* unusable: it then gives the lock back (MAKECHARDATAERROR).              *)
SaacClient_ACCharLoad_recv(s) ==
  /\ Receive(s, "CharLoad")
  /\ \/ /\ Owner(s, Line(s).fdid) = {}
        /\ UNCHANGED <<conn, toSaac>>
     \/ \E f \in Owner(s, Line(s).fdid) :
          \/ /\ ~Line(s).ok
             /\ conn' = [conn EXCEPT ![s][f].state = "NOTLOGIN"]
             /\ UNCHANGED toSaac
          \/ /\ Line(s).ok                                     \* CHAR_login
             /\ conn' = [conn EXCEPT ![s][f].state = "LOGIN",
                                     ![s][f].char = Line(s).data]
             /\ UNCHANGED toSaac
          \/ /\ Line(s).ok                                     \* MAKECHARDATAERROR
             /\ conn' = [conn EXCEPT ![s][f].state = "WHILECANNOTLOGIN"]
             /\ toSaac' = [toSaac EXCEPT ![s] = Append(@, Ask("Lock", s, f))]
  /\ UNCHANGED <<saacVars, up, nextFdid, client, boundVars>>

(* A failed unlock is sent again, whatever the reason was.                 *)
SaacClient_ACLock_recv(s) ==
  LET waiting == {f \in Owner(s, Line(s).fdid) : conn[s][f].state = "WHILECANNOTLOGIN"} IN
  /\ Receive(s, "Lock")
  /\ \/ waiting = {} /\ UNCHANGED <<conn, toSaac>>
     \/ \E f \in waiting :
          \/ /\ Line(s).ok
             /\ conn' = [conn EXCEPT ![s][f].state = "NOTLOGIN"]
             /\ UNCHANGED toSaac
          \/ /\ ~Line(s).ok
             /\ toSaac' = [toSaac EXCEPT ![s] = Append(@, Ask("Lock", s, f))]
             /\ UNCHANGED conn
  /\ UNCHANGED <<saacVars, up, nextFdid, client, boundVars>>

(* getfdFromCdkeyWithLogin: a connection of the account in any state but   *)
(* NOTLOGIN.                                                               *)
WithLogin(s, k) ==
  \E f \in Fds : conn[s][f].use /\ conn[s][f].state # "NOTLOGIN" /\ conn[s][f].cdkey = k

SaacClient_ACUCheck_recv(s) ==
  /\ Receive(s, "UCheck")
  /\ toSaac' = [toSaac EXCEPT ![s] =
       Append(@, [type |-> "UCheck", cdkey |-> Line(s).cdkey,
                  status |-> IF WithLogin(s, Line(s).cdkey) THEN 1 ELSE 0])]
  /\ UNCHANGED <<saacVars, gsVars, client, boundVars>>

SaacClient_ACKick_recv(s) ==
  /\ Receive(s, "Kick")
  /\ conn' = [conn EXCEPT ![s] = [f \in Fds |->
       IF LoggedIn(s, f) /\ conn[s][f].cdkey = Line(s).cdkey
         THEN [conn[s][f] EXCEPT !.close_request = TRUE] ELSE conn[s][f]]]
  /\ UNCHANGED <<saacVars, up, nextFdid, client, toSaac, boundVars>>

-----------------------------------------------------------------------------
(* Requests handled by SAAC.  Every handler answers on the connection the  *)
(* request came from.  Failures before the lock is looked at (password,    *)
(* SQL) and disk failures may happen at any time.                          *)

Req(s) == Head(toSaac[s])

Handle(s, type) ==
  /\ toSaac[s] # <<>> /\ Req(s).type = type
  /\ toSaac' = [toSaac EXCEPT ![s] = Tail(@)]

(* login_game_server: a second login under a name in use is refused and    *)
(* that process ends; Restart waits for the name to be free instead.       *)
ServerLogin(s) ==
  /\ Handle(s, "ServerLogin")
  /\ registered' = registered \union {s}
  /\ UnlockServer(s)
  /\ UNCHANGED <<file, gsVars, client, toGs, boundVars>>

(* logout_game_server, once the lines read before the end are handled: the *)
(* locks of the server stay.                                               *)
ServerLogout(s) ==
  /\ Handle(s, "Eof")
  /\ registered' = registered \ {s}
  /\ UNCHANGED <<lock, file, gsVars, client, toGs, boundVars>>

(* Variant: a refused login is not answered.                               *)
SaacServer_ACCharLogin_recv_silent(s) ==
  /\ Handle(s, "CharLogin")
  /\ toGs' \in {toGs, Put(toGs, {s}, Answer(Req(s), TRUE))}
  /\ UNCHANGED <<saacVars, gsVars, client, boundVars>>

SaacServer_ACCharLogin_recv(s) ==
  /\ Handle(s, "CharLogin")
  /\ \E ok \in BOOLEAN : toGs' = Put(toGs, {s}, Answer(Req(s), ok))
  /\ UNCHANGED <<saacVars, gsVars, client, boundVars>>

(* Variant: the list is given out without a look at the lock.              *)
SaacServer_ACCharList_recv_unlocked(s) ==
  /\ Handle(s, "CharList")
  /\ toGs' = Put(toGs, {s}, Answer(Req(s), TRUE))
  /\ UNCHANGED <<saacVars, gsVars, client, boundVars>>

(* charListCallback.  A locked account: the list is refused, every server  *)
(* kicks the account, and checkGSUCheck asks the lock's server whether it  *)
(* still has the player, or drops the lock when that server is not there.  *)
SaacServer_ACCharList_recv(s) ==
  LET k == Req(s).cdkey
      refused == Put(Put(toGs, {s}, Answer(Req(s), FALSE)), registered, Kick(k))
  IN
  /\ Handle(s, "CharList")
  /\ \/ /\ toGs' = Put(toGs, {s}, Answer(Req(s), FALSE))
        /\ UNCHANGED lock
     \/ /\ ~isLocked(k)
        /\ toGs' = Put(toGs, {s}, Answer(Req(s), TRUE))
        /\ UNCHANGED lock
     \/ /\ isLocked(k) /\ lock[k] \in registered
        /\ toGs' = Put(refused, {lock[k]}, [type |-> "UCheck", cdkey |-> k])
        /\ UNCHANGED lock
     \/ /\ isLocked(k) /\ lock[k] \notin registered
        /\ toGs' = refused
        /\ Unlock(k)
  /\ UNCHANGED <<registered, file, gsVars, client, boundVars>>

(* Variant: a successful load does not kick the other servers.             *)
SaacServer_ACCharLoad_recv_noKick(s) ==
  LET k == Req(s).cdkey IN
  /\ Handle(s, "CharLoad")
  /\ \/ /\ isLocked(k)
        /\ Unlock(k)
        /\ toGs' = Put(Put(toGs, {s}, Loaded(Req(s), FALSE)), registered, Kick(k))
     \/ /\ Lock(k, s)
        /\ toGs' = Put(toGs, {s}, Loaded(Req(s), TRUE))
  /\ UNCHANGED <<registered, file, gsVars, client, boundVars>>

(* charLoadCallback.  A locked account is refused, unlocked at once, and   *)
(* kicked everywhere; checkGSUCheck then finds no lock and does nothing.   *)
(* Otherwise the account is locked for the server, and the other servers   *)
(* kick it.  The data may turn out empty after the lock was taken.         *)
SaacServer_ACCharLoad_recv(s) ==
  LET k == Req(s).cdkey IN
  /\ Handle(s, "CharLoad")
  /\ \/ /\ toGs' = Put(toGs, {s}, Loaded(Req(s), FALSE))
        /\ UNCHANGED lock
     \/ /\ isLocked(k)
        /\ Unlock(k)
        /\ toGs' = Put(Put(toGs, {s}, Loaded(Req(s), FALSE)), registered, Kick(k))
     \/ \E ok \in BOOLEAN :
          /\ Lock(k, s)
          /\ toGs' = Put(Put(toGs, {s}, Loaded(Req(s), ok)), registered \ {s}, Kick(k))
  /\ UNCHANGED <<registered, file, gsVars, client, boundVars>>

(* charSave: the lock goes first, whoever holds it, then the file is       *)
(* written; the write may fail.  gmsv ignores the answer in these states.  *)
SaacServer_ACCharSave_recv(s) ==
  /\ Handle(s, "CharSave")
  /\ IF Req(s).unlock THEN Unlock(Req(s).cdkey) ELSE UNCHANGED lock
  /\ \/ file' = [file EXCEPT ![Req(s).cdkey] = Req(s).data]
     \/ UNCHANGED file
  /\ UNCHANGED <<registered, gsVars, client, toGs, boundVars>>

(* ACLock with UNLOCK fails when the account is not locked.                *)
SaacServer_ACLock_recv(s) ==
  LET k == Req(s).cdkey IN
  /\ Handle(s, "Lock")
  /\ toGs' = Put(toGs, {s}, Answer(Req(s), isLocked(k)))
  /\ Unlock(k)
  /\ UNCHANGED <<registered, file, gsVars, client, boundVars>>

(* Variant: the two answers taken for each other.                          *)
SaacServer_ACUCheck_recv_inverted(s) ==
  LET k == Req(s).cdkey IN
  /\ Handle(s, "UCheck")
  /\ \/ Req(s).status = 1 /\ Unlock(k) /\ UNCHANGED toGs
     \/ /\ Req(s).status = 0
        /\ toGs' = Put(toGs, registered, Kick(k))
        /\ UNCHANGED lock
  /\ UNCHANGED <<registered, file, gsVars, client, boundVars>>

(* The owner's answer to checkGSUCheck: no player, the lock goes, whoever  *)
(* holds it by now; a player, every server kicks the account again.        *)
SaacServer_ACUCheck_recv(s) ==
  LET k == Req(s).cdkey IN
  /\ Handle(s, "UCheck")
  /\ \/ Req(s).status = 0 /\ Unlock(k) /\ UNCHANGED toGs
     \/ /\ Req(s).status = 1
        /\ toGs' = Put(toGs, registered, Kick(k))
        /\ UNCHANGED lock
  /\ UNCHANGED <<registered, file, gsVars, client, boundVars>>

-----------------------------------------------------------------------------
(* Crashes.  A game server's connections and characters are lost, and any  *)
(* suffix of what it sent.  When SAAC goes, every game server ends itself  *)
(* (sigshutdown); locks and lines are lost, the files stay.                *)
Lost(s) == /\ conn' = [conn EXCEPT ![s] = [f \in Fds |-> NoConn]]
           /\ client' = [client EXCEPT ![s] = [f \in Fds |-> "gone"]]

Crash(s) ==
  /\ up[s] /\ crashes < MaxCrash
  /\ crashes' = crashes + 1
  /\ up' = [up EXCEPT ![s] = FALSE]
  /\ Lost(s)
  /\ nextFdid' = [nextFdid EXCEPT ![s] = 1]
  /\ toGs' = [toGs EXCEPT ![s] = <<>>]
  /\ \E n \in 0 .. Len(toSaac[s]) :
       toSaac' = [toSaac EXCEPT ![s] =
                    Append(SubSeq(@, 1, n), [type |-> "Eof"])]
  /\ UNCHANGED <<saacVars, edits>>

SaacCrash ==
  /\ crashes < MaxCrash
  /\ crashes' = crashes + 1
  /\ registered' = {} /\ lock' = [k \in Cdkeys |-> NoServer]
  /\ up' = [s \in Servers |-> FALSE]
  /\ conn' = [s \in Servers |-> [f \in Fds |-> NoConn]]
  /\ client' = [s \in Servers |-> [f \in Fds |-> "gone"]]
  /\ nextFdid' = [s \in Servers |-> 1]
  /\ toSaac' = [s \in Servers |-> <<>>]
  /\ toGs' = [s \in Servers |-> <<>>]
  /\ UNCHANGED <<file, edits>>

Restart(s) ==
  /\ ~up[s] /\ s \notin registered /\ toSaac[s] = <<>>
  /\ up' = [up EXCEPT ![s] = TRUE]
  /\ toSaac' = [toSaac EXCEPT ![s] = <<[type |-> "ServerLogin"]>>]
  /\ UNCHANGED <<saacVars, conn, nextFdid, client, toGs, boundVars>>

-----------------------------------------------------------------------------
ClientStep(s, f) ==
  \/ Connect(s, f)
  \/ \E k \in Cdkeys : ClientLogin_recv(s, f, k)
  \/ CharList_recv(s, f)
  \/ CharLogin_recv(s, f)
  \/ Edit(s, f)
  \/ ClientLeaves(s, f)
  \/ PeriodicSave(s, f)
  \/ EndOne(s, f)

GsHandle(s) ==
  \/ SaacClient_ACCharLogin_recv(s)
  \/ SaacClient_ACCharList_recv(s)
  \/ SaacClient_ACCharLoad_recv(s)
  \/ SaacClient_ACLock_recv(s)
  \/ SaacClient_ACUCheck_recv(s)
  \/ SaacClient_ACKick_recv(s)

SaacHandle(s) ==
  \/ ServerLogin(s)
  \/ ServerLogout(s)
  \/ SaacServer_ACCharLogin_recv(s)
  \/ SaacServer_ACCharList_recv(s)
  \/ SaacServer_ACCharLoad_recv(s)
  \/ SaacServer_ACCharSave_recv(s)
  \/ SaacServer_ACLock_recv(s)
  \/ SaacServer_ACUCheck_recv(s)

Next ==
  \/ \E s \in Servers :
       \/ \E f \in Fds : ClientStep(s, f)
       \/ GsHandle(s)
       \/ SaacHandle(s)
       \/ Crash(s)
       \/ Restart(s)
  \/ SaacCrash

Spec == Init /\ [][Next]_vars

(* Both loops read every connection that has a line; a game server ends a  *)
(* connection that must end on its next turn, and is started again.        *)
Fairness ==
  \A s \in Servers :
    /\ WF_vars(GsHandle(s))
    /\ WF_vars(SaacHandle(s))
    /\ WF_vars(Restart(s))
    /\ \A f \in Fds : WF_vars(MustEnd(s, f) /\ EndOne(s, f))

FairSpec == Spec /\ Fairness

-----------------------------------------------------------------------------
(* Every variable stays in its range; no line carries an fdid that was     *)
(* never given out.                                                        *)
TypeOK ==
  /\ LockTypeOK
  /\ registered \subseteq Servers
  /\ file \in [Cdkeys -> Data]
  /\ up \in [Servers -> BOOLEAN]
  /\ conn \in [Servers -> [Fds -> Connection]]
  /\ nextFdid \in [Servers -> 1 .. MaxFdid + 1]
  /\ client \in [Servers -> [Fds -> {"open", "listed", "gone"}]]
  /\ toSaac \in [Servers -> Seq(Request)]
  /\ toGs \in [Servers -> Seq(Reply)]
  /\ edits \in 0 .. MaxEdits
  /\ crashes \in 0 .. MaxCrash

(* The lines of a queue that are about one connection.                     *)
IsAbout(m, fdid) ==
  m.type \in {"CharLogin", "CharList", "CharLoad", "Lock"} /\ m.fdid = fdid

About(q, fdid) == {i \in DOMAIN q : IsAbout(q[i], fdid)}

(* The answers need no state check: a connection waits for exactly one     *)
(* answer, of the type its state names, and a connection that waits for    *)
(* nothing has none coming.  Answers to connections that are gone never    *)
(* reach the connection that took over the slot, as fdids are never reused *)
(* ("自增，永不重复", common/saac_client_recv.c).                          *)
OneAnswerPerWait ==
  \A s \in Servers, f \in Fds : conn[s][f].use =>
    LET asked    == About(toSaac[s], conn[s][f].fdid)
        answered == About(toGs[s], conn[s][f].fdid)
        state    == conn[s][f].state
    IN
    /\ Cardinality(asked) + Cardinality(answered)
         = IF state \in DOMAIN Waiting THEN 1 ELSE 0
    /\ \A i \in asked : toSaac[s][i].type = Waiting[state]
    /\ \A i \in answered : toGs[s][i].type = Waiting[state]

(* Characters of k that s has, or will have when it handles line i.        *)
Playing(s, k) == {f \in Fds : LoggedIn(s, f) /\ conn[s][f].cdkey = k}
Coming(s, k) ==
  {i \in DOMAIN toGs[s] :
     /\ toGs[s][i].type = "CharLoad" /\ toGs[s][i].ok
     /\ \E f \in Owner(s, toGs[s][i].fdid) : conn[s][f].cdkey = k}

KickedAfter(s, k, n) == \E j \in DOMAIN toGs[s] : j > n /\ toGs[s][j] = Kick(k)

(* Every character of k at s is about to be thrown out.                    *)
Doomed(s, k) ==
  /\ \A f \in Playing(s, k) : conn[s][f].close_request \/ KickedAfter(s, k, 0)
  /\ \A i \in Coming(s, k) : KickedAfter(s, k, i)

(* An account on two servers at once is short-lived: at least one of the   *)
(* two is being kicked, whatever the clients do, whoever holds the lock    *)
(* and whatever crashes.                                                   *)
DuplicateIsKicked ==
  \A k \in Cdkeys, s, t \in Servers :
    /\ s # t
    /\ Playing(s, k) \union Coming(s, k) # {}
    /\ Playing(t, k) \union Coming(t, k) # {}
    => Doomed(s, k) \/ Doomed(t, k)

(* A character in play is covered by its account's lock.  (One device per  *)
(* account and one game server.)                                           *)
LockCoversPlay ==
  \A s \in Servers, f \in Fds : LoggedIn(s, f) => lock[conn[s][f].cdkey] = s

(* No save ever throws away a change that was already on disk.  (One       *)
(* device per account and one game server.)                                *)
NoLostUpdate == [][\A k \in Cdkeys : file[k] \subseteq file'[k]]_vars

-----------------------------------------------------------------------------
(* A player of an account that is on two servers does not stay so.         *)
DuplicateEnds ==
  \A k \in Cdkeys, s, t \in Servers :
    s # t => (Playing(s, k) # {} /\ Playing(t, k) # {})
               ~> (Playing(s, k) = {} \/ Playing(t, k) = {})

(* A lock whose server has lost the player (the answer that brought the    *)
(* lock came too late, or the lock outlived a refused login) goes once     *)
(* somebody asked for the account's characters and was refused.            *)
StaleLockReleased ==
  \A k \in Cdkeys, s \in Servers :
    /\ lock[k] = s
    /\ \E i \in DOMAIN toGs[s] : toGs[s][i] = [type |-> "UCheck", cdkey |-> k]
    /\ []~WithLogin(s, k)
    ~> lock[k] # s

(* No connection waits for SAAC for ever: each wait leads back to a state  *)
(* that is no wait.  (Not so for WHILECANNOTLOGIN, see CannotLoginEnds.)   *)
WaitEnds ==
  \A s \in Servers, f \in Fds :
    LET waits == conn[s][f].state \in {"WHILEAUTH", "WHILEDOWNLOADCHARLIST", "WHILELOGIN"}
    IN  waits ~> ~waits

-----------------------------------------------------------------------------
(* "如果AP无锁则AC解锁" (saac/char.c:99): SAAC unlocks when the game server *)
(* has none.  Stated: an account whose lock charLoadCallback drops is not  *)
(* being played at the server that holds the lock.                         *)
UnlockOnlyIfApHasNone ==
  [][\A s \in Servers, k \in Cdkeys :
       SaacServer_ACCharLoad_recv(s) /\ lock[k] # NoServer /\ lock'[k] = NoServer
         => Playing(lock[k], k) = {}]_vars

(* "%s hasn't been locked" (common/saac_client_recv.c:223): the answer to  *)
(* a needless unlock returns the connection to NOTLOGIN.  Stated: a        *)
(* connection does not stay in WHILECANNOTLOGIN.                           *)
CannotLoginEnds ==
  \A s \in Servers, f \in Fds :
    conn[s][f].state = "WHILECANNOTLOGIN" ~> conn[s][f].state # "WHILECANNOTLOGIN"
=============================================================================
